----------------------------- MODULE FileStore -----------------------------
(***************************************************************************)
(* The file-backed store of internal/store/file.go: a MemoryStore and a    *)
(* JSON file that every mutation rewrites.  The map changes under the      *)
(* store's mutex; persist runs after the mutex is released and takes no    *)
(* lock of its own, so the persists of two requests interleave at every    *)
(* system call.                                                            *)
(*                                                                         *)
(* The two names of the directory (the file and file.tmp) refer to inodes: *)
(* a request that has opened file.tmp keeps writing to the inode it        *)
(* opened, whichever name that inode has by then.                          *)
(***************************************************************************)
EXTENDS MemoryStore

CONSTANTS Procs,        \* goroutines serving mutating requests
          Inodes,       \* inodes of the file system
          NoInode,      \* a name that is not in the directory
          Imports,      \* the states POST /api/state/import may carry
          Blank, Torn,  \* a truncated file; one that is not a JSON map
          DiskMayFail,  \* whether a system call of persist may fail
          MaxCrashes    \* bound on the crashes of a behaviour

ASSUME FileStoreAssumption ==
  /\ NoInode \notin Inodes
  /\ Imports \subseteq Stores
  /\ {Blank, Torn} \cap Stores = {}
  /\ DiskMayFail \in BOOLEAN
  /\ MaxCrashes \in Nat

VARIABLES
  mem,      \* MemoryStore.resources
  server,   \* "up", "down" after a crash, "refused": startup failed
  tmp,      \* the inode named path + ".tmp"
  file,     \* the inode named path
  content,  \* what each inode holds
  pc,       \* the next step of each request
  kind,     \* the mutation a request performs
  data,     \* the bytes persist exported and will write
  fd,       \* the inode a request has open
  reply,    \* how a request's last mutation ended
  lone,     \* history: no other request overlapped this one
  past,     \* history: every state the map was in
  crashes   \* counts crashes, up to MaxCrashes

vars == <<mem, server, tmp, file, content, pc, kind, data, fd, reply, lone,
          past, crashes>>
disk == <<tmp, file, content>>
request == <<pc, kind, data, fd, reply, lone>>

Kinds == {"put", "delete", "import", "reset"}
Steps == {"idle", "export", "open", "write", "rename"}
Replies == {"none", "ok", "error", "swallowed"}

Busy == {p \in Procs : pc[p] # "idle"}

(* What a start of the server would load from the directory. *)
Saved == IF file = NoInode THEN NewMemoryStore ELSE content[file]

Init ==
  /\ mem = NewMemoryStore
  /\ server = "up"
  /\ tmp = NoInode
  /\ file = NoInode
  /\ content = [i \in Inodes |-> Blank]
  /\ pc = [p \in Procs |-> "idle"]
  /\ kind = [p \in Procs |-> "put"]
  /\ data = [p \in Procs |-> NewMemoryStore]
  /\ fd = [p \in Procs |-> NoInode]
  /\ reply = [p \in Procs |-> "none"]
  /\ lone = [p \in Procs |-> TRUE]
  /\ past = {NewMemoryStore}
  /\ crashes = 0

-----------------------------------------------------------------------------
(* The mutations: MemoryStore's part of each, under its mutex. *)

(* Request p replaces the map by s and goes on to persist. *)
Mutate(p, k, s) ==
  /\ server = "up"
  /\ pc[p] = "idle"
  /\ mem' = s
  /\ past' = past \cup {s}
  /\ pc' = [pc EXCEPT ![p] = "export"]
  /\ kind' = [kind EXCEPT ![p] = k]
  /\ reply' = [reply EXCEPT ![p] = "none"]
  /\ lone' = [q \in Procs |-> IF q = p THEN Busy = {} ELSE FALSE]
  /\ UNCHANGED <<server, disk, data, fd, crashes>>

PutMem(p) == \E id \in Ids, b \in Bodies : Mutate(p, "put", Put(mem, id, b))

(* A Delete that removes nothing does not persist. *)
DeleteMem(p) ==
  \E id \in Ids : Deleted(mem, id) /\ Mutate(p, "delete", Delete(mem, id))

(* Mutant of ImportMem: whatever was sent becomes the map. *)
ImportUnchecked(p) == Mutate(p, "import", Torn)

ImportMem(p) == \E s \in Imports : Mutate(p, "import", s)

ResetMem(p) == Mutate(p, "reset", NewMemoryStore)

-----------------------------------------------------------------------------
(* persist, one action per lock acquisition or system call. *)

Goto(p, from, to) == pc[p] = from /\ pc' = [pc EXCEPT ![p] = to]

(* Mutant of Export: the map is read key by key, without the lock. *)
ExportUnlocked(p) ==
  /\ Goto(p, "export", "open")
  /\ \E S \in SUBSET Ids :
       data' = [data EXCEPT ![p] =
                  [k \in Ids |-> IF k \in S THEN mem[k] ELSE NoResource]]
  /\ UNCHANGED <<mem, server, disk, kind, fd, reply, lone, past, crashes>>

Export(p) ==
  /\ Goto(p, "export", "open")
  /\ data' = [data EXCEPT ![p] = mem]
  /\ UNCHANGED <<mem, server, disk, kind, fd, reply, lone, past, crashes>>

(* Mutants of OpenTmp: the file itself is opened and truncated, or file.tmp *)
(* is opened without O_TRUNC.                                              *)
OpenInPlace(p) ==
  /\ Goto(p, "open", "write")
  /\ \E i \in Inodes :
       /\ file # NoInode => i = file
       /\ tmp' = i
       /\ fd' = [fd EXCEPT ![p] = i]
       /\ content' = [content EXCEPT ![i] = Blank]
  /\ UNCHANGED <<mem, server, file, kind, data, reply, lone, past, crashes>>
OpenNoTruncate(p) ==
  /\ Goto(p, "open", "write")
  /\ \E i \in Inodes :
       /\ IF tmp = NoInode
          THEN i # file /\ i \notin {fd[q] : q \in Busy}
          ELSE i = tmp
       /\ tmp' = i
       /\ fd' = [fd EXCEPT ![p] = i]
  /\ UNCHANGED <<mem, server, file, content, kind, data, reply, lone, past,
                 crashes>>

(* os.WriteFile opens with O_CREATE and O_TRUNC. *)
OpenTmp(p) ==
  /\ Goto(p, "open", "write")
  /\ \E i \in Inodes :
       /\ IF tmp = NoInode
          THEN i # file /\ i \notin {fd[q] : q \in Busy}
          ELSE i = tmp
       /\ tmp' = i
       /\ fd' = [fd EXCEPT ![p] = i]
       /\ content' = [content EXCEPT ![i] = Blank]
  /\ UNCHANGED <<mem, server, file, kind, data, reply, lone, past, crashes>>

Size(s) == Cardinality({k \in Ids : Has(s, k)})

(* What an inode may hold once d is written over c from offset 0: d, or d  *)
(* followed by the end of a longer c.                                      *)
Overwritten(c, d) ==
  IF c \in {Blank, d} \/ (c # Torn /\ Size(c) < Size(d)) THEN {d} ELSE {d, Torn}

WriteTmp(p) ==
  /\ Goto(p, "write", "rename")
  /\ \E c \in Overwritten(content[fd[p]], data[p]) :
       content' = [content EXCEPT ![fd[p]] = c]
  /\ fd' = [fd EXCEPT ![p] = NoInode]
  /\ UNCHANGED <<mem, server, tmp, file, kind, data, reply, lone, past, crashes>>

(* Mutant of FailedReply: every mutation ignores persist's error. *)
FailedIgnored(p) == "ok"

(* Put and Import return persist's error, Delete and Reset drop it. *)
FailedReply(p) == IF kind[p] \in {"put", "import"} THEN "error" ELSE "swallowed"

(* The mutation returns r, and what it held is gone. *)
Return(p, r) ==
  /\ pc' = [pc EXCEPT ![p] = "idle"]
  /\ kind' = [kind EXCEPT ![p] = "put"]
  /\ data' = [data EXCEPT ![p] = NewMemoryStore]
  /\ fd' = [fd EXCEPT ![p] = NoInode]
  /\ reply' = [reply EXCEPT ![p] = r]

(* The rename finds no file.tmp when another request has renamed it. *)
RenameTmp(p) ==
  /\ pc[p] = "rename"
  /\ IF tmp = NoInode
     THEN Return(p, FailedReply(p)) /\ UNCHANGED <<tmp, file>>
     ELSE Return(p, "ok") /\ file' = tmp /\ tmp' = NoInode
  /\ UNCHANGED <<mem, server, content, lone, past, crashes>>

(* A system call of persist fails; a write that fails leaves part of its   *)
(* bytes behind.  The mutation of the map stands.                          *)
PersistFails(p) ==
  /\ DiskMayFail
  /\ pc[p] \in {"open", "write", "rename"}
  /\ Return(p, FailedReply(p))
  /\ content' = IF pc[p] = "write" THEN [content EXCEPT ![fd[p]] = Torn]
                                   ELSE content
  /\ UNCHANGED <<mem, server, tmp, file, lone, past, crashes>>

-----------------------------------------------------------------------------
(* The process dies: the map and the requests are gone, the disk stays. *)
Crash ==
  /\ server = "up"
  /\ crashes < MaxCrashes
  /\ crashes' = crashes + 1
  /\ server' = "down"
  /\ mem' = NewMemoryStore
  /\ pc' = [p \in Procs |-> "idle"]
  /\ kind' = [p \in Procs |-> "put"]
  /\ data' = [p \in Procs |-> NewMemoryStore]
  /\ fd' = [p \in Procs |-> NoInode]
  /\ reply' = [p \in Procs |-> "none"]
  /\ lone' = [p \in Procs |-> TRUE]
  /\ UNCHANGED <<disk, past>>

(* NewFileStore: an unreadable file is a startup error. *)
NewFileStore ==
  /\ server = "down"
  /\ IF Saved \in {Blank, Torn}
     THEN server' = "refused" /\ UNCHANGED <<mem, past>>
     ELSE /\ server' = "up"
          /\ mem' = Saved
          /\ past' = past \cup {Saved}
  /\ UNCHANGED <<disk, request, crashes>>

Next ==
  \/ \E p \in Procs :
       \/ PutMem(p) \/ DeleteMem(p) \/ ImportMem(p) \/ ResetMem(p)
       \/ Export(p) \/ OpenTmp(p) \/ WriteTmp(p) \/ RenameTmp(p)
       \/ PersistFails(p)
  \/ Crash
  \/ NewFileStore

Spec == Init /\ [][Next]_vars

-----------------------------------------------------------------------------
(* Every variable ranges over what the code can put in it. *)
TypeOK ==
  /\ mem \in Stores
  /\ server \in {"up", "down", "refused"}
  /\ tmp \in Inodes \cup {NoInode}
  /\ file \in Inodes \cup {NoInode}
  /\ content \in [Inodes -> Stores \cup {Blank, Torn}]
  /\ pc \in [Procs -> Steps]
  /\ kind \in [Procs -> Kinds]
  /\ data \in [Procs -> Stores]
  /\ fd \in [Procs -> Inodes \cup {NoInode}]
  /\ reply \in [Procs -> Replies]
  /\ lone \in [Procs -> BOOLEAN]
  /\ past \in SUBSET Stores
  /\ crashes \in 0..MaxCrashes

(* Whatever the requests, crashes and failed writes, a start of the server *)
(* finds either a file it refuses or one whole state the map was once in:  *)
(* an export is taken under the lock, never pieced together.               *)
RestartsToPast == Saved \in past \cup {Blank, Torn}

(* A persist that no other request overlapped renames exactly the map into *)
(* place, whatever earlier crashes, failures and races left in file.tmp.   *)
LonePersistIsExact ==
  \A p \in Procs :
    pc[p] = "rename" /\ lone[p] => tmp # NoInode /\ content[tmp] = mem

(* persist's comment: tmp and rename keep partial writes from corrupting   *)
(* the store, so a crash at any moment leaves a file that loads.           *)
Loadable == Saved \notin {Blank, Torn}

(* Put "stores a resource and persists the full state to disk": once every *)
(* request has returned and none of them lost its persist, the file holds  *)
(* the map, so that a crash now would lose nothing.                        *)
QuietIsSaved ==
  /\ server = "up"
  /\ Busy = {}
  /\ \A p \in Procs : reply[p] \in {"none", "ok"}
  => Saved = mem

(* With its mutations one at a time the store is a map with a whole-map    *)
(* save: what a restart would load changes only to the current map, and a  *)
(* crash falls back to the last save.                                      *)
Durable == INSTANCE DurableMap
             WITH States <- Stores, Empty <- NewMemoryStore, saved <- Saved,
                  live <- IF server = "up" THEN mem ELSE Saved

ImplementsDurableMap == Durable!Spec
=============================================================================
