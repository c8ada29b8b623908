-------------------------- MODULE FileStoreProofs --------------------------
(***************************************************************************)
(* Proofs about FileStore, for any requests, ids, bodies and inodes.  The  *)
(* first two theorems hold of any interleaving; the last two are about a   *)
(* single mutating request at a time.                                      *)
(***************************************************************************)
EXTENDS FileStore, TLAPS

(* The map operators stay inside Stores. *)
LEMMA EmptyIsStore == NewMemoryStore \in Stores
BY DEF NewMemoryStore, Stores

LEMMA PutIsStore ==
  ASSUME NEW s \in Stores, NEW id \in Ids, NEW b \in Bodies
  PROVE  Put(s, id, b) \in Stores
BY DEF Put, Stores

LEMMA DeleteIsStore ==
  ASSUME NEW s \in Stores, NEW id
  PROVE  Delete(s, id) \in Stores
BY DEF Delete, Stores

(* Each of the four mutations is Mutate with a kind and a store. *)
Mutation(p) ==
  \E k \in Kinds, s \in Stores : Mutate(p, k, s)

LEMMA MutationForms ==
  ASSUME NEW p \in Procs, mem \in Stores,
         PutMem(p) \/ DeleteMem(p) \/ ImportMem(p) \/ ResetMem(p)
  PROVE  Mutation(p)
<1>1. CASE PutMem(p)
  BY <1>1, PutIsStore DEF PutMem, Mutation, Kinds
<1>2. CASE DeleteMem(p)
  BY <1>2, DeleteIsStore DEF DeleteMem, Mutation, Kinds
<1>3. CASE ImportMem(p)
  BY <1>3, FileStoreAssumption DEF ImportMem, Mutation, Kinds
<1>4. CASE ResetMem(p)
  BY <1>4, EmptyIsStore DEF ResetMem, Mutation, Kinds
<1>. QED
  BY <1>1, <1>2, <1>3, <1>4

(* A write leaves what it was to write, or a torn file. *)
LEMMA OverwrittenForms ==
  ASSUME NEW c, NEW d
  PROVE  /\ Overwritten(c, d) \subseteq {d, Torn}
         /\ Overwritten(Blank, d) = {d}
BY DEF Overwritten

-----------------------------------------------------------------------------
LEMMA InitTypeOK == Init => TypeOK
BY EmptyIsStore, FileStoreAssumption
DEF Init, TypeOK, Steps, Kinds, Replies

LEMMA NextTypeOK == TypeOK /\ [Next]_vars => TypeOK'
<1> SUFFICES ASSUME TypeOK, [Next]_vars PROVE TypeOK'
  OBVIOUS
<1> USE EmptyIsStore, FileStoreAssumption DEF TypeOK, Steps, Kinds, Replies
<1>1. ASSUME NEW p \in Procs, NEW k \in Kinds, NEW s \in Stores, Mutate(p, k, s)
      PROVE  TypeOK'
  BY <1>1 DEF Mutate, disk
<1>2. ASSUME NEW p \in Procs, Export(p) PROVE TypeOK'
  BY <1>2 DEF Export, Goto, disk
<1>3. ASSUME NEW p \in Procs, OpenTmp(p) PROVE TypeOK'
  BY <1>3 DEF OpenTmp, Goto
<1>4. ASSUME NEW p \in Procs, WriteTmp(p) PROVE TypeOK'
  <2>1. PICK c \in Overwritten(content[fd[p]], data[p]) :
               content' = [content EXCEPT ![fd[p]] = c]
    BY <1>4 DEF WriteTmp
  <2>2. c \in {data[p], Torn}
    BY <2>1, OverwrittenForms
  <2>3. content' \in [Inodes -> Stores \cup {Blank, Torn}]
    BY <2>1, <2>2
  <2>. QED
    BY <1>4, <2>3 DEF WriteTmp, Goto
<1>5. ASSUME NEW p \in Procs, RenameTmp(p) PROVE TypeOK'
  BY <1>5 DEF RenameTmp, Return, FailedReply
<1>6. ASSUME NEW p \in Procs, PersistFails(p) PROVE TypeOK'
  BY <1>6 DEF PersistFails, Return, FailedReply
<1>7. CASE Crash
  BY <1>7 DEF Crash, disk
<1>8. CASE NewFileStore
  BY <1>8 DEF NewFileStore, Saved, disk, request
<1>9. CASE UNCHANGED vars
  BY <1>9 DEF vars
<1>. QED
  BY <1>1, <1>2, <1>3, <1>4, <1>5, <1>6, <1>7, <1>8, <1>9, MutationForms
  DEF Next, Mutation

(* Every variable keeps the type that the model gives it. *)
THEOREM TypeCorrect == Spec => []TypeOK
BY InitTypeOK, NextTypeOK, PTL DEF Spec

-----------------------------------------------------------------------------
(* RestartsToPast is not inductive: what will become the saved file passes *)
(* through an export and an inode first, and those too must be past maps.  *)
PastInv ==
  /\ NewMemoryStore \in past
  /\ mem \in past
  /\ \A p \in Procs : data[p] \in past
  /\ \A i \in Inodes : content[i] \in past \cup {Blank, Torn}

LEMMA InitPastInv == Init => PastInv
BY DEF Init, PastInv

LEMMA NextPastInv == TypeOK /\ PastInv /\ [Next]_vars => PastInv'
<1> SUFFICES ASSUME TypeOK, PastInv, [Next]_vars PROVE PastInv'
  OBVIOUS
<1> USE DEF TypeOK, PastInv
<1>1. ASSUME NEW p \in Procs, NEW k \in Kinds, NEW s \in Stores, Mutate(p, k, s)
      PROVE  PastInv'
  BY <1>1 DEF Mutate, disk
<1>2. ASSUME NEW p \in Procs, Export(p) PROVE PastInv'
  BY <1>2 DEF Export, Goto, disk
<1>3. ASSUME NEW p \in Procs, OpenTmp(p) PROVE PastInv'
  BY <1>3 DEF OpenTmp, Goto
<1>4. ASSUME NEW p \in Procs, WriteTmp(p) PROVE PastInv'
  <2>1. PICK c \in Overwritten(content[fd[p]], data[p]) :
               content' = [content EXCEPT ![fd[p]] = c]
    BY <1>4 DEF WriteTmp
  <2>2. c \in {data[p], Torn}
    BY <2>1, OverwrittenForms
  <2>3. \A i \in Inodes : content'[i] \in past \cup {Blank, Torn}
    BY <2>1, <2>2
  <2>. QED
    BY <1>4, <2>3 DEF WriteTmp, Goto
<1>5. ASSUME NEW p \in Procs, RenameTmp(p) PROVE PastInv'
  BY <1>5 DEF RenameTmp, Return
<1>6. ASSUME NEW p \in Procs, PersistFails(p) PROVE PastInv'
  BY <1>6 DEF PersistFails, Return
<1>7. CASE Crash
  BY <1>7 DEF Crash, disk
<1>8. CASE NewFileStore
  BY <1>8 DEF NewFileStore, disk, request
<1>9. CASE UNCHANGED vars
  BY <1>9 DEF vars
<1>. QED
  BY <1>1, <1>2, <1>3, <1>4, <1>5, <1>6, <1>7, <1>8, <1>9, MutationForms
  DEF Next, Mutation

(* A start of the server finds one whole state the map was in, or a file   *)
(* it refuses, for any number of requests, crashes and failed writes.      *)
THEOREM RestartsToPastHolds == Spec => []RestartsToPast
<1>1. TypeOK /\ PastInv => RestartsToPast
  BY DEF TypeOK, PastInv, RestartsToPast, Saved
<1>. QED
  BY <1>1, InitPastInv, NextPastInv, TypeCorrect, PTL DEF Spec

-----------------------------------------------------------------------------
(* What a persist that nothing overlapped relies on at each of its steps:  *)
(* its export is still the map, the inode it opened is file.tmp and not    *)
(* the saved file, and nobody wrote to it.                                 *)
LoneInv ==
  /\ server # "up" => \A p \in Procs : pc[p] = "idle"
  /\ tmp # NoInode => tmp # file
  /\ \A p \in Procs : lone[p] /\ pc[p] # "idle" =>
       /\ \A q \in Procs \ {p} : pc[q] = "idle"
       /\ pc[p] \in {"open", "write", "rename"} => data[p] = mem
       /\ pc[p] = "write" =>
            fd[p] = tmp /\ tmp # NoInode /\ content[tmp] = Blank
       /\ pc[p] = "rename" => tmp # NoInode /\ content[tmp] = mem

LEMMA InitLoneInv == Init => LoneInv
BY DEF Init, LoneInv

LEMMA NextLoneInv == TypeOK /\ LoneInv /\ [Next]_vars => LoneInv'
<1> SUFFICES ASSUME TypeOK, LoneInv, [Next]_vars PROVE LoneInv'
  OBVIOUS
<1> USE FileStoreAssumption DEF TypeOK, LoneInv
<1>1. ASSUME NEW p \in Procs, NEW k \in Kinds, NEW s \in Stores, Mutate(p, k, s)
      PROVE  LoneInv'
  BY <1>1 DEF Mutate, disk, Busy
<1>2. ASSUME NEW p \in Procs, Export(p) PROVE LoneInv'
  BY <1>2 DEF Export, Goto, disk
<1>3. ASSUME NEW p \in Procs, OpenTmp(p) PROVE LoneInv'
  BY <1>3 DEF OpenTmp, Goto
<1>4. ASSUME NEW p \in Procs, WriteTmp(p) PROVE LoneInv'
  <2>1. PICK c \in Overwritten(content[fd[p]], data[p]) :
               content' = [content EXCEPT ![fd[p]] = c]
    BY <1>4 DEF WriteTmp
  <2>2. lone[p] => content'[tmp] = mem
    BY <1>4, <2>1, OverwrittenForms DEF WriteTmp, Goto
  <2>. QED
    BY <1>4, <2>2 DEF WriteTmp, Goto
<1>5. ASSUME NEW p \in Procs, RenameTmp(p) PROVE LoneInv'
  BY <1>5 DEF RenameTmp, Return
<1>6. ASSUME NEW p \in Procs, PersistFails(p) PROVE LoneInv'
  BY <1>6 DEF PersistFails, Return
<1>7. CASE Crash
  BY <1>7 DEF Crash, disk
<1>8. CASE NewFileStore
  BY <1>8 DEF NewFileStore, disk, request
<1>9. CASE UNCHANGED vars
  BY <1>9 DEF vars
<1>. QED
  BY <1>1, <1>2, <1>3, <1>4, <1>5, <1>6, <1>7, <1>8, <1>9, MutationForms
  DEF Next, Mutation

(* A persist that no request overlapped puts exactly the map in place.     *)
THEOREM LonePersistIsExactHolds == Spec => []LonePersistIsExact
<1>1. LoneInv => LonePersistIsExact
  BY DEF LoneInv, LonePersistIsExact
<1>. QED
  BY <1>1, InitLoneInv, NextLoneInv, TypeCorrect, PTL DEF Spec
-----------------------------------------------------------------------------
(* One mutating request at a time: every persist is then a lone one. *)
OneWriter == \A p, q \in Procs : p = q

SingleInv ==
  /\ \A p \in Procs : pc[p] # "idle" => lone[p]
  /\ Loadable

LEMMA InitSingleInv == Init => SingleInv
BY EmptyIsStore, FileStoreAssumption DEF Init, SingleInv, Loadable, Saved

(* Only a rename changes what a restart would load, and to the live map.   *)
LEMMA SavedSteps ==
  ASSUME OneWriter, TypeOK, LoneInv, SingleInv, Next
  PROVE  \/ Saved' = Saved
         \/ server = "up" /\ Saved' = mem /\ mem' = mem /\ server' = server
<1> USE FileStoreAssumption DEF TypeOK, LoneInv, SingleInv, OneWriter, Saved
<1>1. ASSUME NEW p \in Procs, NEW k \in Kinds, NEW s \in Stores, Mutate(p, k, s)
      PROVE  Saved' = Saved
  BY <1>1 DEF Mutate, disk
<1>2. ASSUME NEW p \in Procs, Export(p) PROVE Saved' = Saved
  BY <1>2 DEF Export, disk
<1>3. ASSUME NEW p \in Procs, OpenTmp(p) PROVE Saved' = Saved
  BY <1>3 DEF OpenTmp
<1>4. ASSUME NEW p \in Procs, WriteTmp(p) PROVE Saved' = Saved
  BY <1>4 DEF WriteTmp, Goto
<1>5. ASSUME NEW p \in Procs, RenameTmp(p)
      PROVE  server = "up" /\ Saved' = mem /\ mem' = mem /\ server' = server
  BY <1>5 DEF RenameTmp, Return
<1>6. ASSUME NEW p \in Procs, PersistFails(p) PROVE Saved' = Saved
  BY <1>6 DEF PersistFails
<1>7. CASE Crash \/ NewFileStore
  BY <1>7 DEF Crash, NewFileStore, disk
<1>. QED
  BY <1>1, <1>2, <1>3, <1>4, <1>5, <1>6, <1>7, MutationForms
  DEF Next, Mutation

LEMMA NextSingleInv ==
  OneWriter /\ TypeOK /\ LoneInv /\ SingleInv /\ [Next]_vars => SingleInv'
<1> SUFFICES ASSUME OneWriter, TypeOK, LoneInv, SingleInv, [Next]_vars
             PROVE  SingleInv'
  OBVIOUS
<1>1. Loadable'
  <2>1. CASE Next
    BY <2>1, SavedSteps, FileStoreAssumption DEF TypeOK, SingleInv, Loadable
  <2>2. CASE UNCHANGED vars
    BY <2>2 DEF vars, SingleInv, Loadable, Saved
  <2>. QED
    BY <2>1, <2>2
<1>2. \A p \in Procs : pc'[p] # "idle" => lone'[p]
  <2> USE DEF TypeOK, SingleInv, OneWriter
  <2>1. ASSUME NEW p \in Procs, NEW k \in Kinds, NEW s \in Stores, Mutate(p, k, s)
        PROVE  \A q \in Procs : lone'[q]
    BY <2>1 DEF Mutate, Busy
  <2>2. ASSUME NEW p \in Procs,
               Export(p) \/ OpenTmp(p) \/ WriteTmp(p) \/ RenameTmp(p)
               \/ PersistFails(p)
        PROVE  lone' = lone /\ pc[p] # "idle"
    BY <2>2 DEF Export, OpenTmp, WriteTmp, RenameTmp, PersistFails, Goto
  <2>3. CASE Crash \/ NewFileStore \/ UNCHANGED vars
    BY <2>3 DEF Crash, NewFileStore, request, vars
  <2>. QED
    BY <2>1, <2>2, <2>3, MutationForms DEF Next, Mutation
<1>. QED
  BY <1>1, <1>2 DEF SingleInv

(* With one mutating request at a time no crash leaves a file that a start *)
(* of the server refuses: what persist's comment claims, under the         *)
(* assumption it needs.                                                    *)
THEOREM SingleWriterLoadable == ASSUME OneWriter PROVE Spec => []Loadable
<1>1. TypeOK /\ LoneInv /\ SingleInv /\ [Next]_vars => SingleInv'
  BY OneWriter, NextSingleInv
<1>2. SingleInv => Loadable
  BY DEF SingleInv
<1>. QED
  BY <1>1, <1>2, InitSingleInv, InitLoneInv, NextLoneInv, TypeCorrect, PTL
  DEF Spec

LEMMA NextQuietIsSaved ==
  OneWriter /\ TypeOK /\ LoneInv /\ SingleInv /\ QuietIsSaved /\ [Next]_vars => QuietIsSaved'
<1> SUFFICES ASSUME OneWriter, TypeOK, LoneInv, SingleInv, QuietIsSaved, [Next]_vars
             PROVE  QuietIsSaved'
  OBVIOUS
<1>1. ASSUME NEW p \in Procs, NEW k \in Kinds, NEW s \in Stores, Mutate(p, k, s)
      PROVE  QuietIsSaved'
  BY <1>1 DEF Mutate, QuietIsSaved, Busy, TypeOK
<1>2. ASSUME NEW p \in Procs, Export(p) \/ OpenTmp(p) \/ WriteTmp(p)
      PROVE  QuietIsSaved'
  BY <1>2 DEF Export, OpenTmp, WriteTmp, Goto, QuietIsSaved, Busy, TypeOK
<1>3. ASSUME NEW p \in Procs, RenameTmp(p) PROVE QuietIsSaved'
  <2>1. pc[p] = "rename" /\ lone[p]
    BY <1>3 DEF RenameTmp, SingleInv
  <2>2. tmp # NoInode /\ content[tmp] = mem
    BY <2>1 DEF LoneInv
  <2>3. file' = tmp /\ UNCHANGED <<mem, content>>
    BY <1>3, <2>2 DEF RenameTmp
  <2>. QED
    BY <2>2, <2>3 DEF QuietIsSaved, Saved
<1>4. ASSUME NEW p \in Procs, PersistFails(p) PROVE QuietIsSaved'
  <2>1. reply'[p] \in {"error", "swallowed"}
    BY <1>4 DEF PersistFails, Return, FailedReply, TypeOK
  <2>. QED
    BY <2>1 DEF QuietIsSaved
<1>5. CASE Crash
  BY <1>5 DEF Crash, QuietIsSaved
<1>6. CASE NewFileStore
  BY <1>6 DEF NewFileStore, disk, Saved, QuietIsSaved
<1>7. CASE UNCHANGED vars
  BY <1>7 DEF vars, QuietIsSaved, Busy, Saved
<1>. QED
  BY <1>1, <1>2, <1>3, <1>4, <1>5, <1>6, <1>7, MutationForms DEF Next, Mutation, TypeOK

(* With one mutating request at a time, once it has returned without an    *)
(* error the file holds the map: a crash would lose nothing.               *)
THEOREM SingleWriterQuiet == ASSUME OneWriter PROVE Spec => []QuietIsSaved
<1>1. TypeOK /\ LoneInv /\ SingleInv /\ [Next]_vars => SingleInv'
  BY OneWriter, NextSingleInv
<1>2. TypeOK /\ LoneInv /\ SingleInv /\ QuietIsSaved /\ [Next]_vars => QuietIsSaved'
  BY OneWriter, NextQuietIsSaved
<1>3. Init => QuietIsSaved
  BY DEF Init, QuietIsSaved, Saved
<1>. QED
  BY <1>1, <1>2, <1>3, InitSingleInv, InitLoneInv, NextLoneInv, TypeCorrect, PTL
  DEF Spec

(* With one mutating request at a time the store implements DurableMap:    *)
(* each step is a change, a whole save or a crash of it, or invisible.     *)
THEOREM SingleWriterDurable == ASSUME OneWriter PROVE Spec => ImplementsDurableMap
<1> DEFINE live == IF server = "up" THEN mem ELSE Saved
<1>1. Init => Durable!Init
  BY DEF Init, Durable!Init, Saved
<1>2. ASSUME TypeOK, LoneInv, SingleInv, Next
      PROVE  Durable!Next \/ UNCHANGED <<live, Saved>>
  <2>1. ASSUME NEW p \in Procs, NEW k \in Kinds, NEW s \in Stores, Mutate(p, k, s)
        PROVE  Durable!Change
    BY <2>1 DEF Mutate, disk, Saved, Durable!Change
  <2>2. ASSUME NEW p \in Procs,
               Export(p) \/ OpenTmp(p) \/ WriteTmp(p) \/ RenameTmp(p)
               \/ PersistFails(p)
        PROVE  Durable!Save \/ UNCHANGED <<live, Saved>>
    <3>1. mem' = mem /\ server' = server
      BY <2>2 DEF Export, OpenTmp, WriteTmp, RenameTmp, PersistFails
    <3>2. pc[p] # "idle"
      BY <2>2 DEF Export, OpenTmp, WriteTmp, RenameTmp, PersistFails, Goto
    <3>3. server = "up"
      BY <1>2, <3>2 DEF LoneInv
    <3>4. Saved' = Saved \/ Saved' = mem
      BY OneWriter, <1>2, SavedSteps
    <3>. QED
      BY <3>1, <3>3, <3>4 DEF Durable!Save
  <2>3. ASSUME Crash PROVE Durable!Crash
    BY <2>3 DEF Crash, disk, Saved, Durable!Crash
  <2>4. CASE NewFileStore
    BY <2>4 DEF NewFileStore, disk, Saved
  <2>. QED
    BY <1>2, <2>1, <2>2, <2>3, <2>4, MutationForms
    DEF Next, Mutation, Durable!Next, TypeOK
<1>3. UNCHANGED vars => UNCHANGED <<live, Saved>>
  BY DEF vars, Saved
<1>4. TypeOK /\ LoneInv /\ SingleInv /\ [Next]_vars => SingleInv'
  BY OneWriter, NextSingleInv
<1>. QED
  BY <1>1, <1>2, <1>3, <1>4, InitSingleInv, InitLoneInv, NextLoneInv,
     TypeCorrect, PTL
  DEF Spec, ImplementsDurableMap, Durable!Spec
=============================================================================
