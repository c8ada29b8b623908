--------------------------- MODULE RequestRecorder ---------------------------
(***************************************************************************)
(* The request log of internal/middleware/request_log.go: a ring buffer of *)
(* the last requests, and a bounded channel to every connected console.    *)
(* A request is logged under the mutex, together with a copy of the set of *)
(* channels; the sends happen after the mutex is released.  A console that *)
(* disconnects removes its channel under the mutex and closes it after.    *)
(*                                                                         *)
(* Entries are numbered in the order in which they are logged.             *)
(***************************************************************************)
EXTENDS Naturals, Sequences, FiniteSets, SequencesExt

CONSTANTS Writers,     \* goroutines that end a request and log it
          Clients,     \* connections to /api/requests/stream, one each
          Capacity,    \* of the ring buffer
          ChanCap,     \* of a client's channel
          Backfill,    \* how many entries a new client asks for
          MaxEntries   \* bound on the requests of a behaviour

ASSUME RecorderAssumption ==
  /\ Capacity \in Nat \ {0}
  /\ ChanCap \in Nat \ {0}
  /\ Backfill \in Nat
  /\ MaxEntries \in Nat

VARIABLES
  buf, head, count,  \* the ring
  recorded,   \* the entries logged so far
  registered, \* rr.clients
  chan,       \* what each client's channel holds
  closed,     \* the channels that are closed
  entry,      \* the entry a writer is sending, 0 for none
  pending,    \* the channels it has yet to try
  stage,      \* where each client is in SSEHandler
  written,    \* what has been written to each client
  since,      \* history: the entries logged when a client subscribed
  dropped,    \* history: the entries a client's full channel turned away
  broken,     \* history: the entries whose writer panicked while sending
  overlap     \* history: the entries still being sent when one was logged

ring == <<buf, head, count, recorded>>
clientState == <<stage, since>>
logVars == <<ring, registered, chan, closed, entry, pending, written,
          clientState, dropped, broken, overlap>>

Entries == 1..MaxEntries

Least(a, b) == IF a < b THEN a ELSE b

LogInit ==
  /\ buf = [i \in 0..Capacity-1 |-> 0]
  /\ head = 0
  /\ count = 0
  /\ recorded = 0
  /\ registered = {}
  /\ chan = [c \in Clients |-> <<>>]
  /\ closed = {}
  /\ entry = [w \in Writers |-> 0]
  /\ pending = [w \in Writers |-> {}]
  /\ stage = [c \in Clients |-> "new"]
  /\ written = [c \in Clients |-> <<>>]
  /\ since = [c \in Clients |-> 0]
  /\ dropped = [c \in Clients |-> {}]
  /\ broken = {}
  /\ overlap = [e \in Entries |-> {}]

-----------------------------------------------------------------------------
(* record *)

SlotAfter(i) == (i + 1) % Capacity

(* The entry enters the ring, and the channels to send it to are noted. *)
RecordTo(w, channels) ==
  /\ entry[w] = 0
  /\ recorded < MaxEntries
  /\ recorded' = recorded + 1
  /\ buf' = [buf EXCEPT ![head] = recorded']
  /\ head' = SlotAfter(head)
  /\ count' = Least(count + 1, Capacity)
  /\ entry' = [entry EXCEPT ![w] = recorded']
  /\ pending' = [pending EXCEPT ![w] = channels]
  /\ overlap' = [overlap EXCEPT ![recorded'] = {entry[v] : v \in Writers} \ {0}]
  /\ UNCHANGED <<registered, chan, closed, written, clientState, dropped, broken>>

(* Mutant of RecordEntry: the client set is read while sending. *)
RecordLive(w) == RecordTo(w, Clients \ closed)

RecordEntry(w) == RecordTo(w, registered)

Full(c) == Len(chan[c]) >= ChanCap

(* A round of the loop after which the channels in rest are left to try. *)
TrySend(w, c, rest) ==
  /\ c \in pending[w] \ closed
  /\ pending' = [pending EXCEPT ![w] = rest]
  /\ IF Full(c)
     THEN dropped' = [dropped EXCEPT ![c] = @ \cup {entry[w]}] /\ UNCHANGED chan
     ELSE chan' = [chan EXCEPT ![c] = Append(@, entry[w])] /\ UNCHANGED dropped
  /\ UNCHANGED <<ring, registered, closed, entry, written, clientState, broken,
                 overlap>>

(* Mutants of SendTo: a full channel ends the loop; the send waits. *)
SendUntilFull(w, c) == TrySend(w, c, IF Full(c) THEN {} ELSE pending[w] \ {c})
SendBlocking(w, c) == ~Full(c) /\ TrySend(w, c, pending[w] \ {c})

(* Go visits the copied map in any order, and the select has a default: a  *)
(* full channel is skipped.                                                *)
SendTo(w, c) == TrySend(w, c, pending[w] \ {c})

(* A send on a closed channel panics, select or not.  chi's Recoverer ends *)
(* the request; the channels not yet tried never get the entry.            *)
SendPanics(w, c) ==
  /\ c \in pending[w] \cap closed
  /\ pending' = [pending EXCEPT ![w] = {}]
  /\ entry' = [entry EXCEPT ![w] = 0]
  /\ broken' = broken \cup {entry[w]}
  /\ UNCHANGED <<ring, registered, chan, closed, written, clientState, dropped,
                 overlap>>

RecordReturns(w) ==
  /\ entry[w] # 0
  /\ pending[w] = {}
  /\ entry' = [entry EXCEPT ![w] = 0]
  /\ UNCHANGED <<ring, registered, chan, closed, pending, written, clientState,
                 dropped, broken, overlap>>

-----------------------------------------------------------------------------
(* SSEHandler *)

(* Mutant of Recent: it reads from the start of the buffer. *)
RecentFromStart(n) == [i \in 1..Least(n, count) |-> buf[i - 1]]

(* Recent: the last n entries, oldest first. *)
Recent(n) ==
  LET m == Least(n, count)
      start == (head + Capacity - m) % Capacity
  IN [i \in 1..m |-> buf[(start + i - 1) % Capacity]]

(* subscribeWithBackfill; the backfill is written before anything else. *)
Subscribe(c) ==
  /\ stage[c] = "new"
  /\ stage' = [stage EXCEPT ![c] = "streaming"]
  /\ registered' = registered \cup {c}
  /\ written' = [written EXCEPT ![c] = Recent(Backfill)]
  /\ since' = [since EXCEPT ![c] = recorded]
  /\ UNCHANGED <<ring, chan, closed, entry, pending, dropped, broken, overlap>>

Stream(c) ==
  /\ stage[c] = "streaming"
  /\ chan[c] # <<>>
  /\ written' = [written EXCEPT ![c] = Append(@, Head(chan[c]))]
  /\ chan' = [chan EXCEPT ![c] = Tail(@)]
  /\ UNCHANGED <<ring, registered, closed, entry, pending, clientState, dropped,
                 broken, overlap>>

(* The request's context ends; unsubscribe takes the lock, then closes. *)
Unsubscribe(c) ==
  /\ stage[c] = "streaming"
  /\ stage' = [stage EXCEPT ![c] = "leaving"]
  /\ registered' = registered \ {c}
  /\ UNCHANGED <<ring, chan, closed, entry, pending, written, since, dropped,
                 broken, overlap>>

Close(c) ==
  /\ stage[c] = "leaving"
  /\ stage' = [stage EXCEPT ![c] = "gone"]
  /\ closed' = closed \cup {c}
  /\ UNCHANGED <<ring, registered, chan, entry, pending, written, since, dropped,
                 broken, overlap>>

Sending(w) == (\E c \in Clients : SendTo(w, c) \/ SendPanics(w, c)) \/ RecordReturns(w)

LogNext ==
  \/ \E w \in Writers : RecordEntry(w) \/ Sending(w)
  \/ \E c \in Clients : Subscribe(c) \/ Stream(c) \/ Unsubscribe(c) \/ Close(c)

LogSpec == LogInit /\ [][LogNext]_logVars

(* The goroutine of a request runs on; no console has to read or to leave. *)
FairLogSpec == LogSpec /\ \A w \in Writers : WF_logVars(Sending(w))

-----------------------------------------------------------------------------
LogTypeOK ==
  /\ buf \in [0..Capacity-1 -> 0..MaxEntries]
  /\ head \in 0..Capacity-1
  /\ count \in 0..Capacity
  /\ recorded \in 0..MaxEntries
  /\ registered \subseteq Clients
  /\ chan \in [Clients -> Seq(Entries)]
  /\ closed \subseteq Clients
  /\ entry \in [Writers -> 0..MaxEntries]
  /\ pending \in [Writers -> SUBSET Clients]
  /\ stage \in [Clients -> {"new", "streaming", "leaving", "gone"}]
  /\ written \in [Clients -> Seq(Entries)]
  /\ since \in [Clients -> 0..MaxEntries]
  /\ dropped \in [Clients -> SUBSET Entries]
  /\ broken \subseteq Entries
  /\ overlap \in [Entries -> SUBSET Entries]

(* Recent(n) is what it says, "the last n entries in chronological order", *)
(* before and after the ring wraps, for an n at and above the capacity.    *)
RecentIsTheLast ==
  \A n \in 0..Capacity+1 :
    LET m == Least(n, Least(recorded, Capacity))
    IN Recent(n) = [i \in 1..m |-> recorded - m + i]

(* All that a client was given or will be given without another send. *)
Given(c) == written[c] \o chan[c]

(* subscribeWithBackfill: "either in the snapshot or in the channel, never *)
(* both": no entry reaches a client twice.                                 *)
NeverBoth == \A c \in Clients : IsInjective(Given(c))

(* What a client has neither got nor can still get, of the entries that    *)
(* subscribeWithBackfill owes it: those it asked for and all later ones.   *)
Owed(c) ==
  (since[c] + 1 - Least(since[c], Least(Backfill, Capacity)))..recorded
Missing(c) ==
  Owed(c) \ (ToSet(Given(c)) \cup {entry[w] : w \in {v \in Writers : c \in pending[v]}})

(* A client misses an entry for two reasons only: its channel was full, or *)
(* the entry's writer had met a channel closed under it.                   *)
MissesAreKnown ==
  \A c \in registered : Missing(c) \subseteq dropped[c] \cup broken

(* An entry logged after the record of another had returned never reaches  *)
(* a client before it: only requests that end together can be swapped.     *)
RealTimeOrder ==
  \A c \in Clients :
    LET s == Given(c) IN
    \A i, j \in DOMAIN s : i < j /\ s[i] > s[j] => s[j] \in overlap[s[i]]

(* No client, however slow or dead, holds up a request: record returns.    *)
RecordEnds == \A w \in Writers : entry[w] # 0 ~> entry[w] = 0
=============================================================================
