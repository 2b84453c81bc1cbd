------------------------------ MODULE SeqlockRing ------------------------------
(***************************************************************************)
(* The shared-memory ring of src-rust/lyzer-shm-spine: RingWriter          *)
(* (lib.rs, main.rs) writes signal events into slots of a mapped file,     *)
(* each under a sequence lock, and reader.py polls the first slot.  Writer *)
(* and reader are processes; nothing but the words of the slot orders      *)
(* their steps.  Stores and loads take effect in program order, as on      *)
(* x86: the code has compiler fences only.  The reader's copy loads the    *)
(* words from the first, the lock, on.                                     *)
(*                                                                         *)
(* The slot is its words: the lock, the header that the checksum does not  *)
(* cover, two words of payload and the checksum.  A word is the number of  *)
(* the event it was written with, 0 if it is zeroed.                       *)
(***************************************************************************)
EXTENDS Naturals, Sequences, FiniteSets

CONSTANTS
  RingSize,     \* max_events (1024 in main.rs)
  MaxReads,     \* events after which the reader exits (3)
  MaxEvents,    \* bound: events written
  MaxRestarts   \* bound: restarts of the writer

ASSUME RingAssumption ==
  {RingSize, MaxReads} \subseteq Nat \ {0} /\ {MaxEvents, MaxRestarts} \subseteq Nat

VARIABLES
  slot,       \* [Words -> Nat], the first slot in the file
  writer,     \* what write_event, or new, does next
  todo,       \* words it still has to store
  event,      \* number of the last event begun
  write_idx,
  reader,     \* what the loop of reader.py does next
  data,       \* words it has copied
  last_seq,
  reads,
  got,        \* history: the last copy accepted as an event
  disturbed,  \* history: the writer was starting during the present read
  restarts

writerVars == <<slot, writer, todo, event, write_idx>>
readerVars == <<reader, data, last_seq, reads, got>>
vars == <<writerVars, readerVars, disturbed, restarts>>

Lock   == 1
Header == 2
Body1  == 3
Body2  == 4
Sum    == 5
Words   == Lock..Sum
Payload == {Body1, Body2}

IsEven(n) == n % 2 = 0

\* The checksum of an event is that of its own payload, and no other's; that
\* of a zeroed payload is not zero.
ChecksumHolds(w) == w[Sum] # 0 /\ \A b \in Payload : w[b] = w[Sum]

-----------------------------------------------------------------------------
(* RingWriter.                                                             *)

\* The words left are stored in any order.
StoreOne(v) == \E w \in todo : slot' = [slot EXCEPT ![w] = v] /\ todo' = todo \ {w}

\* Faulty variant: the copy starts without taking the lock.
BeginUnlocked ==
  /\ writer = "ready" /\ event < MaxEvents /\ event' = event + 1
  /\ IF write_idx = 0 THEN writer' = "copy" /\ todo' = Words \ {Lock}
     ELSE UNCHANGED <<writer, todo>>
  /\ write_idx' = (write_idx + 1) % RingSize
  /\ UNCHANGED <<slot, readerVars, disturbed, restarts>>

\* write_event takes the lock, if it is the first slot's turn.
Begin ==
  /\ writer = "ready" /\ event < MaxEvents /\ event' = event + 1
  /\ IF write_idx = 0
     THEN /\ slot' = [slot EXCEPT ![Lock] = @ + 1]
          /\ writer' = "copy" /\ todo' = Words \ {Lock}
     ELSE UNCHANGED <<slot, writer, todo>>
  /\ write_idx' = (write_idx + 1) % RingSize
  /\ UNCHANGED <<readerVars, disturbed, restarts>>

\* copy_nonoverlapping; the lock's word in the copy is the lock as it stands.
CopyWord ==
  /\ writer = "copy"
  /\ StoreOne(event)
  /\ UNCHANGED <<writer, event, write_idx, readerVars, disturbed, restarts>>

Unlock ==
  /\ writer = "copy" /\ todo = {}
  /\ slot' = [slot EXCEPT ![Lock] = 2 * (@ \div 2) + 2]
  /\ writer' = "ready"
  /\ UNCHANGED <<todo, event, write_idx, readerVars, disturbed, restarts>>

\* The writer dies anywhere and is started again: new zeroes the file.
Restart ==
  /\ restarts < MaxRestarts /\ restarts' = restarts + 1
  /\ writer' = "zero" /\ todo' = Words /\ write_idx' = 0
  /\ disturbed' = (reader # "poll")
  /\ UNCHANGED <<slot, event, readerVars>>

ZeroWord ==
  /\ writer = "zero"
  /\ StoreOne(0)
  /\ writer' = IF todo' = {} THEN "ready" ELSE "zero"
  /\ UNCHANGED <<event, write_idx, readerVars, disturbed, restarts>>

-----------------------------------------------------------------------------
(* reader.py.                                                              *)

StartRead ==
  /\ reader = "poll" /\ reads < MaxReads
  /\ reader' = "copy" /\ data' = <<>>
  /\ disturbed' = (writer = "zero")
  /\ UNCHANGED <<writerVars, last_seq, reads, got, restarts>>

\* data = mm[0:size], word after word.
ReadWord ==
  /\ reader = "copy" /\ Len(data) < Sum
  /\ data' = Append(data, slot[Len(data) + 1])
  /\ UNCHANGED <<writerVars, reader, last_seq, reads, got, disturbed, restarts>>

\* Faulty variant: only a lock above the last is news.
JudgeByOrder ==
  /\ reader = "copy" /\ Len(data) = Sum
  /\ reader' = IF IsEven(data[Lock]) /\ data[Lock] > last_seq THEN "recheck" ELSE "poll"
  /\ UNCHANGED <<writerVars, data, last_seq, reads, got, disturbed, restarts>>

\* A lock that is odd, zero or that of the event read last: poll again.
Judge ==
  /\ reader = "copy" /\ Len(data) = Sum
  /\ reader' = IF IsEven(data[Lock]) /\ data[Lock] \notin {0, last_seq} THEN "recheck" ELSE "poll"
  /\ UNCHANGED <<writerVars, data, last_seq, reads, got, disturbed, restarts>>

\* Faulty variant: the lock is not read again.
AcceptUnchecked ==
  /\ reader = "recheck" /\ reader' = "poll"
  /\ last_seq' = data[Lock] /\ reads' = reads + 1
  /\ got' = IF ChecksumHolds(data) THEN data ELSE got
  /\ UNCHANGED <<writerVars, data, disturbed, restarts>>

\* Faulty variant: the event read last is not remembered.
AcceptForgotten ==
  /\ reader = "recheck" /\ reader' = "poll"
  /\ IF slot[Lock] # data[Lock] THEN UNCHANGED <<last_seq, reads, got>>
     ELSE /\ reads' = reads + 1 /\ UNCHANGED last_seq
          /\ got' = IF ChecksumHolds(data) THEN data ELSE got
  /\ UNCHANGED <<writerVars, data, disturbed, restarts>>

\* Seen again unchanged, the lock vouches for the copy; a checksum that does
\* not hold is reported, and the event counts as read.
Accept ==
  /\ reader = "recheck" /\ reader' = "poll"
  /\ IF slot[Lock] # data[Lock] THEN UNCHANGED <<last_seq, reads, got>>
     ELSE /\ last_seq' = data[Lock] /\ reads' = reads + 1
          /\ got' = IF ChecksumHolds(data) THEN data ELSE got
  /\ UNCHANGED <<writerVars, data, disturbed, restarts>>

-----------------------------------------------------------------------------

Zeroed == [w \in Words |-> 0]

Init ==
  /\ slot = Zeroed /\ writer = "ready" /\ todo = {} /\ event = 0 /\ write_idx = 0
  /\ reader = "poll" /\ data = <<>> /\ last_seq = 0 /\ reads = 0 /\ got = Zeroed
  /\ disturbed = FALSE /\ restarts = 0

Writing == Begin \/ CopyWord \/ Unlock \/ ZeroWord
Reading == StartRead \/ ReadWord \/ Judge \/ Accept

Next == Writing \/ Restart \/ Reading

Spec == Init /\ [][Next]_vars

\* Both processes run.
FairSpec == Spec /\ WF_vars(Writing) /\ WF_vars(Reading)

-----------------------------------------------------------------------------

\* Type invariant.
TypeOK ==
  /\ slot \in [Words -> Nat] /\ got \in [Words -> Nat]
  /\ writer \in {"ready", "copy", "zero"} /\ todo \subseteq Words
  /\ event \in 0..MaxEvents /\ write_idx \in 0..(RingSize - 1)
  /\ reader \in {"poll", "copy", "recheck"} /\ data \in Seq(Nat) /\ Len(data) <= Sum
  /\ last_seq \in Nat /\ reads \in 0..MaxReads
  /\ disturbed \in BOOLEAN /\ restarts \in 0..MaxRestarts
  /\ writer = "copy" => ~IsEven(slot[Lock])

\* A slot whose lock is even and not zero holds one whole event, whatever the
\* order of the stores and wherever the writer before died.
SlotIsWhole ==
  writer # "zero" /\ IsEven(slot[Lock]) /\ slot[Lock] # 0 =>
    \A w \in Words \ {Lock} : slot[w] = slot[Sum]

\* What the reader accepts is one event, its unchecked header included, unless
\* the writer was starting during the read: then its lock may repeat.
AcceptedIsOneEvent ==
  [][got' # got => disturbed \/ got'[Header] = got'[Sum]]_vars

\* The reader never accepts an event twice, or one older than the last: also
\* not when a restarted writer counts its lock from zero again.
ReadsAdvance ==
  [][reads' > reads /\ ChecksumHolds(data) => data[Sum] > got[Sum]]_vars

\* An event that is whole in the slot, under a lock that is not the last one
\* read, is read unless the next event or a restart replaces it, although a
\* restarted writer's locks are below those of its predecessor.
EventuallyRead ==
  \A k \in 1..MaxEvents :
    (slot[Sum] = k /\ IsEven(slot[Lock]) /\ slot[Lock] \notin {0, last_seq}) ~>
      (got[Sum] = k \/ slot[Sum] # k \/ reads = MaxReads \/ disturbed)
===============================================================================
