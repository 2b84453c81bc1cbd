-------------------------- MODULE SeqlockRingProofs --------------------------
(***************************************************************************)
(* Theorems about SeqlockRing, for every size of the ring and any number   *)
(* of events, reads and restarts: its types, whole slots, and reads that   *)
(* are neither torn nor repeated.                                          *)
(***************************************************************************)
EXTENDS SeqlockRing, SequenceTheorems, TLAPS

\* The lock is odd while words are copied, and words already copied hold the
\* event; between two events the lock is even and the slot whole.
WriterInv ==
  /\ writer = "ready" =>
       /\ IsEven(slot[Lock]) /\ todo = {}
       /\ slot[Lock] # 0 => \A w \in Words \ {Lock} : slot[w] = slot[Sum]
  /\ writer = "copy" =>
       /\ ~IsEven(slot[Lock]) /\ Lock \notin todo
       /\ \A w \in Words \ ({Lock} \cup todo) : slot[w] = event
  /\ writer = "zero" => \A w \in Words \ todo : slot[w] = 0

\* The reader is after an event only while it may read one more; a lock to be
\* looked at again was even and not zero.
ReaderInv ==
  /\ reader # "poll" => reads < MaxReads
  /\ reader = "recheck" => Len(data) = Sum /\ IsEven(data[Lock]) /\ data[Lock] # 0

\* While no writer starts, the lock never falls below the even one copied, and
\* as long as it is the same, so is every word copied since.
CopyInv ==
  reader # "poll" /\ ~disturbed =>
    /\ writer # "zero"
    /\ data # <<>> /\ IsEven(data[Lock]) =>
         /\ slot[Lock] >= data[Lock]
         /\ slot[Lock] = data[Lock] => \A i \in 1..Len(data) : data[i] = slot[i]

Inv == TypeOK /\ WriterInv /\ ReaderInv /\ CopyInv

-----------------------------------------------------------------------------
(* The lock.                                                               *)

\* Taking the lock makes an even number odd, and releasing it even again.
LEMMA Parity ==
  ASSUME NEW n \in Nat
  PROVE  /\ IsEven(n) => ~IsEven(n + 1)
         /\ IsEven(2 * (n \div 2) + 2) /\ 2 * (n \div 2) + 2 \in Nat
         /\ ~IsEven(n) => 2 * (n \div 2) + 2 = n + 1
<1> DEFINE q == n \div 2
<1>1. q \in Nat /\ n % 2 \in {0, 1} /\ n = 2 * q + (n % 2)
  OBVIOUS
<1>2. IsEven(n) => ~IsEven(n + 1)
  BY DEF IsEven
<1>3. IsEven(2 * q + 2)
  <2>1. 2 * q + 2 = 2 * (q + 1) /\ q + 1 \in Nat
    BY <1>1
  <2>2. \A m \in Nat : (2 * m) % 2 = 0
    OBVIOUS
  <2> QED BY <2>1, <2>2 DEF IsEven
<1>4. ~IsEven(n) => 2 * q + 2 = n + 1
  BY <1>1 DEF IsEven
<1> QED BY <1>1, <1>2, <1>3, <1>4

\* The constants, and the words of a slot.
LEMMA Constants ==
  /\ RingSize \in Nat \ {0} /\ MaxReads \in Nat \ {0}
  /\ MaxEvents \in Nat /\ MaxRestarts \in Nat
BY RingAssumption

LEMMA WordsOfSlot == {Lock, Header, Sum} \subseteq Words /\ Lock # Sum /\ Lock # Header
BY DEF Words, Lock, Header, Sum

-----------------------------------------------------------------------------
(* The inductive invariant.                                                *)

LEMMA InitInv == Init => Inv
<1> SUFFICES ASSUME Init PROVE Inv
  OBVIOUS
<1> USE Constants DEF Init, Zeroed
<1>1. TypeOK
  <2>1. slot \in [Words -> Nat] /\ got \in [Words -> Nat]
    OBVIOUS
  <2>2. data \in Seq(Nat) /\ Len(data) <= Sum
    BY DEF Sum
  <2>3. write_idx \in 0..(RingSize - 1) /\ event \in 0..MaxEvents /\ reads \in 0..MaxReads
        /\ restarts \in 0..MaxRestarts
    OBVIOUS
  <2> QED BY <2>1, <2>2, <2>3 DEF TypeOK
<1>2. WriterInv
  BY DEF WriterInv, Words, Lock, Sum, IsEven
<1> QED BY <1>1, <1>2 DEF Inv, ReaderInv, CopyInv

\* Taking the lock.
LEMMA BeginInv == Inv /\ Begin => Inv'
<1> SUFFICES ASSUME Inv, Begin PROVE Inv'
  OBVIOUS
<1> USE DEF Inv
<1>1. slot[Lock] \in Nat /\ IsEven(slot[Lock]) /\ ~IsEven(slot[Lock] + 1)
  <2>1. slot[Lock] \in Nat /\ IsEven(slot[Lock])
    BY WordsOfSlot DEF TypeOK, WriterInv, Begin
  <2> QED BY <2>1, Parity
<1>2. (write_idx + 1) % RingSize \in 0..(RingSize - 1)
  BY Constants DEF TypeOK
<1>3. /\ event \in Nat /\ MaxEvents \in Nat /\ event' = event + 1 /\ event < MaxEvents
      /\ writer = "ready" /\ todo = {}
      /\ UNCHANGED <<readerVars, disturbed, restarts>>
  BY Constants DEF Begin, TypeOK, WriterInv
<1>4. CASE write_idx = 0
  <2>1. /\ slot' = [slot EXCEPT ![Lock] = @ + 1]
        /\ writer' = "copy" /\ todo' = Words \ {Lock}
    BY <1>4 DEF Begin
  <2>2. slot' \in [Words -> Nat] /\ slot'[Lock] = slot[Lock] + 1
    BY <1>1, <2>1, WordsOfSlot DEF TypeOK
  <2>3. TypeOK'
    BY <1>1, <1>2, <1>3, <2>1, <2>2 DEF TypeOK, Begin, readerVars
  <2>4. WriterInv'
    BY <1>1, <2>1, <2>2 DEF WriterInv
  <2>5. ReaderInv'
    BY <1>3 DEF ReaderInv, readerVars
  <2>6. CopyInv'
    <3>1. data # <<>> => data[Lock] \in Nat
      BY DEF TypeOK, Lock
    <3> QED BY <1>1, <1>3, <2>1, <2>2, <3>1 DEF CopyInv, readerVars
  <2> QED BY <2>3, <2>4, <2>5, <2>6
<1>5. CASE write_idx # 0
  <2>1. UNCHANGED <<slot, writer, todo>>
    BY <1>5 DEF Begin
  <2>2. TypeOK'
    BY <1>2, <1>3, <2>1 DEF TypeOK, Begin, readerVars
  <2>3. WriterInv'
    BY <1>3, <2>1 DEF WriterInv
  <2> QED BY <1>3, <2>1, <2>2, <2>3 DEF ReaderInv, CopyInv, readerVars
<1> QED BY <1>4, <1>5

\* One word of the copy.
LEMMA CopyWordInv == Inv /\ CopyWord => Inv'
<1> SUFFICES ASSUME Inv, CopyWord PROVE Inv'
  OBVIOUS
<1> USE DEF Inv
<1>1. PICK w \in todo : slot' = [slot EXCEPT ![w] = event] /\ todo' = todo \ {w}
  BY DEF CopyWord, StoreOne
<1>2. /\ writer = "copy" /\ w \in Words /\ w # Lock /\ event \in Nat
      /\ UNCHANGED <<writer, event, write_idx, readerVars, disturbed, restarts>>
  BY <1>1 DEF CopyWord, WriterInv, TypeOK
<1>3. /\ slot' \in [Words -> Nat] /\ slot'[Lock] = slot[Lock] /\ slot'[w] = event
      /\ \A v \in Words \ {w} : slot'[v] = slot[v]
  BY <1>1, <1>2, WordsOfSlot DEF TypeOK
<1>4. TypeOK'
  BY <1>1, <1>2, <1>3 DEF TypeOK, readerVars
<1>5. WriterInv'
  BY <1>1, <1>2, <1>3 DEF WriterInv
<1>6. CopyInv'
  <2>1. ~IsEven(slot[Lock])
    BY <1>2 DEF WriterInv
  <2> QED BY <1>2, <1>3, <2>1 DEF CopyInv, readerVars
<1> QED BY <1>2, <1>4, <1>5, <1>6 DEF ReaderInv, readerVars

\* Releasing the lock.
LEMMA UnlockInv == Inv /\ Unlock => Inv'
<1> SUFFICES ASSUME Inv, Unlock PROVE Inv'
  OBVIOUS
<1> USE DEF Inv
<1> DEFINE n == slot[Lock]
<1>1. /\ writer = "copy" /\ todo = {} /\ writer' = "ready"
      /\ slot' = [slot EXCEPT ![Lock] = 2 * (n \div 2) + 2]
      /\ UNCHANGED <<todo, event, write_idx, readerVars, disturbed, restarts>>
  BY DEF Unlock
<1>2. n \in Nat /\ ~IsEven(n)
  BY <1>1, WordsOfSlot DEF TypeOK, WriterInv
<1>3. 2 * (n \div 2) + 2 = n + 1 /\ IsEven(n + 1)
  <2> HIDE DEF n
  <2> QED BY <1>2, Parity
<1>4. /\ slot' \in [Words -> Nat] /\ slot'[Lock] = n + 1
      /\ \A v \in Words \ {Lock} : slot'[v] = slot[v]
  <2>1. slot' = [slot EXCEPT ![Lock] = n + 1]
    BY <1>1, <1>3
  <2>2. n + 1 \in Nat
    BY <1>2
  <2> QED BY <2>1, <2>2, WordsOfSlot DEF TypeOK
<1>5. TypeOK'
  BY <1>1, <1>4 DEF TypeOK, readerVars
<1>6. WriterInv'
  <2>1. \A v \in Words \ {Lock} : slot'[v] = event
    BY <1>1, <1>4 DEF WriterInv
  <2>2. Sum \in Words \ {Lock}
    BY DEF Words, Lock, Sum
  <2> QED BY <1>1, <1>3, <1>4, <2>1, <2>2 DEF WriterInv
<1>7. CopyInv'
  <2>1. ASSUME reader # "poll", ~disturbed, data # <<>>, IsEven(data[Lock])
        PROVE  slot'[Lock] > data[Lock]
    <3>1. data[Lock] \in Nat
      BY <2>1 DEF TypeOK, Lock
    <3>2. n >= data[Lock]
      BY <2>1 DEF CopyInv
    <3> QED BY <1>2, <1>4, <3>1, <3>2
  <2>2. data # <<>> => data[Lock] \in Nat
    BY DEF TypeOK, Lock
  <2> QED BY <1>1, <1>2, <1>4, <2>1, <2>2 DEF CopyInv, readerVars
<1> QED BY <1>1, <1>5, <1>6, <1>7 DEF ReaderInv, readerVars

\* The writer starts over: nothing is said of a read under way any more.
LEMMA RestartInv == Inv /\ Restart => Inv'
<1> SUFFICES ASSUME Inv, Restart PROVE Inv'
  OBVIOUS
<1> USE DEF Inv
<1>1. /\ writer' = "zero" /\ todo' = Words /\ write_idx' = 0
      /\ disturbed' = (reader # "poll") /\ restarts' = restarts + 1 /\ restarts < MaxRestarts
      /\ UNCHANGED <<slot, event, readerVars>>
  BY DEF Restart
<1>2. TypeOK'
  BY <1>1, Constants DEF TypeOK, readerVars
<1>3. WriterInv'
  BY <1>1 DEF WriterInv
<1>4. CopyInv'
  BY <1>1 DEF CopyInv, readerVars
<1> QED BY <1>1, <1>2, <1>3, <1>4 DEF ReaderInv, readerVars

\* One word of the new writer's zeroes.
LEMMA ZeroWordInv == Inv /\ ZeroWord => Inv'
<1> SUFFICES ASSUME Inv, ZeroWord PROVE Inv'
  OBVIOUS
<1> USE DEF Inv
<1>1. PICK w \in todo : slot' = [slot EXCEPT ![w] = 0] /\ todo' = todo \ {w}
  BY DEF ZeroWord, StoreOne
<1>2. /\ writer = "zero" /\ w \in Words /\ writer' = (IF todo' = {} THEN "ready" ELSE "zero")
      /\ UNCHANGED <<event, write_idx, readerVars, disturbed, restarts>>
  BY <1>1 DEF ZeroWord, TypeOK
<1>3. /\ slot' \in [Words -> Nat] /\ slot'[w] = 0
      /\ \A v \in Words \ {w} : slot'[v] = slot[v]
  BY <1>1, <1>2 DEF TypeOK
<1>4. TypeOK'
  BY <1>1, <1>2, <1>3 DEF TypeOK, readerVars
<1>5. \A v \in Words \ todo' : slot'[v] = 0
  BY <1>1, <1>2, <1>3 DEF WriterInv
<1>6. WriterInv'
  <2>1. Lock \in Words /\ IsEven(0)
    BY DEF Words, Lock, Sum, IsEven
  <2> QED BY <1>2, <1>5, <2>1 DEF WriterInv
<1>7. CopyInv'
  BY <1>2 DEF CopyInv, readerVars
<1> QED BY <1>2, <1>4, <1>6, <1>7 DEF ReaderInv, readerVars

\* The reader's steps change nothing of the slot.
LEMMA StartReadInv == Inv /\ StartRead => Inv'
<1> SUFFICES ASSUME Inv, StartRead PROVE Inv'
  OBVIOUS
<1> USE DEF Inv
<1>1. /\ reads < MaxReads /\ reader' = "copy" /\ data' = <<>>
      /\ disturbed' = (writer = "zero")
      /\ UNCHANGED <<writerVars, last_seq, reads, got, restarts>>
  BY DEF StartRead
<1>2. TypeOK'
  BY <1>1 DEF TypeOK, writerVars, Sum
<1>3. WriterInv'
  BY <1>1 DEF WriterInv, writerVars
<1> QED BY <1>1, <1>2, <1>3 DEF ReaderInv, CopyInv, writerVars

LEMMA ReadWordInv == Inv /\ ReadWord => Inv'
<1> SUFFICES ASSUME Inv, ReadWord PROVE Inv'
  OBVIOUS
<1> USE DEF Inv
<1> DEFINE n == Len(data)
<1>1. /\ reader = "copy" /\ n < Sum /\ data' = Append(data, slot[n + 1])
      /\ UNCHANGED <<writerVars, reader, last_seq, reads, got, disturbed, restarts>>
  BY DEF ReadWord
<1>2. data \in Seq(Nat) /\ n \in 0..4 /\ slot[n + 1] \in Nat
  <2>1. data \in Seq(Nat) /\ n \in Nat /\ n < 5
    BY <1>1 DEF TypeOK, Sum
  <2>2. n + 1 \in Words
    BY <2>1 DEF Words, Lock, Sum
  <2>3. slot[n + 1] \in Nat
    BY <2>2 DEF TypeOK
  <2> HIDE DEF n
  <2> QED BY <2>1, <2>3
<1>3. /\ data' \in Seq(Nat) /\ Len(data') = n + 1 /\ data'[n + 1] = slot[n + 1]
      /\ \A i \in 1..n : data'[i] = data[i]
  BY <1>1, <1>2
<1>4. TypeOK'
  BY <1>1, <1>2, <1>3 DEF TypeOK, writerVars, Sum
<1>5. CopyInv'
  <2>1. CASE n = 0
    <3>1. data'[Lock] = slot[Lock] /\ slot[Lock] \in Nat /\ \A i \in 1..Len(data') : data'[i] = slot[i]
      BY <1>2, <1>3, <2>1 DEF Lock
    <3> QED BY <1>1, <3>1 DEF CopyInv, writerVars
  <2>2. CASE n # 0
    <3>1. data # <<>> /\ data'[Lock] = data[Lock]
      BY <1>2, <1>3, <2>2 DEF Lock
    <3>2. \A i \in 1..Len(data') : i = n + 1 \/ i \in 1..n
      BY <1>2, <1>3
    <3> QED BY <1>1, <1>3, <3>1, <3>2 DEF CopyInv, writerVars
  <2> QED BY <2>1, <2>2
<1>6. WriterInv'
  BY <1>1 DEF WriterInv, writerVars
<1> QED BY <1>1, <1>4, <1>5, <1>6 DEF ReaderInv, writerVars

LEMMA JudgeInv == Inv /\ Judge => Inv'
<1> SUFFICES ASSUME Inv, Judge PROVE Inv'
  OBVIOUS
<1> USE DEF Inv
<1>1. /\ reader = "copy" /\ Len(data) = Sum
      /\ reader' = (IF IsEven(data[Lock]) /\ data[Lock] \notin {0, last_seq} THEN "recheck" ELSE "poll")
      /\ UNCHANGED <<writerVars, data, last_seq, reads, got, disturbed, restarts>>
  BY DEF Judge
<1>2. TypeOK'
  BY <1>1 DEF TypeOK, writerVars
<1>3. WriterInv'
  BY <1>1 DEF WriterInv, writerVars
<1>4. ReaderInv'
  BY <1>1 DEF ReaderInv
<1>5. CopyInv'
  BY <1>1 DEF CopyInv, writerVars
<1> QED BY <1>2, <1>3, <1>4, <1>5

LEMMA AcceptInv == Inv /\ Accept => Inv'
<1> SUFFICES ASSUME Inv, Accept PROVE Inv'
  OBVIOUS
<1> USE DEF Inv
<1>1. /\ reader = "recheck" /\ reader' = "poll"
      /\ UNCHANGED <<writerVars, data, disturbed, restarts>>
  BY DEF Accept
<1>2. data \in [Words -> Nat] /\ data[Lock] \in Nat
  <2>1. data \in Seq(Nat) /\ Len(data) = 5 /\ Words = 1..5 /\ Lock \in Words
    BY <1>1, WordsOfSlot DEF ReaderInv, TypeOK, Words, Lock, Sum
  <2>2. data \in [1..Len(data) -> Nat]
    BY <2>1, LenProperties
  <2> QED BY <2>1, <2>2
<1>3. reads' \in 0..MaxReads /\ last_seq' \in Nat /\ got' \in [Words -> Nat]
  <2>1. reads \in 0..MaxReads /\ reads < MaxReads /\ MaxReads \in Nat
    BY <1>1, Constants DEF ReaderInv, TypeOK
  <2>2. reads + 1 \in 0..MaxReads
    BY <2>1
  <2> QED BY <1>2, <2>1, <2>2 DEF Accept, TypeOK
<1>4. TypeOK'
  BY <1>1, <1>3 DEF TypeOK, writerVars
<1>5. WriterInv'
  BY <1>1 DEF WriterInv, writerVars
<1> QED BY <1>1, <1>4, <1>5 DEF ReaderInv, CopyInv

LEMMA StepInv == Inv /\ [Next]_vars => Inv'
<1> SUFFICES ASSUME Inv, [Next]_vars PROVE Inv'
  OBVIOUS
<1>1. CASE Writing
  BY <1>1, BeginInv, CopyWordInv, UnlockInv, ZeroWordInv DEF Writing
<1>2. CASE Reading
  BY <1>2, StartReadInv, ReadWordInv, JudgeInv, AcceptInv DEF Reading
<1>3. CASE Restart
  BY <1>3, RestartInv
<1>4. CASE UNCHANGED vars
  BY <1>4 DEF Inv, TypeOK, WriterInv, ReaderInv, CopyInv, vars, writerVars, readerVars
<1> QED BY <1>1, <1>2, <1>3, <1>4 DEF Next

LEMMA Invariance == Spec => []Inv
BY InitInv, StepInv, PTL DEF Spec

-----------------------------------------------------------------------------

\* The types, with the lock odd while words are copied (lib.rs 91-109).
THEOREM TypeCorrect == Spec => []TypeOK
<1>1. Inv => TypeOK
  BY DEF Inv
<1> QED BY <1>1, Invariance, PTL

LEMMA InvWhole == Inv => SlotIsWhole
<1> SUFFICES ASSUME Inv, writer # "zero", IsEven(slot[Lock]), slot[Lock] # 0
    PROVE  \A w \in Words \ {Lock} : slot[w] = slot[Sum]
  BY DEF SlotIsWhole
<1>1. writer = "ready"
  BY DEF Inv, TypeOK
<1> QED BY <1>1 DEF Inv, WriterInv

\* A slot with an even lock that is not zero is one whole event, for any order
\* of the stores of write_event and any death of its process.
THEOREM WholeSlots == Spec => []SlotIsWhole
BY InvWhole, Invariance, PTL

\* A copy that is accepted is the slot, if no writer was starting.
LEMMA AcceptedCopy ==
  ASSUME Inv, Accept, got' # got, ~disturbed
  PROVE  got'[Header] = got'[Sum]
<1>1. slot[Lock] = data[Lock] /\ got' = data /\ reader = "recheck"
  BY DEF Accept
<1>2. data # <<>> /\ Len(data) = 5 /\ IsEven(data[Lock]) /\ data[Lock] # 0
  BY <1>1 DEF Inv, ReaderInv, Sum
<1>3. writer # "zero" /\ data[Header] = slot[Header] /\ data[Sum] = slot[Sum]
  BY <1>1, <1>2 DEF Inv, CopyInv, Header, Sum
<1>4. Header \in Words \ {Lock}
  BY DEF Words, Lock, Header, Sum
<1>5. slot[Header] = slot[Sum]
  BY <1>1, <1>2, <1>3, <1>4, InvWhole DEF SlotIsWhole
<1> QED BY <1>1, <1>3, <1>5

LEMMA StepAccepted ==
  Inv /\ [Next]_vars => [got' # got => disturbed \/ got'[Header] = got'[Sum]]_vars
<1> SUFFICES ASSUME Inv, Next, got' # got, ~disturbed PROVE got'[Header] = got'[Sum]
  OBVIOUS
<1>1. Accept
  BY DEF Next, Writing, Reading, Begin, CopyWord, Unlock, ZeroWord, Restart,
         StartRead, ReadWord, Judge, readerVars
<1> QED BY <1>1, AcceptedCopy

\* Whatever the reader accepts while no writer starts is one event: the second
\* look at the lock also covers the header, which the checksum leaves out.
THEOREM UntornReads == Spec => AcceptedIsOneEvent
BY Invariance, StepAccepted, PTL DEF Spec, AcceptedIsOneEvent

-----------------------------------------------------------------------------
(* No event is read twice, and none after a later one.                     *)

\* A lock the reader does not take for a new event.
Spent(lock) == ~IsEven(lock) \/ lock \in {0, last_seq}

\* Event numbers only grow where the checksum is stored, through restarts too;
\* and as long as the event read last is in the slot, its lock is spent.
SlotNews ==
  /\ slot[Sum] <= event /\ got[Sum] <= event
  /\ writer = "copy" => got[Sum] < event
  /\ slot[Sum] # 0 => slot[Sum] >= got[Sum]
  /\ got[Sum] # 0 /\ slot[Sum] = got[Sum] => Spent(slot[Lock])

\* The same of the copy, whose lock was read before the rest.
CopyNews ==
  reader # "poll" =>
    /\ data # <<>> /\ got[Sum] # 0 /\ slot[Sum] = got[Sum] => Spent(data[Lock])
    /\ Len(data) = Sum =>
         /\ data[Sum] <= event
         /\ slot[Sum] # 0 => slot[Sum] >= data[Sum]
         /\ data[Sum] # 0 => data[Sum] >= got[Sum]
         /\ got[Sum] # 0 /\ data[Sum] = got[Sum] => Spent(data[Lock])
    /\ reader = "recheck" => ~Spent(data[Lock])

News == SlotNews /\ CopyNews

\* The values the steps compare.
LEMMA Values ==
  ASSUME Inv
  PROVE  /\ slot[Sum] \in Nat /\ slot[Lock] \in Nat /\ got[Sum] \in Nat /\ event \in Nat
         /\ Len(data) \in Nat /\ \A i \in 1..Len(data) : data[i] \in Nat
         /\ Lock = 1 /\ Sum = 5 /\ {Lock, Sum} \subseteq Words
<1>1. Lock = 1 /\ Sum = 5 /\ {Lock, Sum} \subseteq Words
  BY DEF Words, Lock, Sum
<1>2. slot \in [Words -> Nat] /\ got \in [Words -> Nat] /\ data \in Seq(Nat)
      /\ event \in 0..MaxEvents
  BY DEF Inv, TypeOK
<1>3. Len(data) \in Nat /\ \A i \in 1..Len(data) : data[i] \in Nat
  BY <1>2, LenProperties, ElementOfSeq
<1>4. event \in Nat
  BY <1>2, Constants
<1> QED
  BY <1>1, <1>2, <1>3, <1>4

LEMMA InitNews == Init => News
BY DEF Init, Zeroed, News, SlotNews, CopyNews, Words, Lock, Sum

\* The writer: an event that enters the slot is later than all before it.
LEMMA WriterNews ==
  ASSUME Inv, News, Writing \/ Restart
  PROVE  News'
<1>1. UNCHANGED <<reader, data, last_seq, got>>
  BY DEF Writing, Restart, Begin, CopyWord, Unlock, ZeroWord, readerVars
<1>2. CASE Begin
  <2>1. event' = event + 1 /\ writer = "ready"
    BY <1>2 DEF Begin
  <2>2. CASE write_idx = 0
    <3>1. slot' = [slot EXCEPT ![Lock] = slot[Lock] + 1] /\ IsEven(slot[Lock])
      BY <1>2, <2>1, <2>2 DEF Begin, Inv, WriterInv
    <3>2. slot'[Sum] = slot[Sum] /\ slot'[Lock] = slot[Lock] + 1
      BY <3>1, Values DEF Inv, TypeOK
    <3>3. ~IsEven(slot'[Lock])
      BY <3>1, <3>2, Values, Parity
    <3> QED
      BY <1>1, <2>1, <3>2, <3>3, Values DEF News, SlotNews, CopyNews, Spent
  <2>3. CASE write_idx # 0
    <3>1. UNCHANGED <<slot, writer>>
      BY <1>2, <2>3 DEF Begin
    <3> QED
      BY <1>1, <2>1, <3>1, Values DEF News, SlotNews, CopyNews, Spent
  <2> QED
    BY <2>2, <2>3
<1>3. CASE CopyWord
  <2>1. PICK w \in todo : slot' = [slot EXCEPT ![w] = event]
    BY <1>3 DEF CopyWord, StoreOne
  <2>2. UNCHANGED <<event, writer>> /\ writer = "copy" /\ w # Lock /\ w \in Words
    BY <1>3, <2>1 DEF CopyWord, Inv, WriterInv, TypeOK
  <2>3. slot'[Lock] = slot[Lock] /\ (slot'[Sum] = slot[Sum] \/ slot'[Sum] = event)
    BY <2>1, <2>2, Values DEF Inv, TypeOK
  <2> QED
    BY <1>1, <2>2, <2>3, Values DEF News, SlotNews, CopyNews, Spent
<1>4. CASE Unlock
  <2>1. /\ writer = "copy" /\ todo = {} /\ writer' = "ready" /\ event' = event
        /\ slot' = [slot EXCEPT ![Lock] = 2 * (slot[Lock] \div 2) + 2]
    BY <1>4 DEF Unlock
  <2>2. slot'[Sum] = slot[Sum] /\ slot[Sum] = event
    BY <2>1, Values DEF Inv, TypeOK, WriterInv
  <2> QED
    BY <1>1, <2>1, <2>2, Values DEF News, SlotNews, CopyNews, Spent
<1>5. CASE ZeroWord
  <2>1. PICK w \in todo : slot' = [slot EXCEPT ![w] = 0]
    BY <1>5 DEF ZeroWord, StoreOne
  <2>2. UNCHANGED event /\ writer' # "copy"
    BY <1>5 DEF ZeroWord
  <2>3. (slot'[Sum] = slot[Sum] \/ slot'[Sum] = 0) /\ (slot'[Lock] = slot[Lock] \/ slot'[Lock] = 0)
    BY <2>1, Values DEF Inv, TypeOK
  <2> QED
    BY <1>1, <2>2, <2>3, Values DEF News, SlotNews, CopyNews, Spent
<1>6. CASE Restart
  <2>1. UNCHANGED <<slot, event>> /\ writer' = "zero"
    BY <1>6 DEF Restart
  <2> QED
    BY <1>1, <2>1, Values DEF News, SlotNews, CopyNews, Spent
<1> QED
  BY <1>2, <1>3, <1>4, <1>5, <1>6 DEF Writing

\* The reader's copy: the lock first, the checksum last.
LEMMA ReadWordNews ==
  ASSUME Inv, News, ReadWord
  PROVE  News'
<1>1. /\ reader = "copy" /\ Len(data) < Sum /\ data' = Append(data, slot[Len(data) + 1])
      /\ UNCHANGED <<slot, writer, event, reader, last_seq, got>>
  BY DEF ReadWord, writerVars
<1>2. PICK n \in 0..4 : n = Len(data)
  <2>1. Len(data) \in Nat /\ Len(data) < 5
    BY <1>1, Values
  <2>2. PICK l \in Nat : l = Len(data)
    BY <2>1
  <2>3. l \in 0..4
    BY <2>1, <2>2
  <2> QED
    BY <2>2, <2>3
<1>3. slot[n + 1] \in Nat /\ data \in Seq(Nat)
  <2>1. n + 1 \in Words
    BY DEF Words, Lock, Sum
  <2> QED
    BY <2>1 DEF Inv, TypeOK
<1>4. /\ Len(data') = n + 1 /\ data'[n + 1] = slot[n + 1] /\ data' # <<>>
      /\ \A i \in 1..n : data'[i] = data[i]
  BY <1>1, <1>2, <1>3
<1>5. got[Sum] # 0 /\ slot[Sum] = got[Sum] => Spent(data'[Lock])
  <2>1. CASE n = 0
    BY <1>4, <2>1, Values DEF News, SlotNews
  <2>2. CASE n # 0
    <3>1. data # <<>> /\ data'[Lock] = data[Lock]
      BY <1>2, <1>4, <2>2, Values
    <3> QED
      BY <1>1, <3>1 DEF News, CopyNews
  <2> QED
    BY <2>1, <2>2
<1>6. Len(data') = Sum => data'[Sum] = slot[Sum]
  BY <1>4, Values
<1>7. SlotNews'
  BY <1>1 DEF News, SlotNews, Spent
<1>8. CopyNews'
  BY <1>1, <1>5, <1>6, Values DEF News, SlotNews, CopyNews, Spent
<1> QED
  BY <1>7, <1>8 DEF News

\* What is accepted under an even lock that is not spent is not the event read
\* last, and its lock is spent from then on.
LEMMA AcceptNews ==
  ASSUME Inv, News, Accept
  PROVE  News' /\ (reads' > reads /\ ChecksumHolds(data) => data[Sum] > got[Sum])
<1>1. /\ reader = "recheck" /\ reader' = "poll" /\ UNCHANGED <<slot, writer, event>>
      /\ Len(data) = Sum /\ IsEven(data[Lock])
  BY DEF Accept, writerVars, Inv, ReaderInv
<1>2. ~Spent(data[Lock]) /\ data[Sum] \in Nat /\ data[Lock] \in Nat /\ reads \in Nat
  BY <1>1, Values, Constants DEF News, CopyNews, Inv, TypeOK
<1>3. CASE slot[Lock] # data[Lock]
  <2>1. UNCHANGED <<last_seq, reads, got>>
    BY <1>3 DEF Accept
  <2> QED
    BY <1>1, <1>2, <2>1 DEF News, SlotNews, CopyNews, Spent
<1>4. CASE slot[Lock] = data[Lock]
  <2>1. last_seq' = slot[Lock] /\ got' = (IF ChecksumHolds(data) THEN data ELSE got)
    BY <1>4 DEF Accept
  <2>2. writer # "copy"
    BY <1>1, <1>4 DEF Inv, TypeOK
  <2>3. /\ data[Sum] <= event /\ (slot[Sum] # 0 => slot[Sum] >= data[Sum])
        /\ (data[Sum] # 0 => data[Sum] >= got[Sum])
        /\ (got[Sum] # 0 => data[Sum] # got[Sum])
    BY <1>1, <1>2 DEF News, CopyNews
  <2>4. SlotNews'
    <3>1. got'[Sum] \in {got[Sum], data[Sum]}
      BY <2>1
    <3> QED
      BY <1>1, <2>1, <2>2, <2>3, <3>1 DEF News, SlotNews, Spent
  <2>5. ChecksumHolds(data) => data[Sum] > got[Sum]
    BY <1>2, <2>3, Values DEF ChecksumHolds
  <2> QED
    BY <1>1, <2>4, <2>5 DEF News, CopyNews
<1> QED
  BY <1>3, <1>4

LEMMA StepNews ==
  ASSUME Inv, News, [Next]_vars
  PROVE  News' /\ [reads' > reads /\ ChecksumHolds(data) => data[Sum] > got[Sum]]_vars
<1>1. CASE Writing \/ Restart
  <2>1. reads' = reads
    BY <1>1 DEF Writing, Restart, Begin, CopyWord, Unlock, ZeroWord, readerVars
  <2> QED
    BY <1>1, <2>1, WriterNews, Constants DEF Inv, TypeOK
<1>2. CASE StartRead
  <2>1. /\ UNCHANGED <<slot, writer, event, got, last_seq, reads>>
        /\ reader' = "copy" /\ data' = <<>>
    BY <1>2 DEF StartRead, writerVars
  <2> QED
    BY <2>1, Values, Constants DEF News, SlotNews, CopyNews, Spent, Inv, TypeOK
<1>3. CASE ReadWord
  <2>1. reads' = reads
    BY <1>3 DEF ReadWord
  <2> QED
    BY <1>3, <2>1, ReadWordNews, Constants DEF Inv, TypeOK
<1>4. CASE Judge
  <2>1. /\ UNCHANGED <<slot, writer, event, got, last_seq, reads, data>> /\ reader = "copy"
        /\ reader' = IF ~Spent(data[Lock]) THEN "recheck" ELSE "poll"
    BY <1>4 DEF Judge, writerVars, Spent
  <2> QED
    BY <2>1, Constants DEF News, SlotNews, CopyNews, Spent, Inv, TypeOK
<1>5. CASE Accept
  BY <1>5, AcceptNews
<1>6. CASE UNCHANGED vars
  BY <1>6 DEF vars, writerVars, readerVars, News, SlotNews, CopyNews, Spent
<1> QED
  BY <1>1, <1>2, <1>3, <1>4, <1>5, <1>6 DEF Next, Reading

\* The reader never accepts an event it has accepted, or an earlier one: the
\* comparison with last_seq is enough, although a restarted writer counts its
\* lock from zero again, since an event keeps its lock while it is in the slot.
THEOREM ReadsGoForward == Spec => ReadsAdvance
<1>1. Inv /\ News /\ [Next]_vars => News'
  BY StepNews
<1>2. Inv /\ News /\ [Next]_vars =>
        [reads' > reads /\ ChecksumHolds(data) => data[Sum] > got[Sum]]_vars
  BY StepNews
<1> QED
  BY <1>1, <1>2, InitNews, Invariance, PTL DEF Spec, ReadsAdvance
===============================================================================
