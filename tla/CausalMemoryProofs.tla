-------------------------- MODULE CausalMemoryProofs --------------------------
(***************************************************************************)
(* The causal event log: its chain of hashes and what a query finds in it, *)
(* for every value of the constants.                                       *)
(***************************************************************************)
EXTENDS CausalMemory, Integers, SequenceTheorems, TLAPS

LEMMA Constants ==
  BatchSize \in Nat /\ BatchSize >= 1 /\ MaxEvents \in Nat /\ MaxFailures \in Nat /\ MaxCrashes \in Nat
<1>1. {MaxEvents, MaxFailures, MaxCrashes} \subseteq Nat /\ BatchSize \in Nat \ {0}
  BY CausalAssumption
<1> QED
  BY <1>1

-----------------------------------------------------------------------------
(* The names in a sequence of events.                                      *)

LEMMA IdsOfConcat ==
  ASSUME NEW s \in Seq(Event), NEW t \in Seq(Event)
  PROVE  Ids(s \o t) = Ids(s) \cup Ids(t)
<1>1. /\ Len(s) \in Nat /\ DOMAIN s = 1..Len(s) /\ Len(t) \in Nat /\ DOMAIN t = 1..Len(t)
  BY LenProperties
<1>2. /\ s \o t \in Seq(Event) /\ Len(s \o t) = Len(s) + Len(t)
      /\ \A i \in 1..(Len(s) + Len(t)) : (s \o t)[i] = IF i <= Len(s) THEN s[i] ELSE t[i - Len(s)]
  BY ConcatProperties
<1>3. DOMAIN (s \o t) = 1..(Len(s) + Len(t))
  BY <1>2, LenProperties
<1>4. ASSUME NEW i \in DOMAIN (s \o t) PROVE (s \o t)[i].id \in Ids(s) \cup Ids(t)
  <2>1. CASE i <= Len(s)
    BY <1>1, <1>2, <1>3, <1>4, <2>1 DEF Ids
  <2>2. CASE ~(i <= Len(s))
    <3>1. i - Len(s) \in DOMAIN t /\ (s \o t)[i] = t[i - Len(s)]
      BY <1>1, <1>2, <1>3, <2>2
    <3> QED
      BY <3>1 DEF Ids
  <2> QED
    BY <2>1, <2>2
<1>5. ASSUME NEW i \in DOMAIN s PROVE s[i].id \in Ids(s \o t)
  <2>1. i \in DOMAIN (s \o t) /\ (s \o t)[i] = s[i]
    BY <1>1, <1>2, <1>3
  <2> QED
    BY <2>1 DEF Ids
<1>6. ASSUME NEW i \in DOMAIN t PROVE t[i].id \in Ids(s \o t)
  <2>1. Len(s) + i \in 1..(Len(s) + Len(t)) /\ ~(Len(s) + i <= Len(s)) /\ (Len(s) + i) - Len(s) = i
    BY <1>1
  <2>2. Len(s) + i \in DOMAIN (s \o t) /\ (s \o t)[Len(s) + i] = t[i]
    BY <1>2, <1>3, <2>1
  <2> QED
    BY <2>2 DEF Ids
<1> QED
  BY <1>4, <1>5, <1>6 DEF Ids

LEMMA IdsOfAppend ==
  ASSUME NEW s \in Seq(Event), NEW e \in Event
  PROVE  Ids(s) \subseteq Ids(Append(s, e))
<1>1. /\ Len(s) \in Nat /\ DOMAIN s = 1..Len(s) /\ Append(s, e) \in Seq(Event)
      /\ Len(Append(s, e)) = Len(s) + 1 /\ \A i \in 1..Len(s) : Append(s, e)[i] = s[i]
  BY LenProperties, AppendProperties
<1>2. DOMAIN Append(s, e) = 1..(Len(s) + 1)
  BY <1>1, LenProperties
<1> QED
  BY <1>1, <1>2 DEF Ids

LEMMA IdsOfNothing == Ids(<<>>) = {}
<1>1. DOMAIN <<>> = {}
  OBVIOUS
<1> QED
  BY <1>1 DEF Ids

LEMMA IdsAreNumbers ==
  ASSUME NEW s \in Seq(Event)
  PROVE  Ids(s) \subseteq 1..MaxEvents
<1>1. \A i \in DOMAIN s : s[i] \in Event
  BY LenProperties, ElementOfSeq
<1> QED
  BY <1>1 DEF Ids, Event

-----------------------------------------------------------------------------
(* The log, and what every step makes of it.                               *)

Log == table \o batch \o buffer

Sequences3 == table \in Seq(Event) /\ batch \in Seq(Event) /\ buffer \in Seq(Event)

DataOK ==
  /\ Sequences3
  /\ pointer \in 0..MaxEvents /\ next \in 1..(MaxEvents + 1)
  /\ phase \in {"idle", "begin", "insert", "rollback", "commit"}
  /\ phase = "idle" <=> batch = <<>>

Everything == Ids(table) \cup Ids(batch) \cup Ids(buffer)

\* A step takes nothing away from the log, the flush or the table.
Grows ==
  /\ Everything \subseteq Everything' /\ Ids(table) \subseteq Ids(table)'
  /\ phase # "idle" => phase' # "idle" /\ Ids(batch) \subseteq Ids(batch)'

LEMMA LogIsSeq ==
  ASSUME DataOK
  PROVE  Log \in Seq(Event) /\ Ids(Log) = Everything
<1>1. table \o batch \in Seq(Event)
  BY ConcatProperties DEF DataOK, Sequences3
<1>2. Log \in Seq(Event)
  BY <1>1, ConcatProperties DEF DataOK, Sequences3, Log
<1> QED
  BY <1>1, <1>2, IdsOfConcat DEF DataOK, Sequences3, Log, Everything

\* A flush that starts takes the buffer as it is.
LEMMA StartFlushData ==
  ASSUME DataOK, phase = "idle", NEW events \in Seq(Event), events # <<>>,
         Ids(buffer) \subseteq Ids(events), StartFlush(events), UNCHANGED table
  PROVE  /\ Sequences3' /\ phase' = "begin" /\ batch' # <<>>
         /\ Grows /\ Everything' = Ids(table) \cup Ids(events) /\ Ids(batch)' = Ids(events)
         /\ Log' = table \o events
<1>1. phase' = "begin" /\ batch' = events /\ buffer' = <<>> /\ table' = table /\ batch = <<>>
  BY DEF DataOK, StartFlush
<1>2. <<>> \in Seq(Event)
  BY EmptySeq
<1>3. table \o events \in Seq(Event)
  BY ConcatProperties DEF DataOK, Sequences3
<1>4. Log' = table \o events
  BY <1>1, <1>3, ConcatEmptySeq DEF Log
<1>5. Ids(batch) = {} /\ Ids(buffer)' = {} /\ Ids(batch)' = Ids(events) /\ Ids(table)' = Ids(table)
  BY <1>1, IdsOfNothing DEF Ids
<1>6. Everything' = Ids(table) \cup Ids(events)
  BY <1>5 DEF Everything
<1> QED
  BY <1>1, <1>2, <1>4, <1>5, <1>6 DEF DataOK, Sequences3, Grows, Everything

\* The buffer itself is flushed.
LEMMA FlushBuffer ==
  ASSUME DataOK, phase = "idle", buffer # <<>>, StartFlush(buffer), UNCHANGED <<table, pointer, next>>
  PROVE  /\ DataOK' /\ Grows /\ Log' = Log /\ phase' = "begin"
         /\ Everything' = Everything /\ Ids(batch)' = Ids(buffer)
<1>1. /\ Sequences3' /\ phase' = "begin" /\ batch' # <<>> /\ Grows
      /\ Everything' = Ids(table) \cup Ids(buffer) /\ Ids(batch)' = Ids(buffer)
      /\ Log' = table \o buffer
  BY StartFlushData DEF DataOK, Sequences3
<1>2. batch = <<>> /\ Ids(batch) = {} /\ table \o batch = table
  BY ConcatEmptySeq, IdsOfNothing DEF DataOK, Sequences3
<1> QED
  BY <1>1, <1>2 DEF DataOK, Log, Everything

\* One more event is at the end of the log, whether or not it fills the buffer.
LEMMA AcceptData ==
  ASSUME DataOK, NEW prev \in 0..MaxEvents, Accept(prev), UNCHANGED table
  PROVE  /\ DataOK' /\ Grows /\ pointer' = next
         /\ [id |-> next, prev |-> prev] \in Event
         /\ Log' = Append(Log, [id |-> next, prev |-> prev])
<1> DEFINE event == [id |-> next, prev |-> prev]
           more == Append(buffer, event)
<1>1. /\ next <= MaxEvents /\ next' = next + 1 /\ pointer' = next
      /\ \/ phase = "idle" /\ StartFlush(more)
         \/ buffer' = more /\ UNCHANGED <<phase, batch>>
  BY DEF Accept
<1>2. next' \in 1..(MaxEvents + 1) /\ pointer' \in 0..MaxEvents /\ next \in 1..MaxEvents
  BY <1>1, Constants DEF DataOK
<1>3. event \in Event
  BY <1>2 DEF Event
<1> HIDE DEF event
<1>4. more \in Seq(Event) /\ more # <<>> /\ Ids(buffer) \subseteq Ids(more)
  BY <1>3, AppendProperties, IdsOfAppend DEF DataOK, Sequences3
<1>5. table \o batch \in Seq(Event) /\ <<event>> \in Seq(Event) /\ buffer \in Seq(Event)
  BY <1>3, ConcatProperties DEF DataOK, Sequences3
<1>6. (table \o batch) \o more = Append(Log, event)
  <2>1. more = buffer \o <<event>>
    BY <1>3, AppendIsConcat DEF DataOK, Sequences3
  <2>2. Append(Log, event) = Log \o <<event>>
    BY <1>3, LogIsSeq, AppendIsConcat
  <2>3. ((table \o batch) \o buffer) \o <<event>> = (table \o batch) \o (buffer \o <<event>>)
    BY <1>5, ConcatAssociative
  <2> QED
    BY <2>1, <2>2, <2>3 DEF Log
<1> HIDE DEF more
<1>7. CASE phase = "idle" /\ StartFlush(more)
  <2>1. /\ Sequences3' /\ phase' = "begin" /\ batch' # <<>> /\ Grows /\ Log' = table \o more
    BY <1>4, <1>7, StartFlushData
  <2>2. table \o batch = table
    BY <1>7, ConcatEmptySeq DEF DataOK, Sequences3
  <2> QED
    BY <1>1, <1>2, <1>3, <1>6, <2>1, <2>2 DEF DataOK, event
<1>8. CASE buffer' = more /\ UNCHANGED <<phase, batch>>
  <2>1. Log' = Append(Log, event)
    BY <1>6, <1>8 DEF Log
  <2>2. Ids(buffer)' = Ids(more) /\ Ids(table)' = Ids(table) /\ Ids(batch)' = Ids(batch)
    BY <1>8 DEF Ids
  <2>3. Grows
    BY <1>4, <1>8, <2>2 DEF Grows, Everything
  <2>4. Sequences3'
    BY <1>4, <1>8 DEF Sequences3, DataOK
  <2> QED
    BY <1>1, <1>2, <1>3, <1>8, <2>1, <2>3, <2>4 DEF DataOK, event
<1> QED
  BY <1>1, <1>7, <1>8

\* A failed flush puts its batch back in front of what came meanwhile.
LEMMA FailedData ==
  ASSUME DataOK, FlushFailed, UNCHANGED <<table, pointer, next>>
  PROVE  DataOK' /\ Log' = Log /\ Everything' = Everything /\ Ids(table)' = Ids(table)
<1>1. buffer' = batch \o buffer /\ batch' = <<>> /\ phase' = "idle" /\ table' = table
  BY DEF FlushFailed
<1>2. batch \o buffer \in Seq(Event) /\ <<>> \in Seq(Event)
  BY ConcatProperties, EmptySeq DEF DataOK, Sequences3
<1>3. DataOK'
  BY <1>1, <1>2 DEF DataOK, Sequences3
<1>4. Log' = Log
  <2>1. table \o <<>> = table
    BY ConcatEmptySeq DEF DataOK, Sequences3
  <2>2. (table \o batch) \o buffer = table \o (batch \o buffer)
    BY ConcatAssociative DEF DataOK, Sequences3
  <2> QED
    BY <1>1, <2>1, <2>2 DEF Log
<1>5. Ids(buffer)' = Ids(batch) \cup Ids(buffer) /\ Ids(batch)' = {} /\ Ids(table)' = Ids(table)
  <2>1. Ids(batch \o buffer) = Ids(batch) \cup Ids(buffer)
    BY IdsOfConcat DEF DataOK, Sequences3
  <2> QED
    BY <1>1, <2>1, IdsOfNothing DEF Ids
<1> QED
  BY <1>3, <1>4, <1>5 DEF Everything

LEMMA CommitData ==
  ASSUME DataOK, Commit
  PROVE  /\ DataOK' /\ Log' = Log /\ Everything' = Everything
         /\ Ids(table)' = Ids(table) \cup Ids(batch)
<1>1. table' = table \o batch /\ batch' = <<>> /\ phase' = "idle" /\ UNCHANGED <<buffer, pointer, next>>
  BY DEF Commit
<1>2. table \o batch \in Seq(Event) /\ <<>> \in Seq(Event)
  BY ConcatProperties, EmptySeq DEF DataOK, Sequences3
<1>3. DataOK'
  BY <1>1, <1>2 DEF DataOK, Sequences3
<1>4. Log' = Log
  <2>1. (table \o batch) \o <<>> = table \o batch
    BY <1>2, ConcatEmptySeq
  <2> QED
    BY <1>1, <2>1 DEF Log
<1>5. Ids(table)' = Ids(table) \cup Ids(batch) /\ Ids(batch)' = {} /\ Ids(buffer)' = Ids(buffer)
  <2>1. Ids(table \o batch) = Ids(table) \cup Ids(batch)
    BY IdsOfConcat DEF DataOK, Sequences3
  <2> QED
    BY <1>1, <2>1, IdsOfNothing DEF Ids
<1> QED
  BY <1>3, <1>4, <1>5 DEF Everything

LEMMA SameData ==
  ASSUME DataOK, UNCHANGED <<table, batch, buffer, pointer, next>>,
         phase' \in {"idle", "begin", "insert", "rollback", "commit"},
         phase' = "idle" <=> phase = "idle"
  PROVE  DataOK' /\ Grows /\ Log' = Log /\ Everything' = Everything
BY DEF DataOK, Sequences3, Grows, Log, Everything, Ids

-----------------------------------------------------------------------------
(* The calls.                                                              *)

\* What a call must find is in the log; in the flush it started, or in the table,
\* from where it will look for it.
Fresh(x) ==
  /\ x.known \subseteq Everything
  /\ x.at = "started" => phase # "idle" /\ x.known \subseteq Ids(table) \cup Ids(batch)
  /\ x.at \in {"read", "select"} => x.known \subseteq Ids(table)

CallsOK == calls \in [Callers -> Call] /\ \A c \in Callers : Fresh(calls[c])

Bounds == failures \in 0..MaxFailures /\ crashes \in 0..MaxCrashes

IInv == DataOK /\ CallsOK /\ Bounds

LEMMA TypesHold == IInv => TypeOK
BY DEF IInv, DataOK, Sequences3, CallsOK, Bounds, TypeOK

LEMMA CallFields ==
  ASSUME CallsOK, NEW c \in Callers
  PROVE  /\ calls[c] \in Call /\ Fresh(calls[c])
         /\ calls[c].at \in {"idle", "flush", "joined", "started", "read", "append", "select"}
         /\ calls[c].second \in BOOLEAN /\ calls[c].known \subseteq 1..MaxEvents
         /\ calls[c].prev \in 0..MaxEvents /\ calls[c].last \in 0..MaxEvents
BY DEF CallsOK, Call

LEMMA NoCallIsFresh ==
  NoCall \in Call /\ Fresh(NoCall) /\ NoCall.at = "idle" /\ NoCall.known = {}
BY Constants DEF NoCall, Call, Fresh, Genesis

\* A call that does not move stays fresh when the log grows.
LEMMA GrowthKeepsFresh ==
  ASSUME Grows, NEW x, Fresh(x)
  PROVE  Fresh(x)'
BY DEF Grows, Fresh

LEMMA CallsRest ==
  ASSUME CallsOK, Grows, UNCHANGED calls
  PROVE  CallsOK'
<1>1. \A c \in Callers : Fresh(calls[c])'
  <2> SUFFICES ASSUME NEW c \in Callers PROVE Fresh(calls[c])'
    OBVIOUS
  <2>1. PICK x : x = calls[c]
    OBVIOUS
  <2>2. Fresh(x)'
    BY <2>1, GrowthKeepsFresh DEF CallsOK
  <2>3. calls'[c] = x
    BY <2>1
  <2> QED
    BY <2>2, <2>3 DEF Fresh
<1> QED
  BY <1>1 DEF CallsOK, Callers

\* One call moves to x.
LEMMA CallMoves ==
  ASSUME CallsOK, Grows, NEW c \in Callers, NEW x \in Call, Fresh(x)',
         calls' = [calls EXCEPT ![c] = x]
  PROVE  CallsOK'
<1>1. calls' \in [Callers -> Call]
  BY DEF CallsOK
<1>2. \A d \in Callers : Fresh(calls[d])'
  <2> SUFFICES ASSUME NEW d \in Callers PROVE Fresh(calls[d])'
    OBVIOUS
  <2>1. CASE d = c
    <3>1. calls'[d] = x
      BY <2>1 DEF CallsOK
    <3> QED
      BY <3>1 DEF Fresh
  <2>2. CASE d # c
    <3>1. PICK y : y = calls[d]
      OBVIOUS
    <3>2. Fresh(y)'
      BY <3>1, GrowthKeepsFresh DEF CallsOK
    <3>3. calls'[d] = y
      BY <2>2, <3>1 DEF CallsOK
    <3> QED
      BY <3>2, <3>3 DEF Fresh
  <2> QED
    BY <2>1, <2>2
<1> QED
  BY <1>1, <1>2 DEF CallsOK, Callers

\* The end of a flush.  Nobody is between two of its steps: who started it finds
\* all it must in the table, who joined it goes round again.
LEMMA FlushEnds ==
  ASSUME CallsOK, Drained, NEW ok \in BOOLEAN, calls' = Released(ok),
         Everything' = Everything, Ids(table) \subseteq Ids(table)',
         ok => Ids(table) \cup Ids(batch) \subseteq Ids(table)'
  PROVE  CallsOK'
<1>1. \A c \in Callers : calls'[c] \in Call /\ Fresh(calls[c])'
  <2> SUFFICES ASSUME NEW c \in Callers PROVE calls'[c] \in Call /\ Fresh(calls[c])'
    OBVIOUS
  <2>1. /\ calls[c] \in Call /\ Fresh(calls[c])
        /\ calls[c].at \in {"idle", "joined", "started", "select"}
    BY CallFields DEF Drained
  <2>2. calls'[c] = IF calls[c].at \notin {"joined", "started"} THEN calls[c]
                    ELSE IF ~ok THEN NoCall
                    ELSE [calls[c] EXCEPT !.at = IF @ = "joined" THEN "flush" ELSE "read"]
    BY DEF Released
  <2>3. CASE calls[c].at \in {"idle", "select"}
    <3>1. calls'[c] = calls[c]
      BY <2>2, <2>3
    <3> QED
      BY <2>1, <2>3, <3>1 DEF Fresh
  <2>4. CASE calls[c].at \in {"joined", "started"} /\ ~ok
    <3>1. calls'[c] = NoCall
      BY <2>2, <2>4
    <3> QED
      BY <3>1, NoCallIsFresh DEF Fresh
  <2>5. CASE calls[c].at = "joined" /\ ok
    <3>1. calls'[c] = [calls[c] EXCEPT !.at = "flush"]
      BY <2>2, <2>5
    <3>2. calls'[c] \in Call /\ calls'[c].at = "flush" /\ calls'[c].known = calls[c].known
      BY <2>1, <3>1 DEF Call
    <3> QED
      BY <2>1, <3>2 DEF Fresh
  <2>6. CASE calls[c].at = "started" /\ ok
    <3>1. calls'[c] = [calls[c] EXCEPT !.at = "read"]
      BY <2>2, <2>6
    <3>2. calls'[c] \in Call /\ calls'[c].at = "read" /\ calls'[c].known = calls[c].known
      BY <2>1, <3>1 DEF Call
    <3> QED
      BY <2>1, <2>6, <3>2 DEF Fresh
  <2> QED
    BY <2>1, <2>3, <2>4, <2>5, <2>6
<1>2. calls' = [c \in Callers |-> calls'[c]]
  BY DEF Released
<1> QED
  BY <1>1, <1>2 DEF CallsOK, Callers

-----------------------------------------------------------------------------
(* The steps.                                                              *)

LEMMA EnterFlushStep ==
  ASSUME IInv, NEW c \in Callers, EnterFlush(c)
  PROVE  IInv' /\ Log' = Log
<1> DEFINE goto(at) == [calls[c] EXCEPT !.at = at]
<1>1. calls[c] \in Call /\ Fresh(calls[c]) /\ calls \in [Callers -> Call]
  BY CallFields DEF IInv, CallsOK
<1>2. calls[c].at = "flush" /\ UNCHANGED <<table, pointer, next, failures, crashes>>
  BY DEF EnterFlush
<1>3. \A at \in {"joined", "read", "started"} :
        /\ goto(at) \in Call /\ goto(at).at = at /\ goto(at).known = calls[c].known
        /\ [calls EXCEPT ![c].at = at] = [calls EXCEPT ![c] = goto(at)]
  BY <1>1 DEF Call
<1>4. CASE phase # "idle" /\ calls' = [calls EXCEPT ![c].at = "joined"] /\ UNCHANGED <<phase, batch, buffer>>
  <2>1. DataOK' /\ Grows /\ Log' = Log /\ Everything' = Everything
    BY <1>2, <1>4, SameData DEF IInv, DataOK
  <2>2. PICK x : x = goto("joined")
    OBVIOUS
  <2>3. x \in Call /\ Fresh(x)' /\ calls' = [calls EXCEPT ![c] = x]
    BY <1>1, <1>3, <1>4, <2>1, <2>2 DEF Fresh
  <2>4. CallsOK'
    BY <2>1, <2>3, CallMoves DEF IInv
  <2> QED
    BY <1>2, <2>1, <2>4 DEF IInv, Bounds
<1>5. CASE phase = "idle" /\ buffer = <<>> /\ calls' = [calls EXCEPT ![c].at = "read"]
           /\ UNCHANGED <<phase, batch, buffer>>
  <2>1. DataOK' /\ Grows /\ Log' = Log /\ Everything' = Everything
    BY <1>2, <1>5, SameData DEF IInv, DataOK
  <2>2. PICK x : x = goto("read")
    OBVIOUS
  <2>3. Everything = Ids(table) /\ Ids(table)' = Ids(table)
    BY <1>2, <1>5, IdsOfNothing DEF IInv, DataOK, Everything, Ids
  <2>4. x \in Call /\ Fresh(x)' /\ calls' = [calls EXCEPT ![c] = x]
    BY <1>1, <1>3, <1>5, <2>1, <2>2, <2>3 DEF Fresh
  <2>5. CallsOK'
    BY <2>1, <2>4, CallMoves DEF IInv
  <2> QED
    BY <1>2, <2>1, <2>5 DEF IInv, Bounds
<1>6. CASE phase = "idle" /\ buffer # <<>> /\ calls' = [calls EXCEPT ![c].at = "started"]
           /\ StartFlush(buffer)
  <2>1. /\ DataOK' /\ Grows /\ Log' = Log /\ phase' = "begin"
        /\ Everything' = Everything /\ Ids(batch)' = Ids(buffer)
    BY <1>2, <1>6, FlushBuffer DEF IInv
  <2>2. PICK x : x = goto("started")
    OBVIOUS
  <2>3. Everything = Ids(table) \cup Ids(buffer) /\ Ids(table)' = Ids(table)
    BY <1>2, <1>6, IdsOfNothing DEF IInv, DataOK, Everything, Ids
  <2>4. x \in Call /\ Fresh(x)' /\ calls' = [calls EXCEPT ![c] = x]
    BY <1>1, <1>3, <1>6, <2>1, <2>2, <2>3 DEF Fresh
  <2>5. CallsOK'
    BY <2>1, <2>4, CallMoves DEF IInv
  <2> QED
    BY <1>2, <2>1, <2>5 DEF IInv, Bounds
<1> QED
  BY <1>4, <1>5, <1>6 DEF EnterFlush

\* A call that moves while the log stays.
LEMMA CallStep ==
  ASSUME IInv, NEW c \in Callers, NEW x \in Call, Fresh(x), calls' = [calls EXCEPT ![c] = x],
         UNCHANGED <<table, batch, buffer, pointer, phase, next, failures, crashes>>
  PROVE  IInv' /\ Log' = Log
<1>1. DataOK' /\ Grows /\ Log' = Log
  BY SameData DEF IInv, DataOK
<1>2. Fresh(x)'
  BY <1>1, GrowthKeepsFresh
<1>3. CallsOK'
  BY <1>1, <1>2, CallMoves DEF IInv
<1> QED
  BY <1>1, <1>3 DEF IInv, Bounds

LEMMA FlushSteps ==
  ASSUME IInv, TimerFlush \/ Flushing
  PROVE  IInv' /\ Log' = Log
<1>1. CASE TimerFlush
  <2>1. /\ phase = "idle" /\ buffer # <<>> /\ StartFlush(buffer)
        /\ UNCHANGED <<table, pointer, calls, next, failures, crashes>>
    BY <1>1 DEF TimerFlush
  <2>2. DataOK' /\ Grows /\ Log' = Log
    BY <2>1, FlushBuffer DEF IInv
  <2> QED
    BY <2>1, <2>2, CallsRest DEF IInv, Bounds
<1>2. CASE Begin \/ InsertBatch \/ InsertFails
  <2>1. /\ UNCHANGED <<table, batch, buffer, pointer, calls, next, crashes>>
        /\ phase # "idle" /\ phase' \in {"insert", "commit", "rollback"}
        /\ failures' = failures \/ (failures < MaxFailures /\ failures' = failures + 1)
    BY <1>2 DEF Begin, InsertBatch, InsertFails
  <2>2. DataOK' /\ Grows /\ Log' = Log
    BY <2>1, SameData DEF IInv
  <2>3. Bounds'
    BY <2>1, Constants DEF IInv, Bounds
  <2> QED
    BY <2>1, <2>2, <2>3, CallsRest DEF IInv
<1>3. CASE Rollback \/ BeginFails \/ CommitFails
  <2>1. /\ Drained /\ FlushFailed /\ UNCHANGED <<table, pointer, next, crashes>>
        /\ failures' = failures \/ (failures < MaxFailures /\ failures' = failures + 1)
    BY <1>3 DEF Rollback, BeginFails, CommitFails, TransactionFails
  <2>2. DataOK' /\ Log' = Log /\ Everything' = Everything /\ Ids(table)' = Ids(table)
    BY <2>1, FailedData DEF IInv
  <2>3. CallsOK'
    BY <2>1, <2>2, FlushEnds DEF IInv, FlushFailed
  <2>4. Bounds'
    BY <2>1, Constants DEF IInv, Bounds
  <2> QED
    BY <2>2, <2>3, <2>4 DEF IInv
<1>4. CASE Commit
  <2>1. /\ DataOK' /\ Log' = Log /\ Everything' = Everything
        /\ Ids(table)' = Ids(table) \cup Ids(batch)
    BY <1>4, CommitData DEF IInv
  <2>2. CallsOK'
    BY <1>4, <2>1, FlushEnds DEF IInv, Commit
  <2> QED
    BY <1>4, <2>1, <2>2 DEF IInv, Bounds, Commit
<1> QED
  BY <1>1, <1>2, <1>3, <1>4 DEF Flushing

LEMMA InsertStep ==
  ASSUME IInv, Insert
  PROVE  /\ IInv' /\ pointer' = next /\ [id |-> next, prev |-> pointer] \in Event
         /\ Log' = Append(Log, [id |-> next, prev |-> pointer])
<1>1. pointer \in 0..MaxEvents /\ Accept(pointer) /\ UNCHANGED <<table, calls, failures, crashes>>
  BY DEF IInv, DataOK, Insert
<1>2. /\ DataOK' /\ Grows /\ pointer' = next /\ [id |-> next, prev |-> pointer] \in Event
      /\ Log' = Append(Log, [id |-> next, prev |-> pointer])
  BY <1>1, AcceptData DEF IInv
<1> QED
  BY <1>1, <1>2, CallsRest DEF IInv, Bounds

LEMMA AppendStep ==
  ASSUME IInv, NEW r \in Recorders, AppendEvent(r), calls[r].prev = calls[r].last
  PROVE  /\ IInv' /\ pointer' = next /\ [id |-> next, prev |-> calls[r].last] \in Event
         /\ Log' = Append(Log, [id |-> next, prev |-> calls[r].last])
<1>1. r \in Callers /\ calls[r].prev \in 0..MaxEvents
  BY CallFields DEF Callers, IInv
<1>2. Accept(calls[r].prev) /\ UNCHANGED <<table, failures, crashes>>
      /\ calls' = [calls EXCEPT ![r] = NoCall]
  BY DEF AppendEvent
<1>3. /\ DataOK' /\ Grows /\ pointer' = next /\ [id |-> next, prev |-> calls[r].prev] \in Event
      /\ Log' = Append(Log, [id |-> next, prev |-> calls[r].prev])
  BY <1>1, <1>2, AcceptData DEF IInv
<1>4. PICK x : x = NoCall
  OBVIOUS
<1>5. x \in Call /\ Fresh(x)'
  BY <1>3, <1>4, NoCallIsFresh, GrowthKeepsFresh
<1>6. CallsOK'
  BY <1>1, <1>2, <1>3, <1>4, <1>5, CallMoves DEF IInv
<1> QED
  BY <1>2, <1>3, <1>6 DEF IInv, Bounds

\* The rest of a recorder leaves the log as it is.
LEMMA RecorderStep ==
  ASSUME IInv, NEW r \in Recorders, Recording(r),
         ~(AppendEvent(r) /\ calls[r].prev = calls[r].last)
  PROVE  IInv' /\ Log' = Log
<1>1. r \in Callers /\ calls[r] \in Call /\ Fresh(calls[r]) /\ pointer \in 0..MaxEvents
  BY CallFields DEF Callers, IInv, DataOK
<1>2. CASE CallRecord(r)
  <2> DEFINE x == [NoCall EXCEPT !.at = "flush"]
  <2>1. PICK none : none = NoCall
    OBVIOUS
  <2>2. x \in Call /\ x.at = "flush" /\ x.known = {}
    BY <2>1, NoCallIsFresh DEF Call
  <2>3. Fresh(x)
    <3> HIDE DEF x
    <3> QED
      BY <2>2 DEF Fresh
  <2> QED
    BY <1>1, <1>2, <2>2, <2>3, CallStep DEF CallRecord
<1>3. CASE EnterFlush(r)
  BY <1>1, <1>3, EnterFlushStep
<1>4. CASE ReadHash(r)
  <2> DEFINE x == IF calls[r].second THEN [calls[r] EXCEPT !.at = "append", !.last = pointer]
                  ELSE [calls[r] EXCEPT !.at = "flush", !.second = TRUE, !.prev = pointer]
  <2>1. x \in Call /\ x.known = calls[r].known /\ x.at \in {"append", "flush"}
    BY <1>1 DEF Call
  <2>2. Fresh(x)
    <3> HIDE DEF x
    <3> QED
      BY <1>1, <2>1 DEF Fresh
  <2>3. calls' = [calls EXCEPT ![r] = x]
        /\ UNCHANGED <<table, batch, buffer, pointer, phase, next, failures, crashes>>
    BY <1>1, <1>4 DEF ReadHash, IInv, CallsOK
  <2> HIDE DEF x
  <2> QED
    BY <1>1, <2>1, <2>2, <2>3, CallStep
<1>5. CASE AppendEvent(r)
  <2>1. calls' = [calls EXCEPT ![r] = NoCall]
        /\ UNCHANGED <<table, batch, buffer, pointer, phase, next, failures, crashes>>
    BY <1>5 DEF AppendEvent
  <2> QED
    BY <1>1, <2>1, NoCallIsFresh, CallStep
<1> QED
  BY <1>2, <1>3, <1>4, <1>5 DEF Recording

LEMMA QueryStep ==
  ASSUME IInv, NEW q \in Queries, Querying(q)
  PROVE  IInv' /\ Log' = Log
<1>1. q \in Callers /\ calls[q] \in Call /\ Fresh(calls[q])
  BY CallFields DEF Callers, IInv
<1>2. CASE CallQuery(q)
  <2> DEFINE x == [NoCall EXCEPT !.at = "flush", !.known = Ids(table \o batch \o buffer)]
  <2>1. Ids(table \o batch \o buffer) = Everything /\ Everything \subseteq 1..MaxEvents
    BY LogIsSeq, IdsAreNumbers DEF Log, IInv
  <2>2. PICK none : none = NoCall
    OBVIOUS
  <2>3. x \in Call /\ x.at = "flush" /\ x.known = Everything
    BY <2>1, <2>2, NoCallIsFresh DEF Call
  <2>4. Fresh(x)
    <3> HIDE DEF x
    <3> QED
      BY <2>3 DEF Fresh
  <2> QED
    BY <1>1, <1>2, <2>3, <2>4, CallStep DEF CallQuery
<1>3. CASE EnterFlush(q)
  BY <1>1, <1>3, EnterFlushStep
<1>4. CASE SendSelect(q)
  <2> DEFINE x == [calls[q] EXCEPT !.at = "select"]
  <2>1. x \in Call /\ x.known = calls[q].known /\ x.at = "select" /\ calls[q].at = "read"
    BY <1>1, <1>4 DEF Call, SendSelect
  <2>2. Fresh(x)
    <3> HIDE DEF x
    <3> QED
      BY <1>1, <2>1 DEF Fresh
  <2>3. calls' = [calls EXCEPT ![q] = x]
        /\ UNCHANGED <<table, batch, buffer, pointer, phase, next, failures, crashes>>
    BY <1>1, <1>4 DEF SendSelect, IInv, CallsOK
  <2> HIDE DEF x
  <2> QED
    BY <1>1, <2>1, <2>2, <2>3, CallStep
<1>5. CASE Select(q)
  BY <1>1, <1>5, NoCallIsFresh, CallStep DEF Select
<1> QED
  BY <1>2, <1>3, <1>4, <1>5 DEF Querying

\* What a crash leaves is the table, whose last row is the pointer's.
LEMMA RestartStep ==
  ASSUME IInv, Restart
  PROVE  IInv' /\ Log' = table /\ pointer' = (IF table = <<>> THEN Genesis ELSE table[Len(table)].id)
<1>1. /\ crashes < MaxCrashes /\ crashes' = crashes + 1
      /\ batch' = <<>> /\ buffer' = <<>> /\ phase' = "idle"
      /\ calls' = [c \in Callers |-> NoCall]
      /\ pointer' = (IF table = <<>> THEN Genesis ELSE table[Len(table)].id)
      /\ UNCHANGED <<table, next, failures>>
  BY DEF Restart, Last
<1>2. table \in Seq(Event) /\ <<>> \in Seq(Event)
  BY EmptySeq DEF IInv, DataOK, Sequences3
<1>3. pointer' \in 0..MaxEvents
  <2>1. CASE table = <<>>
    BY <1>1, <2>1, Constants DEF Genesis
  <2>2. CASE table # <<>>
    <3>1. Len(table) \in 1..Len(table)
      BY <1>2, <2>2, EmptySeq
    <3>2. table[Len(table)] \in Event
      BY <1>2, <3>1, ElementOfSeq
    <3> QED
      BY <1>1, <2>2, <3>2, Constants DEF Event
  <2> QED
    BY <2>1, <2>2
<1>4. DataOK'
  BY <1>1, <1>2, <1>3 DEF IInv, DataOK, Sequences3
<1>5. Log' = table
  <2>1. table \o <<>> = table
    BY <1>2, ConcatEmptySeq
  <2> QED
    BY <1>1, <2>1 DEF Log
<1>6. CallsOK'
  <2>1. \A c \in Callers : calls'[c] = NoCall
    BY <1>1
  <2>2. \A c \in Callers : Fresh(calls[c])'
    BY <2>1, NoCallIsFresh DEF Fresh
  <2> QED
    BY <1>1, <2>2, NoCallIsFresh DEF CallsOK, Callers
<1> QED
  BY <1>1, <1>4, <1>5, <1>6, Constants DEF IInv, Bounds

LEMMA InitIInv == Init => IInv
<1> SUFFICES ASSUME Init PROVE IInv
  OBVIOUS
<1>1. DataOK
  BY EmptySeq, Constants DEF Init, DataOK, Sequences3, Genesis
<1>2. CallsOK
  BY NoCallIsFresh DEF Init, CallsOK
<1> QED
  BY <1>1, <1>2, Constants DEF Init, IInv, Bounds

\* A step leaves the log, or puts one event at its end, or cuts it down to the
\* table.
LEMMA LogSteps ==
  ASSUME IInv, [Next]_vars
  PROVE  /\ IInv'
         /\ \/ Log' = Log /\ pointer' = pointer
            \/ /\ Insert /\ pointer' = next /\ [id |-> next, prev |-> pointer] \in Event
               /\ Log' = Append(Log, [id |-> next, prev |-> pointer])
            \/ \E r \in Recorders :
                 /\ calls[r].at = "append" /\ calls'[r].at = "idle"
                 /\ pointer' = next /\ [id |-> next, prev |-> calls[r].last] \in Event
                 /\ Log' = Append(Log, [id |-> next, prev |-> calls[r].last])
            \/ Restart /\ Log' = table
               /\ pointer' = (IF table = <<>> THEN Genesis ELSE table[Len(table)].id)
<1>1. CASE Insert
  BY <1>1, InsertStep
<1>2. CASE TimerFlush \/ Flushing
  <2>1. pointer' = pointer
    BY <1>2 DEF TimerFlush, Flushing, Begin, InsertBatch, InsertFails, Rollback, BeginFails, CommitFails, TransactionFails, Commit
  <2> QED
    BY <1>2, <2>1, FlushSteps
<1>3. CASE Restart
  BY <1>3, RestartStep
<1>4. ASSUME NEW r \in Recorders, Recording(r), AppendEvent(r), calls[r].prev = calls[r].last
      PROVE  /\ IInv' /\ calls[r].at = "append" /\ calls'[r].at = "idle"
             /\ pointer' = next /\ [id |-> next, prev |-> calls[r].last] \in Event
             /\ Log' = Append(Log, [id |-> next, prev |-> calls[r].last])
  <2>1. calls[r].at = "append" /\ calls' = [calls EXCEPT ![r] = NoCall] /\ r \in Callers
    BY <1>4 DEF AppendEvent, Callers
  <2>2. calls'[r].at = "idle"
    BY <2>1, NoCallIsFresh DEF IInv, CallsOK
  <2> QED
    BY <1>4, <2>1, <2>2, AppendStep
<1>5. ASSUME NEW r \in Recorders, Recording(r), ~(AppendEvent(r) /\ calls[r].prev = calls[r].last)
      PROVE  IInv' /\ Log' = Log /\ pointer' = pointer
  <2>1. pointer' = pointer
    BY <1>5 DEF Recording, CallRecord, EnterFlush, ReadHash, AppendEvent
  <2> QED
    BY <1>5, <2>1, RecorderStep
<1>6. ASSUME NEW q \in Queries, Querying(q)
      PROVE  IInv' /\ Log' = Log /\ pointer' = pointer
  <2>1. pointer' = pointer
    BY <1>6 DEF Querying, CallQuery, EnterFlush, SendSelect, Select
  <2> QED
    BY <1>6, <2>1, QueryStep
<1>7. CASE UNCHANGED vars
  <2>1. DataOK' /\ Grows /\ Log' = Log
    BY <1>7, SameData DEF vars, IInv, DataOK
  <2> QED
    BY <1>7, <2>1, CallsRest DEF vars, IInv, Bounds
<1> QED
  BY <1>1, <1>2, <1>3, <1>4, <1>5, <1>6, <1>7 DEF Next

LEMMA InductiveInvariant == Spec => []IInv
<1>1. IInv /\ [Next]_vars => IInv'
  BY LogSteps
<1> QED
  BY <1>1, InitIInv, PTL DEF Spec

\* Every variable of the log stays in its range, and a batch is in flight exactly
\* while a flush runs.
THEOREM TypeCorrect == Spec => []TypeOK
BY InductiveInvariant, TypesHold, PTL

\* A query finds every event accepted before it was called, whatever flushes,
\* failures and inserts came between the call and its SELECT.
THEOREM QueriesAreFresh == Spec => []QueryIsFresh
<1>1. IInv => QueryIsFresh
  BY DEF IInv, CallsOK, Fresh, QueryIsFresh, Callers
<1> QED
  BY <1>1, InductiveInvariant, PTL

-----------------------------------------------------------------------------
(* The chain.  With one call of the adapter under way at a time, nothing    *)
(* moves the pointer between its second hash and the insert.               *)

EndOf(s, i) == IF i = 0 THEN Genesis ELSE s[i].id

Chained(s, p) ==
  /\ \A i \in 1..Len(s) : s[i].prev = EndOf(s, i - 1)
  /\ p = EndOf(s, Len(s))

LEMMA ChainAppends ==
  ASSUME NEW s \in Seq(Event), NEW p, Chained(s, p), NEW e \in Event, e.prev = p
  PROVE  Chained(Append(s, e), e.id)
<1> DEFINE all == Append(s, e)
           n == Len(s)
<1>1. /\ n \in Nat /\ Len(all) = n + 1 /\ all[n + 1] = e
      /\ \A i \in 1..n : all[i] = s[i]
  BY AppendProperties, LenProperties
<1> HIDE DEF all, n
<1>2. \A i \in 0..n : EndOf(all, i) = EndOf(s, i)
  BY <1>1 DEF EndOf
<1>3. EndOf(all, n + 1) = e.id
  BY <1>1 DEF EndOf
<1>4. ASSUME NEW i \in 1..(n + 1) PROVE all[i].prev = EndOf(all, i - 1)
  <2>1. CASE i = n + 1
    <3>1. i - 1 = n /\ n \in 0..n
      BY <1>1, <2>1
    <3>2. p = EndOf(s, n)
      BY DEF Chained, n
    <3> QED
      BY <1>1, <1>2, <2>1, <3>1, <3>2
  <2>2. CASE i # n + 1
    <3>1. i \in 1..n /\ i - 1 \in 0..n
      BY <1>1, <2>2
    <3>2. s[i].prev = EndOf(s, i - 1)
      BY <3>1 DEF Chained, n
    <3> QED
      BY <1>1, <1>2, <3>1, <3>2
  <2> QED
    BY <2>1, <2>2
<1> QED
  BY <1>1, <1>3, <1>4 DEF Chained, all

LEMMA ChainOfPrefix ==
  ASSUME NEW s \in Seq(Event), NEW t \in Seq(Event), NEW p, Chained(s \o t, p)
  PROVE  Chained(s, EndOf(s, Len(s)))
<1> DEFINE all == s \o t
<1>1. /\ Len(s) \in Nat /\ Len(t) \in Nat /\ Len(all) = Len(s) + Len(t)
      /\ \A i \in 1..Len(s) : all[i] = s[i]
  BY ConcatProperties, LenProperties
<1> HIDE DEF all
<1> SUFFICES ASSUME NEW i \in 1..Len(s) PROVE s[i].prev = EndOf(s, i - 1)
  BY DEF Chained
<1>2. i \in 1..Len(all) /\ all[i] = s[i] /\ (i - 1 = 0 \/ i - 1 \in 1..Len(s))
  BY <1>1
<1>3. all[i].prev = EndOf(all, i - 1)
  BY <1>2 DEF Chained, all
<1>4. EndOf(all, i - 1) = EndOf(s, i - 1)
  BY <1>1, <1>2 DEF EndOf
<1> QED
  BY <1>2, <1>3, <1>4

\* The second hash is still the pointer when the event is inserted.
Agreed == \A r \in Recorders : calls[r].at = "append" => calls[r].last = pointer

CInv == Chained(Log, pointer) /\ Agreed

LEMMA AgreedStep ==
  ASSUME \A r, s \in Recorders : r = s, IInv, Agreed, [Next]_vars
  PROVE  Agreed'
<1> SUFFICES ASSUME NEW r \in Recorders, calls'[r].at = "append" PROVE calls'[r].last = pointer'
  BY DEF Agreed
<1>1. r \in Callers /\ calls \in [Callers -> Call] /\ NoCall.at = "idle"
  BY NoCallIsFresh DEF Callers, IInv, CallsOK
<1>2. CASE UNCHANGED <<calls, pointer>>
  BY <1>2 DEF Agreed
<1>3. CASE Insert
  BY <1>1, <1>3 DEF Insert, Drained
<1>4. ASSUME Drained, NEW ok \in BOOLEAN, calls' = Released(ok) PROVE FALSE
  <2>1. calls[r].at \in {"idle", "joined", "started", "select"}
    BY <1>1, <1>4 DEF Drained
  <2>2. calls'[r] = IF calls[r].at \notin {"joined", "started"} THEN calls[r]
                    ELSE IF ~ok THEN NoCall
                    ELSE [calls[r] EXCEPT !.at = IF @ = "joined" THEN "flush" ELSE "read"]
    BY <1>1, <1>4 DEF Released
  <2>3. calls[r] \in Call
    BY <1>1
  <2> QED
    BY <1>1, <2>1, <2>2, <2>3 DEF Call
<1>5. CASE TimerFlush \/ Flushing
  BY <1>2, <1>4, <1>5 DEF TimerFlush, Flushing, Begin, InsertBatch, InsertFails, Rollback,
     BeginFails, CommitFails, TransactionFails, FlushFailed, Commit
<1>6. CASE Restart
  BY <1>1, <1>6 DEF Restart
<1>7. ASSUME NEW s \in Recorders, Recording(s) PROVE calls'[r].last = pointer'
  <2>1. s = r
    OBVIOUS
  <2>2. CASE CallRecord(r)
    <3>1. calls'[r] = [NoCall EXCEPT !.at = "flush"]
      BY <1>1, <2>2 DEF CallRecord
    <3>2. calls'[r].at = "flush"
      BY <3>1 DEF NoCall
    <3> QED
      BY <3>2
  <2>3. CASE EnterFlush(r)
    <3>1. \E at \in {"joined", "read", "started"} : calls' = [calls EXCEPT ![r].at = at]
      BY <2>3 DEF EnterFlush
    <3>2. calls'[r].at \in {"joined", "read", "started"}
      BY <1>1, <3>1 DEF Call
    <3> QED
      BY <3>2
  <2>4. CASE ReadHash(r)
    <3>1. pointer' = pointer
          /\ calls'[r] = IF calls[r].second THEN [calls[r] EXCEPT !.at = "append", !.last = pointer]
                         ELSE [calls[r] EXCEPT !.at = "flush", !.second = TRUE, !.prev = pointer]
      BY <1>1, <2>4 DEF ReadHash
    <3>2. calls[r] \in Call
      BY <1>1
    <3> QED
      BY <3>1, <3>2 DEF Call
  <2>5. CASE AppendEvent(r)
    BY <1>1, <2>5 DEF AppendEvent
  <2> QED
    BY <1>7, <2>1, <2>2, <2>3, <2>4, <2>5 DEF Recording
<1>8. ASSUME NEW q \in Queries, Querying(q) PROVE calls'[r].last = pointer'
  <2>1. q # r
    BY CausalAssumption
  <2>2. calls'[r] = calls[r] /\ pointer' = pointer
    BY <1>1, <1>8, <2>1 DEF Querying, CallQuery, EnterFlush, SendSelect, Select
  <2> QED
    BY <2>2 DEF Agreed
<1> QED
  BY <1>2, <1>3, <1>5, <1>6, <1>7, <1>8 DEF Next, vars

LEMMA ChainStep ==
  ASSUME \A r, s \in Recorders : r = s
  PROVE  IInv /\ CInv /\ [Next]_vars => CInv'
<1> SUFFICES ASSUME IInv, CInv, [Next]_vars PROVE CInv'
  OBVIOUS
<1>1. Agreed'
  BY AgreedStep DEF CInv
<1>2. Log \in Seq(Event) /\ Chained(Log, pointer)
  BY LogIsSeq DEF IInv, CInv
<1>3. CASE Log' = Log /\ pointer' = pointer
  <2>1. Chained(Log', pointer')
    BY <1>2, <1>3
  <2> QED
    BY <1>1, <2>1 DEF CInv, Chained, EndOf
<1>4. ASSUME NEW e \in Event, e.prev = pointer, e.id = pointer', Log' = Append(Log, e)
      PROVE  CInv'
  <2>1. Chained(Log', pointer')
    BY <1>2, <1>4, ChainAppends
  <2> QED
    BY <1>1, <2>1 DEF CInv, Chained, EndOf
<1>5. CASE Log' = table /\ pointer' = (IF table = <<>> THEN Genesis ELSE table[Len(table)].id)
  <2>1. table \in Seq(Event) /\ batch \o buffer \in Seq(Event)
        /\ batch \in Seq(Event) /\ buffer \in Seq(Event)
    BY ConcatProperties DEF IInv, DataOK, Sequences3
  <2>2. Log = table \o (batch \o buffer)
    BY <2>1, ConcatAssociative DEF Log
  <2>3. Chained(table, EndOf(table, Len(table)))
    BY <1>2, <2>1, <2>2, ChainOfPrefix
  <2>4. pointer' = EndOf(table, Len(table))
    <3>1. table = <<>> <=> Len(table) = 0
      BY <2>1, EmptySeq
    <3> QED
      BY <1>5, <3>1 DEF EndOf
  <2>5. Chained(Log', pointer')
    BY <1>5, <2>3, <2>4
  <2> QED
    BY <1>1, <2>5 DEF CInv, Chained, EndOf
<1>6. ASSUME NEW r \in Recorders, calls[r].at = "append", pointer' = next,
             [id |-> next, prev |-> calls[r].last] \in Event,
             Log' = Append(Log, [id |-> next, prev |-> calls[r].last])
      PROVE  CInv'
  <2>1. calls[r].last = pointer
    BY <1>6 DEF CInv, Agreed
  <2> QED
    BY <1>4, <1>6, <2>1
<1>7. ASSUME pointer' = next, [id |-> next, prev |-> pointer] \in Event,
             Log' = Append(Log, [id |-> next, prev |-> pointer])
      PROVE  CInv'
  BY <1>4, <1>7
<1> QED
  BY <1>3, <1>5, <1>6, <1>7, LogSteps

\* With one call of the adapter at a time, what is stored, in flight and buffered
\* is one chain of hashes from GENESIS to the pointer, whatever flushes fail and
\* whenever the process dies.
THEOREM ChainNeverBreaks ==
  ASSUME \A r, s \in Recorders : r = s
  PROVE  Spec => []ChainIntact
<1>1. Init => CInv
  <2> SUFFICES ASSUME Init PROVE CInv
    OBVIOUS
  <2>1. <<>> \in Seq(Event) /\ Len(<<>>) = 0
    BY EmptySeq
  <2>2. Log = <<>>
    BY <2>1, ConcatEmptySeq DEF Init, Log
  <2>3. \A r \in Recorders : calls[r].at = "idle"
    BY NoCallIsFresh DEF Init, Callers
  <2> QED
    BY <2>1, <2>2, <2>3 DEF Init, CInv, Chained, EndOf, Agreed
<1>2. IInv /\ CInv /\ [Next]_vars => CInv'
  BY ChainStep
<1>3. IInv /\ CInv => ChainIntact
  <2> SUFFICES ASSUME IInv, CInv PROVE ChainIntact
    OBVIOUS
  <2>1. DOMAIN Log = 1..Len(Log)
    BY LogIsSeq, LenProperties DEF IInv
  <2> QED
    BY <2>1 DEF CInv, Chained, EndOf, ChainIntact, Log
<1> QED
  BY <1>1, <1>2, <1>3, InductiveInvariant, PTL DEF Spec

===============================================================================
