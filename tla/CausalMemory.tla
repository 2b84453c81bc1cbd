----------------------------- MODULE CausalMemory -----------------------------
(***************************************************************************)
(* The causal event log of backend/db.js and src/causal-memory: events     *)
(* chained by hash, accepted into a buffer in memory and flushed in        *)
(* batches into SQLite by a timer, by a full buffer and before every       *)
(* query.  Node runs one task at a time and, after each, the awaiting      *)
(* functions that it woke; a step of such a function is a microtask here,  *)
(* and no other task starts before the last of them has run.               *)
(*                                                                         *)
(* An event is its number and the number of its predecessor, which stand   *)
(* for hash and hash_prev; 0 is GENESIS_PREV_HASH.                         *)
(***************************************************************************)
EXTENDS Naturals, Sequences, SequencesExt

CONSTANTS
  Recorders,     \* concurrent calls of CausalMemoryAdapter.record*
  Queries,       \* concurrent calls that read the log
  BatchSize,     \* _causalBatchSize (50 in the code)
  Faults,        \* subset of {"begin", "insert", "commit"}
  MaxEvents,     \* bound: events
  MaxFailures,   \* bound: flushes that fail
  MaxCrashes     \* bound: crashes of the process

ASSUME CausalAssumption ==
  /\ BatchSize \in Nat \ {0} /\ {MaxEvents, MaxFailures, MaxCrashes} \subseteq Nat
  /\ Recorders \cap Queries = {} /\ Faults \subseteq {"begin", "insert", "commit"}

VARIABLES
  table,     \* rows of causal_events_log
  batch,     \* the events of the flush under way
  buffer,    \* _causalBuffer
  pointer,   \* _lastInMemoryHash
  phase,     \* the flush: idle, or what its transaction runs next
  calls,     \* [Recorders \cup Queries -> where the call stands]
  next,      \* number of the next event
  failures, crashes

vars == <<table, batch, buffer, pointer, phase, calls, next, failures, crashes>>

Callers  == Recorders \cup Queries
Genesis  == 0
Ids(seq) == { seq[i].id : i \in DOMAIN seq }

\* prev and last are the hashes a recorder read; known what a query must return.
NoCall == [at |-> "idle", second |-> FALSE, prev |-> Genesis, last |-> Genesis, known |-> {}]

\* No awaiting function is runnable.
Drained == \A c \in Callers : calls[c].at \in {"idle", "joined", "started", "select"}

-----------------------------------------------------------------------------
(* flushCausalEvents.                                                      *)

StartFlush(events) ==
  /\ phase' = "begin"
  /\ batch' = events
  /\ buffer' = <<>>

\* Faulty variant: who joined a flush takes its end for the end of all flushing.
ReleasedAtOnce(ok) ==
  [c \in Callers |->
    IF calls[c].at \notin {"joined", "started"} THEN calls[c]
    ELSE IF ~ok THEN NoCall
    ELSE [calls[c] EXCEPT !.at = "read"]]

\* Who joined the flush looks again, who started it is through.  A failure
\* is thrown at both.
Released(ok) ==
  [c \in Callers |->
    IF calls[c].at \notin {"joined", "started"} THEN calls[c]
    ELSE IF ~ok THEN NoCall
    ELSE [calls[c] EXCEPT !.at = IF @ = "joined" THEN "flush" ELSE "read"]]

\* A call reaches flushCausalEvents.
EnterFlush(c) ==
  /\ calls[c].at = "flush"
  /\ LET goto(at) == calls' = [calls EXCEPT ![c].at = at]
     IN  \/ phase # "idle" /\ goto("joined") /\ UNCHANGED <<phase, batch, buffer>>
         \/ phase = "idle" /\ buffer = <<>> /\ goto("read") /\ UNCHANGED <<phase, batch, buffer>>
         \/ phase = "idle" /\ buffer # <<>> /\ goto("started") /\ StartFlush(buffer)
  /\ UNCHANGED <<table, pointer, next, failures, crashes>>

\* The timer of startCausalFlushTimer.
TimerFlush ==
  /\ Drained /\ phase = "idle" /\ buffer # <<>>
  /\ StartFlush(buffer)
  /\ UNCHANGED <<table, pointer, calls, next, failures, crashes>>

Begin ==
  /\ Drained /\ phase = "begin"
  /\ phase' = "insert"
  /\ UNCHANGED <<table, batch, buffer, pointer, calls, next, failures, crashes>>

InsertBatch ==
  /\ Drained /\ phase = "insert"
  /\ phase' = "commit"
  /\ UNCHANGED <<table, batch, buffer, pointer, calls, next, failures, crashes>>

\* A statement of the batch fails; the others run, to be rolled back.
InsertFails ==
  /\ Drained /\ phase = "insert" /\ "insert" \in Faults /\ failures < MaxFailures
  /\ phase' = "rollback" /\ failures' = failures + 1
  /\ UNCHANGED <<table, batch, buffer, pointer, calls, next, crashes>>

\* Faulty variant: the failed batch is put behind what was accepted meanwhile.
FlushFailedBehind ==
  /\ buffer' = buffer \o batch /\ batch' = <<>> /\ phase' = "idle"
  /\ calls' = Released(FALSE)

\* Faulty variant: _isFlushing is not reset when the flush fails.
FlushFailedLocked ==
  /\ buffer' = batch \o buffer /\ batch' = <<>> /\ phase' = "failed"
  /\ calls' = Released(FALSE)

FlushFailed ==
  /\ buffer' = batch \o buffer /\ batch' = <<>> /\ phase' = "idle"
  /\ calls' = Released(FALSE)

Rollback ==
  /\ Drained /\ phase = "rollback"
  /\ FlushFailed
  /\ UNCHANGED <<table, pointer, next, failures, crashes>>

\* BEGIN fails, or COMMIT and SQLite undoes the transaction.
TransactionFails(statement) ==
  /\ Drained /\ phase = statement /\ statement \in Faults /\ failures < MaxFailures
  /\ FlushFailed
  /\ failures' = failures + 1
  /\ UNCHANGED <<table, pointer, next, crashes>>

BeginFails  == TransactionFails("begin")
CommitFails == TransactionFails("commit")

Commit ==
  /\ Drained /\ phase = "commit"
  /\ table' = table \o batch /\ batch' = <<>> /\ phase' = "idle"
  /\ calls' = Released(TRUE)
  /\ UNCHANGED <<buffer, pointer, next, failures, crashes>>

-----------------------------------------------------------------------------
(* insertCausalEvent.                                                      *)

\* The pointer moves and the event is buffered in one turn; a full buffer is
\* flushed, unless a flush is under way, which is then awaited.
Accept(prev) ==
  LET event == [id |-> next, prev |-> prev]
  IN  /\ next <= MaxEvents
      /\ next' = next + 1
      /\ pointer' = next
      /\ IF phase = "idle" /\ Len(buffer) + 1 >= BatchSize
         THEN StartFlush(Append(buffer, event))
         ELSE buffer' = Append(buffer, event) /\ UNCHANGED <<phase, batch>>

\* The stream engine inserts without a hash of its own and without awaiting.
Insert ==
  /\ Drained
  /\ Accept(pointer)
  /\ UNCHANGED <<table, calls, failures, crashes>>

-----------------------------------------------------------------------------
(* record* of the adapter: getLastHash, createEvent, EventStore.append.     *)

\* Calls of one task all start before the first of them goes on.
MayCall ==
  \A c \in Callers : \/ calls[c].at \in {"idle", "joined", "started", "select"}
                     \/ calls[c] = [NoCall EXCEPT !.at = "flush"]

CallRecord(r) ==
  /\ calls[r].at = "idle" /\ MayCall /\ next <= MaxEvents
  /\ calls' = [calls EXCEPT ![r] = [NoCall EXCEPT !.at = "flush"]]
  /\ UNCHANGED <<table, batch, buffer, pointer, phase, next, failures, crashes>>

\* getLastHash; append asks for it again.
ReadHash(r) ==
  /\ calls[r].at = "read"
  /\ calls' = [calls EXCEPT ![r] =
       IF @.second THEN [@ EXCEPT !.at = "append", !.last = pointer]
       ELSE [@ EXCEPT !.at = "flush", !.second = TRUE, !.prev = pointer]]
  /\ UNCHANGED <<table, batch, buffer, pointer, phase, next, failures, crashes>>

\* The rest of append runs in one turn: the event is validated against the
\* second answer, and inserted.
AppendEvent(r) ==
  /\ calls[r].at = "append"
  /\ calls' = [calls EXCEPT ![r] = NoCall]
  /\ IF calls[r].prev = calls[r].last THEN Accept(calls[r].prev)
     ELSE UNCHANGED <<batch, buffer, pointer, phase, next>>
  /\ UNCHANGED <<table, failures, crashes>>

-----------------------------------------------------------------------------
(* getCausalEventsUntil and the other queries: flush, then SELECT.          *)

CallQuery(q) ==
  /\ calls[q].at = "idle" /\ Drained
  /\ calls' = [calls EXCEPT ![q] =
       [NoCall EXCEPT !.at = "flush", !.known = Ids(table \o batch \o buffer)]]
  /\ UNCHANGED <<table, batch, buffer, pointer, phase, next, failures, crashes>>

SendSelect(q) ==
  /\ calls[q].at = "read"
  /\ calls' = [calls EXCEPT ![q].at = "select"]
  /\ UNCHANGED <<table, batch, buffer, pointer, phase, next, failures, crashes>>

Select(q) ==
  /\ calls[q].at = "select" /\ Drained
  /\ calls' = [calls EXCEPT ![q] = NoCall]
  /\ UNCHANGED <<table, batch, buffer, pointer, phase, next, failures, crashes>>

-----------------------------------------------------------------------------

\* The process dies; at boot _initLastInMemoryHash reads the last row.
Restart ==
  /\ crashes < MaxCrashes /\ crashes' = crashes + 1
  /\ batch' = <<>> /\ buffer' = <<>> /\ phase' = "idle"
  /\ calls' = [c \in Callers |-> NoCall]
  /\ pointer' = IF table = <<>> THEN Genesis ELSE Last(table).id
  /\ UNCHANGED <<table, next, failures>>

Init ==
  /\ table = <<>> /\ batch = <<>> /\ buffer = <<>> /\ pointer = Genesis
  /\ phase = "idle" /\ calls = [c \in Callers |-> NoCall]
  /\ next = 1 /\ failures = 0 /\ crashes = 0

Flushing ==
  Begin \/ BeginFails \/ InsertBatch \/ InsertFails \/ Rollback \/ CommitFails \/ Commit
Recording(r) == CallRecord(r) \/ EnterFlush(r) \/ ReadHash(r) \/ AppendEvent(r)
Querying(q) == CallQuery(q) \/ EnterFlush(q) \/ SendSelect(q) \/ Select(q)

Next ==
  \/ Insert \/ TimerFlush \/ Flushing \/ Restart
  \/ \E r \in Recorders : Recording(r)
  \/ \E q \in Queries : Querying(q)

Spec == Init /\ [][Next]_vars

\* The timer fires, SQLite answers, and Node runs what it woke.
FairSpec ==
  /\ Spec /\ WF_vars(TimerFlush) /\ WF_vars(Flushing)
  /\ \A r \in Recorders : WF_vars(EnterFlush(r) \/ ReadHash(r) \/ AppendEvent(r))
  /\ \A q \in Queries : WF_vars(EnterFlush(q) \/ SendSelect(q) \/ Select(q))

-----------------------------------------------------------------------------

Event == [id : 1..MaxEvents, prev : 0..MaxEvents]
Call  == [at : {"idle", "flush", "joined", "started", "read", "append", "select"},
          second : BOOLEAN, prev : 0..MaxEvents, last : 0..MaxEvents, known : SUBSET (1..MaxEvents)]

\* Type invariant: nothing is in flight unless a flush runs (db.js 574-684).
TypeOK ==
  /\ {table, batch, buffer} \subseteq Seq(Event)
  /\ pointer \in 0..MaxEvents /\ next \in 1..(MaxEvents + 1)
  /\ phase \in {"idle", "begin", "insert", "rollback", "commit"}
  /\ phase = "idle" <=> batch = <<>>
  /\ calls \in [Callers -> Call]
  /\ failures \in 0..MaxFailures /\ crashes \in 0..MaxCrashes

\* What is stored, in flight and buffered is, in this order, one chain from
\* GENESIS to the pointer: failed flushes, inserts during a flush and restarts
\* lose, repeat and reorder nothing in it (verifyCausalChain, causalCrypto.js).
ChainIntact ==
  LET log == table \o batch \o buffer
      end(i) == IF i = 0 THEN Genesis ELSE log[i].id
  IN  /\ \A i \in DOMAIN log : log[i].prev = end(i - 1)
      /\ pointer = end(Len(log))

\* A query finds every event accepted before it was called, also when a flush
\* was under way that did not hold them ("guarantees query flush consistency
\* before read operations", tests/causal-memory/causalBatching.test.js).
QueryIsFresh ==
  \A q \in Queries : calls[q].at = "select" => calls[q].known \subseteq Ids(table)

\* Every accepted event is stored at last, unless the process dies first: no
\* failure leaves the flush lock taken or the batch behind.
EventuallyStored ==
  \A i \in 1..MaxEvents, k \in 0..MaxCrashes :
    (i \in Ids(batch \o buffer) /\ crashes = k) ~> (i \in Ids(table) \/ crashes > k)
===============================================================================
