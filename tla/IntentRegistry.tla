--------------------------- MODULE IntentRegistry ---------------------------
(***************************************************************************)
(* The Intent Registry process (src-rust/lyzer-intent-registry): an event  *)
(* store in SQLite guarded by a causal version lock, a transactional       *)
(* outbox with its publisher task, and the task that consumes commands     *)
(* from the JetStream stream EXECUTION_PENDING.  The process may die       *)
(* between any two steps; the database and both streams survive.           *)
(*                                                                         *)
(* An event is identified by its position in log, the AUTOINCREMENT        *)
(* global_version; ids, correlations and payloads are abstracted away.     *)
(***************************************************************************)
EXTENDS Naturals, Sequences, FiniteSets

CONSTANTS
  Intents,             \* execution intent ids
  RequestTypes,        \* event types the callers of the registry may send
  Schemas,             \* event schema versions the callers may send
  BatchLimit,          \* LIMIT of the outbox query (100 in the code)
  Faults,              \* which of "nats" and "db" may fail
  MaxClientEvents,     \* bound: gRPC clients write only below this log length
  MaxPending,          \* bound: length of EXECUTION_PENDING fed by others
  MaxCommitted,        \* bound: length at which faults stop duplicating
  MaxRegistryCrashes   \* bound: crashes of the registry process

ASSUME RegistryAssumption ==
  /\ Schemas \subseteq Nat
  /\ BatchLimit \in Nat \ {0}
  /\ Faults \subseteq {"nats", "db", "disk"}
  /\ {MaxClientEvents, MaxPending, MaxCommitted, MaxRegistryCrashes} \subseteq Nat

VARIABLES
  log,          \* table intent_events, ordered by global_version
  outbox,       \* table outbox_events: published flag of each global_version
  regUp,        \* the registry process is running
  consuming,    \* its pending_events_consumer task is running
  batch,        \* events_to_publish: the rows the publisher has still to send
  marking,      \* global_version stored in JetStream and not yet marked, or 0
  committed,    \* stream of execution.committed.*
  pending,      \* stream EXECUTION_PENDING
  pendCur,      \* messages of pending this process has been handed
  rejected,     \* positions of pending answered on execution.rejected.*
  regCrashes    \* crashes so far

storeVars == <<log, outbox>>
pubVars   == <<batch, marking, committed>>
consVars  == <<consuming, pendCur, rejected>>
procVars  == <<regUp, regCrashes>>
vars      == <<storeVars, pubVars, consVars, procVars, pending>>

-----------------------------------------------------------------------------
(* The store.                                                              *)

Catalogue == { "CREATED", "RISK_APPROVED", "RISK_REJECTED", "ORDER_PENDING",
               "ORDER_ACK", "ORDER_PARTIAL", "ORDER_FILLED",
               "ORDER_REJECTED", "ORDER_CANCELLED", "ORDER_ZOMBIE" }

Event   == [intent : Intents, type : Catalogue, version : Nat]
Request == [intent : Intents, type : RequestTypes \cup Catalogue,
            schema : Nat, expected : Nat]
Message == [gv : Nat, event : Event]

\* Faulty variant: the catalogue lacks a type the OMS emits.
IsValidSchemaDrifted(type, schema) ==
  type \in Catalogue \ {"ORDER_ACK"} /\ schema = 1

IsValidSchema(type, schema) == type \in Catalogue /\ schema = 1

Versions(i) == { log[n].version : n \in { m \in DOMAIN log : log[m].intent = i } }

CurrentVersion(i) ==
  IF Versions(i) = {} THEN 0
  ELSE CHOOSE v \in Versions(i) : \A w \in Versions(i) : w <= v

\* Faulty variants: no schema contract; a lock that lets versions repeat.
CanPersistUntyped(req) == req.expected = CurrentVersion(req.intent) + 1

CanPersistUnlocked(req) ==
  /\ IsValidSchema(req.type, req.schema)
  /\ req.expected \in 1..(CurrentVersion(req.intent) + 1)

\* The schema contract and the CAUSAL_VERSION_LOCK.
CanPersist(req) ==
  /\ IsValidSchema(req.type, req.schema)
  /\ req.expected = CurrentVersion(req.intent) + 1

\* One SQL transaction: the event and its outbox row.
Persist(req) ==
  /\ log' = Append(log, [intent  |-> req.intent,
                         type    |-> req.type,
                         version |-> req.expected])
  /\ outbox' = Append(outbox, FALSE)

(* gRPC handlers.  A refused call changes nothing and is a stuttering step. *)

CreatedRequest(i) == [intent |-> i, type |-> "CREATED", schema |-> 1, expected |-> 1]

RegisterIntent(i) ==
  /\ regUp
  /\ Len(log) < MaxClientEvents
  /\ Versions(i) = {}
  /\ CanPersist(CreatedRequest(i))
  /\ Persist(CreatedRequest(i))
  /\ UNCHANGED <<pubVars, consVars, procVars, pending>>

\* Faulty variant: the handler sends the event itself, before its transaction.
AppendIntentEventDualWrite(req) ==
  /\ regUp
  /\ Len(log) < MaxClientEvents
  /\ IsValidSchema(req.type, req.schema)
  /\ committed' = Append(committed,
       [gv    |-> Len(log) + 1,
        event |-> [intent |-> req.intent, type |-> req.type, version |-> req.expected]])
  /\ UNCHANGED <<storeVars, batch, marking, consVars, procVars, pending>>

AppendIntentEvent(req) ==
  /\ regUp
  /\ Len(log) < MaxClientEvents
  /\ CanPersist(req)
  /\ Persist(req)
  /\ UNCHANGED <<pubVars, consVars, procVars, pending>>

-----------------------------------------------------------------------------
(* pending_events_consumer.                                                *)

\* Persist command k, or answer on execution.rejected.*; ack either way.
Process(k) ==
  \/ /\ CanPersist(pending[k])
     /\ Persist(pending[k])
     /\ UNCHANGED rejected
  \/ /\ ~CanPersist(pending[k]) \/ "db" \in Faults
     /\ rejected' = rejected \cup {k}
     /\ UNCHANGED storeVars

ConsumePending ==
  /\ regUp /\ consuming
  /\ pendCur < Len(pending)
  /\ Process(pendCur + 1)
  /\ pendCur' = pendCur + 1
  /\ UNCHANGED <<pubVars, procVars, pending, consuming>>

\* The result of msg.ack() is ignored: an ack that is lost brings the same
\* message back after the consumer's ack wait.
RedeliverPending(k) ==
  /\ "nats" \in Faults
  /\ regUp /\ consuming
  /\ k \in 1..pendCur
  /\ Process(k)
  /\ UNCHANGED <<pubVars, procVars, pending, consuming, pendCur>>

-----------------------------------------------------------------------------
(* outbox_publisher_worker.                                                *)

\* Faulty variant: the outbox is read from where the last publish stopped.
UnpublishedAfterLast ==
  { n \in DOMAIN outbox :
      ~outbox[n] /\ \A k \in DOMAIN committed : committed[k].gv < n }

Unpublished == { n \in DOMAIN outbox : ~outbox[n] }

PollOutbox ==
  /\ regUp
  /\ batch = {} /\ marking = 0
  /\ batch' = { n \in Unpublished :
                  Cardinality({ m \in Unpublished : m < n }) < BatchLimit }
  /\ batch' # {}
  /\ UNCHANGED <<storeVars, consVars, procVars, pending, marking, committed>>

\* Faulty variant: the query has no ORDER BY.
NextToPublishUnordered(n) == regUp /\ marking = 0 /\ n \in batch

\* The batch is sent in the order of the query, lowest global_version first.
NextToPublish(n) ==
  /\ regUp
  /\ marking = 0
  /\ n \in batch
  /\ \A m \in batch : n <= m

StreamMessage(n) == [gv |-> n, event |-> log[n]]

\* JetStream stores the message and acknowledges it.
PublishAcked(n) ==
  /\ NextToPublish(n)
  /\ committed' = Append(committed, StreamMessage(n))
  /\ marking' = n
  /\ batch' = batch \ {n}
  /\ UNCHANGED <<storeVars, consVars, procVars, pending>>

\* Faulty variant: a row is marked although its publish was not acknowledged.
PublishUnackedButMarked(n) ==
  /\ "nats" \in Faults
  /\ NextToPublish(n)
  /\ UNCHANGED committed
  /\ marking' = n
  /\ batch' = batch \ {n}
  /\ UNCHANGED <<storeVars, consVars, procVars, pending>>

\* No acknowledgement, stored or not: the loop goes on with the next row.
PublishUnacked(n) ==
  /\ "nats" \in Faults
  /\ NextToPublish(n)
  /\ \/ UNCHANGED committed
     \/ /\ Len(committed) < MaxCommitted
        /\ committed' = Append(committed, StreamMessage(n))
  /\ batch' = batch \ {n}
  /\ UNCHANGED <<storeVars, consVars, procVars, pending, marking>>

\* UPDATE outbox_events SET published = 1.
MarkPublished ==
  /\ regUp
  /\ marking # 0
  /\ outbox' = [outbox EXCEPT ![marking] = TRUE]
  /\ marking' = 0
  /\ UNCHANGED <<log, consVars, procVars, pending, batch, committed>>

\* The result of the UPDATE is ignored.
MarkFails ==
  /\ "db" \in Faults
  /\ Len(committed) < MaxCommitted
  /\ regUp
  /\ marking # 0
  /\ marking' = 0
  /\ UNCHANGED <<storeVars, consVars, procVars, pending, batch, committed>>

-----------------------------------------------------------------------------
(* The process and its environment.                                        *)

CrashRegistry ==
  /\ regUp
  /\ regCrashes < MaxRegistryCrashes
  /\ regCrashes' = regCrashes + 1
  /\ regUp' = FALSE
  /\ consuming' = FALSE
  /\ batch' = {} /\ marking' = 0
  /\ pendCur' = 0
  /\ UNCHANGED <<storeVars, committed, pending, rejected>>

\* Each boot creates a new ephemeral consumer that is handed the stream from
\* its beginning.  When the stream or the consumer cannot be created the task
\* returns, and the process runs on without it.
StartRegistry ==
  /\ ~regUp
  /\ regUp' = TRUE
  /\ consuming' \in {TRUE} \cup (IF "nats" \in Faults THEN {FALSE} ELSE {})
  /\ UNCHANGED <<storeVars, pubVars, pending, pendCur, rejected, regCrashes>>

\* Some other process publishes a command.
OthersPublishPending(req) ==
  /\ Len(pending) < MaxPending
  /\ pending' = Append(pending, req)
  /\ UNCHANGED <<storeVars, pubVars, consVars, procVars>>

Init ==
  /\ log = <<>> /\ outbox = <<>>
  /\ regUp = FALSE /\ regCrashes = 0
  /\ consuming = FALSE /\ pendCur = 0 /\ rejected = {}
  /\ batch = {} /\ marking = 0 /\ committed = <<>>
  /\ pending = <<>>

\* The requests a run tries: every intent, type and schema, and the expected
\* versions below, at and above the lock.
Requests ==
  [intent : Intents, type : RequestTypes, schema : Schemas,
   expected : 0..(MaxClientEvents + 1)]

Clients ==
  \/ \E i \in Intents : RegisterIntent(i)
  \/ \E req \in Requests : AppendIntentEvent(req)

Consumer ==
  \/ ConsumePending
  \/ \E k \in DOMAIN pending : RedeliverPending(k)

Publisher ==
  \/ PollOutbox
  \/ \E n \in DOMAIN log : PublishAcked(n) \/ PublishUnacked(n)
  \/ MarkPublished
  \/ MarkFails

RegistrySteps ==
  Clients \/ Consumer \/ Publisher \/ CrashRegistry \/ StartRegistry

Next == RegistrySteps \/ \E req \in Requests : OthersPublishPending(req)

\* The tasks of the process keep running and a dead process is restarted; a
\* publish or an UPDATE that is retried for ever succeeds at last.  Nothing is
\* assumed of the clients, of the crashes or of the faults.
RegistryFairness ==
  /\ WF_vars(StartRegistry)
  /\ WF_vars(ConsumePending)
  /\ WF_vars(PollOutbox)
  /\ SF_vars(\E n \in DOMAIN log : PublishAcked(n))
  /\ SF_vars(MarkPublished)

Spec     == Init /\ [][Next]_vars
FairSpec == Spec /\ RegistryFairness

-----------------------------------------------------------------------------
(* What the registry promises.                                             *)

\* The variables have their types.
TypeOK ==
  /\ log \in Seq(Event) /\ outbox \in Seq(BOOLEAN)
  /\ regUp \in BOOLEAN /\ consuming \in BOOLEAN /\ regCrashes \in Nat
  /\ batch \in SUBSET Nat /\ marking \in Nat /\ committed \in Seq(Message)
  /\ pending \in Seq(Request) /\ pendCur \in 0..Len(pending)
  /\ rejected \in SUBSET DOMAIN pending

\* Whatever races between gRPC calls, commands and replays of commands, the
\* versions of an intent are 1..n, without a gap or a repetition, and grow with
\* the global version: persist_event_tx.
VersionsAreAnInterval ==
  \A i \in Intents : \E n \in 0..Len(log) : Versions(i) = 1..n

VersionsIncrease ==
  \A m, n \in DOMAIN log :
    m < n /\ log[m].intent = log[n].intent => log[m].version < log[n].version

CausalVersions == VersionsAreAnInterval /\ VersionsIncrease

\* A row is marked published only when the stream holds its event, and the
\* stream holds nothing but committed events, through every crash: the
\* transactional outbox of persist_event_tx and outbox_publisher_worker.
InStream(n) == \E k \in DOMAIN committed : committed[k] = StreamMessage(n)

OutboxSound ==
  /\ DOMAIN outbox = DOMAIN log
  /\ \A n \in DOMAIN outbox : outbox[n] => InStream(n)
  /\ \A k \in DOMAIN committed :
       committed[k].gv \in DOMAIN log /\ committed[k] = StreamMessage(committed[k].gv)

\* While JetStream acknowledges every publish, duplicates may appear in the
\* stream but an event never precedes an event with a lower global version: a
\* subscriber that skips old versions, as the OMS does, misses nothing.
StreamInOrder ==
  \A k \in DOMAIN committed : \A g \in 1..(committed[k].gv - 1) :
    \E j \in 1..(k - 1) : committed[j].gv = g

\* Every committed event is marked published at last: the rows an interrupted
\* or failed round leaves are taken up by a later one.
EventuallyPublished ==
  \A n \in 1..(MaxClientEvents + MaxPending) :
    (n \in DOMAIN log) ~> (n \in DOMAIN outbox /\ outbox[n])

\* The store and the stream implement an append-only event log whose committed
\* events are announced: the abstract specification EventLog.
TypeAt(i, v) == log[CHOOSE n \in DOMAIN log : log[n].intent = i /\ log[n].version = v].type

Abstract == INSTANCE EventLog WITH
  Types     <- Catalogue,
  history   <- [i \in Intents |-> [v \in 1..CurrentVersion(i) |-> TypeAt(i, v)]],
  announced <- { <<committed[k].event.intent, committed[k].event.version>> :
                   k \in DOMAIN committed }

ImplementsEventLog == Abstract!Spec

=============================================================================
