--------------------------- MODULE ExecutionSpine ---------------------------
(***************************************************************************)
(* The execution spine: the Intent Registry and the OMS, joined by gRPC    *)
(* and by two JetStream streams.  A step of either process reads and       *)
(* writes the shared streams; the log is written by the registry alone.    *)
(***************************************************************************)
EXTENDS Naturals, Sequences, FiniteSets

CONSTANTS
  Intents, Faults,
  RequestTypes, Schemas, BatchLimit,
  SnapshotEvery, VerifyIntegrity, PullBatch,
  MaxClientEvents, MaxCommitted, MaxRegistryCrashes, MaxOmsCrashes,
  MaxCrashes    \* bound: crashes of both processes together

ASSUME SpineAssumption ==
  /\ Schemas \subseteq Nat /\ Faults \subseteq {"nats", "db", "disk"}
  /\ {BatchLimit, SnapshotEvery, PullBatch} \subseteq Nat \ {0} /\ VerifyIntegrity \in BOOLEAN
  /\ {MaxClientEvents, MaxCommitted, MaxRegistryCrashes, MaxOmsCrashes, MaxCrashes} \subseteq Nat

\* In the spine only the OMS writes the pending stream.
MaxPending == 0

VARIABLES
  log, outbox, regUp, consuming, batch, marking, committed, pending, pendCur,
  rejected, regCrashes,
  pc, st, boot, since, snap, cursor, acked, buffer, current, omsCrashes

Reg == INSTANCE IntentRegistry
Oms == INSTANCE OmsProjection

\* The variables the OMS alone, and the registry alone, may change.
omsOwn == <<pc, st, boot, since, snap, cursor, acked, buffer, current, omsCrashes>>
regOwn == <<log, outbox, regUp, consuming, batch, marking, committed, pendCur,
            rejected, regCrashes>>
vars   == <<regOwn, pending, omsOwn>>

RegistryStep == Reg!RegistrySteps /\ UNCHANGED omsOwn

OmsStep ==
  /\ Oms!OmsSteps
  /\ UNCHANGED regOwn

Init == Reg!Init /\ Oms!OmsInit

Next == (RegistryStep \/ OmsStep) /\ regCrashes' + omsCrashes' <= MaxCrashes

\* The registry's tasks and the OMS keep running, dead processes are
\* restarted, and JetStream hands messages out (again) for as long as it must.
Fairness ==
  /\ WF_vars(Reg!StartRegistry /\ UNCHANGED omsOwn)
  /\ WF_vars(Reg!ConsumePending /\ UNCHANGED omsOwn)
  /\ WF_vars(Reg!PollOutbox /\ UNCHANGED omsOwn)
  /\ SF_vars((\E n \in DOMAIN log : Reg!PublishAcked(n)) /\ UNCHANGED omsOwn)
  /\ SF_vars(Reg!MarkPublished /\ UNCHANGED omsOwn)
  /\ SF_vars(Oms!StartOms /\ OmsStep)
  /\ SF_vars(Oms!Booting /\ OmsStep)
  /\ WF_vars((Oms!BootFails \/ Oms!SaveSnapshot) /\ OmsStep)
  /\ WF_vars(Oms!Deliver /\ OmsStep)
  /\ WF_vars((\E k \in DOMAIN committed : Oms!Redeliver(k)) /\ OmsStep)
  /\ WF_vars(Oms!Handling /\ OmsStep)

Spec     == Init /\ [][Next]_vars
FairSpec == Spec /\ Fairness

-----------------------------------------------------------------------------
(* The projection against the log.                                         *)

\* Reference definition: the status of each intent after the first n events is
\* that of its last projected event among them.
Projected(n) == log[n].type \in Oms!ProjectedTypes

LastOf(S) == IF S = {} THEN 0 ELSE CHOOSE n \in S : \A m \in S : m <= n

ReplayOf(n) ==
  [last   |-> LastOf({ m \in 1..n : Projected(m) }),
   orders |-> [i \in Intents |->
     LET m == LastOf({ k \in 1..n : Projected(k) /\ log[k].intent = i })
     IN  IF m = 0 THEN "none" ELSE Oms!StatusOf[log[m].type]]]

IsReplay(s) == s.last \in 0..Len(log) /\ s = ReplayOf(s.last)

\* The variables have their types.
OmsState == [last : Nat, orders : [Intents -> Oms!Statuses]]

TypeOK ==
  /\ Reg!TypeOK
  /\ pc \in {"down", "load", "hydrate", "verify", "bootsave", "bootwrite",
             "attach", "recv", "ack", "save", "write"}
  /\ st \in OmsState
  /\ boot \in [loaded : BOOLEAN, hydrated : BOOLEAN]
  /\ since \in Nat /\ omsCrashes \in Nat
  /\ snap \in [kind : {"none", "corrupt", "valid"}, state : OmsState]
  /\ cursor \in 0..Len(committed) /\ acked \in SUBSET (1..cursor)
  /\ buffer \in Seq(1..cursor) /\ current \in 0..cursor

\* The state in memory and every readable snapshot are a full replay of a
\* prefix of the log, through crashes of either process, torn snapshot files,
\* duplicates and redeliveries, as long as no publish fails: apply_event,
\* hydrate_state, the version check of the loop and save_snapshot.
ProjectionIsReplay == IsReplay(st) /\ (snap.kind = "valid" => IsReplay(snap.state))

\* Whatever fails, neither the state nor a snapshot runs ahead of the log, and an
\* order has no status but one that an event of its intent, not above
\* last_global_version, gave it: publishes that fail make the projection skip
\* events, and a lagging snapshot or a redelivery adds none that is not there.
Named(s, n) ==
  /\ s.last <= n
  /\ \A i \in Intents : s.orders[i] # "none" =>
       \E m \in 1..s.last : /\ Projected(m) /\ log[m].intent = i
                           /\ s.orders[i] = Oms!StatusOf[log[m].type]

ProjectionIsNamed == Named(st, Len(log)) /\ Named(snap.state, Len(log))

\* A running OMS has every event it has acknowledged to the stream: the ack is
\* sent before the snapshot is saved ("If we crash here, we just re-process").
AckedIsProjected ==
  Oms!Running =>
    \A k \in acked : committed[k].event.type \in Oms!ProjectedTypes
                       => committed[k].gv <= st.last

\* An ORDER_ACK enters the log only as the event right after a CREATED of its
\* intent, and once for each CREATED, however often the message or the command
\* is delivered (the callers themselves sending no ORDER_ACK): the version lock
\* absorbs the redeliveries of the OMS's loop and of pending_events_consumer.
AckFollowsCreated ==
  \A n \in DOMAIN log : log[n].type = "ORDER_ACK" =>
    /\ \E m \in 1..(n - 1) : /\ log[m].intent = log[n].intent
                             /\ log[m].type = "CREATED"
                             /\ log[m].version + 1 = log[n].version
    /\ \A m \in DOMAIN log :
         log[m].type = "ORDER_ACK" /\ log[m].intent = log[n].intent
           /\ log[m].version = log[n].version => m = n

\* With --verify-integrity what leaves the boot sequence is a replay of the log,
\* even when failed publishes have reordered the stream under an earlier
\* incarnation.
VerifiedIsReplay ==
  [][(pc \in {"hydrate", "verify"} /\ pc' \in {"bootsave", "attach"})
       => IsReplay(st')]_vars

-----------------------------------------------------------------------------
(* Liveness.                                                               *)

\* Every projected event reaches the running projection at last: while the
\* clients are silent the projection catches up with the log.
EventuallyProjected ==
  []<>(Oms!Running /\ \A n \in DOMAIN log : Projected(n) => st.last >= n)

\* The commands the OMS has stored in the pending stream are settled at last:
\* their intent reaches the version they asked for, by them or by another.
EventuallySettled ==
  []<>(\A k \in DOMAIN pending :
         Reg!CurrentVersion(pending[k].intent) >= pending[k].expected)

=============================================================================
