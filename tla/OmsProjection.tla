---------------------------- MODULE OmsProjection ----------------------------
(***************************************************************************)
(* The OMS process (src-rust/lyzer-oms): a projection of the registry's    *)
(* event log.  It boots from a snapshot file and the registry's gRPC       *)
(* queries, then follows execution.committed.> through the durable pull    *)
(* consumer "oms_processor", answers CREATED with an ORDER_ACK command on  *)
(* EXECUTION_PENDING, and saves a snapshot every SnapshotEvery events.     *)
(* Memory is lost when the process dies; the file and the consumer's       *)
(* acknowledgements are not.                                               *)
(***************************************************************************)
EXTENDS Naturals, Sequences, FiniteSets

CONSTANTS
  Intents,           \* execution intent ids
  SnapshotEvery,     \* events between snapshots (10 in the code)
  VerifyIntegrity,   \* the process is started with --verify-integrity
  PullBatch,         \* messages of one pull held by the client library
  Faults,            \* which of "nats" and "disk" may fail
  MaxOmsCrashes      \* bound: crashes of the OMS process

VARIABLES
  log, regUp,   \* the registry: its event log, and whether it answers calls
  committed,    \* the stream the OMS subscribes to
  pending,      \* the stream its commands go to
  pc,           \* where main() stands
  st,           \* OmsState in memory
  boot,         \* loaded_from_file, and hydrated_count > 0
  since,        \* events_since_snapshot
  snap,         \* the file oms_snapshot.json
  cursor,       \* stream messages the server has handed out
  acked,        \* those whose acknowledgement the server has
  buffer,       \* messages pulled and not yet handled
  current,      \* the message being handled, or 0
  omsCrashes    \* crashes so far

serverVars == <<cursor, acked>>
clientVars == <<buffer, current>>
omsVars    == <<pc, st, boot, since, snap, serverVars, clientVars, omsCrashes>>

-----------------------------------------------------------------------------
(* The projection.                                                         *)

StatusOf ==
  [ CREATED         |-> "PENDING",
    ORDER_ACK       |-> "ACK",
    ORDER_PARTIAL   |-> "PARTIAL",
    ORDER_FILLED    |-> "FILLED",
    ORDER_REJECTED  |-> "REJECTED",
    ORDER_CANCELLED |-> "CANCELLED",
    ORDER_ZOMBIE    |-> "ZOMBIE" ]

ProjectedTypes == DOMAIN StatusOf
Statuses       == { StatusOf[t] : t \in ProjectedTypes } \cup {"none"}

EmptyState == [last |-> 0, orders |-> [i \in Intents |-> "none"]]

\* apply_event_to_state: the other types do not move last_global_version.
Apply(s, gv, event) ==
  IF event.type \in ProjectedTypes
  THEN [last   |-> gv,
        orders |-> [s.orders EXCEPT ![event.intent] = StatusOf[event.type]]]
  ELSE s

\* The registry's GetMaxVersion and AuditQuerySinceVersion.
GetMaxVersion   == Len(log)
SinceVersion(n) == { m \in DOMAIN log : m > n }

\* hydrate_state: the events after global version from, applied in order.
Hydrated(s, from) ==
  LET step[n \in from..GetMaxVersion] ==
        IF n = from THEN s ELSE Apply(step[n - 1], n, log[n])
  IN  IF SinceVersion(from) = {} THEN s ELSE step[GetMaxVersion]

-----------------------------------------------------------------------------
(* Boot.                                                                   *)

Goto(label) == pc' = label

StartOms ==
  /\ pc = "down"
  /\ regUp
  /\ Goto("load")
  /\ UNCHANGED <<st, boot, since, snap, serverVars, clientVars, omsCrashes, pending>>

\* A file that does not parse or whose hash differs is discarded, and so is a
\* snapshot ahead of the registry or of a registry that does not answer.
SnapshotAccepted ==
  /\ snap.kind = "valid"
  /\ regUp
  /\ snap.state.last <= GetMaxVersion

LoadSnapshot ==
  /\ pc = "load"
  /\ st' = IF SnapshotAccepted THEN snap.state ELSE EmptyState
  /\ boot' = [loaded |-> SnapshotAccepted, hydrated |-> FALSE]
  /\ Goto("hydrate")
  /\ UNCHANGED <<since, snap, serverVars, clientVars, omsCrashes, pending>>

SaveAtBoot(b) == b.hydrated /\ (~VerifyIntegrity \/ b.loaded)

\* Faulty variant: a snapshot that was accepted is not brought up to date.
HydrateWithoutSnapshot ==
  /\ pc = "hydrate"
  /\ regUp
  /\ st' = IF boot.loaded THEN st ELSE Hydrated(st, st.last)
  /\ boot' = [boot EXCEPT !.hydrated = ~boot.loaded /\ SinceVersion(st.last) # {}]
  /\ Goto(IF SaveAtBoot(boot') THEN "bootsave" ELSE "attach")
  /\ UNCHANGED <<since, snap, serverVars, clientVars, omsCrashes, pending>>

Hydrate ==
  /\ pc = "hydrate"
  /\ regUp
  /\ st' = Hydrated(st, st.last)
  /\ boot' = [boot EXCEPT !.hydrated = SinceVersion(st.last) # {}]
  /\ Goto(IF VerifyIntegrity /\ boot.loaded THEN "verify"
          ELSE IF SaveAtBoot(boot') THEN "bootsave"
          ELSE "attach")
  /\ UNCHANGED <<since, snap, serverVars, clientVars, omsCrashes, pending>>

\* Deep integrity mode: compare State_A with a second, full replay.
Replayed == Hydrated(EmptyState, 0)

\* Faulty variant: a divergence removes the file but leaves the state.
VerifyFileOnly ==
  /\ pc = "verify"
  /\ regUp
  /\ snap' = IF st = Replayed THEN snap ELSE [kind |-> "none", state |-> EmptyState]
  /\ Goto(IF SaveAtBoot(boot) THEN "bootsave" ELSE "attach")
  /\ UNCHANGED <<st, boot, since, serverVars, clientVars, omsCrashes, pending>>

Verify ==
  /\ pc = "verify"
  /\ regUp
  /\ IF st = Replayed
     THEN UNCHANGED <<st, snap>>
     ELSE /\ st' = Replayed
          /\ \/ snap' = [kind |-> "none", state |-> EmptyState]
             \/ "disk" \in Faults /\ UNCHANGED snap
  /\ Goto(IF SaveAtBoot(boot) THEN "bootsave" ELSE "attach")
  /\ UNCHANGED <<boot, since, serverVars, clientVars, omsCrashes, pending>>

\* The lag monitor's gRPC connection, then the durable consumer.
Attach ==
  /\ pc = "attach"
  /\ regUp
  /\ Goto("recv")
  /\ UNCHANGED <<st, boot, since, snap, serverVars, clientVars, omsCrashes, pending>>

\* A gRPC call that fails during boot, the load's excepted, ends main().
BootFails ==
  /\ pc \in {"hydrate", "verify", "attach"}
  /\ ~regUp
  /\ Goto("down")
  /\ st' = EmptyState
  /\ boot' = [loaded |-> FALSE, hydrated |-> FALSE]
  /\ UNCHANGED <<since, snap, serverVars, clientVars, omsCrashes, pending>>

-----------------------------------------------------------------------------
(* save_snapshot: File::create truncates the file, write_all fills it.     *)
(* The errors of both are ignored.                                         *)

Truncate(at, next) ==
  /\ pc = at
  /\ snap' = [kind |-> "corrupt", state |-> EmptyState]
  /\ Goto(next)
  /\ UNCHANGED <<st, boot, since, serverVars, clientVars, omsCrashes, pending>>

WriteFile(at, next) ==
  /\ pc = at
  /\ \/ snap' = [kind |-> "valid", state |-> st]
     \/ "disk" \in Faults /\ UNCHANGED snap
  /\ since' = IF at = "write" THEN 0 ELSE since
  /\ Goto(next)
  /\ UNCHANGED <<st, boot, serverVars, clientVars, omsCrashes, pending>>

CreateFails(at, next) ==
  /\ "disk" \in Faults
  /\ pc = at
  /\ since' = IF at = "save" THEN 0 ELSE since
  /\ Goto(next)
  /\ UNCHANGED <<st, boot, snap, serverVars, clientVars, omsCrashes, pending>>

SaveSnapshot ==
  \/ Truncate("bootsave", "bootwrite")
  \/ WriteFile("bootwrite", "attach")
  \/ Truncate("save", "write")
  \/ WriteFile("write", "recv")
  \/ CreateFails("bootsave", "attach")
  \/ CreateFails("save", "recv")

-----------------------------------------------------------------------------
(* The durable consumer: JetStream hands out messages in stream order and  *)
(* hands out again those whose acknowledgement it does not get in time.    *)

Running == pc \in {"recv", "ack", "save", "write"}

Deliver ==
  /\ Running
  /\ cursor < Len(committed)
  /\ Len(buffer) < PullBatch
  /\ cursor' = cursor + 1
  /\ buffer' = Append(buffer, cursor + 1)
  /\ UNCHANGED <<pc, st, boot, since, snap, acked, current, omsCrashes, pending>>

Redeliver(k) ==
  /\ Running
  /\ Len(buffer) < PullBatch
  /\ k \in 1..cursor
  /\ k \notin acked /\ k # current
  /\ \A p \in DOMAIN buffer : buffer[p] # k
  /\ buffer' = Append(buffer, k)
  /\ UNCHANGED <<pc, st, boot, since, snap, serverVars, current, omsCrashes, pending>>

-----------------------------------------------------------------------------
(* The message loop.                                                       *)

AckCommand(event) ==
  [intent |-> event.intent, type |-> "ORDER_ACK", schema |-> 1,
   expected |-> event.version + 1]

\* A publish is not confirmed by the stream, and its error is only logged.
Emit(event) ==
  \/ /\ event.type = "CREATED"
     /\ pending' = Append(pending, AckCommand(event))
  \/ /\ event.type = "CREATED" => "nats" \in Faults
     /\ UNCHANGED pending

\* Faulty variants: duplicates are recognised only when they are the last
\* event; the successor of the last event is taken for a duplicate.
IsNewUnlessLast(k) == committed[k].gv # st.last
IsNewOffByOne(k)   == committed[k].gv > st.last + 1

IsNew(k) == committed[k].gv > st.last

HandleNew ==
  /\ pc = "recv"
  /\ buffer # <<>>
  /\ LET m == committed[Head(buffer)] IN
       /\ IsNew(Head(buffer))
       /\ Emit(m.event)
       /\ st' = Apply(st, m.gv, m.event)
  /\ since' = since + 1
  /\ current' = Head(buffer) /\ buffer' = Tail(buffer)
  /\ Goto("ack")
  /\ UNCHANGED <<boot, snap, serverVars, omsCrashes>>

SkipOld ==
  /\ pc = "recv"
  /\ buffer # <<>>
  /\ ~IsNew(Head(buffer))
  /\ current' = Head(buffer) /\ buffer' = Tail(buffer)
  /\ Goto("ack")
  /\ UNCHANGED <<st, boot, since, snap, serverVars, omsCrashes, pending>>

\* msg.ack() is sent, its result ignored; then the snapshot is due or not.
AckMessage ==
  /\ pc = "ack"
  /\ \/ acked' = acked \cup {current}
     \/ "nats" \in Faults /\ UNCHANGED acked
  /\ current' = 0
  /\ Goto(IF since >= SnapshotEvery THEN "save" ELSE "recv")
  /\ UNCHANGED <<st, boot, since, snap, cursor, buffer, omsCrashes, pending>>

-----------------------------------------------------------------------------

CrashOms ==
  /\ pc # "down"
  /\ omsCrashes < MaxOmsCrashes
  /\ omsCrashes' = omsCrashes + 1
  /\ Goto("down")
  /\ st' = EmptyState
  /\ boot' = [loaded |-> FALSE, hydrated |-> FALSE]
  /\ since' = 0
  /\ buffer' = <<>> /\ current' = 0
  /\ UNCHANGED <<snap, serverVars, pending>>

OmsInit ==
  /\ pc = "down"
  /\ st = EmptyState
  /\ boot = [loaded |-> FALSE, hydrated |-> FALSE]
  /\ since = 0
  /\ snap = [kind |-> "none", state |-> EmptyState]
  /\ cursor = 0 /\ acked = {}
  /\ buffer = <<>> /\ current = 0
  /\ omsCrashes = 0

Booting  == LoadSnapshot \/ Hydrate \/ Verify \/ Attach
Handling == HandleNew \/ SkipOld \/ AckMessage

OmsSteps ==
  \/ StartOms \/ Booting \/ BootFails
  \/ SaveSnapshot
  \/ Deliver
  \/ \E k \in DOMAIN committed : Redeliver(k)
  \/ Handling
  \/ CrashOms

=============================================================================
