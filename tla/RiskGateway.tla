----------------------------- MODULE RiskGateway -----------------------------
(***************************************************************************)
(* The risk gateway (src-rust/lyzer-risk-gateway) and its callers           *)
(* (backend/riskGatewayClient.js).  The gateway approves an intent id once, *)
(* as far as it remembers: it keeps the last Cap ids in memory.  A caller   *)
(* in LIVE mode gives up after a deadline and fails closed; the request it  *)
(* gave up on may still be handled.                                         *)
(***************************************************************************)
EXTENDS Naturals, Sequences, FiniteSets

CONSTANTS
  Ids,            \* execution intent ids
  Callers,        \* concurrent calls of authorizeOrder
  Live,           \* the callers in LIVE mode
  Cap,            \* ids remembered (10_000 in the code)
  MaxApprovals,   \* bound: approvals given in a run
  MaxRestarts     \* bound: restarts of the gateway

ASSUME GatewayAssumption ==
  /\ Live \subseteq Callers
  /\ Cap \in Nat \ {0} /\ MaxApprovals \in Nat /\ MaxRestarts \in Nat

VARIABLES
  seenSet,      \* seen_intents_set
  seenQueue,    \* seen_intents_queue
  rpc,          \* the Authorize call each caller has made
  waiting,      \* the callers whose promise is not resolved
  granted,      \* how often a caller was told that an id is approved
  approvals,    \* history: the ids the gateway approved, in order
  bootAt,       \* history: number of approvals when the gateway last started
  restarts      \* restarts so far

gatewayVars == <<seenSet, seenQueue, approvals, bootAt, restarts>>
callerVars  == <<rpc, waiting, granted>>
vars        == <<gatewayVars, callerVars>>

NoCall == [state |-> "none"]

Init ==
  /\ seenSet = {} /\ seenQueue = <<>>
  /\ rpc = [c \in Callers |-> NoCall] /\ waiting = {}
  /\ granted = [id \in Ids |-> 0]
  /\ approvals = <<>> /\ bootAt = 0 /\ restarts = 0

-----------------------------------------------------------------------------
(* The caller: authorizeOrder.                                             *)

\* Faulty variant: the gateway is asked in every mode.
CallInAnyMode(c, id) ==
  /\ c \notin waiting /\ rpc[c] = NoCall
  /\ rpc' = [rpc EXCEPT ![c] = [state |-> "sent", id |-> id]]
  /\ waiting' = waiting \cup {c}
  /\ UNCHANGED <<granted, gatewayVars>>

\* In LIVE mode with the proto loaded.  The other cases resolve at once, with
\* an approval outside LIVE mode and a refusal without a client, and leave no
\* trace here.
Call(c, id) ==
  /\ c \in Live
  /\ c \notin waiting /\ rpc[c] = NoCall
  /\ rpc' = [rpc EXCEPT ![c] = [state |-> "sent", id |-> id]]
  /\ waiting' = waiting \cup {c}
  /\ UNCHANGED <<granted, gatewayVars>>

\* The callback runs with the gateway's decision.
Receive(c) ==
  /\ c \in waiting
  /\ rpc[c].state = "answered"
  /\ waiting' = waiting \ {c}
  /\ rpc' = [rpc EXCEPT ![c] = NoCall]
  /\ granted' = IF rpc[c].approved THEN [granted EXCEPT ![rpc[c].id] = @ + 1]
                ELSE granted
  /\ UNCHANGED gatewayVars

\* Faulty variant: a deadline passes the order on (fail-open).
DeadlineFailOpen(c) ==
  /\ c \in waiting
  /\ waiting' = waiting \ {c}
  /\ granted' = [granted EXCEPT ![rpc[c].id] = @ + 1]
  /\ UNCHANGED <<rpc, gatewayVars>>

\* The callback runs with DEADLINE_EXCEEDED: FAIL-CLOSED.  The request, or its
\* answer, may still be on its way.
Deadline(c) ==
  /\ c \in waiting
  /\ waiting' = waiting \ {c}
  /\ UNCHANGED <<rpc, granted, gatewayVars>>

\* The connection drops the request or the answer; a caller that still waits
\* gets an error, which is a refusal.
Lose(c) ==
  /\ rpc[c] # NoCall
  /\ rpc' = [rpc EXCEPT ![c] = NoCall]
  /\ waiting' = waiting \ {c}
  /\ UNCHANGED <<granted, gatewayVars>>

-----------------------------------------------------------------------------
(* The gateway.  authorize holds both mutexes: a handler is one step.      *)

Answer(c, approved) ==
  rpc' = [rpc EXCEPT ![c] = [state |-> "answered", id |-> @.id, approved |-> approved]]

RejectDuplicate(c) ==
  /\ rpc[c].state = "sent"
  /\ rpc[c].id \in seenSet
  /\ Answer(c, FALSE)
  /\ UNCHANGED <<waiting, granted, gatewayVars>>

\* Faulty variant: the id evicted from the queue stays in the set.
RememberInQueueOnly(id) ==
  LET queue == Append(seenQueue, id) IN
    /\ seenQueue' = IF Len(queue) > Cap THEN Tail(queue) ELSE queue
    /\ seenSet' = seenSet \cup {id}

\* Faulty variant: the set is emptied when it is full.
RememberAndClear(id) ==
  LET full == Len(seenQueue) >= Cap IN
    /\ seenQueue' = IF full THEN <<>> ELSE Append(seenQueue, id)
    /\ seenSet' = IF full THEN {} ELSE seenSet \cup {id}

\* Insert the id, then evict the oldest one beyond the cap.
Remember(id) ==
  LET queue == Append(seenQueue, id)
      full  == Len(queue) > Cap
  IN  /\ seenQueue' = IF full THEN Tail(queue) ELSE queue
      /\ seenSet' = (seenSet \cup {id}) \ (IF full THEN {Head(queue)} ELSE {})

Approve(c) ==
  /\ rpc[c].state = "sent"
  /\ rpc[c].id \notin seenSet
  /\ Len(approvals) < MaxApprovals
  /\ Remember(rpc[c].id)
  /\ approvals' = Append(approvals, rpc[c].id)
  /\ Answer(c, TRUE)
  /\ UNCHANGED <<waiting, granted, bootAt, restarts>>

\* The process is restarted: its memory is gone, and requests that reach it
\* later find it empty.
Restart ==
  /\ restarts < MaxRestarts
  /\ restarts' = restarts + 1
  /\ seenSet' = {} /\ seenQueue' = <<>>
  /\ bootAt' = Len(approvals)
  /\ UNCHANGED <<approvals, callerVars>>

Next ==
  \/ \E c \in Callers :
       \/ \E id \in Ids : Call(c, id)
       \/ Receive(c) \/ Deadline(c) \/ Lose(c)
       \/ RejectDuplicate(c) \/ Approve(c)
  \/ Restart

Spec == Init /\ [][Next]_vars

-----------------------------------------------------------------------------

Calls ==
  {NoCall} \cup [state : {"sent"}, id : Ids]
           \cup [state : {"answered"}, id : Ids, approved : BOOLEAN]

\* The variables have their types.
TypeOK ==
  /\ seenSet \in SUBSET Ids /\ seenQueue \in Seq(Ids)
  /\ rpc \in [Callers -> Calls] /\ waiting \in SUBSET Live
  /\ granted \in [Ids -> Nat] /\ approvals \in Seq(Ids)
  /\ bootAt \in 0..Len(approvals) /\ restarts \in Nat

\* The set and the queue, kept in step by hand in authorize, hold the same ids,
\* each once, and no more than the cap.
SeenAgree ==
  /\ seenSet = { seenQueue[k] : k \in DOMAIN seenQueue }
  /\ \A j, k \in DOMAIN seenQueue : seenQueue[j] = seenQueue[k] => j = k
  /\ Len(seenQueue) <= Cap

\* Between two approvals of one id by one process lie at least Cap approvals of
\* other ids: duplicates are refused for as long as the memory is meant to last.
ReapprovedOnlyAfterCap ==
  \A a, b \in (bootAt + 1)..Len(approvals) :
    a < b /\ approvals[a] = approvals[b] => b - a > Cap

\* Callers are told of no more approvals than the gateway gave, whatever is
\* lost, late or repeated: the fail-closed branches of authorizeOrder.
ApprovalsOf(id) == { a \in DOMAIN approvals : approvals[a] = id }

GrantedOnlyIfApproved ==
  \A id \in Ids : granted[id] <= Cardinality(ApprovalsOf(id))

=============================================================================
