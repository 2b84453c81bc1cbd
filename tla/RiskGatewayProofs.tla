-------------------------- MODULE RiskGatewayProofs --------------------------
(***************************************************************************)
(* The duplicate filter and the fail-closed caller of the risk gateway,    *)
(* for every cap and every set of ids and callers.                         *)
(***************************************************************************)
EXTENDS RiskGateway, FiniteSetTheorems, TLAPS

\* What the gateway remembers is the end of the approvals of this process, as
\* much of it as the cap allows.
Window ==
  LET n == Len(approvals)
      q == Len(seenQueue)
  IN  /\ q = IF n - bootAt <= Cap THEN n - bootAt ELSE Cap
      /\ \A k \in 1..q : seenQueue[k] = approvals[n - q + k]

IInv == TypeOK /\ Window /\ SeenAgree /\ ReapprovedOnlyAfterCap

-----------------------------------------------------------------------------
(* Lemmas on authorize.                                                    *)

\* The queue after an approval, element by element.
LEMMA RememberQueue ==
  ASSUME TypeOK, NEW id \in Ids, Remember(id)
  PROVE  /\ Len(seenQueue) \in Nat /\ seenQueue' \in Seq(Ids)
         /\ Len(seenQueue) >= Cap =>
              /\ Len(seenQueue') = Len(seenQueue)
              /\ \A k \in 1..(Len(seenQueue) - 1) : seenQueue'[k] = seenQueue[k + 1]
              /\ seenQueue'[Len(seenQueue)] = id
              /\ seenSet' = (seenSet \cup {id}) \ {seenQueue[1]}
         /\ Len(seenQueue) < Cap =>
              /\ Len(seenQueue') = Len(seenQueue) + 1
              /\ \A k \in 1..Len(seenQueue) : seenQueue'[k] = seenQueue[k]
              /\ seenQueue'[Len(seenQueue) + 1] = id
              /\ seenSet' = seenSet \cup {id}
<1> DEFINE queue == Append(seenQueue, id)
<1>1. seenQueue \in Seq(Ids) /\ Cap \in Nat \ {0}
  BY GatewayAssumption DEF TypeOK
<1>2. /\ queue \in Seq(Ids) /\ Len(queue) = Len(seenQueue) + 1 /\ Len(seenQueue) \in Nat
      /\ \A k \in 1..Len(seenQueue) : queue[k] = seenQueue[k]
      /\ queue[Len(seenQueue) + 1] = id
  BY <1>1
<1>3. /\ seenQueue' = IF Len(queue) > Cap THEN Tail(queue) ELSE queue
      /\ seenSet' = (seenSet \cup {id}) \ (IF Len(queue) > Cap THEN {Head(queue)} ELSE {})
  BY DEF Remember
<1> HIDE DEF queue
<1>4. CASE Len(seenQueue) >= Cap
  <2>1. Len(queue) > Cap /\ queue # <<>>
    BY <1>1, <1>2, <1>4
  <2>2. seenQueue' = Tail(queue) /\ seenSet' = (seenSet \cup {id}) \ {Head(queue)}
    BY <1>3, <2>1
  <2>3. /\ Tail(queue) \in Seq(Ids) /\ Len(Tail(queue)) = Len(queue) - 1
        /\ \A k \in 1..(Len(queue) - 1) : Tail(queue)[k] = queue[k + 1]
        /\ Head(queue) = queue[1]
    BY <1>2, <2>1
  <2>4. Head(queue) = seenQueue[1]
    BY <1>1, <1>2, <1>4, <2>3
  <2>5. \A k \in 1..(Len(seenQueue) - 1) : seenQueue'[k] = seenQueue[k + 1]
    BY <1>2, <2>2, <2>3
  <2>6. seenQueue'[Len(seenQueue)] = id
    BY <1>1, <1>2, <1>4, <2>2, <2>3
  <2> QED
    BY <1>1, <1>2, <1>4, <2>2, <2>3, <2>4, <2>5, <2>6
<1>5. CASE Len(seenQueue) < Cap
  <2>1. seenQueue' = queue /\ seenSet' = seenSet \cup {id}
    BY <1>1, <1>2, <1>3, <1>5
  <2> QED
    BY <1>1, <1>2, <1>5, <2>1
<1> QED
  BY <1>1, <1>2, <1>4, <1>5

LEMMA RememberKeepsAgreement ==
  ASSUME IInv, NEW id \in Ids, id \notin seenSet, Remember(id)
  PROVE  SeenAgree'
<1> DEFINE q == Len(seenQueue)
<1>1. q \in Nat /\ Cap \in Nat \ {0} /\ q <= Cap /\ DOMAIN seenQueue = 1..q
  BY GatewayAssumption DEF IInv, TypeOK, SeenAgree
<1>2. seenSet = { seenQueue[k] : k \in 1..q }
  BY <1>1 DEF IInv, SeenAgree
<1>3. \A j, k \in 1..q : seenQueue[j] = seenQueue[k] => j = k
  BY <1>1 DEF IInv, SeenAgree
<1>4. seenQueue' \in Seq(Ids)
  BY RememberQueue DEF IInv
<1>5. CASE q = Cap
  <2>1. /\ Len(seenQueue') = q
        /\ \A k \in 1..(q - 1) : seenQueue'[k] = seenQueue[k + 1]
        /\ seenQueue'[q] = id
        /\ seenSet' = (seenSet \cup {id}) \ {seenQueue[1]}
    <3>1. q >= Cap
      BY <1>1, <1>5
    <3> QED
      BY <3>1, RememberQueue DEF IInv
  <2>2. DOMAIN seenQueue' = 1..q
    BY <1>1, <1>4, <2>1
  <2> HIDE DEF q
  <2>3. \A k \in 1..q : seenQueue'[k] = IF k = q THEN id ELSE seenQueue[k + 1]
    BY <1>1, <2>1
  <2>4. \A j, k \in 1..q : seenQueue'[j] = seenQueue'[k] => j = k
    <3> SUFFICES ASSUME NEW j \in 1..q, NEW k \in 1..q, seenQueue'[j] = seenQueue'[k]
                 PROVE  j = k
      OBVIOUS
    <3>1. \A m \in 1..q : m # q => m + 1 \in 1..q
      BY <1>1
    <3>2. \A m \in 1..q : m # q => seenQueue[m + 1] # id
      BY <1>2, <3>1
    <3> QED
      BY <1>1, <1>3, <2>3, <3>1, <3>2
  <2>5. seenSet' = { seenQueue'[k] : k \in 1..q }
    <3>1. ASSUME NEW x \in seenSet'
          PROVE  \E k \in 1..q : seenQueue'[k] = x
      <4>1. CASE x = id
        BY <1>1, <1>5, <2>1, <4>1
      <4>2. CASE x # id
        <5>1. PICK k \in 1..q : seenQueue[k] = x
          BY <1>2, <2>1, <3>1, <4>2
        <5>2. k # 1
          BY <2>1, <3>1, <5>1
        <5>3. k - 1 \in 1..(q - 1) /\ (k - 1) + 1 = k
          BY <1>1, <5>1, <5>2
        <5>4. seenQueue'[k - 1] = seenQueue[(k - 1) + 1]
          BY <2>1, <5>3
        <5> QED
          BY <1>1, <5>1, <5>3, <5>4
      <4> QED
        BY <4>1, <4>2
    <3>2. ASSUME NEW k \in 1..q
          PROVE  seenQueue'[k] \in seenSet'
      <4>1. CASE k = q
        <5>1. seenQueue[1] \in seenSet
          BY <1>1, <1>2, <1>5
        <5> QED
          BY <2>1, <4>1, <5>1
      <4>2. CASE k # q
        <5>1. k + 1 \in 1..q /\ k + 1 # 1 /\ 1 \in 1..q
          BY <1>1, <4>2
        <5>2. seenQueue[k + 1] # seenQueue[1] /\ seenQueue[k + 1] \in seenSet
          BY <1>2, <1>3, <5>1
        <5> QED
          BY <2>1, <2>3, <4>2, <5>2
      <4> QED
        BY <4>1, <4>2
    <3> QED
      BY <3>1, <3>2
  <2> QED
    BY <1>1, <1>5, <2>1, <2>2, <2>4, <2>5 DEF SeenAgree
<1>6. CASE q < Cap
  <2>1. /\ Len(seenQueue') = q + 1
        /\ \A k \in 1..q : seenQueue'[k] = seenQueue[k]
        /\ seenQueue'[q + 1] = id
        /\ seenSet' = seenSet \cup {id}
    BY <1>6, RememberQueue DEF IInv
  <2>2. DOMAIN seenQueue' = 1..(q + 1)
    BY <1>1, <1>4, <2>1
  <2> HIDE DEF q
  <2>3. 1..(q + 1) = 1..q \cup {q + 1}
    BY <1>1
  <2>4. \A k \in 1..q : seenQueue[k] # id
    BY <1>2
  <2>5. \A j, k \in 1..(q + 1) : seenQueue'[j] = seenQueue'[k] => j = k
    BY <1>3, <2>1, <2>3, <2>4
  <2>6. seenSet' = { seenQueue'[k] : k \in 1..(q + 1) }
    BY <1>2, <2>1, <2>3
  <2> QED
    BY <1>1, <1>6, <2>1, <2>2, <2>5, <2>6 DEF SeenAgree
<1> HIDE DEF q
<1>7. q = Cap \/ q < Cap
  BY <1>1
<1> QED
  BY <1>5, <1>6, <1>7

LEMMA ApproveKeepsWindow ==
  ASSUME IInv, NEW id \in Ids, id \notin seenSet, Remember(id),
         approvals' = Append(approvals, id), bootAt' = bootAt
  PROVE  Window' /\ ReapprovedOnlyAfterCap'
<1> DEFINE q == Len(seenQueue)
           n == Len(approvals)
<1>1. q \in Nat /\ n \in Nat /\ bootAt \in 0..n /\ Cap \in Nat \ {0}
  BY GatewayAssumption DEF IInv, TypeOK
<1>2. /\ Len(approvals') = n + 1 /\ approvals'[n + 1] = id
      /\ \A k \in 1..n : approvals'[k] = approvals[k]
  BY DEF IInv, TypeOK
<1>3. /\ q = IF n - bootAt <= Cap THEN n - bootAt ELSE Cap
      /\ \A k \in 1..q : seenQueue[k] = approvals[n - q + k]
  BY DEF IInv, Window
<1>4. Window'
  <2>0. q <= n
    <3> HIDE DEF q, n
    <3>1. q = IF n - bootAt <= Cap THEN n - bootAt ELSE Cap
      BY <1>3
    <3> QED
      BY <1>1, <3>1
  <2>1. CASE q >= Cap
    <3>1. /\ Len(seenQueue') = q /\ seenQueue'[q] = id
          /\ \A k \in 1..(q - 1) : seenQueue'[k] = seenQueue[k + 1]
      BY <2>1, RememberQueue DEF IInv
    <3> HIDE DEF q, n
    <3>2. q = IF (n + 1) - bootAt <= Cap THEN (n + 1) - bootAt ELSE Cap
      BY <1>1, <1>3, <2>1
    <3>3. ASSUME NEW k \in 1..q
          PROVE  seenQueue'[k] = approvals'[(n + 1) - q + k]
      <4>1. CASE k = q
        BY <1>1, <1>2, <3>1, <4>1
      <4>2. CASE k # q
        <5>1. k \in 1..(q - 1) /\ k + 1 \in 1..q /\ n - q + (k + 1) \in 1..n
              /\ n - q + (k + 1) = (n + 1) - q + k
          BY <1>1, <2>0, <4>2
        <5>2. seenQueue'[k] = approvals[n - q + (k + 1)]
          BY <1>3, <3>1, <5>1
        <5> QED
          BY <1>2, <5>1, <5>2
      <4> QED
        BY <4>1, <4>2
    <3> QED
      BY <1>2, <3>1, <3>2, <3>3 DEF Window
  <2>2. CASE q < Cap
    <3>1. /\ Len(seenQueue') = q + 1 /\ seenQueue'[q + 1] = id
          /\ \A k \in 1..q : seenQueue'[k] = seenQueue[k]
      BY <2>2, RememberQueue DEF IInv
    <3> HIDE DEF q, n
    <3>2. q + 1 = IF (n + 1) - bootAt <= Cap THEN (n + 1) - bootAt ELSE Cap
      BY <1>1, <1>3, <2>2
    <3>3. ASSUME NEW k \in 1..(q + 1)
          PROVE  seenQueue'[k] = approvals'[(n + 1) - (q + 1) + k]
      <4>1. CASE k = q + 1
        BY <1>1, <1>2, <3>1, <4>1
      <4>2. CASE k # q + 1
        <5>1. k \in 1..q /\ n - q + k \in 1..n /\ n - q + k = (n + 1) - (q + 1) + k
          BY <1>1, <2>0, <4>2
        <5> QED
          BY <1>2, <1>3, <3>1, <5>1
      <4> QED
        BY <4>1, <4>2
    <3> QED
      BY <1>2, <3>1, <3>2, <3>3 DEF Window
  <2>3. q >= Cap \/ q < Cap
    BY <1>1
  <2> QED
    BY <2>1, <2>2, <2>3
<1>5. ReapprovedOnlyAfterCap'
  <2> SUFFICES ASSUME NEW a \in (bootAt + 1)..(n + 1), NEW b \in (bootAt + 1)..(n + 1),
                      a < b, approvals'[a] = approvals'[b]
               PROVE  b - a > Cap
    BY <1>2 DEF ReapprovedOnlyAfterCap
  <2> HIDE DEF q, n
  <2>1. CASE b <= n
    <3>1. a \in (bootAt + 1)..n /\ b \in (bootAt + 1)..n /\ a \in 1..n /\ b \in 1..n
      BY <1>1, <2>1
    <3>2. approvals[a] = approvals[b]
      BY <1>2, <3>1
    <3> QED
      BY <3>1, <3>2 DEF IInv, ReapprovedOnlyAfterCap, n
  <2>2. CASE b > n
    <3>1. b = n + 1 /\ a \in 1..n /\ a \in (bootAt + 1)..n
      BY <1>1, <2>2
    <3>2. approvals[a] = id
      BY <1>2, <3>1
    <3>3. SUFFICES ASSUME b - a <= Cap
                   PROVE  FALSE
      BY <1>1, <3>1
    <3>4. a - (n - q) \in 1..q
      BY <1>1, <1>3, <3>1, <3>3
    <3>5. seenQueue[a - (n - q)] = approvals[n - q + (a - (n - q))]
      BY <1>3, <3>4
    <3>6. n - q + (a - (n - q)) = a
      BY <1>1, <3>1
    <3>7. seenQueue[a - (n - q)] \in seenSet
      BY <3>4 DEF IInv, TypeOK, SeenAgree, q
    <3> QED
      BY <3>2, <3>5, <3>6, <3>7
  <2>3. b <= n \/ b > n
    BY <1>1
  <2> QED
    BY <2>1, <2>2, <2>3
<1> QED
  BY <1>4, <1>5

-----------------------------------------------------------------------------
(* The inductive invariant.                                                *)

LEMMA InitIInv ==
  ASSUME Init
  PROVE  IInv
<1>1. TypeOK
  BY DEF Init, TypeOK, Calls
<1>2. Window /\ SeenAgree /\ ReapprovedOnlyAfterCap
  BY GatewayAssumption DEF Init, Window, SeenAgree, ReapprovedOnlyAfterCap
<1> QED
  BY <1>1, <1>2 DEF IInv

\* What the caller and the network do leaves the gateway alone.
LEMMA QuietGateway ==
  ASSUME IInv, UNCHANGED gatewayVars, rpc' \in [Callers -> Calls],
         waiting' \in SUBSET Live, granted' \in [Ids -> Nat]
  PROVE  IInv'
<1>1. TypeOK'
  BY DEF IInv, TypeOK, gatewayVars
<1> QED
  BY <1>1 DEF IInv, Window, SeenAgree, ReapprovedOnlyAfterCap, gatewayVars

LEMMA NextIInv ==
  ASSUME IInv, [Next]_vars
  PROVE  IInv'
<1>t. /\ rpc \in [Callers -> Calls] /\ waiting \in SUBSET Live /\ granted \in [Ids -> Nat]
      /\ Live \subseteq Callers /\ NoCall \in Calls
  BY GatewayAssumption DEF IInv, TypeOK, Calls
<1>1. ASSUME NEW c \in Callers, NEW id \in Ids, Call(c, id)
      PROVE  IInv'
  <2>1. [state |-> "sent", id |-> id] \in Calls
    BY DEF Calls
  <2>2. rpc' \in [Callers -> Calls] /\ waiting' \in SUBSET Live
    BY <1>t, <1>1, <2>1 DEF Call
  <2> QED
    BY <1>t, <1>1, <2>2, QuietGateway DEF Call
<1>2. ASSUME NEW c \in Callers, Receive(c)
      PROVE  IInv'
  <2>1. rpc' \in [Callers -> Calls] /\ waiting' \in SUBSET Live
    BY <1>t, <1>2 DEF Receive
  <2>2. granted' \in [Ids -> Nat]
    <3>1. \A i \in Ids : granted[i] + 1 \in Nat
      BY <1>t
    <3>2. CASE granted' = granted
      BY <1>t, <3>2
    <3>3. CASE granted' = [granted EXCEPT ![rpc[c].id] = @ + 1]
      BY <1>t, <3>1, <3>3
    <3> QED
      BY <1>2, <3>2, <3>3 DEF Receive
  <2> QED
    BY <1>2, <2>1, <2>2, QuietGateway DEF Receive
<1>3. ASSUME NEW c \in Callers, Deadline(c)
      PROVE  IInv'
  BY <1>t, <1>3, QuietGateway DEF Deadline
<1>4. ASSUME NEW c \in Callers, Lose(c)
      PROVE  IInv'
  BY <1>t, <1>4, QuietGateway DEF Lose
<1>5. ASSUME NEW c \in Callers, NEW approved \in BOOLEAN,
             rpc[c].state = "sent", Answer(c, approved)
      PROVE  rpc[c].id \in Ids /\ rpc' \in [Callers -> Calls]
  <2>1. rpc[c] \in [state : {"sent"}, id : Ids]
    <3>1. rpc[c] \in Calls /\ rpc[c] # NoCall
      BY <1>t, <1>5 DEF NoCall
    <3> QED
      BY <1>5, <3>1 DEF Calls
  <2>2. [state |-> "answered", id |-> rpc[c].id, approved |-> approved] \in Calls
    BY <2>1 DEF Calls
  <2> QED
    BY <1>t, <1>5, <2>1, <2>2 DEF Answer
<1>6. ASSUME NEW c \in Callers, RejectDuplicate(c)
      PROVE  IInv'
  <2>1. rpc' \in [Callers -> Calls]
    BY <1>5, <1>6 DEF RejectDuplicate
  <2> QED
    BY <1>t, <1>6, <2>1, QuietGateway DEF RejectDuplicate
<1>7. ASSUME NEW c \in Callers, Approve(c)
      PROVE  IInv'
  <2> DEFINE id == rpc[c].id
  <2>1. /\ id \in Ids /\ id \notin seenSet /\ Remember(id)
        /\ approvals' = Append(approvals, id) /\ rpc' \in [Callers -> Calls]
        /\ UNCHANGED <<waiting, granted, bootAt, restarts>>
    BY <1>5, <1>7 DEF Approve
  <2> HIDE DEF id
  <2>2. SeenAgree'
    BY <2>1, RememberKeepsAgreement
  <2>3. Window' /\ ReapprovedOnlyAfterCap'
    BY <2>1, ApproveKeepsWindow
  <2>4. seenQueue' \in Seq(Ids)
    BY <2>1, RememberQueue DEF IInv
  <2>5. seenSet' \in SUBSET Ids
    BY <2>2, <2>4 DEF SeenAgree
  <2>6. approvals' \in Seq(Ids) /\ bootAt' \in 0..Len(approvals')
    BY <2>1 DEF IInv, TypeOK
  <2>7. TypeOK'
    BY <2>1, <2>4, <2>5, <2>6 DEF IInv, TypeOK
  <2> QED
    BY <2>2, <2>3, <2>7 DEF IInv
<1>8. CASE Restart
  <2>1. /\ seenSet' = {} /\ seenQueue' = <<>> /\ bootAt' = Len(approvals)
        /\ restarts' = restarts + 1 /\ UNCHANGED <<approvals, rpc, waiting, granted>>
    BY <1>8 DEF Restart, callerVars
  <2>2. Len(approvals) \in Nat /\ Cap \in Nat
    BY GatewayAssumption DEF IInv, TypeOK
  <2>3. TypeOK'
    BY <2>1, <2>2 DEF IInv, TypeOK
  <2>4. Window' /\ SeenAgree' /\ ReapprovedOnlyAfterCap'
    BY <2>1, <2>2 DEF Window, SeenAgree, ReapprovedOnlyAfterCap
  <2> QED
    BY <2>3, <2>4 DEF IInv
<1>9. CASE UNCHANGED vars
  BY <1>t, <1>9, QuietGateway DEF vars, callerVars
<1> QED
  BY <1>1, <1>2, <1>3, <1>4, <1>6, <1>7, <1>8, <1>9 DEF Next

THEOREM InductiveInvariant == Spec => []IInv
<1>1. Init => IInv
  BY InitIInv
<1>2. IInv /\ [Next]_vars => IInv'
  BY NextIInv
<1> QED
  BY <1>1, <1>2, PTL DEF Spec

\* The set and the queue of authorize never come apart, and never exceed the cap.
THEOREM MemoryIsBounded == Spec => []SeenAgree
<1>1. IInv => SeenAgree
  BY DEF IInv
<1> QED
  BY <1>1, InductiveInvariant, PTL

\* For every cap: an id is approved again by the same process only after more
\* approvals of other ids than the cap leaves room for.
THEOREM DuplicateFilter == Spec => []ReapprovedOnlyAfterCap
<1>1. IInv => ReapprovedOnlyAfterCap
  BY DEF IInv
<1> QED
  BY <1>1, InductiveInvariant, PTL

-----------------------------------------------------------------------------
(* Grants.                                                                 *)

Approval(id) == [state |-> "answered", id |-> id, approved |-> TRUE]

\* The calls for which an approval of the id is on its way, or has arrived
\* after the caller gave up.
Holding(id) == { c \in Callers : rpc[c] = Approval(id) }

\* A caller is told of an approval at the expense of an answer that exists, and
\* an answer comes into being only with an approval of the gateway.
Booked ==
  \A id \in Ids :
    /\ IsFiniteSet(Holding(id))
    /\ granted[id] + Cardinality(Holding(id)) <= Cardinality(ApprovalsOf(id))

\* The approvals are finitely many, and one more adds one.
LEMMA ApprovalsAreFinite ==
  ASSUME TypeOK, NEW id \in Ids
  PROVE  IsFiniteSet(ApprovalsOf(id)) /\ Cardinality(ApprovalsOf(id)) \in Nat
<1>1. Len(approvals) \in Nat /\ DOMAIN approvals = 1..Len(approvals)
  BY DEF TypeOK
<1>2. IsFiniteSet(1..Len(approvals))
  BY <1>1, FS_Interval
<1>3. IsFiniteSet(ApprovalsOf(id))
  BY <1>1, <1>2, FS_Subset DEF ApprovalsOf
<1> QED
  BY <1>3, FS_CardinalityType

LEMMA ApprovalsGrow ==
  ASSUME TypeOK, NEW id \in Ids, NEW new \in Ids, approvals' = Append(approvals, new)
  PROVE  Cardinality(ApprovalsOf(id)') =
           Cardinality(ApprovalsOf(id)) + (IF id = new THEN 1 ELSE 0)
<1> DEFINE n == Len(approvals)
<1>1. /\ n \in Nat /\ DOMAIN approvals = 1..n /\ DOMAIN approvals' = 1..(n + 1)
      /\ approvals'[n + 1] = new /\ \A a \in 1..n : approvals'[a] = approvals[a]
  BY DEF TypeOK
<1>f. IsFiniteSet(ApprovalsOf(id)) /\ Cardinality(ApprovalsOf(id)) \in Nat
  BY ApprovalsAreFinite
<1> HIDE DEF n
<1>2. 1..(n + 1) = 1..n \cup {n + 1} /\ n + 1 \notin 1..n
  BY <1>1
<1>3. CASE id = new
  <2>1. ApprovalsOf(id)' = ApprovalsOf(id) \cup {n + 1} /\ n + 1 \notin ApprovalsOf(id)
    BY <1>1, <1>2, <1>3 DEF ApprovalsOf
  <2> QED
    BY <1>f, <1>3, <2>1, FS_AddElement
<1>4. CASE id # new
  <2>1. ApprovalsOf(id)' = ApprovalsOf(id)
    BY <1>1, <1>2, <1>4 DEF ApprovalsOf
  <2> QED
    BY <1>f, <1>4, <2>1
<1> QED
  BY <1>3, <1>4

\* Neither a request, a missing call nor a refusal is an approval.
LEMMA OtherCalls ==
  ASSUME NEW id, NEW other
  PROVE  /\ NoCall # Approval(id)
         /\ [state |-> "sent", id |-> other] # Approval(id)
         /\ [state |-> "answered", id |-> other, approved |-> FALSE] # Approval(id)
         /\ other # id => Approval(other) # Approval(id)
<1>1. /\ NoCall.state = "none" /\ [state |-> "sent", id |-> other].state = "sent"
      /\ Approval(id).state = "answered" /\ Approval(id).approved = TRUE
      /\ [state |-> "answered", id |-> other, approved |-> FALSE].approved = FALSE
      /\ Approval(id).id = id /\ Approval(other).id = other
  BY DEF NoCall, Approval
<1> QED
  BY <1>1

\* The caller and the network: answers are used up or lost, never made.
LEMMA QuietBooked ==
  ASSUME IInv, Booked, UNCHANGED <<approvals, granted>>,
         \A id \in Ids : Holding(id)' \subseteq Holding(id)
  PROVE  Booked'
<1> SUFFICES ASSUME NEW id \in Ids
             PROVE  /\ IsFiniteSet(Holding(id)')
                    /\ granted[id] + Cardinality(Holding(id)') <= Cardinality(ApprovalsOf(id))
  BY DEF Booked, ApprovalsOf
<1>1. IsFiniteSet(Holding(id)) /\ Holding(id)' \in SUBSET Holding(id)
  BY DEF Booked
<1>2. IsFiniteSet(Holding(id)') /\ Cardinality(Holding(id)') <= Cardinality(Holding(id))
  BY <1>1, FS_Subset
<1>3. /\ granted[id] \in Nat /\ Cardinality(ApprovalsOf(id)) \in Nat
      /\ Cardinality(Holding(id)) \in Nat /\ Cardinality(Holding(id)') \in Nat
  BY <1>1, <1>2, ApprovalsAreFinite, FS_CardinalityType DEF IInv, TypeOK
<1>4. granted[id] + Cardinality(Holding(id)) <= Cardinality(ApprovalsOf(id))
  BY DEF Booked
<1> QED
  BY <1>2, <1>3, <1>4

LEMMA NextBooked ==
  ASSUME IInv, Booked, [Next]_vars
  PROVE  Booked'
<1>t. TypeOK /\ rpc \in [Callers -> Calls] /\ granted \in [Ids -> Nat]
  BY DEF IInv, TypeOK
<1>0. ASSUME UNCHANGED <<rpc, granted, approvals>>
      PROVE  Booked'
  BY <1>0 DEF Booked, Holding, ApprovalsOf
<1>1. ASSUME NEW c \in Callers, NEW id \in Ids, Call(c, id)
      PROVE  Booked'
  <2>1. rpc' = [rpc EXCEPT ![c] = [state |-> "sent", id |-> id]]
    BY <1>1 DEF Call
  <2>2. \A i \in Ids : Holding(i)' \subseteq Holding(i)
    BY <1>t, <2>1, OtherCalls DEF Holding
  <2> QED
    BY <1>1, <2>2, QuietBooked DEF Call, gatewayVars
<1>2. ASSUME NEW c \in Callers, Receive(c)
      PROVE  Booked'
  <2>1. rpc' = [rpc EXCEPT ![c] = NoCall] /\ UNCHANGED approvals
    BY <1>2 DEF Receive, gatewayVars
  <2>2. rpc[c] \in [state : {"answered"}, id : Ids, approved : BOOLEAN]
    <3>1. rpc[c] \in Calls /\ rpc[c].state = "answered"
      BY <1>t, <1>2 DEF Receive
    <3> QED
      BY <3>1 DEF Calls, NoCall
  <2>3. \A i \in Ids : Holding(i)' = Holding(i) \ {c}
    BY <1>t, <2>1, OtherCalls DEF Holding
  <2>4. CASE rpc[c].approved
    <3> DEFINE id == rpc[c].id
    <3>1. id \in Ids /\ rpc[c] = Approval(id) /\ granted' = [granted EXCEPT ![id] = @ + 1]
      BY <1>2, <2>2, <2>4 DEF Receive, Approval
    <3> HIDE DEF id
    <3> SUFFICES ASSUME NEW i \in Ids
                 PROVE  /\ IsFiniteSet(Holding(i)')
                        /\ granted'[i] + Cardinality(Holding(i)') <= Cardinality(ApprovalsOf(i))
      BY <2>1 DEF Booked, ApprovalsOf
    <3>2. /\ IsFiniteSet(Holding(i)') /\ Cardinality(Holding(i)') \in Nat
          /\ Cardinality(Holding(i)') =
               Cardinality(Holding(i)) - (IF c \in Holding(i) THEN 1 ELSE 0)
      <4>1. IsFiniteSet(Holding(i)) /\ Cardinality(Holding(i)) \in Nat
        BY FS_CardinalityType DEF Booked
      <4>2. IsFiniteSet(Holding(i)') /\ Cardinality(Holding(i)') \in Nat
        BY <2>3, <4>1, FS_RemoveElement, FS_CardinalityType
      <4> QED
        BY <2>3, <4>1, <4>2, FS_RemoveElement
    <3>3. i = id => c \in Holding(i)
      BY <3>1 DEF Holding
    <3>4. /\ granted[i] \in Nat /\ Cardinality(ApprovalsOf(i)) \in Nat
          /\ granted'[i] = granted[i] + (IF i = id THEN 1 ELSE 0)
      BY <1>t, <3>1, ApprovalsAreFinite
    <3>5. /\ granted[i] + Cardinality(Holding(i)) <= Cardinality(ApprovalsOf(i))
          /\ Cardinality(Holding(i)) \in Nat
      BY FS_CardinalityType DEF Booked
    <3> QED
      BY <3>2, <3>3, <3>4, <3>5
  <2>5. CASE ~rpc[c].approved
    <3>1. UNCHANGED granted
      BY <1>2, <2>5 DEF Receive
    <3> QED
      BY <2>1, <2>3, <3>1, QuietBooked
  <2> QED
    BY <2>4, <2>5
<1>3. ASSUME NEW c \in Callers, Deadline(c)
      PROVE  Booked'
  BY <1>0, <1>3 DEF Deadline, gatewayVars
<1>4. ASSUME NEW c \in Callers, Lose(c)
      PROVE  Booked'
  <2>1. \A i \in Ids : Holding(i)' \subseteq Holding(i)
    BY <1>t, <1>4, OtherCalls DEF Lose, Holding
  <2> QED
    BY <1>4, <2>1, QuietBooked DEF Lose, gatewayVars
<1>5. ASSUME NEW c \in Callers, RejectDuplicate(c)
      PROVE  Booked'
  <2>1. /\ rpc' = [rpc EXCEPT ![c] =
                     [state |-> "answered", id |-> rpc[c].id, approved |-> FALSE]]
        /\ UNCHANGED <<approvals, granted>>
    BY <1>5 DEF RejectDuplicate, Answer, gatewayVars
  <2>2. \A i \in Ids : Holding(i)' \subseteq Holding(i)
    BY <1>t, <2>1, OtherCalls DEF Holding
  <2> QED
    BY <2>1, <2>2, QuietBooked
<1>6. ASSUME NEW c \in Callers, Approve(c)
      PROVE  Booked'
  <2> DEFINE id == rpc[c].id
  <2>1. /\ rpc' = [rpc EXCEPT ![c] = Approval(id)] /\ approvals' = Append(approvals, id)
        /\ UNCHANGED granted /\ rpc[c].state = "sent"
    BY <1>6 DEF Approve, Answer, Approval
  <2>2. id \in Ids
    <3>1. rpc[c] \in Calls /\ rpc[c].state = "sent"
      BY <1>t, <2>1
    <3> QED
      BY <3>1 DEF Calls, NoCall
  <2>3. \A i \in Ids : rpc[c] # Approval(i)
    BY <2>1 DEF Approval
  <2> HIDE DEF id
  <2> SUFFICES ASSUME NEW i \in Ids
               PROVE  /\ IsFiniteSet(Holding(i)')
                      /\ granted[i] + Cardinality(Holding(i)') <= Cardinality(ApprovalsOf(i)')
    BY <2>1 DEF Booked
  <2>4. /\ IsFiniteSet(Holding(i)) /\ Cardinality(Holding(i)) \in Nat
        /\ granted[i] + Cardinality(Holding(i)) <= Cardinality(ApprovalsOf(i))
    BY FS_CardinalityType DEF Booked
  <2>5. granted[i] \in Nat /\ Cardinality(ApprovalsOf(i)) \in Nat
    BY <1>t, ApprovalsAreFinite
  <2>6. CASE i = id
    <3>1. Holding(i)' = Holding(i) \cup {c} /\ c \notin Holding(i)
      BY <1>t, <2>1, <2>3, <2>6 DEF Holding
    <3>2. /\ IsFiniteSet(Holding(i)')
          /\ Cardinality(Holding(i)') = Cardinality(Holding(i)) + 1
      BY <2>4, <3>1, FS_AddElement
    <3>3. Cardinality(ApprovalsOf(i)') = Cardinality(ApprovalsOf(i)) + 1
      BY <1>t, <2>1, <2>2, <2>6, ApprovalsGrow
    <3> QED
      BY <2>4, <2>5, <3>2, <3>3
  <2>7. CASE i # id
    <3>1. Holding(i)' = Holding(i)
      BY <1>t, <2>1, <2>3, <2>7, OtherCalls DEF Holding
    <3>2. Cardinality(ApprovalsOf(i)') = Cardinality(ApprovalsOf(i))
      BY <1>t, <2>1, <2>2, <2>5, <2>7, ApprovalsGrow
    <3> QED
      BY <2>4, <3>1, <3>2
  <2> QED
    BY <2>6, <2>7
<1>7. CASE Restart
  BY <1>0, <1>7 DEF Restart, callerVars
<1>8. CASE UNCHANGED vars
  BY <1>0, <1>8 DEF vars, gatewayVars, callerVars
<1> QED
  BY <1>1, <1>2, <1>3, <1>4, <1>5, <1>6, <1>7, <1>8 DEF Next

LEMMA InitBooked ==
  ASSUME Init
  PROVE  Booked
<1> SUFFICES ASSUME NEW id \in Ids
             PROVE  /\ IsFiniteSet(Holding(id))
                    /\ granted[id] + Cardinality(Holding(id)) <= Cardinality(ApprovalsOf(id))
  BY DEF Booked
<1>1. Holding(id) = {} /\ ApprovalsOf(id) = {} /\ granted[id] = 0
  BY OtherCalls DEF Init, Holding, ApprovalsOf
<1> QED
  BY <1>1, FS_EmptySet

\* A caller is told that an order may go out at most as often as the gateway
\* approved it, whatever is lost, late or repeated on the way.
THEOREM FailClosed == Spec => []GrantedOnlyIfApproved
<1>1. Init => Booked
  BY InitBooked
<1>2. IInv /\ Booked /\ [Next]_vars => Booked'
  BY NextBooked
<1>3. IInv /\ Booked => GrantedOnlyIfApproved
  <2> SUFFICES ASSUME IInv, Booked, NEW id \in Ids
               PROVE  granted[id] <= Cardinality(ApprovalsOf(id))
    BY DEF GrantedOnlyIfApproved
  <2>1. /\ Cardinality(Holding(id)) \in Nat /\ Cardinality(ApprovalsOf(id)) \in Nat
        /\ granted[id] \in Nat
    BY FS_CardinalityType, ApprovalsAreFinite DEF IInv, TypeOK, Booked
  <2>2. granted[id] + Cardinality(Holding(id)) <= Cardinality(ApprovalsOf(id))
    BY DEF Booked
  <2> QED
    BY <2>1, <2>2
<1> QED
  BY <1>1, <1>2, <1>3, InductiveInvariant, PTL DEF Spec

\* The variables of the gateway and of its callers keep their types.
THEOREM TypeCorrect == Spec => []TypeOK
<1>1. IInv => TypeOK
  BY DEF IInv
<1> QED
  BY <1>1, InductiveInvariant, PTL

=============================================================================
