------------------------ MODULE ExperimentStoreProofs ------------------------
(***************************************************************************)
(* Experiments and the trades they keep: which one is ACTIVE, and where a  *)
(* closed trade is, for every value of the constants.                      *)
(***************************************************************************)
EXTENDS ExperimentStore, Integers, FiniteSetTheorems, SequenceTheorems, TLAPS

LEMMA Constants ==
  /\ LastEngine \in Nat /\ LastEngine >= 1 /\ MaxTrades \in Nat /\ MaxFreezes \in Nat
  /\ MaxCrashes \in Nat /\ MaxFaults \in Nat
  /\ Kinds \subseteq {"freeze", "wipe"} /\ Updates \subseteq Statuses
<1>1. /\ {LastEngine, HistoryCap, MaxTrades, MaxFreezes, MaxMoves, MaxFaults, MaxCrashes} \subseteq Nat
      /\ LastEngine > 0 /\ Kinds \subseteq {"freeze", "wipe"} /\ Updates \subseteq Statuses
  BY ExperimentAssumption
<1> QED
  BY <1>1

\* States of a request that has not created its experiment.
PendingStates == {"active", "snapshot", "freeze", "nextId", "create"}

Pending == { f \in Requests : reqs[f].at \in PendingStates }

-----------------------------------------------------------------------------
(* The active ones of a sequence of experiments.                           *)

ActiveIn(s) == { n \in DOMAIN s : s[n] = "ACTIVE" }

LEMMA ActiveAppended ==
  ASSUME NEW s \in Seq(Statuses)
  PROVE  /\ Append(s, "ACTIVE") \in Seq(Statuses) /\ Len(Append(s, "ACTIVE")) = Len(s) + 1
         /\ DOMAIN Append(s, "ACTIVE") = 1..(Len(s) + 1)
         /\ \A n \in 1..Len(s) : Append(s, "ACTIVE")[n] = s[n]
         /\ ActiveIn(Append(s, "ACTIVE")) = ActiveIn(s) \cup {Len(s) + 1}
<1> DEFINE all == Append(s, "ACTIVE")
<1>1. "ACTIVE" \in Statuses
  BY DEF Statuses
<1>2. /\ all \in Seq(Statuses) /\ Len(all) = Len(s) + 1 /\ all[Len(s) + 1] = "ACTIVE"
      /\ \A n \in 1..Len(s) : all[n] = s[n]
  BY <1>1, AppendProperties
<1>3. Len(s) \in Nat /\ DOMAIN s = 1..Len(s) /\ DOMAIN all = 1..(Len(s) + 1)
  BY <1>2, LenProperties
<1> HIDE DEF all
<1>4. ActiveIn(all) = ActiveIn(s) \cup {Len(s) + 1}
  BY <1>2, <1>3 DEF ActiveIn
<1> QED
  BY <1>2, <1>3, <1>4 DEF all

\* A status set puts its experiment in or takes it out.
LEMMA ActiveReplaced ==
  ASSUME NEW s \in Seq(Statuses), NEW n \in 1..Len(s), NEW v \in Statuses
  PROVE  /\ [s EXCEPT ![n] = v] \in Seq(Statuses) /\ Len([s EXCEPT ![n] = v]) = Len(s)
         /\ DOMAIN [s EXCEPT ![n] = v] = 1..Len(s)
         /\ \A k \in 1..Len(s) : [s EXCEPT ![n] = v][k] = IF k = n THEN v ELSE s[k]
         /\ ActiveIn([s EXCEPT ![n] = v]) =
              IF v = "ACTIVE" THEN ActiveIn(s) \cup {n} ELSE ActiveIn(s) \ {n}
<1> DEFINE all == [s EXCEPT ![n] = v]
<1>1. /\ all \in Seq(Statuses) /\ Len(all) = Len(s)
      /\ \A k \in 1..Len(s) : all[k] = IF k = n THEN v ELSE s[k]
  BY ExceptSeq
<1>2. Len(s) \in Nat /\ DOMAIN s = 1..Len(s) /\ DOMAIN all = 1..Len(s)
  BY <1>1, LenProperties
<1> HIDE DEF all
<1>3. ActiveIn(all) = IF v = "ACTIVE" THEN ActiveIn(s) \cup {n} ELSE ActiveIn(s) \ {n}
  BY <1>1, <1>2 DEF ActiveIn
<1> QED
  BY <1>1, <1>2, <1>3 DEF all

\* A set of naturals that is not empty has a least element.
LEMMA LeastNatural ==
  ASSUME NEW A \in SUBSET Nat, A # {}
  PROVE  \E m \in A : \A k \in A : m <= k
<1> DEFINE T == { 0..n : n \in A }
           R == StrictSubsetOrdering(Nat)
<1>1. IsWellFoundedOn(R, FiniteSubsetsOf(Nat))
  BY FS_StrictSubsetOrderingWellFounded
<1>2. T \subseteq FiniteSubsetsOf(Nat)
  <2> SUFFICES ASSUME NEW n \in A PROVE 0..n \in FiniteSubsetsOf(Nat)
    OBVIOUS
  <2>1. IsFiniteSet(0..n) /\ 0..n \subseteq Nat
    BY FS_Interval
  <2> QED
    BY <2>1 DEF FiniteSubsetsOf
<1>3. T # {}
  OBVIOUS
<1> HIDE DEF T, R
<1>4. PICK x \in T : \A y \in T : ~(<<y, x>> \in R)
  BY <1>1, <1>2, <1>3, WFMin
<1>5. PICK m \in A : x = 0..m
  BY DEF T
<1>6. \A k \in A : m <= k
  <2> SUFFICES ASSUME NEW k \in A, ~(m <= k) PROVE FALSE
    OBVIOUS
  <2>1. 0..k \in T
    BY DEF T
  <2>2. 0..k \subseteq 0..m /\ m \in 0..m /\ m \notin 0..k /\ 0..m \subseteq Nat /\ 0..k \subseteq Nat
    OBVIOUS
  <2>3. <<0..k, x>> \in R
    BY <1>5, <2>2 DEF R, StrictSubsetOrdering
  <2> QED
    BY <1>4, <2>1, <2>3
<1> QED
  BY <1>6

\* Of a bounded set of naturals, Max is the greatest.
LEMMA MaxOfBounded ==
  ASSUME NEW A \in SUBSET Nat, A # {}, NEW b \in Nat, \A a \in A : a <= b
  PROVE  Max(A) \in A /\ \A a \in A : Max(A) >= a
<1> DEFINE U == { u \in Nat : \A a \in A : a <= u }
<1>1. PICK m \in U : \A k \in U : m <= k
  BY LeastNatural
<1>2. m \in A
  <2> SUFFICES ASSUME m \notin A PROVE FALSE
    OBVIOUS
  <2>1. \A a \in A : a \in Nat /\ a <= m /\ a # m
    OBVIOUS
  <2>2. PICK a0 \in A : TRUE
    OBVIOUS
  <2>3. m \in Nat /\ m - 1 \in Nat /\ (\A a \in A : a <= m - 1) /\ ~(m <= m - 1)
    BY <2>1, <2>2
  <2>4. m - 1 \in U
    BY <2>3
  <2> QED
    BY <1>1, <2>3, <2>4
<1>3. \A a \in A : m >= a
  OBVIOUS
<1> QED
  BY <1>2, <1>3 DEF Max

-----------------------------------------------------------------------------
(* The invariant, for any number of requests.                              *)

ExpsOK ==
  /\ exps \in Seq(Statuses) /\ snaps \subseteq 1..Len(exps) /\ rows \in [Trades -> 0..Len(exps)]
  /\ moved \subseteq 1..Len(exps) /\ abandoned \subseteq 1..Len(exps)

\* What has not been saved keeps the timer armed.
MemOK ==
  /\ history \in [Engines -> SUBSET Trades] /\ file \in [Engines -> SUBSET Trades]
  /\ timer \in BOOLEAN /\ again \in BOOLEAN
  /\ next \in 1..(MaxTrades + 1) /\ exposed \subseteq Trades
  /\ skipped \subseteq Trades /\ faults \in 0..MaxFaults
  /\ ~timer => file = history

\* A copy under way is one into an experiment.
SyncOK ==
  /\ sync \in [at : {"idle", "read", "insert"}, exp : Nat, engine : Engines,
               todo : SUBSET Trades, live : BOOLEAN]
  /\ sync.exp <= Len(exps)
  /\ again => sync.at # "idle"
  /\ sync.at = "insert" => sync.exp # None

\* A request that goes on past its first read has found an experiment.
ReqOK(x) ==
  /\ x.exp <= Len(exps) /\ x.new <= Len(exps) + 1
  /\ x.at = "idle" => x.todo = {}
  /\ x.at \notin {"idle", "active"} => x.exp # None

ReqsOK == reqs \in [Requests -> Req] /\ \A f \in Requests : ReqOK(reqs[f])

\* Every experiment but the first is paid for by a request or a crash.
CountOK ==
  /\ IsFiniteSet(Pending)
  /\ Len(exps) + Cardinality(Pending) <= 1 + freezes + crashes
  /\ freezes \in 0..MaxFreezes /\ crashes \in 0..MaxCrashes

IInv == ExpsOK /\ MemOK /\ SyncOK /\ ReqsOK /\ CountOK

LEMMA ExpsLen == ExpsOK => Len(exps) \in Nat /\ DOMAIN exps = 1..Len(exps)
BY LenProperties DEF ExpsOK

LEMMA TypesHold == IInv => TypeOK
<1> SUFFICES ASSUME IInv PROVE TypeOK
  OBVIOUS
<1>1. Len(exps) \in Nat /\ DOMAIN exps = 1..Len(exps)
  BY ExpsLen DEF IInv
<1>2. Cardinality(Pending) \in Nat
  BY FS_CardinalityType DEF IInv, CountOK
<1>3. Len(exps) <= MaxFreezes + MaxCrashes + 1
  BY <1>1, <1>2, Constants DEF IInv, CountOK
<1>4. sync.exp \in 0..(MaxFreezes + MaxCrashes + 1)
  BY <1>1, <1>3, Constants DEF IInv, SyncOK
<1>5. sync \in Sync
  BY <1>4 DEF IInv, SyncOK, Sync
<1>6. \A f \in Requests : reqs[f].exp <= Len(exps) /\ reqs[f].new <= Len(exps) + 1
  BY DEF IInv, ReqsOK, ReqOK
<1> QED
  BY <1>1, <1>5, <1>6 DEF IInv, ExpsOK, MemOK, SyncOK, ReqsOK, CountOK, TypeOK

LEMMA LatestIsActive ==
  ASSUME ExpsOK, LatestActive # None
  PROVE  /\ LatestActive \in Active /\ LatestActive \in 1..Len(exps)
         /\ \A n \in Active : LatestActive >= n
<1>1. Len(exps) \in Nat /\ Active \subseteq 1..Len(exps)
  BY ExpsLen DEF Active
<1>2. Active # {} /\ LatestActive = Max(Active)
  BY DEF LatestActive
<1>3. Max(Active) \in Active /\ \A n \in Active : Max(Active) >= n
  <2>1. Active \in SUBSET Nat /\ \A a \in Active : a <= Len(exps)
    BY <1>1
  <2> QED
    BY <1>1, <1>2, <2>1, MaxOfBounded
<1> QED
  BY <1>1, <1>2, <1>3

LEMMA ReqFields ==
  ASSUME ReqsOK, NEW f \in Requests
  PROVE  /\ reqs[f] \in Req /\ ReqOK(reqs[f])
         /\ reqs[f].exp \in Nat /\ reqs[f].new \in Nat /\ reqs[f].todo \subseteq Trades
         /\ reqs[f].kind \in {"freeze", "wipe"}
         /\ reqs[f].at \in PendingStates \cup {"idle", "store"}
BY DEF ReqsOK, Req, PendingStates

LEMMA NoRequestFields ==
  /\ NoRequest \in Req /\ NoRequest.at = "idle" /\ NoRequest.exp = 0 /\ NoRequest.new = 0
  /\ NoRequest.todo = {}
BY DEF NoRequest, Req, None

LEMMA NoSyncFields ==
  /\ NoSync.at = "idle" /\ NoSync.exp = 0
  /\ NoSync \in [at : {"idle", "read", "insert"}, exp : Nat, engine : Engines,
                 todo : SUBSET Trades, live : BOOLEAN]
  /\ [NoSync EXCEPT !.at = "read"].exp = 0 /\ [NoSync EXCEPT !.at = "read"].at = "read"
  /\ [NoSync EXCEPT !.at = "read"] \in [at : {"idle", "read", "insert"}, exp : Nat, engine : Engines,
                 todo : SUBSET Trades, live : BOOLEAN]
<1> DEFINE T == [at : {"idle", "read", "insert"}, exp : Nat, engine : Engines,
                 todo : SUBSET Trades, live : BOOLEAN]
<1>1. 1 \in Engines
  BY Constants DEF Engines
<1>2. NoSync \in T /\ NoSync.at = "idle" /\ NoSync.exp = 0
  BY <1>1 DEF NoSync, None
<1>3. PICK none : none = NoSync
  OBVIOUS
<1>4. /\ [none EXCEPT !.at = "read"] \in T /\ [none EXCEPT !.at = "read"].exp = none.exp
      /\ [none EXCEPT !.at = "read"].at = "read"
  BY <1>2, <1>3
<1> QED
  BY <1>2, <1>3, <1>4

-----------------------------------------------------------------------------
(* What a step leaves alone.                                               *)

LEMMA ExpsRest ==
  ASSUME ExpsOK, UNCHANGED <<expVars, rows, moved>>, abandoned' \subseteq 1..Len(exps)
  PROVE  ExpsOK' /\ Len(exps)' = Len(exps)
BY DEF ExpsOK, expVars

LEMMA MarksRest ==
  ASSUME ExpsOK, UNCHANGED <<expVars, rows, marks>>
  PROVE  ExpsOK' /\ Len(exps)' = Len(exps)
BY DEF ExpsOK, expVars, marks

LEMMA MemRest ==
  ASSUME MemOK, UNCHANGED <<history, file, timer, again, next, exposed, aside>>
  PROVE  MemOK'
BY DEF MemOK, aside

LEMMA MemKept ==
  ASSUME IInv, UNCHANGED <<memVars, next, exposed, aside>>
  PROVE  MemOK' /\ UNCHANGED <<again, sync>>
BY DEF IInv, MemOK, memVars, aside

LEMMA SyncRest ==
  ASSUME SyncOK, ExpsOK, UNCHANGED <<again, sync>>, Len(exps)' \in Nat, Len(exps)' >= Len(exps)
  PROVE  SyncOK'
<1>1. Len(exps) \in Nat
  BY ExpsLen
<1> QED
  BY <1>1 DEF SyncOK

\* One request moves to x, and the number of experiments does not fall.
LEMMA ReqMoves ==
  ASSUME ReqsOK, ExpsOK, NEW f \in Requests, NEW x \in Req,
         reqs' = [reqs EXCEPT ![f] = x],
         Len(exps)' \in Nat, Len(exps)' >= Len(exps),
         x.exp <= Len(exps)', x.new <= Len(exps)' + 1, x.at = "idle" => x.todo = {},
         x.at \notin {"idle", "active"} => x.exp # None
  PROVE  ReqsOK' /\ \A g \in Requests : reqs'[g] = IF g = f THEN x ELSE reqs[g]
<1>1. \A g \in Requests : reqs'[g] = IF g = f THEN x ELSE reqs[g]
  BY DEF ReqsOK
<1>2. reqs' \in [Requests -> Req]
  BY DEF ReqsOK
<1>3. ASSUME NEW g \in Requests PROVE ReqOK(reqs[g])'
  <2>1. CASE g = f
    BY <1>1, <2>1 DEF ReqOK
  <2>2. CASE g # f
    <3>1. reqs'[g] = reqs[g] /\ ReqOK(reqs[g]) /\ reqs[g].exp \in Nat /\ reqs[g].new \in Nat
      BY <1>1, <2>2, ReqFields
    <3>2. Len(exps) \in Nat
      BY ExpsLen
    <3> QED
      BY <3>1, <3>2 DEF ReqOK
  <2> QED
    BY <2>1, <2>2
<1> QED
  BY <1>1, <1>2, <1>3 DEF ReqsOK

LEMMA ReqsRest ==
  ASSUME ReqsOK, ExpsOK, UNCHANGED reqs, Len(exps)' \in Nat, Len(exps)' >= Len(exps)
  PROVE  ReqsOK'
<1>1. ASSUME NEW g \in Requests PROVE ReqOK(reqs[g])'
  <2>1. ReqOK(reqs[g]) /\ reqs[g].exp \in Nat /\ reqs[g].new \in Nat /\ Len(exps) \in Nat
    BY ReqFields, ExpsLen
  <2> QED
    BY <2>1 DEF ReqOK
<1> QED
  BY <1>1 DEF ReqsOK

\* How the count follows the one request that moves.
LEMMA CountMoves ==
  ASSUME CountOK, ReqsOK, ExpsOK, NEW f \in Requests, NEW x,
         \A g \in Requests : reqs'[g] = IF g = f THEN x ELSE reqs[g],
         Len(exps)' \in Nat, crashes' = crashes, freezes' \in 0..MaxFreezes,
         \/ /\ reqs[f].at \in PendingStates /\ x.at \notin PendingStates
            /\ freezes' = freezes /\ Len(exps)' <= Len(exps) + 1
         \/ /\ reqs[f].at \in PendingStates <=> x.at \in PendingStates
            /\ freezes' = freezes /\ Len(exps)' = Len(exps)
         \/ /\ reqs[f].at \notin PendingStates /\ x.at \in PendingStates
            /\ freezes' = freezes + 1 /\ Len(exps)' = Len(exps)
  PROVE  CountOK'
<1>1. Len(exps) \in Nat /\ IsFiniteSet(Pending) /\ Cardinality(Pending) \in Nat
      /\ freezes \in Nat /\ crashes \in Nat
  BY ExpsLen, FS_CardinalityType, Constants DEF CountOK
<1>2. Pending' = { g \in Requests : reqs'[g].at \in PendingStates }
  BY DEF Pending, PendingStates
<1>3. CASE /\ reqs[f].at \in PendingStates /\ x.at \notin PendingStates
           /\ freezes' = freezes /\ Len(exps)' <= Len(exps) + 1
  <2>1. f \in Pending /\ Pending' = Pending \ {f}
    BY <1>2, <1>3 DEF Pending
  <2>2. IsFiniteSet(Pending') /\ Cardinality(Pending') = Cardinality(Pending) - 1
    BY <1>1, <2>1, FS_RemoveElement
  <2> QED
    BY <1>1, <1>3, <2>2 DEF CountOK
<1>4. CASE /\ reqs[f].at \in PendingStates <=> x.at \in PendingStates
           /\ freezes' = freezes /\ Len(exps)' = Len(exps)
  <2>1. Pending' = Pending
    BY <1>2, <1>4 DEF Pending
  <2> QED
    BY <1>1, <1>4, <2>1 DEF CountOK
<1>5. CASE /\ reqs[f].at \notin PendingStates /\ x.at \in PendingStates
           /\ freezes' = freezes + 1 /\ Len(exps)' = Len(exps)
  <2>1. f \notin Pending /\ Pending' = Pending \cup {f}
    BY <1>2, <1>5 DEF Pending
  <2>2. IsFiniteSet(Pending') /\ Cardinality(Pending') = Cardinality(Pending) + 1
    BY <1>1, <2>1, FS_AddElement
  <2> QED
    BY <1>1, <1>5, <2>2 DEF CountOK
<1> QED
  BY <1>3, <1>4, <1>5

LEMMA CountRest ==
  ASSUME CountOK, UNCHANGED <<reqs, freezes, crashes>>, Len(exps)' = Len(exps)
  PROVE  CountOK'
<1>1. Pending' = Pending
  BY DEF Pending, PendingStates
<1> QED
  BY <1>1 DEF CountOK

-----------------------------------------------------------------------------
(* The invariant holds at first, and every step keeps it.                  *)

LEMMA InitHolds == Init => IInv
<1> SUFFICES ASSUME Init PROVE IInv
  OBVIOUS
<1>1. Len(exps) = 1 /\ exps \in Seq(Statuses)
  BY DEF Init, Statuses
<1>2. ExpsOK
  BY <1>1 DEF Init, ExpsOK, None
<1>3. MemOK
  <2>1. 1 \in 1..(MaxTrades + 1) /\ 0 \in 0..MaxFaults
    BY Constants
  <2>2. history \in [Engines -> SUBSET Trades]
    BY DEF Init
  <2> QED
    BY <2>1, <2>2 DEF Init, MemOK
<1>4. SyncOK
  BY <1>1, NoSyncFields DEF Init, SyncOK
<1>5. \A f \in Requests : reqs[f] = NoRequest
  BY DEF Init
<1>6. ReqsOK
  BY <1>1, <1>5, NoRequestFields DEF Init, ReqsOK, ReqOK
<1>7. Pending = {}
  BY <1>5, NoRequestFields DEF Pending, PendingStates
<1>8. CountOK
  BY <1>1, <1>7, FS_EmptySet, Constants DEF Init, CountOK
<1> QED
  BY <1>2, <1>3, <1>4, <1>6, <1>8 DEF IInv

\* A step of the memory alone: trades, the timer, the sync.
LEMMA OutsideRest ==
  ASSUME IInv, UNCHANGED <<expVars, reqs, marks, freezes, crashes>>, MemOK', SyncOK',
         rows' \in [Trades -> 0..Len(exps)]
  PROVE  IInv'
<1>1. Len(exps) \in Nat /\ Len(exps)' = Len(exps)
  BY ExpsLen DEF IInv, expVars
<1>2. ExpsOK'
  BY <1>1 DEF IInv, ExpsOK, expVars, marks
<1>3. ReqsOK'
  BY <1>1, ReqsRest DEF IInv
<1>4. CountOK'
  BY <1>1, CountRest DEF IInv
<1> QED
  BY <1>2, <1>3, <1>4 DEF IInv

LEMMA PushKeeps ==
  ASSUME IInv, NEW e \in Engines, NEW dropped, dropped \subseteq history[e] \cup {next},
         Push(e, dropped)
  PROVE  IInv'
<1>1. Len(exps) \in Nat /\ Len(exps)' = Len(exps)
  BY ExpsLen DEF IInv, Push, expVars
<1>2. next \in Trades /\ next' \in 1..(MaxTrades + 1)
  BY Constants DEF IInv, MemOK, Push, Trades
<1>3. MemOK'
  <2>1. history' \in [Engines -> SUBSET Trades]
    BY <1>2 DEF IInv, MemOK, Push
  <2>2. dropped \subseteq Trades
    BY <1>2 DEF IInv, MemOK
  <2>3. exposed' \subseteq Trades
    BY <1>2, <2>2 DEF IInv, MemOK, Push, Unstored
  <2> QED
    BY <1>2, <2>1, <2>3 DEF IInv, MemOK, Push, aside
<1>4. SyncOK'
  <2>1. CASE sync.live /\ sync.engine = e
    <3>1. PICK old : old = sync
      OBVIOUS
    <3>2. PICK missed : sync' = [old EXCEPT !.todo = (@ \cup {next}) \ missed]
      BY <2>1, <3>1 DEF Push
    <3> QED
      BY <1>1, <1>2, <3>1, <3>2 DEF IInv, SyncOK, Push
  <2>2. CASE ~(sync.live /\ sync.engine = e)
    BY <1>1, <2>2 DEF IInv, SyncOK, Push
  <2> QED
    BY <2>1, <2>2
<1> QED
  BY <1>3, <1>4, OutsideRest DEF IInv, ExpsOK, Push

LEMMA CloseTradeKeeps ==
  ASSUME IInv, NEW e \in Engines, CloseTrade(e) \/ CloseOnTick(e)
  PROVE  IInv'
BY PushKeeps DEF CloseTrade, CloseOnTick, Overflow

LEMMA TimerFiresKeeps ==
  ASSUME IInv, TimerFires
  PROVE  IInv'
<1>1. Len(exps) \in Nat /\ Len(exps)' = Len(exps)
  BY ExpsLen DEF IInv, TimerFires, expVars
<1>2. MemOK'
  BY NoSyncFields DEF IInv, MemOK, TimerFires
<1>3. SyncOK'
  BY <1>1, NoSyncFields DEF IInv, SyncOK, TimerFires
<1> QED
  BY <1>2, <1>3, OutsideRest DEF IInv, ExpsOK, TimerFires

\* A sync that ends, or turns to an engine.
LEMMA SyncEndsKeeps ==
  ASSUME IInv, SyncEnds,
         skipped' \subseteq Trades, faults' \in 0..MaxFaults,
         UNCHANGED <<expVars, rows, history, file, reqs, next, marks, exposed, freezes, crashes>>
  PROVE  IInv'
<1>1. Len(exps) \in Nat /\ Len(exps)' = Len(exps)
  BY ExpsLen DEF IInv, expVars
<1>2. MemOK'
  BY DEF IInv, MemOK, SyncEnds
<1>3. SyncOK'
  BY <1>1, NoSyncFields DEF SyncOK, SyncEnds
<1> QED
  BY <1>2, <1>3, OutsideRest DEF IInv, ExpsOK

LEMMA SyncEngineKeeps ==
  ASSUME IInv, NEW e \in Engines, NEW x \in 1..Len(exps), SyncEngine(e, x),
         UNCHANGED <<expVars, rows, history, file, timer, again, reqs, next, marks, exposed,
                     aside, freezes, crashes>>
  PROVE  IInv'
<1>1. Len(exps) \in Nat /\ Len(exps)' = Len(exps)
  BY ExpsLen DEF IInv, expVars
<1>2. MemOK'
  BY MemRest DEF IInv
<1>3. SyncOK'
  BY <1>1 DEF IInv, MemOK, SyncOK, SyncEngine, None
<1> QED
  BY <1>2, <1>3, OutsideRest DEF IInv, ExpsOK

LEMMA SyncingKeeps ==
  ASSUME IInv, Syncing
  PROVE  IInv'
<1>1. Len(exps) \in Nat
  BY ExpsLen DEF IInv
<1>2. CASE SyncReads
  <2>1. CASE LatestActive = None
    <3>1. skipped' \subseteq Trades /\ faults' \in 0..MaxFaults
      BY <1>2, <2>1 DEF IInv, MemOK, Remembered, SyncReads
    <3> QED
      BY <1>2, <2>1, <3>1, SyncEndsKeeps DEF SyncReads
  <2>2. CASE LatestActive # None
    <3>1. LatestActive \in 1..Len(exps) /\ 1 \in Engines
      BY <2>2, LatestIsActive, Constants DEF IInv, Engines
    <3>2. /\ SyncEngine(1, LatestActive)
          /\ UNCHANGED <<expVars, rows, history, file, timer, again, reqs, next, marks, exposed,
                         aside, freezes, crashes>>
      BY <1>2, <2>2 DEF SyncReads, aside
    <3> QED
      BY <3>1, <3>2, SyncEngineKeeps
  <2> QED
    BY <2>1, <2>2
<1>3. CASE SyncInserts
  <2>1. PICK t \in sync.todo : /\ rows' = [rows EXCEPT ![t] = sync.exp]
                               /\ sync' = [sync EXCEPT !.todo = @ \ {t}]
    BY <1>3 DEF SyncInserts
  <2>2. rows' \in [Trades -> 0..Len(exps)]
    BY <1>1, <2>1 DEF IInv, ExpsOK, SyncOK
  <2>3. MemOK'
    BY <1>3, MemRest DEF IInv, SyncInserts
  <2>4. SyncOK'
    <3>1. PICK old : old = sync
      OBVIOUS
    <3>2. sync' = [old EXCEPT !.todo = @ \ {t}] /\ Len(exps)' = Len(exps) /\ again' = again
      BY <1>3, <2>1, <3>1 DEF SyncInserts, expVars
    <3> QED
      BY <3>1, <3>2 DEF IInv, SyncOK
  <2> QED
    BY <1>3, <2>2, <2>3, <2>4, OutsideRest DEF SyncInserts
<1>4. CASE SyncGoesOn
  <2>1. CASE sync.engine = LastEngine
    BY <1>4, <2>1, SyncEndsKeeps DEF IInv, MemOK, SyncGoesOn, aside
  <2>2. CASE sync.engine # LastEngine
    <3>1. sync.engine \in Engines /\ sync.exp \in 1..Len(exps)
      BY <1>1, <1>4 DEF IInv, SyncOK, SyncGoesOn, None
    <3>2. sync.engine + 1 \in Engines
      BY <2>2, <3>1, Constants DEF Engines
    <3>3. /\ SyncEngine(sync.engine + 1, sync.exp)
          /\ UNCHANGED <<expVars, rows, history, file, timer, again, reqs, next, marks, exposed,
                         aside, freezes, crashes>>
      BY <1>4, <2>2 DEF SyncGoesOn
    <3> QED
      BY <3>1, <3>2, <3>3, SyncEngineKeeps
  <2> QED
    BY <2>1, <2>2
<1> QED
  BY <1>2, <1>3, <1>4 DEF Syncing

LEMMA SyncFailsKeeps ==
  ASSUME IInv, SyncFails
  PROVE  IInv'
<1>1. Len(exps) \in Nat /\ Len(exps)' = Len(exps)
  BY ExpsLen DEF IInv, SyncFails, expVars
<1>2. faults' \in 0..MaxFaults
  BY Constants DEF IInv, MemOK, SyncFails
<1>3. CASE sync.at = "read" /\ SyncEnds /\ skipped' = skipped \cup Remembered
  <2>1. skipped' \subseteq Trades
    BY <1>3 DEF IInv, MemOK, Remembered
  <2> QED
    BY <1>2, <1>3, <2>1, SyncEndsKeeps DEF SyncFails
<1>4. CASE /\ sync.at = "insert" /\ UNCHANGED <<timer, again>>
           /\ \E t \in sync.todo : /\ sync' = [sync EXCEPT !.todo = @ \ {t}]
                                   /\ skipped' = skipped \cup {t}
  <2>1. PICK old : old = sync
    OBVIOUS
  <2>2. PICK t \in old.todo : /\ sync' = [old EXCEPT !.todo = @ \ {t}]
                              /\ skipped' = skipped \cup {t}
    BY <1>4, <2>1
  <2>3. t \in Trades
    BY <2>1, <2>2 DEF IInv, SyncOK
  <2>4. MemOK'
    BY <1>2, <1>4, <2>2, <2>3 DEF IInv, MemOK, SyncFails
  <2>5. SyncOK'
    BY <1>1, <1>4, <2>1, <2>2 DEF IInv, SyncOK
  <2> QED
    BY <2>4, <2>5, OutsideRest DEF IInv, ExpsOK, SyncFails
<1> QED
  BY <1>3, <1>4 DEF SyncFails

\* A request's step that leaves the sync alone.
LEMMA RequestRest ==
  ASSUME IInv, MemOK', UNCHANGED <<again, sync>>, ExpsOK', ReqsOK', CountOK',
         Len(exps)' \in Nat, Len(exps)' >= Len(exps)
  PROVE  IInv'
BY SyncRest DEF IInv

LEMMA StartFreezeKeeps ==
  ASSUME IInv, NEW f \in Requests, StartFreeze(f)
  PROVE  IInv'
<1>1. Len(exps) \in Nat /\ Len(exps)' = Len(exps)
  BY ExpsLen DEF IInv, StartFreeze, expVars
<1>2. PICK none : none = NoRequest
  OBVIOUS
<1>3. PICK kind \in Kinds :
        reqs' = [reqs EXCEPT ![f] = [none EXCEPT
          !.at = "active", !.kind = kind, !.todo = IF kind = "freeze" THEN Remembered ELSE {}]]
  BY <1>2 DEF StartFreeze
<1>4. PICK x : x = [none EXCEPT
          !.at = "active", !.kind = kind, !.todo = IF kind = "freeze" THEN Remembered ELSE {}]
  OBVIOUS
<1>5. kind \in {"freeze", "wipe"} /\ Remembered \subseteq Trades
  BY <1>3, Constants DEF IInv, MemOK, Remembered
<1>6. x \in Req /\ x.at = "active" /\ x.exp = 0 /\ x.new = 0
  BY <1>2, <1>4, <1>5, NoRequestFields DEF Req
<1>7. reqs' = [reqs EXCEPT ![f] = x]
  BY <1>3, <1>4
<1>8. ReqsOK' /\ \A g \in Requests : reqs'[g] = IF g = f THEN x ELSE reqs[g]
  <2>1. /\ Len(exps)' \in Nat /\ Len(exps)' >= Len(exps)
        /\ x.exp <= Len(exps)' /\ x.new <= Len(exps)' + 1
        /\ x.at = "idle" => x.todo = {}
        /\ x.at \notin {"idle", "active"} => x.exp # None
    BY <1>1, <1>6
  <2> QED
    BY <1>6, <1>7, <2>1, ReqMoves DEF IInv
<1>9. CountOK'
  <2>1. reqs[f].at \notin PendingStates /\ x.at \in PendingStates
    BY <1>6 DEF StartFreeze, PendingStates
  <2>2. freezes' = freezes + 1 /\ freezes' \in 0..MaxFreezes /\ crashes' = crashes
    BY Constants DEF IInv, CountOK, StartFreeze
  <2> QED
    BY <1>1, <1>8, <2>1, <2>2, CountMoves DEF IInv
<1>10. ExpsOK'
  BY MarksRest DEF IInv, StartFreeze
<1>11. MemOK' /\ UNCHANGED <<again, sync>>
  BY MemKept DEF StartFreeze
<1> QED
  BY <1>1, <1>8, <1>9, <1>10, <1>11, RequestRest

\* A request that moves to x without opening an experiment.
LEMMA RequestMoves ==
  ASSUME IInv, NEW f \in Requests, NEW x \in Req, reqs' = [reqs EXCEPT ![f] = x],
         x.exp <= Len(exps), x.new <= Len(exps) + 1, x.at = "idle" => x.todo = {},
         x.at \notin {"idle", "active"} => x.exp # None,
         x.at \in PendingStates => reqs[f].at \in PendingStates,
         MemOK', UNCHANGED <<again, sync, freezes, crashes>>, ExpsOK', Len(exps)' = Len(exps)
  PROVE  IInv'
<1>1. Len(exps) \in Nat
  BY ExpsLen DEF IInv
<1>2. ReqsOK' /\ \A g \in Requests : reqs'[g] = IF g = f THEN x ELSE reqs[g]
  <2>1. /\ Len(exps)' \in Nat /\ Len(exps)' >= Len(exps)
        /\ x.exp <= Len(exps)' /\ x.new <= Len(exps)' + 1
    BY <1>1
  <2> QED
    BY <2>1, ReqMoves DEF IInv
<1>3. freezes' = freezes /\ freezes' \in 0..MaxFreezes /\ crashes' = crashes
  BY DEF IInv, CountOK
<1>4. \/ /\ reqs[f].at \in PendingStates /\ x.at \notin PendingStates
         /\ freezes' = freezes /\ Len(exps)' <= Len(exps) + 1
      \/ /\ reqs[f].at \in PendingStates <=> x.at \in PendingStates
         /\ freezes' = freezes /\ Len(exps)' = Len(exps)
  BY <1>1, <1>3
<1>5. CountOK'
  BY <1>1, <1>2, <1>3, <1>4, CountMoves DEF IInv
<1> QED
  BY <1>1, <1>2, <1>5, RequestRest

LEMMA ReadActiveKeeps ==
  ASSUME IInv, NEW f \in Requests, ReadActive(f)
  PROVE  IInv'
<1>1. Len(exps) \in Nat /\ Len(exps)' = Len(exps) /\ ExpsOK' /\ MemOK'
      /\ UNCHANGED <<again, sync, freezes, crashes>>
  BY ExpsLen, MarksRest, MemKept DEF IInv, ReadActive
<1>2. PICK old : old = reqs[f]
  OBVIOUS
<1>3. old \in Req /\ ReqOK(old) /\ old.at = "active" /\ old.at \in PendingStates
  BY <1>2, ReqFields DEF IInv, ReadActive, PendingStates
<1>4. CASE LatestActive = None
  <2>1. reqs' = [reqs EXCEPT ![f] = NoRequest]
    BY <1>4 DEF ReadActive
  <2>2. NoRequest.exp <= Len(exps) /\ NoRequest.new <= Len(exps) + 1
    BY <1>1, NoRequestFields
  <2>3. NoRequest.at \notin PendingStates
    BY NoRequestFields DEF PendingStates
  <2> QED
    BY <1>1, <2>1, <2>2, <2>3, NoRequestFields, RequestMoves
<1>5. CASE LatestActive # None
  <2>1. PICK x : x = [old EXCEPT !.at = "snapshot", !.exp = LatestActive]
    OBVIOUS
  <2>2. reqs' = [reqs EXCEPT ![f] = x]
    BY <1>2, <1>5, <2>1 DEF ReadActive, IInv, ReqsOK
  <2>3. LatestActive \in 1..Len(exps)
    BY <1>5, LatestIsActive DEF IInv
  <2>4. old \in Req /\ LatestActive \in Nat /\ old.new <= Len(exps) + 1
    BY <1>1, <1>3, <2>3 DEF ReqOK
  <2>5. x \in Req /\ x.at = "snapshot" /\ x.exp = LatestActive /\ x.new = old.new
    BY <2>1, <2>4 DEF Req
  <2>6. x.exp <= Len(exps) /\ x.new <= Len(exps) + 1 /\ x.exp # None
    BY <1>1, <2>3, <2>4, <2>5 DEF None
  <2> QED
    BY <1>1, <1>2, <1>3, <2>2, <2>5, <2>6, RequestMoves
<1> QED
  BY <1>4, <1>5

LEMMA WriteSnapshotKeeps ==
  ASSUME IInv, NEW f \in Requests, WriteSnapshot(f)
  PROVE  IInv'
<1>1. PICK old : old = reqs[f]
  OBVIOUS
<1>2. old \in Req /\ ReqOK(old) /\ old.at = "snapshot" /\ old.at \in PendingStates
  BY <1>1, ReqFields DEF IInv, WriteSnapshot, PendingStates
<1>3. PICK x : x = [old EXCEPT !.at = "freeze"]
  OBVIOUS
<1>4. reqs' = [reqs EXCEPT ![f] = x]
  BY <1>1, <1>3 DEF WriteSnapshot, IInv, ReqsOK
<1>5. x \in Req /\ x.at = "freeze" /\ x.exp = old.exp /\ x.new = old.new
  BY <1>2, <1>3 DEF Req
<1>6. Len(exps) \in Nat /\ Len(exps)' = Len(exps)
  BY ExpsLen DEF IInv, WriteSnapshot
<1>7. old.exp \in 1..Len(exps)
  BY <1>2, <1>6 DEF Req, ReqOK, None
<1>8. ExpsOK'
  BY <1>1, <1>6, <1>7 DEF IInv, ExpsOK, WriteSnapshot, marks
<1>9. MemOK' /\ UNCHANGED <<again, sync, freezes, crashes>>
  BY MemKept DEF WriteSnapshot
<1> QED
  BY <1>1, <1>2, <1>4, <1>5, <1>6, <1>7, <1>8, <1>9, RequestMoves DEF ReqOK, None

\* Experiments of which one is given a status.
LEMMA StatusKeeps ==
  ASSUME ExpsOK, NEW n \in 1..Len(exps), NEW v \in Statuses,
         exps' = [exps EXCEPT ![n] = v], UNCHANGED <<snaps, rows>>,
         moved' \subseteq 1..Len(exps), abandoned' \subseteq 1..Len(exps)
  PROVE  /\ ExpsOK' /\ Len(exps)' = Len(exps)
         /\ Active' = IF v = "ACTIVE" THEN Active \cup {n} ELSE Active \ {n}
<1>1. exps \in Seq(Statuses) /\ Len(exps) \in Nat
  BY ExpsLen DEF ExpsOK
<1>2. /\ exps' \in Seq(Statuses) /\ Len(exps') = Len(exps)
      /\ ActiveIn(exps') = IF v = "ACTIVE" THEN ActiveIn(exps) \cup {n} ELSE ActiveIn(exps) \ {n}
  BY <1>1, ActiveReplaced
<1> QED
  BY <1>1, <1>2 DEF ExpsOK, Active, ActiveIn

\* What freezing a row does: the experiment is ACTIVE no more.
LEMMA RowFrozen ==
  ASSUME IInv, NEW f \in Requests, FreezeRow(f)
  PROVE  /\ reqs[f].exp \in 1..Len(exps)
         /\ exps' = [exps EXCEPT ![reqs[f].exp] = IF @ = "ACTIVE" THEN "LEGACY" ELSE @]
         /\ ExpsOK' /\ Len(exps)' = Len(exps) /\ Active' = Active \ {reqs[f].exp}
<1> DEFINE n == reqs[f].exp
<1>1. Len(exps) \in Nat /\ exps \in Seq(Statuses)
  BY ExpsLen DEF IInv, ExpsOK
<1>2. n \in 1..Len(exps)
  <2>1. ReqOK(reqs[f]) /\ reqs[f].exp \in Nat /\ reqs[f].at = "freeze"
    BY ReqFields DEF IInv, FreezeRow
  <2> QED
    BY <1>1, <2>1 DEF ReqOK, None
<1>3. PICK v : v = IF exps[n] = "ACTIVE" THEN "LEGACY" ELSE exps[n]
  OBVIOUS
<1>4. v \in Statuses /\ v # "ACTIVE"
  BY <1>1, <1>2, <1>3, ElementOfSeq DEF Statuses
<1>5. exps' = [exps EXCEPT ![n] = v]
  BY <1>3 DEF FreezeRow
<1>6. /\ UNCHANGED <<snaps, rows>>
      /\ moved' \subseteq 1..Len(exps) /\ abandoned' \subseteq 1..Len(exps)
  BY DEF IInv, ExpsOK, FreezeRow, marks
<1>7. ExpsOK' /\ Len(exps)' = Len(exps) /\ Active' = Active \ {n}
  BY <1>2, <1>4, <1>5, <1>6, StatusKeeps DEF IInv
<1> QED
  BY <1>2, <1>7 DEF FreezeRow

LEMMA FreezeRowKeeps ==
  ASSUME IInv, NEW f \in Requests, FreezeRow(f)
  PROVE  IInv'
<1>1. PICK old : old = reqs[f]
  OBVIOUS
<1>2. old \in Req /\ ReqOK(old) /\ old.at = "freeze" /\ old.at \in PendingStates
  BY <1>1, ReqFields DEF IInv, FreezeRow, PendingStates
<1>3. PICK x : x = [old EXCEPT !.at = "nextId"]
  OBVIOUS
<1>4. reqs' = [reqs EXCEPT ![f] = x]
  BY <1>1, <1>3 DEF FreezeRow, IInv, ReqsOK
<1>5. x \in Req /\ x.at = "nextId" /\ x.exp = old.exp /\ x.new = old.new
  BY <1>2, <1>3 DEF Req
<1>6. old.exp \in 1..Len(exps) /\ ExpsOK' /\ Len(exps)' = Len(exps)
  BY <1>1, RowFrozen
<1>7. MemOK' /\ UNCHANGED <<again, sync, freezes, crashes>>
  BY MemKept DEF FreezeRow
<1> QED
  BY <1>1, <1>2, <1>4, <1>5, <1>6, <1>7, RequestMoves DEF ReqOK, None

LEMMA ReadNextIdKeeps ==
  ASSUME IInv, NEW f \in Requests, ReadNextId(f)
  PROVE  IInv'
<1>1. PICK old : old = reqs[f]
  OBVIOUS
<1>2. old \in Req /\ ReqOK(old) /\ old.at = "nextId" /\ old.at \in PendingStates
  BY <1>1, ReqFields DEF IInv, ReadNextId, PendingStates
<1>3. Len(exps) \in Nat /\ Len(exps)' = Len(exps) /\ ExpsOK' /\ MemOK'
      /\ UNCHANGED <<again, sync, freezes, crashes>>
  BY ExpsLen, MarksRest, MemKept DEF IInv, ReadNextId
<1>4. PICK x : x = [old EXCEPT !.at = "create", !.new = Len(exps) + 1]
  OBVIOUS
<1>5. reqs' = [reqs EXCEPT ![f] = x]
  BY <1>1, <1>4 DEF ReadNextId, IInv, ReqsOK
<1>6. PICK n \in Nat : n = Len(exps) + 1
  BY <1>3
<1>7. x \in Req /\ x.at = "create" /\ x.exp = old.exp /\ x.new = n
  BY <1>2, <1>4, <1>6 DEF Req
<1>8. x.exp <= Len(exps) /\ x.new <= Len(exps) + 1 /\ x.exp # None
  BY <1>2, <1>3, <1>6, <1>7 DEF ReqOK
<1> QED
  BY <1>1, <1>2, <1>3, <1>5, <1>7, <1>8, RequestMoves

\* What opening an experiment does.
LEMMA Opened ==
  ASSUME ExpsOK, exps' = Append(exps, "ACTIVE"), UNCHANGED <<snaps, rows, marks>>
  PROVE  ExpsOK' /\ Len(exps)' = Len(exps) + 1 /\ Active' = Active \cup {Len(exps) + 1}
<1>1. exps \in Seq(Statuses) /\ Len(exps) \in Nat
  BY ExpsLen DEF ExpsOK
<1>2. /\ exps' \in Seq(Statuses) /\ Len(exps') = Len(exps) + 1
      /\ ActiveIn(exps') = ActiveIn(exps) \cup {Len(exps) + 1}
  BY <1>1, ActiveAppended
<1>3. /\ snaps' \subseteq 1..Len(exps') /\ rows' \in [Trades -> 0..Len(exps')]
      /\ moved' \subseteq 1..Len(exps') /\ abandoned' \subseteq 1..Len(exps')
  BY <1>1, <1>2 DEF ExpsOK, marks
<1> QED
  BY <1>2, <1>3 DEF ExpsOK, Active, ActiveIn

LEMMA CreateKeeps ==
  ASSUME IInv, NEW f \in Requests, Create(f)
  PROVE  IInv'
<1>1. PICK old : old = reqs[f]
  OBVIOUS
<1>2. old \in Req /\ ReqOK(old) /\ old.at = "create" /\ old.at \in PendingStates
  BY <1>1, ReqFields DEF IInv, Create, PendingStates
<1>3. Len(exps) \in Nat /\ MemOK' /\ UNCHANGED <<again, sync, freezes, crashes>>
  BY ExpsLen, MemKept DEF IInv, Create
<1>4. CASE old.new <= Len(exps)
  <2>1. /\ reqs' = [reqs EXCEPT ![f] = NoRequest] /\ UNCHANGED <<expVars, rows, moved>>
        /\ abandoned' = abandoned \cup {old.exp}
    BY <1>1, <1>4 DEF Create, expVars
  <2>2. NoRequest.exp <= Len(exps) /\ NoRequest.new <= Len(exps) + 1
    BY <1>3, NoRequestFields
  <2>3. NoRequest.at \notin PendingStates
    BY NoRequestFields DEF PendingStates
  <2>4. ExpsOK' /\ Len(exps)' = Len(exps)
    <3>1. old.exp \in 1..Len(exps)
      BY <1>2, <1>3 DEF Req, ReqOK, None
    <3>2. abandoned' \subseteq 1..Len(exps)
      BY <2>1, <3>1 DEF IInv, ExpsOK
    <3> QED
      BY <2>1, <3>2, ExpsRest DEF IInv
  <2> QED
    BY <1>3, <2>1, <2>2, <2>3, <2>4, NoRequestFields, RequestMoves
<1>5. CASE ~(old.new <= Len(exps))
  <2>1. PICK x : x = [old EXCEPT !.at = "store"]
    OBVIOUS
  <2>2. reqs' = [reqs EXCEPT ![f] = x]
    BY <1>1, <1>5, <2>1 DEF Create, IInv, ReqsOK
  <2>3. x \in Req /\ x.at = "store" /\ x.exp = old.exp /\ x.new = old.new
    BY <1>2, <2>1 DEF Req
  <2>4. ExpsOK' /\ Len(exps)' = Len(exps) + 1
    BY <1>1, <1>5, Opened DEF IInv, Create, marks
  <2>5. old.exp \in Nat /\ old.new \in Nat
    BY <1>1, ReqFields DEF IInv
  <2>6. /\ x.exp <= Len(exps)' /\ x.new <= Len(exps)' + 1 /\ x.exp # None
        /\ Len(exps)' \in Nat /\ Len(exps)' >= Len(exps) /\ Len(exps)' <= Len(exps) + 1
    BY <1>2, <1>3, <2>3, <2>4, <2>5 DEF ReqOK
  <2>7. ReqsOK' /\ \A g \in Requests : reqs'[g] = IF g = f THEN x ELSE reqs[g]
    BY <2>2, <2>3, <2>6, ReqMoves DEF IInv
  <2>8. freezes' = freezes /\ freezes' \in 0..MaxFreezes /\ crashes' = crashes
    BY DEF IInv, CountOK, Create
  <2>9. reqs[f].at \in PendingStates /\ x.at \notin PendingStates
    BY <1>1, <1>2, <2>3 DEF PendingStates
  <2>10. CountOK'
    BY <2>6, <2>7, <2>8, <2>9, CountMoves DEF IInv
  <2> QED
    BY <1>3, <2>4, <2>6, <2>7, <2>10, RequestRest
<1> QED
  BY <1>4, <1>5

LEMMA StoreGatheredKeeps ==
  ASSUME IInv, NEW f \in Requests, StoreGathered(f)
  PROVE  IInv'
<1>1. PICK old : old = reqs[f]
  OBVIOUS
<1>2. old \in Req /\ ReqOK(old) /\ old.at = "store"
  BY <1>1, ReqFields DEF IInv, StoreGathered
<1>3. PICK t \in old.todo : /\ rows' = [rows EXCEPT ![t] = old.exp]
                            /\ reqs' = [reqs EXCEPT ![f].todo = @ \ {t}]
  BY <1>1 DEF StoreGathered
<1>4. PICK x : x = [old EXCEPT !.todo = @ \ {t}]
  OBVIOUS
<1>5. reqs' = [reqs EXCEPT ![f] = x]
  BY <1>1, <1>3, <1>4 DEF IInv, ReqsOK
<1>6. x \in Req /\ x.at = "store" /\ x.exp = old.exp /\ x.new = old.new
  BY <1>2, <1>4 DEF Req
<1>7. Len(exps) \in Nat /\ Len(exps)' = Len(exps)
  BY ExpsLen DEF IInv, StoreGathered, expVars
<1>8. old.exp \in 0..Len(exps)
  BY <1>2, <1>7 DEF Req, ReqOK
<1>9. ExpsOK'
  BY <1>3, <1>8 DEF IInv, ExpsOK, StoreGathered, expVars, marks
<1>10. x.at \notin PendingStates /\ x.exp # None /\ x.exp <= Len(exps) /\ x.new <= Len(exps) + 1
  BY <1>2, <1>6 DEF PendingStates, ReqOK
<1>11. MemOK' /\ UNCHANGED <<again, sync, freezes, crashes>>
  BY MemKept DEF StoreGathered
<1> QED
  BY <1>5, <1>6, <1>7, <1>9, <1>10, <1>11, RequestMoves

LEMMA StoreFailsKeeps ==
  ASSUME IInv, NEW f \in Requests, StoreFails(f)
  PROVE  IInv'
<1>1. PICK old : old = reqs[f]
  OBVIOUS
<1>2. old \in Req /\ ReqOK(old) /\ old.at = "store"
  BY <1>1, ReqFields DEF IInv, StoreFails
<1>3. PICK t \in old.todo : /\ exposed' = exposed \cup Unstored({t})
                            /\ reqs' = [reqs EXCEPT ![f].todo = @ \ {t}]
  BY <1>1 DEF StoreFails
<1>4. PICK x : x = [old EXCEPT !.todo = @ \ {t}]
  OBVIOUS
<1>5. reqs' = [reqs EXCEPT ![f] = x]
  BY <1>1, <1>3, <1>4 DEF IInv, ReqsOK
<1>6. x \in Req /\ x.at = "store" /\ x.exp = old.exp /\ x.new = old.new /\ t \in Trades
  BY <1>2, <1>4 DEF Req
<1>7. Len(exps) \in Nat /\ ExpsOK' /\ Len(exps)' = Len(exps)
  BY ExpsLen, MarksRest DEF IInv, StoreFails
<1>8. x.at \notin PendingStates /\ x.exp # None /\ x.exp <= Len(exps) /\ x.new <= Len(exps) + 1
  BY <1>2, <1>6 DEF PendingStates, ReqOK
<1>9. MemOK' /\ UNCHANGED <<again, sync, freezes, crashes>>
  <2>1. faults' \in 0..MaxFaults /\ exposed' \subseteq Trades
    BY <1>3, <1>6, Constants DEF IInv, MemOK, StoreFails, Unstored
  <2> QED
    BY <2>1 DEF IInv, MemOK, StoreFails, memVars
<1> QED
  BY <1>5, <1>6, <1>7, <1>8, <1>9, RequestMoves

LEMMA CallFailsKeeps ==
  ASSUME IInv, NEW f \in Requests, CallFails(f)
  PROVE  IInv'
<1>1. Len(exps) \in Nat /\ reqs[f].at \in PendingStates /\ ReqOK(reqs[f]) /\ reqs[f].exp \in Nat
  BY ExpsLen, ReqFields DEF IInv, CallFails, PendingStates
<1>2. abandoned' \subseteq 1..Len(exps)
  <2>1. f \in Between => reqs[f].exp \in 1..Len(exps)
    BY <1>1 DEF Between, ReqOK, None
  <2> QED
    BY <2>1 DEF IInv, ExpsOK, CallFails
<1>3. ExpsOK' /\ Len(exps)' = Len(exps)
  BY <1>2, ExpsRest DEF IInv, CallFails
<1>4. MemOK' /\ UNCHANGED <<again, sync, freezes, crashes>>
  <2>1. faults' \in 0..MaxFaults
    BY Constants DEF IInv, MemOK, CallFails
  <2> QED
    BY <2>1 DEF IInv, MemOK, CallFails, memVars
<1>5. NoRequest.exp <= Len(exps) /\ NoRequest.new <= Len(exps) + 1 /\ NoRequest.at \notin PendingStates
  BY <1>1, NoRequestFields DEF PendingStates
<1>6. reqs' = [reqs EXCEPT ![f] = NoRequest]
  BY DEF CallFails
<1> QED
  BY <1>3, <1>4, <1>5, <1>6, NoRequestFields, RequestMoves

LEMMA RememberedTrades == IInv => Remembered \subseteq Trades
BY DEF IInv, MemOK, Remembered

LEMMA EmptiedKeeps ==
  ASSUME IInv, Emptied, UNCHANGED <<again, next, aside>>, timer' \in BOOLEAN,
         exposed' \subseteq Trades, Len(exps)' = Len(exps)
  PROVE  MemOK' /\ SyncOK'
<1>1. history' = [e \in Engines |-> {}] /\ file' = history'
      /\ history' \in [Engines -> SUBSET Trades]
  BY DEF Emptied
<1>2. MemOK'
  BY <1>1 DEF IInv, MemOK, aside
<1>3. PICK old : old = sync
  OBVIOUS
<1>4. sync' = [old EXCEPT !.live = FALSE] /\ again' = again
  BY <1>3 DEF Emptied
<1>5. Len(exps) \in Nat /\ Len(exps)' = Len(exps)
  BY ExpsLen DEF IInv
<1>6. /\ sync' \in [at : {"idle", "read", "insert"}, exp : Nat, engine : Engines,
                   todo : SUBSET Trades, live : BOOLEAN]
      /\ sync'.at = old.at /\ sync'.exp = old.exp
  BY <1>3, <1>4 DEF IInv, SyncOK
<1>7. SyncOK'
  BY <1>3, <1>4, <1>5, <1>6 DEF IInv, SyncOK
<1> QED
  BY <1>2, <1>7

LEMMA ResetKeeps ==
  ASSUME IInv, Reset
  PROVE  IInv'
<1>1. Len(exps)' = Len(exps) /\ timer' \in BOOLEAN
  BY DEF IInv, MemOK, Reset, expVars
<1>2. exposed' \subseteq Trades
  BY RememberedTrades DEF IInv, MemOK, Reset, Unstored
<1>3. MemOK' /\ SyncOK'
  BY <1>1, <1>2, EmptiedKeeps DEF Reset
<1> QED
  BY <1>3, OutsideRest DEF IInv, ExpsOK, Reset

LEMMA RowExpiresKeeps ==
  ASSUME IInv, NEW t \in Trades, RowExpires(t)
  PROVE  IInv'
<1>1. Len(exps) \in Nat
  BY ExpsLen DEF IInv
<1>2. rows' \in [Trades -> 0..Len(exps)]
  BY <1>1 DEF IInv, ExpsOK, RowExpires, None
<1>3. faults' \in 0..MaxFaults
  BY Constants DEF IInv, MemOK, RowExpires
<1>4. MemOK' /\ SyncOK'
  BY <1>3 DEF IInv, MemOK, SyncOK, RowExpires, memVars, expVars
<1> QED
  BY <1>2, <1>4, OutsideRest DEF RowExpires

LEMMA EmptyHistoriesKeeps ==
  ASSUME IInv, NEW f \in Requests, EmptyHistories(f)
  PROVE  IInv'
<1>1. Len(exps) \in Nat /\ Len(exps)' = Len(exps) /\ ExpsOK'
  BY ExpsLen, MarksRest DEF IInv, EmptyHistories
<1>2. MemOK' /\ SyncOK'
  <2>1. exposed' \subseteq Trades /\ timer' \in BOOLEAN
    BY RememberedTrades DEF IInv, MemOK, EmptyHistories, Unstored
  <2> QED
    BY <1>1, <2>1, EmptiedKeeps DEF EmptyHistories
<1>4. NoRequest.exp <= Len(exps)' /\ NoRequest.new <= Len(exps)' + 1 /\ Len(exps)' >= Len(exps)
  BY <1>1, NoRequestFields
<1>5. ReqsOK' /\ \A g \in Requests : reqs'[g] = IF g = f THEN NoRequest ELSE reqs[g]
  <2>1. reqs' = [reqs EXCEPT ![f] = NoRequest] /\ Len(exps)' \in Nat
    BY <1>1 DEF EmptyHistories
  <2> QED
    BY <1>4, <2>1, NoRequestFields, ReqMoves DEF IInv
<1>6. CountOK'
  <2>1. reqs[f].at \notin PendingStates /\ NoRequest.at \notin PendingStates
    BY NoRequestFields DEF EmptyHistories, PendingStates
  <2>2. freezes' = freezes /\ freezes' \in 0..MaxFreezes /\ crashes' = crashes
    BY DEF IInv, CountOK, EmptyHistories
  <2>3. Len(exps)' \in Nat
    BY <1>1
  <2> QED
    BY <1>1, <1>5, <2>1, <2>2, <2>3, CountMoves DEF IInv
<1> QED
  BY <1>1, <1>2, <1>5, <1>6 DEF IInv

\* An operator sets the status of one experiment.
LEMMA StatusSet ==
  ASSUME IInv, NEW n \in DOMAIN exps, Promote(n) \/ UpdateStatus(n)
  PROVE  /\ IInv' /\ Len(exps)' = Len(exps) /\ moved' = moved \cup {n}
         /\ Active' \subseteq Active \cup {n} /\ Active \subseteq Active' \cup {n}
         /\ UNCHANGED <<reqs, abandoned>>
<1>1. n \in 1..Len(exps) /\ Len(exps) \in Nat
  BY ExpsLen DEF IInv
<1>2. PICK v \in Statuses : exps' = [exps EXCEPT ![n] = v]
  <2>1. CASE Promote(n)
    BY <2>1 DEF Promote, Statuses
  <2>2. CASE UpdateStatus(n)
    BY <2>2, Constants DEF UpdateStatus
  <2> QED
    BY <2>1, <2>2
<1>3. /\ moved' = moved \cup {n}
      /\ UNCHANGED <<snaps, rows, memVars, reqs, next, abandoned, exposed, aside, freezes, crashes>>
  BY DEF Promote, UpdateStatus
<1>4. moved' \subseteq 1..Len(exps) /\ abandoned' \subseteq 1..Len(exps)
  BY <1>1, <1>3 DEF IInv, ExpsOK
<1>5. /\ ExpsOK' /\ Len(exps)' = Len(exps)
      /\ Active' = IF v = "ACTIVE" THEN Active \cup {n} ELSE Active \ {n}
  BY <1>1, <1>2, <1>3, <1>4, StatusKeeps DEF IInv
<1>6. ReqsOK' /\ CountOK'
  BY <1>1, <1>3, <1>5, ReqsRest, CountRest DEF IInv
<1>7. MemOK' /\ UNCHANGED <<again, sync>> /\ Len(exps)' \in Nat /\ Len(exps)' >= Len(exps)
  BY <1>1, <1>3, <1>5, MemKept
<1>8. IInv'
  BY <1>5, <1>6, <1>7, RequestRest
<1> QED
  BY <1>3, <1>5, <1>8

\* What a restart does to the experiments: one is opened, or the boot finds one
\* or fails.
LEMMA Reopened ==
  ASSUME IInv, Restart
  PROVE  /\ ExpsOK' /\ Len(exps)' \in Nat /\ Len(exps)' >= Len(exps)
         /\ Len(exps)' <= Len(exps) + 1 /\ moved' = moved
         /\ \/ Len(exps)' = Len(exps) + 1 /\ Active' = {Len(exps) + 1}
            \/ UNCHANGED exps /\ Active' = Active /\ abandoned' = abandoned \cup Replaced
<1>1. Len(exps) \in Nat /\ UNCHANGED <<snaps, rows, moved>>
  BY ExpsLen DEF IInv, Restart
<1>2. CASE Active = {} /\ exps' = Append(exps, "ACTIVE") /\ UNCHANGED abandoned
  <2>1. UNCHANGED marks
    BY <1>1, <1>2 DEF marks
  <2>2. ExpsOK' /\ Len(exps)' = Len(exps) + 1 /\ Active' = Active \cup {Len(exps) + 1}
    BY <1>1, <1>2, <2>1, Opened DEF IInv
  <2> QED
    BY <1>1, <1>2, <2>2
<1>3. CASE abandoned' = abandoned \cup Replaced /\ UNCHANGED exps
  <2>1. ASSUME NEW f \in Between PROVE reqs[f].exp \in 1..Len(exps)
    <3>1. f \in Requests /\ reqs[f].at \in {"nextId", "create"}
      BY DEF Between
    <3>2. reqs[f].exp \in Nat /\ ReqOK(reqs[f])
      BY <3>1, ReqFields DEF IInv
    <3> QED
      BY <1>1, <3>1, <3>2 DEF ReqOK, None
  <2>2. abandoned' \subseteq 1..Len(exps)
    BY <1>3, <2>1 DEF IInv, ExpsOK, Replaced
  <2>3. ExpsOK' /\ Len(exps)' = Len(exps) /\ Active' = Active
    BY <1>1, <1>3, <2>2, ExpsRest DEF IInv, expVars, Active
  <2> QED
    BY <1>1, <1>3, <2>3
<1> QED
  BY <1>2, <1>3 DEF Restart, Boot

LEMMA RestartKeeps ==
  ASSUME IInv, Restart
  PROVE  IInv'
<1>1. Len(exps) \in Nat /\ ExpsOK' /\ Len(exps)' \in Nat /\ Len(exps)' <= Len(exps) + 1
  BY ExpsLen, Reopened DEF IInv
<1>2. MemOK'
  <2>1. [e \in Engines |-> {}] \in [Engines -> SUBSET Trades]
    OBVIOUS
  <2>2. history' \in [Engines -> SUBSET Trades]
    BY <2>1 DEF IInv, MemOK, Restart
  <2>3. exposed' \subseteq Trades
    BY DEF IInv, MemOK, Remembered, Restart
  <2>4. faults' \in 0..MaxFaults /\ skipped' = {}
    BY Constants DEF IInv, MemOK, Restart, Boot
  <2> QED
    BY <2>2, <2>3, <2>4 DEF IInv, MemOK, Restart
<1>3. SyncOK'
  BY <1>1, NoSyncFields DEF Restart, SyncOK
<1>4. \A f \in Requests : reqs'[f] = NoRequest
  BY DEF Restart
<1>5. ReqsOK'
  <2>1. ReqOK(NoRequest)'
    BY <1>1, NoRequestFields DEF ReqOK, NoRequest
  <2>2. reqs' \in [Requests -> Req]
    BY NoRequestFields DEF Restart
  <2> QED
    BY <1>4, <2>1, <2>2 DEF ReqsOK, ReqOK, NoRequest
<1>6. CountOK'
  <2>1. Pending' = {}
    BY <1>4, NoRequestFields DEF Pending, PendingStates
  <2>2. IsFiniteSet(Pending') /\ Cardinality(Pending') = 0
    BY <2>1, FS_EmptySet
  <2>3. Cardinality(Pending) \in Nat /\ freezes \in Nat /\ crashes \in Nat
    BY FS_CardinalityType, Constants DEF IInv, CountOK
  <2>4. Len(exps) <= 1 + freezes + crashes
    BY <1>1, <2>3 DEF IInv, CountOK
  <2>5. freezes' = freezes /\ crashes' = crashes + 1 /\ crashes' \in 0..MaxCrashes
    BY <2>3, Constants DEF Restart
  <2> QED
    BY <1>1, <2>2, <2>3, <2>4, <2>5 DEF IInv, CountOK
<1> QED
  BY <1>1, <1>2, <1>3, <1>5, <1>6 DEF IInv

LEMMA StepHolds == IInv /\ [Next]_vars => IInv'
<1> SUFFICES ASSUME IInv, [Next]_vars PROVE IInv'
  OBVIOUS
<1>1. CASE UNCHANGED vars
  <2>1. /\ Len(exps) \in Nat /\ Len(exps)' = Len(exps) /\ rows' = rows
        /\ UNCHANGED <<memVars, again, next, exposed, sync, expVars, reqs, marks, aside,
                       freezes, crashes>>
    BY <1>1, ExpsLen DEF IInv, vars, expVars, memVars
  <2>2. MemOK' /\ SyncOK'
    BY <2>1, MemKept, SyncRest DEF IInv
  <2> QED
    BY <2>1, <2>2, OutsideRest DEF IInv, ExpsOK
<1>2. CASE \E e \in Engines : CloseTrade(e) \/ CloseOnTick(e)
  BY <1>2, CloseTradeKeeps
<1>3. CASE TimerFires \/ Syncing \/ SyncFails \/ Reset \/ Restart
  BY <1>3, TimerFiresKeeps, SyncingKeeps, SyncFailsKeeps, ResetKeeps, RestartKeeps
<1>4. CASE \E f \in Requests : StartFreeze(f) \/ Freezing(f) \/ CallFails(f) \/ StoreFails(f)
  BY <1>4, StartFreezeKeeps, ReadActiveKeeps, WriteSnapshotKeeps, FreezeRowKeeps,
     ReadNextIdKeeps, CreateKeeps, StoreGatheredKeeps, EmptyHistoriesKeeps, CallFailsKeeps,
     StoreFailsKeeps DEF Freezing
<1>5. CASE \E n \in DOMAIN exps : Promote(n) \/ UpdateStatus(n)
  BY <1>5, StatusSet
<1>6. CASE \E t \in Trades : RowExpires(t)
  BY <1>6, RowExpiresKeeps
<1> QED
  BY <1>1, <1>2, <1>3, <1>4, <1>5, <1>6 DEF Next

LEMMA InductiveInvariant == Spec => []IInv
BY InitHolds, StepHolds, PTL DEF Spec

\* Rows, snapshots, a copy and every request under way name experiments that
\* exist, and there are at most as many as requests and crashes paid for
\* (experimentManager.js, db.js), whatever the requests do at once.
THEOREM TypeCorrect == Spec => []TypeOK
BY InductiveInvariant, TypesHold, PTL

-----------------------------------------------------------------------------
(* One request at a time.                                                  *)

Alone == \A f, g \in Requests : f = g

\* What a request knows of the experiments no operator has touched: from the
\* read to the freeze, its own is the only one that can be ACTIVE; then none is,
\* until it opens the next, whose number is still free.
ExpHeld(f) ==
  /\ reqs[f].at \in {"snapshot", "freeze"} => Active \subseteq moved \cup {reqs[f].exp}
  /\ reqs[f].at \in {"nextId", "create"} => Active \subseteq moved
  /\ reqs[f].at = "create" => reqs[f].new = Len(exps) + 1

OInv == OneActive /\ \A f \in Requests : ExpHeld(f)

\* What a request knows of the trades: what it holds is still in memory, stored,
\* or given up, and so is what a freeze leaves in memory without holding it.
TradeHeld(f) ==
  /\ \A t \in reqs[f].todo : t \in Remembered \cup exposed \/ rows[t] # None
  /\ reqs[f].at # "idle" /\ reqs[f].kind = "freeze" =>
       \A t \in Remembered : t \in reqs[f].todo \cup exposed \/ rows[t] # None

TInv == TradesAccounted /\ \A f \in Requests : TradeHeld(f)

\* Where the request stands after its step, and with what in its hands.
LEMMA FieldsAfter ==
  ASSUME IInv, NEW f \in Requests
  PROVE  /\ StartFreeze(f) =>
              /\ reqs'[f].at = "active"
              /\ reqs'[f].todo = IF reqs'[f].kind = "freeze" THEN Remembered ELSE {}
         /\ ReadActive(f) => \/ reqs'[f] = NoRequest
                             \/ /\ LatestActive # None /\ reqs'[f].at = "snapshot"
                                /\ reqs'[f].exp = LatestActive
                                /\ reqs'[f].kind = reqs[f].kind /\ reqs'[f].todo = reqs[f].todo
         /\ WriteSnapshot(f) => /\ reqs'[f].at = "freeze" /\ reqs'[f].exp = reqs[f].exp
                                /\ reqs'[f].kind = reqs[f].kind /\ reqs'[f].todo = reqs[f].todo
         /\ FreezeRow(f) => /\ reqs'[f].at = "nextId" /\ reqs'[f].exp = reqs[f].exp
                            /\ reqs'[f].kind = reqs[f].kind /\ reqs'[f].todo = reqs[f].todo
         /\ ReadNextId(f) => /\ reqs'[f].at = "create" /\ reqs'[f].new = Len(exps) + 1
                             /\ reqs'[f].exp = reqs[f].exp
                             /\ reqs'[f].kind = reqs[f].kind /\ reqs'[f].todo = reqs[f].todo
         /\ Create(f) => \/ reqs'[f] = NoRequest /\ reqs[f].new <= Len(exps)
                         \/ /\ ~(reqs[f].new <= Len(exps)) /\ reqs'[f].at = "store"
                            /\ reqs'[f].kind = reqs[f].kind /\ reqs'[f].todo = reqs[f].todo
         /\ EmptyHistories(f) \/ CallFails(f) => reqs'[f] = NoRequest
<1>1. reqs[f] \in Req /\ reqs \in [Requests -> Req]
  BY ReqFields DEF IInv, ReqsOK
<1>2. PICK old \in Req : old = reqs[f]
  BY <1>1
<1>3. PICK none \in Req : none = NoRequest
  BY NoRequestFields
<1>4. ASSUME StartFreeze(f)
      PROVE  /\ reqs'[f].at = "active"
             /\ reqs'[f].todo = IF reqs'[f].kind = "freeze" THEN Remembered ELSE {}
  <2>1. PICK kind \in Kinds :
          reqs' = [reqs EXCEPT ![f] = [none EXCEPT
            !.at = "active", !.kind = kind, !.todo = IF kind = "freeze" THEN Remembered ELSE {}]]
    BY <1>3, <1>4 DEF StartFreeze
  <2>2. reqs'[f] = [none EXCEPT
            !.at = "active", !.kind = kind, !.todo = IF kind = "freeze" THEN Remembered ELSE {}]
    BY <1>1, <2>1
  <2> QED
    BY <2>2 DEF Req
<1>5. ASSUME ReadActive(f)
      PROVE  \/ reqs'[f] = NoRequest
             \/ /\ LatestActive # None /\ reqs'[f].at = "snapshot" /\ reqs'[f].exp = LatestActive
                /\ reqs'[f].kind = reqs[f].kind /\ reqs'[f].todo = reqs[f].todo
  <2>1. CASE LatestActive = None
    BY <1>1, <1>5, <2>1 DEF ReadActive
  <2>2. CASE LatestActive # None
    <3>1. reqs'[f] = [old EXCEPT !.at = "snapshot", !.exp = LatestActive]
      BY <1>1, <1>2, <1>5, <2>2 DEF ReadActive
    <3> QED
      BY <1>2, <2>2, <3>1 DEF Req
  <2> QED
    BY <2>1, <2>2
<1>6. ASSUME WriteSnapshot(f)
      PROVE  /\ reqs'[f].at = "freeze" /\ reqs'[f].exp = reqs[f].exp
             /\ reqs'[f].kind = reqs[f].kind /\ reqs'[f].todo = reqs[f].todo
  <2>1. reqs'[f] = [old EXCEPT !.at = "freeze"]
    BY <1>1, <1>2, <1>6 DEF WriteSnapshot
  <2> QED
    BY <1>2, <2>1 DEF Req
<1>7. ASSUME FreezeRow(f)
      PROVE  /\ reqs'[f].at = "nextId" /\ reqs'[f].exp = reqs[f].exp
             /\ reqs'[f].kind = reqs[f].kind /\ reqs'[f].todo = reqs[f].todo
  <2>1. reqs'[f] = [old EXCEPT !.at = "nextId"]
    BY <1>1, <1>2, <1>7 DEF FreezeRow
  <2> QED
    BY <1>2, <2>1 DEF Req
<1>8. ASSUME ReadNextId(f)
      PROVE  /\ reqs'[f].at = "create" /\ reqs'[f].new = Len(exps) + 1
             /\ reqs'[f].exp = reqs[f].exp
             /\ reqs'[f].kind = reqs[f].kind /\ reqs'[f].todo = reqs[f].todo
  <2>1. reqs'[f] = [old EXCEPT !.at = "create", !.new = Len(exps) + 1]
    BY <1>1, <1>2, <1>8 DEF ReadNextId
  <2> QED
    BY <1>2, <2>1 DEF Req
<1>9. ASSUME Create(f)
      PROVE  \/ reqs'[f] = NoRequest /\ reqs[f].new <= Len(exps)
             \/ /\ ~(reqs[f].new <= Len(exps)) /\ reqs'[f].at = "store"
                /\ reqs'[f].kind = reqs[f].kind /\ reqs'[f].todo = reqs[f].todo
  <2>1. CASE reqs[f].new <= Len(exps)
    BY <1>1, <1>9, <2>1 DEF Create
  <2>2. CASE ~(reqs[f].new <= Len(exps))
    <3>1. reqs'[f] = [old EXCEPT !.at = "store"]
      BY <1>1, <1>2, <1>9, <2>2 DEF Create
    <3> QED
      BY <1>2, <2>2, <3>1 DEF Req
  <2> QED
    BY <2>1, <2>2
<1>10. EmptyHistories(f) \/ CallFails(f) => reqs'[f] = NoRequest
  BY <1>1 DEF EmptyHistories, CallFails
<1> QED
  BY <1>4, <1>5, <1>6, <1>7, <1>8, <1>9, <1>10

LEMMA StoredAfter ==
  ASSUME IInv, NEW f \in Requests, StoreGathered(f) \/ StoreFails(f)
  PROVE  /\ reqs[f].at = "store" /\ reqs'[f].at = "store" /\ reqs'[f].kind = reqs[f].kind
         /\ \E t \in reqs[f].todo :
              /\ reqs'[f].todo = reqs[f].todo \ {t}
              /\ StoreGathered(f) => rows' = [rows EXCEPT ![t] = reqs[f].exp] /\ reqs[f].exp # None
              /\ StoreFails(f) => exposed' = exposed \cup Unstored({t})
<1>1. reqs[f] \in Req /\ ReqOK(reqs[f]) /\ reqs \in [Requests -> Req] /\ reqs[f].at = "store"
  BY ReqFields DEF IInv, ReqsOK, StoreGathered, StoreFails
<1>2. PICK old \in Req : old = reqs[f]
  BY <1>1
<1>3. ASSUME NEW t, reqs' = [reqs EXCEPT ![f].todo = @ \ {t}]
      PROVE  reqs'[f].at = old.at /\ reqs'[f].kind = old.kind /\ reqs'[f].todo = old.todo \ {t}
  <2>1. reqs'[f] = [old EXCEPT !.todo = @ \ {t}]
    BY <1>1, <1>2, <1>3
  <2> QED
    BY <2>1 DEF Req
<1>4. reqs[f].exp # None
  BY <1>1 DEF ReqOK
<1>5. CASE StoreGathered(f)
  <2>1. PICK t \in reqs[f].todo : /\ rows' = [rows EXCEPT ![t] = reqs[f].exp]
                                  /\ reqs' = [reqs EXCEPT ![f].todo = @ \ {t}]
    BY <1>5 DEF StoreGathered
  <2>2. ~StoreFails(f)
    BY <1>5, Constants DEF StoreGathered, StoreFails, IInv, MemOK, aside
  <2> QED
    BY <1>1, <1>2, <1>3, <1>4, <2>1, <2>2
<1>6. CASE StoreFails(f)
  <2>1. PICK t \in reqs[f].todo : /\ exposed' = exposed \cup Unstored({t})
                                  /\ reqs' = [reqs EXCEPT ![f].todo = @ \ {t}]
    BY <1>6 DEF StoreFails
  <2>2. ~StoreGathered(f)
    BY <1>6, Constants DEF StoreGathered, StoreFails, IInv, MemOK, aside
  <2> QED
    BY <1>1, <1>2, <1>3, <1>4, <2>1, <2>2
<1> QED
  BY <1>5, <1>6

\* Steps that set no status, give up no freeze, and move no request.
LEMMA ExpHeldRest ==
  ASSUME OInv, UNCHANGED <<exps, reqs, marks>>
  PROVE  OInv'
BY DEF OInv, OneActive, Active, Between, Replaced, ExpHeld, marks

\* The step of the one request.
LEMMA RequestExps ==
  ASSUME IInv, OInv, Alone, NEW f \in Requests,
         StartFreeze(f) \/ Freezing(f) \/ CallFails(f) \/ StoreFails(f)
  PROVE  OInv'
<1>1. \A g \in Requests : g = f
  BY DEF Alone
<1>2. Len(exps) \in Nat /\ Active \subseteq 1..Len(exps)
  BY ExpsLen DEF IInv, Active
<1>3. ExpHeld(f) /\ OneActive
  BY DEF OInv
<1>4. Replaced = IF reqs[f].at \in {"nextId", "create"} THEN {reqs[f].exp} ELSE {}
  BY <1>1 DEF Between, Replaced
<1>5. Replaced' = IF reqs'[f].at \in {"nextId", "create"} THEN {reqs'[f].exp} ELSE {}
  BY <1>1 DEF Between, Replaced
<1>6. SUFFICES OneActive' /\ ExpHeld(f)'
  BY <1>1 DEF OInv
<1>7. ASSUME UNCHANGED <<exps, moved>>, abandoned \cup Replaced \subseteq abandoned' \cup Replaced'
      PROVE  OneActive' /\ Active' = Active
  BY <1>3, <1>7 DEF OneActive, Active
<1>8. CASE StartFreeze(f)
  <2>1. /\ UNCHANGED <<exps, moved, abandoned>> /\ reqs[f].at = "idle"
        /\ reqs'[f].at = "active"
    BY <1>8, FieldsAfter DEF StartFreeze, expVars, marks
  <2> QED
    BY <1>4, <1>7, <2>1 DEF ExpHeld
<1>9. CASE ReadActive(f)
  <2>1. UNCHANGED <<exps, moved, abandoned>> /\ reqs[f].at = "active"
    BY <1>9 DEF ReadActive, expVars, marks
  <2>2. OneActive' /\ Active' = Active
    BY <1>4, <1>7, <2>1
  <2>3. CASE reqs'[f] = NoRequest
    BY <2>2, <2>3, NoRequestFields DEF ExpHeld
  <2>4. CASE /\ LatestActive # None /\ reqs'[f].at = "snapshot"
             /\ reqs'[f].exp = LatestActive
    <3>1. LatestActive \in 1..Len(exps) /\ \A n \in Active : LatestActive >= n
      BY <2>4, LatestIsActive DEF IInv
    <3>2. Len(exps) \in Active => LatestActive = Len(exps)
      BY <1>2, <3>1
    <3>3. Active \subseteq moved \cup {LatestActive}
      BY <1>3, <3>2 DEF OneActive
    <3> QED
      BY <2>1, <2>2, <2>4, <3>3 DEF ExpHeld
  <2> QED
    BY <1>9, <2>3, <2>4, FieldsAfter
<1>10. CASE WriteSnapshot(f)
  <2>1. UNCHANGED <<exps, moved, abandoned>> /\ reqs[f].at = "snapshot"
    BY <1>10 DEF WriteSnapshot, marks
  <2>2. reqs'[f].at = "freeze" /\ reqs'[f].exp = reqs[f].exp
    BY <1>10, FieldsAfter
  <2>3. OneActive' /\ Active' = Active
    BY <1>4, <1>7, <2>1
  <2> QED
    BY <1>3, <2>1, <2>2, <2>3 DEF ExpHeld
<1>11. CASE FreezeRow(f)
  <2>1. /\ reqs[f].at = "freeze" /\ reqs'[f].at = "nextId" /\ reqs'[f].exp = reqs[f].exp
        /\ UNCHANGED <<moved, abandoned>>
    BY <1>11, FieldsAfter DEF FreezeRow, marks
  <2>2. Active' = Active \ {reqs[f].exp} /\ Len(exps)' = Len(exps)
    BY <1>11, RowFrozen
  <2>3. Replaced = {} /\ Replaced' = {reqs[f].exp}
    BY <1>4, <1>5, <2>1
  <2>4. OneActive'
    BY <1>3, <2>1, <2>2, <2>3 DEF OneActive
  <2>5. Active' \subseteq moved'
    BY <1>3, <2>1, <2>2 DEF ExpHeld
  <2> QED
    BY <2>1, <2>4, <2>5 DEF ExpHeld
<1>12. CASE ReadNextId(f)
  <2>1. UNCHANGED <<exps, moved, abandoned>> /\ reqs[f].at = "nextId"
    BY <1>12 DEF ReadNextId, expVars, marks
  <2>2. reqs'[f].at = "create" /\ reqs'[f].new = Len(exps) + 1 /\ reqs'[f].exp = reqs[f].exp
    BY <1>12, FieldsAfter
  <2>3. OneActive' /\ Active' = Active
    BY <1>4, <1>5, <1>7, <2>1, <2>2
  <2> QED
    BY <1>3, <2>1, <2>2, <2>3 DEF ExpHeld
<1>13. CASE Create(f)
  <2>1. Active \subseteq moved /\ ~(reqs[f].new <= Len(exps))
    BY <1>2, <1>3, <1>13 DEF ExpHeld, Create
  <2>2. reqs'[f].at = "store"
    BY <1>13, <2>1, FieldsAfter
  <2>3. moved' = moved /\ exps' = Append(exps, "ACTIVE") /\ UNCHANGED <<snaps, rows, marks>>
    BY <1>13, <2>1 DEF Create, marks
  <2>4. Active' = Active \cup {Len(exps) + 1} /\ Len(exps)' = Len(exps) + 1
    BY <2>3, Opened DEF IInv
  <2> QED
    BY <2>1, <2>2, <2>3, <2>4 DEF ExpHeld, OneActive
<1>14. CASE StoreGathered(f) \/ StoreFails(f)
  <2>1. UNCHANGED <<exps, moved, abandoned>> /\ reqs[f].at = "store" /\ reqs'[f].at = "store"
    BY <1>14, StoredAfter DEF StoreGathered, StoreFails, expVars, marks
  <2> QED
    BY <1>4, <1>7, <2>1 DEF ExpHeld
<1>15. CASE EmptyHistories(f)
  <2>1. /\ UNCHANGED <<exps, moved, abandoned>> /\ reqs[f].at = "store"
        /\ reqs'[f].at = "idle"
    BY <1>15, FieldsAfter, NoRequestFields DEF EmptyHistories, expVars, marks
  <2> QED
    BY <1>4, <1>7, <2>1 DEF ExpHeld
<1>16. CASE CallFails(f)
  <2>1. UNCHANGED <<exps, moved>> /\ reqs'[f].at = "idle"
    BY <1>16, FieldsAfter, NoRequestFields DEF CallFails, expVars
  <2>2. abandoned' = abandoned \cup Replaced
    BY <1>4, <1>16 DEF CallFails, Between
  <2> QED
    BY <1>7, <2>1, <2>2 DEF ExpHeld
<1> QED
  BY <1>8, <1>9, <1>10, <1>11, <1>12, <1>13, <1>14, <1>15, <1>16 DEF Freezing

LEMMA ExpStep == IInv /\ Alone /\ OInv /\ [Next]_vars => OInv'
<1> SUFFICES ASSUME IInv, Alone, OInv, [Next]_vars PROVE OInv'
  OBVIOUS
<1>1. CASE UNCHANGED <<exps, reqs, marks>>
  BY <1>1, ExpHeldRest
<1>2. CASE \E f \in Requests : StartFreeze(f) \/ Freezing(f) \/ CallFails(f) \/ StoreFails(f)
  BY <1>2, RequestExps
<1>3. CASE Restart
  <2>1. \A f \in Requests : reqs'[f].at = "idle"
    BY <1>3, NoRequestFields DEF Restart
  <2>2. OneActive'
    BY <1>3, Reopened DEF OInv, OneActive
  <2> QED
    BY <2>1, <2>2 DEF OInv, ExpHeld
<1>4. ASSUME NEW n \in DOMAIN exps, Promote(n) \/ UpdateStatus(n) PROVE OInv'
  <2>1. /\ Len(exps)' = Len(exps) /\ moved' = moved \cup {n} /\ UNCHANGED <<reqs, abandoned>>
        /\ Active' \subseteq Active \cup {n} /\ Active \subseteq Active' \cup {n}
    BY <1>4, StatusSet
  <2>2. Replaced' = Replaced
    BY <2>1 DEF Between, Replaced
  <2>3. OneActive'
    BY <2>1, <2>2 DEF OInv, OneActive
  <2>4. \A f \in Requests : ExpHeld(f)'
    BY <2>1 DEF OInv, ExpHeld
  <2> QED
    BY <2>3, <2>4 DEF OInv
<1> QED
  BY <1>1, <1>2, <1>3, <1>4
     DEF Next, CloseTrade, CloseOnTick, Push, TimerFires, Syncing, SyncReads, SyncInserts,
         SyncGoesOn, SyncFails, Reset, RowExpires, vars, expVars

LEMMA ExpInit == Init => OInv
<1> SUFFICES ASSUME Init PROVE OInv
  OBVIOUS
<1>1. exps = <<"ACTIVE">> /\ DOMAIN exps = {1} /\ exps[1] = "ACTIVE" /\ Len(exps) = 1
  BY DEF Init
<1>2. Active = {1}
  BY <1>1 DEF Active
<1>3. \A f \in Requests : reqs[f].at = "idle"
  BY NoRequestFields DEF Init
<1> QED
  BY <1>1, <1>2, <1>3 DEF OInv, OneActive, ExpHeld

\* With one request at a time the latest experiment is the ACTIVE one and the
\* only one, but for those an operator has set and for a freeze that ended, by
\* an error or a crash, between its two updates (experimentManager.js:
\* freezeAndCreateNew, updateStatus, promoteChampion; initialize at boot).
THEOREM OneExperiment ==
  ASSUME \A f, g \in Requests : f = g
  PROVE  Spec => []OneActive
<1>1. Alone
  BY DEF Alone
<1>2. OInv /\ IInv /\ [Next]_vars => OInv'
  BY <1>1, ExpStep
<1>3. OInv => OneActive
  BY DEF OInv
<1> QED
  BY <1>2, <1>3, ExpInit, InductiveInvariant, PTL DEF Spec

\* A step that moves no request, closes at most the trade next, and exposes
\* what it takes out of memory unstored or out of the database.
LEMMA TradesRest ==
  ASSUME IInv, TInv, UNCHANGED reqs, NEW closed, exposed \subseteq exposed',
         next' \in Nat, \A t \in 1..(next' - 1) : t \in 1..(next - 1) \cup closed,
         Remembered' \subseteq Remembered \cup closed,
         \A t \in Trades : rows[t] # None => rows'[t] # None \/ t \in exposed',
         \A t \in Remembered \cup closed : t \in Remembered' \cup exposed' \/ rows'[t] # None,
         \A f \in Requests : reqs[f].at # "idle" => closed \subseteq exposed'
  PROVE  TInv'
<1>1. Remembered \subseteq Trades /\ 1..(next - 1) \subseteq Trades
  BY Constants DEF IInv, MemOK, Remembered, Trades
<1>2. \A f \in Requests : reqs[f].todo \subseteq Trades
  BY ReqFields DEF IInv
<1>3. TradesAccounted'
  BY <1>1 DEF TInv, TradesAccounted
<1>4. ASSUME NEW f \in Requests PROVE TradeHeld(f)'
  <2>1. TradeHeld(f)
    BY DEF TInv
  <2>2. \A t \in reqs[f].todo : t \in Remembered' \cup exposed' \/ rows'[t] # None
    BY <1>2, <2>1 DEF TradeHeld
  <2>3. ASSUME reqs[f].at # "idle", reqs[f].kind = "freeze", NEW t \in Remembered'
        PROVE  t \in reqs[f].todo \cup exposed' \/ rows'[t] # None
    BY <1>1, <2>1, <2>3 DEF TradeHeld
  <2> QED
    BY <2>2, <2>3 DEF TradeHeld
<1> QED
  BY <1>3, <1>4 DEF TInv

\* No trade is closed.
LEMMA NothingClosed ==
  ASSUME IInv, TInv, UNCHANGED <<reqs, next>>, exposed \subseteq exposed',
         Remembered' \subseteq Remembered,
         \A t \in Trades : rows[t] # None => rows'[t] # None \/ t \in exposed',
         \A t \in Remembered : t \in Remembered' \cup exposed' \/ rows'[t] # None
  PROVE  TInv'
<1>1. next \in Nat
  BY Constants DEF IInv, MemOK
<1> DEFINE closed == {}
<1>2. /\ \A t \in 1..(next' - 1) : t \in 1..(next - 1) \cup closed
      /\ Remembered' \subseteq Remembered \cup closed /\ next' \in Nat
      /\ \A t \in Remembered \cup closed : t \in Remembered' \cup exposed' \/ rows'[t] # None
      /\ \A f \in Requests : reqs[f].at # "idle" => closed \subseteq exposed'
  BY <1>1
<1> HIDE DEF closed
<1> QED
  BY <1>2, TradesRest

LEMMA PushHeld ==
  ASSUME IInv, TInv, NEW e \in Engines, NEW dropped, Push(e, dropped)
  PROVE  TInv'
<1>1. /\ next \in Nat /\ next' = next + 1 /\ UNCHANGED <<rows, reqs>>
      /\ history' = [history EXCEPT ![e] = (@ \cup {next}) \ dropped]
  BY Constants DEF IInv, MemOK, Push
<1>2. /\ Remembered' \subseteq Remembered \cup {next}
      /\ Remembered \cup {next} \subseteq Remembered' \cup dropped
  <2>1. history \in [Engines -> SUBSET Trades]
    BY DEF IInv, MemOK
  <2>2. \A d \in Engines :
          history'[d] = IF d = e THEN (history[e] \cup {next}) \ dropped ELSE history[d]
    BY <1>1, <2>1
  <2> QED
    BY <2>2 DEF Remembered
<1>3. exposed \subseteq exposed' /\ Unstored(dropped) \subseteq exposed'
  BY DEF Push
<1>4. \A f \in Requests : reqs[f].at # "idle" => next \in exposed'
  BY DEF Push
<1>5. \A t \in 1..(next' - 1) : t \in 1..(next - 1) \cup {next}
  BY <1>1
<1>6. \A t \in Remembered \cup {next} : t \in Remembered' \cup exposed' \/ rows'[t] # None
  BY <1>1, <1>2, <1>3 DEF Unstored
<1>7. \A f \in Requests : reqs[f].at # "idle" => {next} \subseteq exposed'
  BY <1>4
<1>8. \A t \in Trades : rows[t] # None => rows'[t] # None \/ t \in exposed'
  BY <1>1
<1>9. next' \in Nat /\ UNCHANGED reqs
  BY <1>1
<1> QED
  BY <1>2, <1>3, <1>5, <1>6, <1>7, <1>8, <1>9, TradesRest

\* The trades an operator, the clean-up or a sync touches.
LEMMA ResetHeld ==
  ASSUME IInv, TInv, Reset
  PROVE  TInv'
<1>1. UNCHANGED <<reqs, next, rows>> /\ exposed' = exposed \cup Unstored(Remembered)
  BY DEF Reset
<1>2. Remembered' = {}
  BY DEF Reset, Emptied, Remembered
<1>3. \A t \in Remembered : t \in Remembered' \cup exposed' \/ rows'[t] # None
  BY <1>1 DEF Unstored
<1> QED
  BY <1>1, <1>2, <1>3, NothingClosed

LEMMA RowsHeld ==
  ASSUME IInv, TInv, SyncInserts \/ \E t \in Trades : RowExpires(t)
  PROVE  TInv'
<1>1. /\ UNCHANGED <<reqs, next>> /\ exposed \subseteq exposed' /\ Remembered' = Remembered
  BY DEF SyncInserts, RowExpires, memVars, Remembered
<1>2. \A t \in Trades : rows[t] # None => rows'[t] # None \/ t \in exposed'
  <2>1. rows \in [Trades -> 0..Len(exps)]
    BY DEF IInv, ExpsOK
  <2>2. CASE SyncInserts
    <3>1. PICK t \in sync.todo : rows' = [rows EXCEPT ![t] = sync.exp]
      BY <2>2 DEF SyncInserts
    <3>2. sync.exp # None
      BY <2>2 DEF SyncInserts, IInv, SyncOK
    <3> QED
      BY <2>1, <3>1, <3>2
  <2>3. CASE \E t \in Trades : RowExpires(t)
    BY <2>1, <2>3 DEF RowExpires
  <2> QED
    BY <2>2, <2>3
<1> QED
  BY <1>1, <1>2, NothingClosed

LEMMA StandsStill ==
  ASSUME IInv, TInv, UNCHANGED <<reqs, next, history, exposed, rows>>
  PROVE  TInv'
<1>1. Remembered' = Remembered
  BY DEF Remembered
<1> QED
  BY <1>1, NothingClosed

\* The step of the one request.
LEMMA RequestTrades ==
  ASSUME IInv, TInv, Alone, NEW f \in Requests,
         StartFreeze(f) \/ Freezing(f) \/ CallFails(f) \/ StoreFails(f)
  PROVE  TInv'
<1>1. \A g \in Requests : g = f
  BY DEF Alone
<1>2. next' = next
  BY DEF StartFreeze, Freezing, ReadActive, WriteSnapshot, FreezeRow, ReadNextId, Create,
         StoreGathered, EmptyHistories, CallFails, StoreFails
<1>3. TradeHeld(f)
  BY DEF TInv
<1>4. \A t \in 1..(next - 1) : t \in Remembered \cup exposed \/ rows[t] # None
  BY <1>1, <1>3 DEF TInv, TradesAccounted, TradeHeld
<1>5. SUFFICES /\ \A t \in 1..(next - 1) :
                    t \in Remembered' \cup exposed' \/ rows'[t] # None
               /\ TradeHeld(f)'
  BY <1>1, <1>2 DEF TInv, TradesAccounted
<1>6. ASSUME UNCHANGED <<history, exposed, rows>>,
             \/ reqs'[f] = NoRequest
             \/ reqs[f].at # "idle" /\ reqs'[f].kind = reqs[f].kind /\ reqs'[f].todo = reqs[f].todo
             \/ reqs'[f].todo = IF reqs'[f].kind = "freeze" THEN Remembered ELSE {}
      PROVE  /\ \A t \in 1..(next - 1) :
                    t \in Remembered' \cup exposed' \/ rows'[t] # None
             /\ TradeHeld(f)'
  <2>1. Remembered' = Remembered
    BY <1>6 DEF Remembered
  <2>2. TradeHeld(f)'
    BY <1>3, <1>6, <2>1, NoRequestFields DEF TradeHeld
  <2> QED
    BY <1>4, <1>6, <2>1, <2>2
<1>7. CASE StartFreeze(f)
  <2>1. UNCHANGED <<history, exposed, rows>>
    BY <1>7 DEF StartFreeze, memVars
  <2>2. reqs'[f].todo = IF reqs'[f].kind = "freeze" THEN Remembered ELSE {}
    BY <1>7, FieldsAfter
  <2> QED
    BY <1>6, <2>1, <2>2
<1>8. CASE ReadActive(f)
  <2>1. UNCHANGED <<history, exposed, rows>>
    BY <1>8 DEF ReadActive, memVars
  <2>2. \/ reqs'[f] = NoRequest
        \/ reqs[f].at # "idle" /\ reqs'[f].kind = reqs[f].kind /\ reqs'[f].todo = reqs[f].todo
    BY <1>8, FieldsAfter DEF ReadActive
  <2> QED
    BY <1>6, <2>1, <2>2
<1>9. CASE WriteSnapshot(f)
  <2>1. UNCHANGED <<history, exposed, rows>>
    BY <1>9 DEF WriteSnapshot, memVars
  <2>2. \/ reqs'[f] = NoRequest
        \/ reqs[f].at # "idle" /\ reqs'[f].kind = reqs[f].kind /\ reqs'[f].todo = reqs[f].todo
    BY <1>9, FieldsAfter DEF WriteSnapshot
  <2> QED
    BY <1>6, <2>1, <2>2
<1>10. CASE FreezeRow(f)
  <2>1. UNCHANGED <<history, exposed, rows>>
    BY <1>10 DEF FreezeRow, memVars
  <2>2. \/ reqs'[f] = NoRequest
        \/ reqs[f].at # "idle" /\ reqs'[f].kind = reqs[f].kind /\ reqs'[f].todo = reqs[f].todo
    BY <1>10, FieldsAfter DEF FreezeRow
  <2> QED
    BY <1>6, <2>1, <2>2
<1>11. CASE ReadNextId(f)
  <2>1. UNCHANGED <<history, exposed, rows>>
    BY <1>11 DEF ReadNextId, memVars
  <2>2. \/ reqs'[f] = NoRequest
        \/ reqs[f].at # "idle" /\ reqs'[f].kind = reqs[f].kind /\ reqs'[f].todo = reqs[f].todo
    BY <1>11, FieldsAfter DEF ReadNextId
  <2> QED
    BY <1>6, <2>1, <2>2
<1>12. CASE Create(f)
  <2>1. UNCHANGED <<history, exposed, rows>>
    BY <1>12 DEF Create, memVars
  <2>2. \/ reqs'[f] = NoRequest
        \/ reqs[f].at # "idle" /\ reqs'[f].kind = reqs[f].kind /\ reqs'[f].todo = reqs[f].todo
    BY <1>12, FieldsAfter DEF Create
  <2> QED
    BY <1>6, <2>1, <2>2
<1>13. CASE StoreGathered(f) \/ StoreFails(f)
  <2>1. /\ reqs[f].at = "store" /\ reqs'[f].kind = reqs[f].kind /\ Remembered' = Remembered
        /\ exposed \subseteq exposed'
    <3>1. UNCHANGED history /\ exposed \subseteq exposed'
      BY <1>13 DEF StoreGathered, StoreFails, memVars
    <3>2. Remembered' = Remembered
      BY <3>1 DEF Remembered
    <3> QED
      BY <1>13, <3>1, <3>2, StoredAfter
  <2>2. rows \in [Trades -> 0..Len(exps)] /\ reqs[f].todo \subseteq Trades
    BY ReqFields DEF IInv, ExpsOK
  <2>3. PICK t \in reqs[f].todo :
          /\ reqs'[f].todo = reqs[f].todo \ {t}
          /\ StoreGathered(f) => rows' = [rows EXCEPT ![t] = reqs[f].exp] /\ reqs[f].exp # None
          /\ StoreFails(f) => exposed' = exposed \cup Unstored({t})
    BY <1>13, StoredAfter
  <2>4. /\ \A u \in Trades : rows[u] # None => rows'[u] # None
        /\ t \in exposed' \/ rows'[t] # None
    <3>1. CASE StoreGathered(f)
      BY <2>2, <2>3, <3>1
    <3>2. CASE StoreFails(f)
      BY <2>3, <3>2 DEF StoreFails, Unstored
    <3> QED
      BY <1>13, <3>1, <3>2
  <2>5. Remembered \subseteq Trades /\ 1..(next - 1) \subseteq Trades
    BY Constants DEF IInv, MemOK, Remembered, Trades
  <2>6. \A u \in 1..(next - 1) : u \in Remembered' \cup exposed' \/ rows'[u] # None
    BY <1>4, <2>1, <2>4, <2>5
  <2>7. TradeHeld(f)'
    BY <1>3, <2>1, <2>2, <2>3, <2>4, <2>5 DEF TradeHeld
  <2> QED
    BY <1>5, <2>6, <2>7
<1>14. CASE EmptyHistories(f)
  <2>1. reqs[f].at = "store" /\ reqs[f].todo = {} /\ rows' = rows /\ reqs'[f] = NoRequest
    BY <1>14, FieldsAfter DEF EmptyHistories
  <2>2. TradeHeld(f)'
    BY <2>1, NoRequestFields DEF TradeHeld
  <2>3. exposed \subseteq exposed'
    BY <1>14 DEF EmptyHistories
  <2>4. ASSUME NEW t \in 1..(next - 1), t \in Remembered, rows[t] = None PROVE t \in exposed'
    <3>1. reqs[f].kind \in {"freeze", "wipe"}
      BY ReqFields DEF IInv
    <3>2. CASE reqs[f].kind = "freeze"
      BY <1>3, <2>1, <2>3, <2>4, <3>2 DEF TradeHeld
    <3>3. CASE reqs[f].kind = "wipe"
      BY <1>14, <2>4, <3>3 DEF EmptyHistories, Unstored
    <3> QED
      BY <3>1, <3>2, <3>3
  <2> QED
    BY <1>4, <1>5, <2>1, <2>2, <2>3, <2>4
<1>15. CASE CallFails(f)
  <2>1. UNCHANGED <<history, exposed, rows>> /\ reqs'[f] = NoRequest
    BY <1>15, FieldsAfter DEF CallFails, memVars
  <2> QED
    BY <1>6, <2>1
<1> QED
  BY <1>7, <1>8, <1>9, <1>10, <1>11, <1>12, <1>13, <1>14, <1>15 DEF Freezing

LEMMA RestartTrades ==
  ASSUME IInv, TInv, Restart
  PROVE  TInv'
<1>1. \A f \in Requests : reqs'[f] = NoRequest
  BY DEF Restart
<1>2. next' = next /\ rows' = rows /\ exposed \subseteq exposed'
  BY DEF Restart
<1>3. Remembered \subseteq Remembered' \cup exposed'
  <2>1. CASE timer
    BY <2>1 DEF Restart
  <2>2. CASE ~timer
    BY <2>2 DEF IInv, MemOK, Restart, Remembered
  <2> QED
    BY <2>1, <2>2
<1>4. TradesAccounted'
  <2>1. \A f \in Requests : \A t \in reqs[f].todo : t \in Remembered \cup exposed \/ rows[t] # None
    BY DEF TInv, TradeHeld
  <2> QED
    BY <1>2, <1>3, <2>1 DEF TInv, TradesAccounted
<1>5. \A f \in Requests : TradeHeld(f)'
  BY <1>1, NoRequestFields DEF TradeHeld
<1> QED
  BY <1>4, <1>5 DEF TInv

LEMMA TradeStep == IInv /\ Alone /\ TInv /\ [Next]_vars => TInv'
<1> SUFFICES ASSUME IInv, Alone, TInv, [Next]_vars PROVE TInv'
  OBVIOUS
<1>1. CASE UNCHANGED <<reqs, next, history, exposed, rows>>
  BY <1>1, StandsStill
<1>2. CASE \E e \in Engines : CloseTrade(e) \/ CloseOnTick(e)
  BY <1>2, PushHeld DEF CloseTrade, CloseOnTick
<1>3. CASE \E f \in Requests : StartFreeze(f) \/ Freezing(f) \/ CallFails(f) \/ StoreFails(f)
  BY <1>3, RequestTrades
<1>4. CASE Restart
  BY <1>4, RestartTrades
<1>5. CASE SyncInserts \/ \E t \in Trades : RowExpires(t)
  BY <1>5, RowsHeld
<1>6. CASE Reset
  BY <1>6, ResetHeld
<1> QED
  BY <1>1, <1>2, <1>3, <1>4, <1>5, <1>6
     DEF Next, TimerFires, Syncing, SyncReads, SyncGoesOn, SyncFails, Promote, UpdateStatus,
         vars, expVars, memVars

LEMMA TradeInit == Init => TInv
<1> SUFFICES ASSUME Init PROVE TInv
  OBVIOUS
<1>1. 1..(next - 1) = {} /\ \A f \in Requests : reqs[f].at = "idle" /\ reqs[f].todo = {}
  BY NoRequestFields DEF Init
<1> QED
  BY <1>1 DEF TInv, TradesAccounted, TradeHeld

\* With one request at a time a closed trade is in memory, stored, or in the
\* hands of a freeze, unless it met one of the ways to be lost that
\* TradesAccounted lists: closed during a request, failed insert of a freeze,
\* left memory unstored, not saved before a crash, expired row (server.js:
\* freeze-and-new, wipe, reset-engine, saveState, the trade sync).
THEOREM NoTradeVanishes ==
  ASSUME \A f, g \in Requests : f = g
  PROVE  Spec => []TradesAccounted
<1>1. Alone
  BY DEF Alone
<1>2. TInv /\ IInv /\ [Next]_vars => TInv'
  BY <1>1, TradeStep
<1>3. TInv => TradesAccounted
  BY DEF TInv
<1> QED
  BY <1>2, <1>3, TradeInit, InductiveInvariant, PTL DEF Spec

=============================================================================
