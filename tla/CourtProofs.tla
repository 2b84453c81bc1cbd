----------------------------- MODULE CourtProofs -----------------------------
(***************************************************************************)
(* The constitutional court: what it grants after a veto, a shock and a    *)
(* run of near misses, for every value of the constants.                   *)
(***************************************************************************)
EXTENDS Court, Integers, FiniteSetTheorems, SequenceTheorems, TLAPS

-----------------------------------------------------------------------------
(* Numbers.                                                                *)

LEMMA Constants ==
  /\ SclThreshold \in Nat /\ MinCooldown \in Nat /\ StressMax \in Nat /\ LethalLimit \in Nat
  /\ Release \in Nat /\ Recovery \in Nat /\ MaxRequests \in Nat /\ MaxRestarts \in Nat
  /\ Release > 0 /\ Recovery < LethalLimit /\ LethalLimit <= StressMax
  /\ MaxHits \in Nat /\ MaxHits >= 1
<1>1. {SclThreshold, MinCooldown, StressMax, Release, LethalLimit, Recovery,
       MaxRequests, MaxRestarts} \subseteq Nat
  BY CourtAssumption
<1>2. Release > 0 /\ Recovery < LethalLimit /\ LethalLimit <= StressMax /\ MaxHits \in Nat \ {0}
  BY CourtAssumption
<1> QED
  BY <1>1, <1>2

\* A set of naturals that is not empty has a least element.
LEMMA LeastNatural ==
  ASSUME NEW A \in SUBSET Nat, A # {}
  PROVE  \E m \in A : \A k \in A : m <= k
<1> DEFINE T == { 0..n : n \in A }
           R == StrictSubsetOrdering(Nat)
<1>1. IsWellFoundedOn(R, FiniteSubsetsOf(Nat))
  BY FS_StrictSubsetOrderingWellFounded
<1>2. T \subseteq FiniteSubsetsOf(Nat)
  <2> SUFFICES ASSUME NEW n \in A PROVE 0..n \in FiniteSubsetsOf(Nat)
    OBVIOUS
  <2>1. IsFiniteSet(0..n) /\ 0..n \subseteq Nat
    BY FS_Interval
  <2> QED
    BY <2>1 DEF FiniteSubsetsOf
<1>3. T # {}
  OBVIOUS
<1> HIDE DEF T, R
<1>4. PICK x \in T : \A y \in T : ~(<<y, x>> \in R)
  BY <1>1, <1>2, <1>3, WFMin
<1>5. PICK m \in A : x = 0..m
  BY DEF T
<1>6. \A k \in A : m <= k
  <2> SUFFICES ASSUME NEW k \in A, ~(m <= k) PROVE FALSE
    OBVIOUS
  <2>1. 0..k \in T
    BY DEF T
  <2>2. 0..k \subseteq 0..m /\ m \in 0..m /\ m \notin 0..k /\ 0..m \subseteq Nat /\ 0..k \subseteq Nat
    OBVIOUS
  <2>3. <<0..k, x>> \in R
    BY <1>5, <2>2 DEF R, StrictSubsetOrdering
  <2> QED
    BY <1>4, <2>1, <2>3
<1> QED
  BY <1>6

-----------------------------------------------------------------------------
(* The counter of near misses as the ledger's rows imply it.               *)

LEMMA CountedIsNat == \A n \in Nat : \A row : Counted(n, row) \in Nat
BY DEF Counted, Minus

\* The function that Replay defines by recursion.
IsCount(rows, f) ==
  f = [n \in 0..Len(rows) |-> IF n = 0 THEN 0 ELSE Counted(f[n - 1], rows[n])]

LEMMA ReplayIsCount == \A rows : Replay(rows) = (CHOOSE f : IsCount(rows, f))[Len(rows)]
BY DEF Replay, IsCount

LEMMA CountUnfolds ==
  ASSUME NEW rows, NEW f, IsCount(rows, f), Len(rows) \in Nat
  PROVE  /\ f[0] = 0
         /\ \A n \in 1..Len(rows) : f[n] = Counted(f[n - 1], rows[n])
<1>1. \A n \in 0..Len(rows) : f[n] = IF n = 0 THEN 0 ELSE Counted(f[n - 1], rows[n])
  BY DEF IsCount
<1>2. 0 \in 0..Len(rows)
  OBVIOUS
<1>3. \A n \in 1..Len(rows) : n \in 0..Len(rows) /\ n # 0
  OBVIOUS
<1> QED
  BY <1>1, <1>2, <1>3

\* The rows determine the count.
LEMMA CountUnique ==
  ASSUME NEW rows, NEW f, NEW g, IsCount(rows, f), IsCount(rows, g), Len(rows) \in Nat
  PROVE  f = g
<1> DEFINE A == { n \in 0..Len(rows) : f[n] # g[n] }
<1>1. CASE A = {}
  <2>1. \A n \in 0..Len(rows) : f[n] = g[n]
    BY <1>1
  <2>2. /\ f = [n \in 0..Len(rows) |-> f[n]]
        /\ g = [n \in 0..Len(rows) |-> g[n]]
    BY DEF IsCount
  <2> QED
    BY <2>1, <2>2
<1>2. CASE A # {}
  <2>1. A \in SUBSET Nat
    OBVIOUS
  <2>2. PICK m \in A : \A k \in A : m <= k
    BY <1>2, <2>1, LeastNatural
  <2>3. m \in 0..Len(rows) /\ f[m] # g[m]
    OBVIOUS
  <2>4. m # 0
    BY <2>3, CountUnfolds
  <2>5. m - 1 \in 0..Len(rows) /\ ~(m <= m - 1) /\ m \in 1..Len(rows)
    BY <2>3, <2>4
  <2>6. f[m - 1] = g[m - 1]
    BY <2>2, <2>5
  <2> QED
    BY <2>3, <2>5, <2>6, CountUnfolds
<1> QED
  BY <1>1, <1>2

\* Every sequence of rows has a count.
LEMMA CountExists ==
  ASSUME NEW S, NEW rows \in Seq(S)
  PROVE  \E f : IsCount(rows, f)
<1> DEFINE Has(s) == \E f : IsCount(s, f)
           A == { n \in Nat : \E s \in Seq(S) : Len(s) = n /\ ~Has(s) }
<1> SUFFICES ASSUME A # {} PROVE FALSE
  BY LenProperties
<1>1. PICK m \in A : \A k \in A : m <= k
  BY LeastNatural
<1>2. PICK s \in Seq(S) : Len(s) = m /\ ~Has(s)
  BY <1>1
<1>3. m # 0
  <2> SUFFICES ASSUME m = 0 PROVE FALSE
    OBVIOUS
  <2> DEFINE f == [n \in 0..0 |-> 0]
  <2>1. IsCount(s, f)
    BY <1>2 DEF IsCount
  <2> QED
    BY <1>2, <2>1
<1> HIDE DEF Has
<1>4. m \in Nat /\ s # <<>> /\ m - 1 \in Nat /\ ~(m <= m - 1)
  BY <1>2, <1>3, EmptySeq
<1>5. PICK front \in Seq(S), last \in S : s = Append(front, last)
  BY <1>4, SequenceEmptyOrAppend
<1>6. /\ Len(front) = m - 1 /\ s[m] = last
      /\ \A i \in 1..(m - 1) : s[i] = front[i]
  <2>1. Len(front) \in Nat /\ Len(s) = Len(front) + 1
    BY <1>5, AppendProperties, LenProperties
  <2>2. Len(front) = m - 1 /\ Len(front) + 1 = m
    BY <1>2, <2>1
  <2> QED
    BY <1>5, <2>2, AppendProperties
<1>7. Has(front)
  BY <1>1, <1>4, <1>6
<1>8. PICK g : IsCount(front, g)
  BY <1>7 DEF Has
<1> DEFINE f == [n \in 0..m |-> IF n = m THEN Counted(g[m - 1], last) ELSE g[n]]
<1>9. \A n \in 0..m : f[n] = IF n = 0 THEN 0 ELSE Counted(f[n - 1], s[n])
  <2> SUFFICES ASSUME NEW n \in 0..m PROVE f[n] = IF n = 0 THEN 0 ELSE Counted(f[n - 1], s[n])
    OBVIOUS
  <2>1. CASE n = 0
    <3>1. g[0] = 0
      BY <1>4, <1>6, <1>8, CountUnfolds
    <3>2. f[0] = g[0]
      BY <1>3, <1>4
    <3> HIDE DEF f
    <3>3. f[n] = 0
      BY <2>1, <3>1, <3>2
    <3> QED
      BY <2>1, <3>3
  <2>2. CASE n \in 1..(m - 1)
    <3>1. f[n] = g[n] /\ f[n - 1] = g[n - 1] /\ s[n] = front[n]
      BY <2>2, <1>4, <1>6
    <3>2. g[n] = Counted(g[n - 1], front[n])
      <4>1. Len(front) \in Nat /\ n \in 1..Len(front)
        BY <2>2, <1>4, <1>6
      <4>2. \A k \in 1..Len(front) : g[k] = Counted(g[k - 1], front[k])
        BY <4>1, <1>8, CountUnfolds
      <4> QED
        BY <4>1, <4>2
    <3>3. n # 0
      BY <2>2
    <3> HIDE DEF f
    <3> QED
      BY <3>1, <3>2, <3>3
  <2>3. CASE n = m
    <3>1. f[n] = Counted(g[m - 1], last) /\ f[n - 1] = g[n - 1]
      BY <2>3, <1>4
    <3> QED
      BY <2>3, <3>1, <1>3, <1>6
  <2> QED
    BY <2>1, <2>2, <2>3, <1>4
<1>10. f = [n \in 0..m |-> f[n]]
  OBVIOUS
<1> HIDE DEF f
<1>11. IsCount(s, f)
  <2>1. f = [n \in 0..m |-> IF n = 0 THEN 0 ELSE Counted(f[n - 1], s[n])]
    BY <1>9, <1>10, Zenon
  <2> QED
    BY <2>1, <1>2 DEF IsCount
<1> QED
  BY <1>2, <1>11 DEF Has

\* Counting after one more row, as the court does, is counting all the rows
\* again, as loadFromDb does.
LEMMA ReplayAppends ==
  ASSUME NEW S, NEW rows \in Seq(S), NEW row \in S
  PROVE  Replay(Append(rows, row)) = Counted(Replay(rows), row)
<1> DEFINE all == Append(rows, row)
           n == Len(rows)
<1>1. /\ all \in Seq(S) /\ Len(all) = n + 1 /\ all[n + 1] = row
      /\ \A i \in 1..n : all[i] = rows[i]
  BY AppendProperties
<1>2. n \in Nat
  BY LenProperties
<1>3. PICK f : IsCount(all, f)
  BY <1>1, CountExists
<1>4. PICK g : IsCount(rows, g)
  BY CountExists
<1>5. Replay(all) = f[n + 1]
  <2>1. IsCount(all, CHOOSE h : IsCount(all, h))
    BY <1>3
  <2>2. (CHOOSE h : IsCount(all, h)) = f
    BY <1>1, <1>2, <1>3, <2>1, CountUnique
  <2> QED
    BY <1>1, <2>2, ReplayIsCount
<1>6. Replay(rows) = g[n]
  <2>1. IsCount(rows, CHOOSE h : IsCount(rows, h))
    BY <1>4
  <2>2. (CHOOSE h : IsCount(rows, h)) = g
    BY <1>2, <1>4, <2>1, CountUnique
  <2> QED
    BY <2>2, ReplayIsCount
<1> HIDE DEF all, n
<1>7. [k \in 0..n |-> f[k]] = g
  <2> DEFINE h == [k \in 0..n |-> f[k]]
  <2>1. f[0] = 0 /\ \A k \in 1..(n + 1) : f[k] = Counted(f[k - 1], all[k])
    BY <1>1, <1>2, <1>3, CountUnfolds
  <2>2. \A k \in 0..n : h[k] = IF k = 0 THEN 0 ELSE Counted(h[k - 1], rows[k])
    <3> SUFFICES ASSUME NEW k \in 0..n PROVE h[k] = IF k = 0 THEN 0 ELSE Counted(h[k - 1], rows[k])
      OBVIOUS
    <3>1. CASE k = 0
      BY <2>1, <3>1, <1>2
    <3>2. CASE k # 0
      <4>1. k \in 1..n /\ k \in 1..(n + 1) /\ k - 1 \in 0..n
        BY <3>2, <1>2
      <4> QED
        BY <1>1, <2>1, <3>2, <4>1
    <3> QED
      BY <3>1, <3>2
  <2>3. h = [k \in 0..n |-> h[k]]
    OBVIOUS
  <2> HIDE DEF h
  <2>4. h = [k \in 0..n |-> IF k = 0 THEN 0 ELSE Counted(h[k - 1], rows[k])]
    BY <2>2, <2>3, Zenon
  <2>5. IsCount(rows, h)
    BY <2>4 DEF IsCount, n
  <2>6. h = g
    BY <1>2, <1>4, <2>5, CountUnique DEF n
  <2> QED
    BY <2>6 DEF h
<1>8. f[n] = g[n]
  BY <1>2, <1>7
<1>9. f[n + 1] = Counted(f[n], row)
  BY <1>1, <1>2, <1>3, CountUnfolds
<1> QED
  BY <1>5, <1>6, <1>8, <1>9 DEF all

LEMMA ReplayOfNothing == Replay(<<>>) = 0
<1>1. <<>> \in Seq({}) /\ Len(<<>>) = 0
  BY EmptySeq
<1>2. PICK f : IsCount(<<>>, f)
  BY <1>1, CountExists
<1>3. IsCount(<<>>, CHOOSE h : IsCount(<<>>, h))
  BY <1>2
<1> QED
  BY <1>1, <1>3, CountUnfolds, ReplayIsCount

LEMMA ReplayIsNat ==
  ASSUME NEW S, NEW rows \in Seq(S)
  PROVE  Replay(rows) \in Nat
<1>1. Len(rows) \in Nat
  BY LenProperties
<1>2. PICK f : IsCount(rows, f)
  BY CountExists
<1>3. Replay(rows) = f[Len(rows)]
  <2>1. IsCount(rows, CHOOSE h : IsCount(rows, h))
    BY <1>2
  <2>2. (CHOOSE h : IsCount(rows, h)) = f
    BY <1>1, <1>2, <2>1, CountUnique
  <2> QED
    BY <2>2, ReplayIsCount
<1> DEFINE A == { n \in 0..Len(rows) : f[n] \notin Nat }
<1>4. A = {}
  <2> SUFFICES ASSUME A # {} PROVE FALSE
    OBVIOUS
  <2> A \in SUBSET Nat
    OBVIOUS
  <2>1. PICK m \in A : \A k \in A : m <= k
    BY LeastNatural
  <2>2. m \in 0..Len(rows) /\ f[m] \notin Nat
    OBVIOUS
  <2>3. m # 0
    BY <1>1, <1>2, <2>2, CountUnfolds
  <2>4. m \in 1..Len(rows) /\ m - 1 \in 0..Len(rows) /\ ~(m <= m - 1)
    BY <2>2, <2>3
  <2>5. f[m - 1] \in Nat
    BY <2>1, <2>4
  <2> QED
    BY <1>1, <1>2, <2>2, <2>4, <2>5, CountUnfolds, CountedIsNat
<1> QED
  BY <1>1, <1>3, <1>4

-----------------------------------------------------------------------------
(* The rows of a query, in the order of their time.                        *)

\* No two rows were written at the same time.
Distinct(rows) == \A q, r \in rows : q.at = r.at => q = r

LEMMA InOrderIsSeq ==
  ASSUME NEW rows \in SUBSET SavedRows, IsFiniteSet(rows), Distinct(rows)
  PROVE  InOrder(rows) \in Seq(Rows)
<1> DEFINE before(r) == { q \in rows : q.at <= r.at }
           rank == [r \in rows |-> Cardinality(before(r))]
           n == Cardinality(rows)
<1>1. n \in Nat /\ IsFiniteSet(1..n) /\ Cardinality(1..n) = n
  BY FS_CardinalityType, FS_Interval
<1>2. \A r \in rows : r.at \in Nat /\ r.row \in Rows
  BY DEF SavedRows
<1>3. \A r \in rows : IsFiniteSet(before(r)) /\ before(r) \subseteq rows
                    /\ Cardinality(before(r)) <= n
  <2> SUFFICES ASSUME NEW r \in rows
               PROVE  IsFiniteSet(before(r)) /\ before(r) \subseteq rows
                      /\ Cardinality(before(r)) <= n
    OBVIOUS
  <2>1. before(r) \in SUBSET rows
    OBVIOUS
  <2> QED
    BY <2>1, FS_Subset
<1>4. \A r \in rows : r \in before(r)
  BY <1>2
<1>5. \A r \in rows : rank[r] \in 1..n
  <2> SUFFICES ASSUME NEW r \in rows PROVE Cardinality(before(r)) \in 1..n
    OBVIOUS
  <2>1. Cardinality(before(r)) \in Nat
    BY <1>3, FS_CardinalityType
  <2>2. Cardinality(before(r)) # 0
    BY <1>3, <1>4, FS_EmptySet
  <2> HIDE DEF before
  <2> QED
    BY <1>1, <1>3, <2>1, <2>2
<1>6. \A q, r \in rows : rank[q] = rank[r] => q = r
  <2> SUFFICES ASSUME NEW q \in rows, NEW r \in rows, rank[q] = rank[r] PROVE q = r
    OBVIOUS
  <2>1. Cardinality(before(q)) = Cardinality(before(r))
    OBVIOUS
  <2>2. q.at \in Nat /\ r.at \in Nat
    BY <1>2
  <2>3. CASE q.at <= r.at
    <3>1. before(q) \in SUBSET before(r)
      BY <1>2, <2>2, <2>3
    <3>2. before(q) = before(r)
      BY <1>3, <2>1, <3>1, FS_Subset
    <3>3. r \in before(q)
      BY <1>4, <3>2
    <3>4. r.at <= q.at
      BY <3>3
    <3> QED
      BY <2>2, <2>3, <3>4 DEF Distinct
  <2>4. CASE r.at <= q.at
    <3>1. before(r) \in SUBSET before(q)
      BY <1>2, <2>2, <2>4
    <3>2. before(q) = before(r)
      BY <1>3, <2>1, <3>1, FS_Subset
    <3>3. q \in before(r)
      BY <1>4, <3>2
    <3>4. q.at <= r.at
      BY <3>3
    <3> QED
      BY <2>2, <2>4, <3>4 DEF Distinct
  <2> QED
    BY <2>2, <2>3, <2>4
<1>7. \A k \in 1..n : \E r \in rows : rank[r] = k
  <2>1. rank \in Injection(rows, 1..n)
    <3>1. rank \in [rows -> 1..n]
      BY <1>5
    <3> HIDE DEF rank, n
    <3> QED
      BY <3>1, <1>6 DEF Injection, IsInjective
  <2>2. rank \in Surjection(rows, 1..n)
    BY <1>1, <2>1, FS_Injection
  <2> HIDE DEF rank, n
  <2> QED
    BY <2>2 DEF Surjection
<1> DEFINE at(k) == (CHOOSE r \in rows : Cardinality(before(r)) = k).row
<1>8. \A k \in 1..n : at(k) \in Rows
  <2> SUFFICES ASSUME NEW k \in 1..n PROVE at(k) \in Rows
    OBVIOUS
  <2>1. \E r \in rows : Cardinality(before(r)) = k
    BY <1>7
  <2> HIDE DEF before
  <2> QED
    BY <1>2, <2>1
<1>9. InOrder(rows) = [k \in 1..n |-> at(k)]
  BY Zenon DEF InOrder
<1>10. [k \in 1..n |-> at(k)] \in [1..n -> Rows]
  BY <1>8
<1> HIDE DEF at, n
<1> QED
  BY <1>1, <1>9, <1>10, SeqDef

-----------------------------------------------------------------------------
(* The inductive invariant.                                                *)

MolStates  == [state : {"EXECUTE", "VETO", "RECOVERY"}, doi : 0..MinCooldown, scl : 0..SclThreshold]
Stresses   == [level : 0..StressMax, lethal : BOOLEAN]
Recoveries == [run : 0..SclThreshold, over : BOOLEAN]

\* The lock of mol.js never runs ahead of the coherent ticks there were.
RecoveryTracked ==
  /\ mol.state = "EXECUTE" => seen.recovery.over
  /\ ~seen.recovery.over => mol.scl <= seen.recovery.run
  /\ ~warm => mol.scl = 0

\* What a shock left of the stress is what the ticks since have not released.
ReliefTracked ==
  seen.relief < FullRelief =>
    stress.lethal /\ stress.level + seen.relief * Release >= StressMax

Machines ==
  /\ warm \in BOOLEAN /\ mol \in MolStates /\ stress \in Stresses
  /\ seen.recovery \in Recoveries /\ seen.relief \in 0..FullRelief
  /\ RecoveryTracked /\ ReliefTracked

\* Every row has a time of its own, and no row is from the future.
Stored ==
  /\ IsFiniteSet(table)
  /\ Distinct(table \cup unsaved)
  /\ \A r \in table \cup unsaved : r.at <= Len(journal)

Ledger ==
  /\ entries \in Seq(Rows) /\ hits \in Nat /\ journal \in Seq(Rows)
  /\ unsaved \subseteq SavedRows /\ table \subseteq SavedRows
  /\ loading \in [phase : {"due", "read", "done"}, rows : Seq(Rows)]
  /\ restarts \in 0..MaxRestarts
  /\ Stored /\ CountersAreReplay

IInv == Machines /\ Ledger

LEMMA TypesHold == IInv => TypeOK
BY DEF IInv, Machines, Ledger, TypeOK, MolStates, Stresses

-----------------------------------------------------------------------------
(* The two machines.                                                       *)

\* Fewer than FullRelief ticks do not bring a shock down to the recovery
\* threshold.
LEMMA ReliefIsNeeded ==
  /\ FullRelief \in Nat
  /\ \A n \in Nat : n < FullRelief => n * Release < StressMax - Recovery
<1> DEFINE x == StressMax - Recovery
           q == FullRelief
<1>1. x \in Nat /\ x > 0 /\ Release \in Nat /\ Release > 0
  BY Constants
<1>2. q = (x + Release - 1) \div Release
  BY Constants DEF FullRelief
<1> HIDE DEF x, q
<1>3. q \in Nat /\ q * Release <= x + Release - 1
  BY <1>1, <1>2
<1>4. ASSUME NEW n \in Nat, n < q PROVE n * Release < x
  <2>1. (n + 1) * Release <= q * Release
    BY <1>1, <1>3, <1>4
  <2>2. (n + 1) * Release = n * Release + Release /\ n * Release \in Nat
    BY <1>1
  <2> QED
    BY <1>1, <1>3, <2>1, <2>2
<1> QED
  BY <1>3, <1>4 DEF x, q

LEMMA MolAdvances ==
  ASSUME Machines, NEW o \in Observations, ObserveState(o)
  PROVE  mol' \in MolStates /\ seen'.recovery \in Recoveries /\ RecoveryTracked'
<1>1. /\ warm' = warm /\ warm \in BOOLEAN
      /\ mol' = EvaluateState(o) /\ seen'.recovery = Recovered(seen.recovery, o)
  BY DEF ObserveState, Saw, Machines
<1>2. /\ mol \in MolStates /\ seen.recovery \in Recoveries /\ RecoveryTracked
      /\ mol.scl \in 0..SclThreshold /\ mol.doi \in 0..MinCooldown
      /\ mol.state \in {"EXECUTE", "VETO", "RECOVERY"}
      /\ seen.recovery.run \in 0..SclThreshold /\ seen.recovery.over \in BOOLEAN
  BY DEF Machines, MolStates, Recoveries
<1>3. NextDoi \in 0..MinCooldown
  BY <1>2, Constants DEF NextDoi, AtMost
<1>4. 0 \in 0..SclThreshold /\ 0 \in 0..MinCooldown
  BY Constants
<1>5. CASE ~warm
  <2>1. mol' = [mol EXCEPT !.state = "RECOVERY"]
        /\ seen'.recovery = [run |-> 0, over |-> FALSE]
    BY <1>1, <1>5 DEF EvaluateState, Recovered
  <2> QED
    BY <1>1, <1>2, <1>4, <1>5, <2>1 DEF MolStates, Recoveries, RecoveryTracked
<1>6. CASE warm /\ o.kernel = "veto"
  <2>1. mol' = [state |-> "VETO", doi |-> NextDoi, scl |-> 0]
        /\ seen'.recovery = [run |-> 0, over |-> FALSE]
    BY <1>1, <1>6 DEF EvaluateState, Recovered
  <2> QED
    BY <1>1, <1>2, <1>3, <1>4, <1>6, <2>1 DEF MolStates, Recoveries, RecoveryTracked
<1>7. CASE warm /\ o.kernel # "veto"
  <2> DEFINE run == IF o.kernel = "coherent" THEN AtMost(seen.recovery.run + 1, SclThreshold) ELSE 0
             scl == IF o.kernel = "coherent" THEN mol.scl + 1 ELSE 0
  <2>1. seen'.recovery = [run |-> IF seen.recovery.over THEN 0 ELSE run,
                          over |-> seen.recovery.over \/ run >= SclThreshold]
    BY <1>1, <1>7 DEF Recovered
  <2>2. run \in 0..SclThreshold
    BY <1>2, Constants DEF AtMost
  <2>3. seen'.recovery \in Recoveries
    <3> HIDE DEF run
    <3> QED
      BY <1>2, <1>4, <2>1, <2>2, Constants DEF Recoveries
  <2>4. CASE mol.state = "EXECUTE"
    <3>1. mol' = mol
      BY <1>1, <1>7, <2>4 DEF EvaluateState
    <3> HIDE DEF run
    <3>2. seen'.recovery.over
      BY <1>2, <2>1, <2>4 DEF RecoveryTracked
    <3> QED
      BY <1>1, <1>2, <1>7, <2>3, <3>1, <3>2 DEF RecoveryTracked
  <2>5. CASE mol.state # "EXECUTE"
    <3>1. mol' = IF scl >= SclThreshold /\ NextDoi >= MinCooldown THEN Awake
                 ELSE [state |-> "RECOVERY", doi |-> NextDoi, scl |-> AtMost(scl, SclThreshold)]
      BY <1>1, <1>7, <2>5 DEF EvaluateState
    <3>2. scl \in Nat /\ AtMost(scl, SclThreshold) \in 0..SclThreshold
      BY <1>2, Constants DEF AtMost
    <3>3. ~seen.recovery.over => AtMost(scl, SclThreshold) <= run
      BY <1>2, Constants DEF AtMost, RecoveryTracked
    <3>4. scl >= SclThreshold => AtMost(scl, SclThreshold) = SclThreshold
      BY <3>2, Constants DEF AtMost
    <3> DEFINE lock == AtMost(scl, SclThreshold)
    <3> HIDE DEF run, scl, lock
    <3>5. mol' \in MolStates
      BY <1>3, <1>4, <3>1, <3>2 DEF MolStates, Awake, lock
    <3>6. CASE scl >= SclThreshold /\ NextDoi >= MinCooldown
      <4>1. seen'.recovery.over
        <5>1. ~seen.recovery.over => run >= SclThreshold
          BY <2>2, <3>3, <3>4, <3>6
        <5>2. (seen.recovery.over \/ run >= SclThreshold) = TRUE
          BY <1>2, <5>1
        <5>3. seen'.recovery.over = (seen.recovery.over \/ run >= SclThreshold)
          BY <2>1
        <5> QED
          BY <5>2, <5>3
      <4>2. warm'
        BY <1>1, <1>7
      <4> QED
        BY <2>3, <3>5, <4>1, <4>2 DEF RecoveryTracked
    <3>7. CASE ~(scl >= SclThreshold /\ NextDoi >= MinCooldown)
      <4>1. mol'.state = "RECOVERY" /\ mol'.scl = lock
        BY <3>1, <3>7 DEF lock
      <4>2. ~seen'.recovery.over => ~seen.recovery.over /\ seen'.recovery.run = run
        BY <1>2, <2>1
      <4>3. warm'
        BY <1>1, <1>7
      <4> QED
        BY <2>3, <3>3, <3>5, <4>1, <4>2, <4>3 DEF RecoveryTracked, lock
    <3> QED
      BY <3>6, <3>7
  <2> QED
    BY <2>4, <2>5
<1> QED
  BY <1>1, <1>5, <1>6, <1>7

LEMMA StressAdvances ==
  ASSUME Machines, NEW o \in Observations, ObserveState(o)
  PROVE  stress' \in Stresses /\ seen'.relief \in 0..FullRelief /\ ReliefTracked'
<1> DEFINE level == IF o.shock THEN StressMax
                    ELSE IF o.dvf = "flat" THEN AtMost(stress.level + 1, StressMax)
                    ELSE Minus(stress.level, Release)
           relief == IF o.shock THEN 0
                     ELSE IF o.dvf = "flat" THEN seen.relief
                     ELSE AtMost(seen.relief + 1, FullRelief)
           lethal == level >= LethalLimit \/ (stress.lethal /\ level > Recovery)
<1>1. stress' = [level |-> level, lethal |-> lethal] /\ seen'.relief = relief
  BY DEF ObserveState, EvaluateStress, Saw
<1>2. /\ stress.level \in 0..StressMax /\ stress.lethal \in BOOLEAN
      /\ seen.relief \in 0..FullRelief /\ ReliefTracked
  BY DEF Machines, Stresses
<1>3. level \in 0..StressMax
  BY <1>2, Constants DEF AtMost, Minus
<1>4. relief \in 0..FullRelief
  BY <1>2, ReliefIsNeeded DEF AtMost
<1>5. relief < FullRelief => lethal /\ level + relief * Release >= StressMax
  <2> SUFFICES ASSUME relief < FullRelief PROVE lethal /\ level + relief * Release >= StressMax
    OBVIOUS
  <2>1. CASE o.shock
    BY <2>1, Constants
  <2>2. CASE ~o.shock /\ o.dvf = "flat"
    <3>1. relief = seen.relief /\ level >= stress.level
      BY <1>2, <2>2, Constants DEF AtMost
    <3>2. stress.lethal /\ stress.level + seen.relief * Release >= StressMax
      BY <3>1, <1>2 DEF ReliefTracked
    <3>3. seen.relief * Release < StressMax - Recovery /\ seen.relief * Release \in Int
      BY <1>2, <3>1, ReliefIsNeeded, Constants
    <3> DEFINE gone == seen.relief * Release
    <3> HIDE DEF gone, level, relief
    <3>4. level > Recovery /\ level + gone >= StressMax
      BY <1>2, <1>3, <3>1, <3>2, <3>3, Constants DEF gone
    <3> QED
      BY <3>1, <3>2, <3>4 DEF gone
  <2>3. CASE ~o.shock /\ o.dvf # "flat"
    <3>1. relief = seen.relief + 1 /\ seen.relief < FullRelief /\ level >= stress.level - Release
      BY <1>2, <2>3, ReliefIsNeeded, Constants DEF AtMost, Minus
    <3>2. stress.lethal /\ stress.level + seen.relief * Release >= StressMax
      BY <3>1, <1>2 DEF ReliefTracked
    <3>3. relief * Release < StressMax - Recovery /\ relief * Release \in Int
      BY <1>4, ReliefIsNeeded, Constants
    <3>4. relief * Release = seen.relief * Release + Release /\ seen.relief * Release \in Int
      <4>1. \A n \in Nat : (n + 1) * Release = n * Release + Release /\ n * Release \in Int
        BY Constants
      <4>2. seen.relief \in Nat
        BY <1>2, ReliefIsNeeded
      <4> HIDE DEF relief
      <4> QED
        BY <3>1, <4>1, <4>2
    <3> DEFINE before == seen.relief * Release
               after == relief * Release
    <3> HIDE DEF before, after, level, relief
    <3>5. level > Recovery /\ level + after >= StressMax
      BY <1>2, <1>3, <3>1, <3>2, <3>3, <3>4, Constants DEF before, after
    <3> QED
      BY <3>2, <3>5 DEF after
  <2> QED
    BY <2>1, <2>2, <2>3
<1> HIDE DEF level, relief
<1> QED
  BY <1>1, <1>3, <1>4, <1>5 DEF Stresses, ReliefTracked

LEMMA MachinesAdvance ==
  ASSUME Machines, NEW o \in Observations, ObserveState(o)
  PROVE  Machines'
BY MolAdvances, StressAdvances DEF Machines, ObserveState

LEMMA MachinesRest == Machines /\ UNCHANGED molVars => Machines'
BY DEF Machines, molVars, RecoveryTracked, ReliefTracked

\* A process that starts has seen nothing, and nothing is due.
Booting ==
  /\ warm \in BOOLEAN /\ mol = Awake
  /\ stress = [level |-> 0, lethal |-> FALSE] /\ seen = NothingSeen

LEMMA MachinesBoot == Booting => Machines
<1> SUFFICES ASSUME Booting PROVE Machines
  OBVIOUS
<1>1. 0 \in 0..SclThreshold /\ 0 \in 0..MinCooldown /\ 0 \in 0..StressMax
      /\ FullRelief \in 0..FullRelief /\ ~(FullRelief < FullRelief)
  BY Constants, ReliefIsNeeded
<1>2. /\ seen.recovery = [run |-> 0, over |-> TRUE] /\ seen.relief = FullRelief
      /\ mol = [state |-> "EXECUTE", doi |-> 0, scl |-> 0]
  BY DEF Booting, NothingSeen, Unharmed, Awake
<1>3. mol \in MolStates /\ stress \in Stresses /\ seen.recovery \in Recoveries
  BY <1>1, <1>2 DEF Booting, MolStates, Stresses, Recoveries
<1> QED
  BY <1>1, <1>2, <1>3 DEF Booting, Machines, RecoveryTracked, ReliefTracked

-----------------------------------------------------------------------------
(* The ledger.                                                             *)

\* A grant passed every early return before it.
LEMMA VerdictMeans ==
  ASSUME NEW m, NEW st, NEW r
  PROVE  /\ Verdict(m, st, r) \in Reasons
         /\ Verdict(m, st, r) = "GRANT" =>
              CanExecute(m) /\ ~st.lethal /\ ~(hits >= MaxHits)
BY DEF Verdict, Reasons

LEMMA RequestKeepsLedger ==
  ASSUME Ledger, NEW m, NEW st, NEW d \in Drawdowns,
         RequestPermission(m, st, Request(d)), UNCHANGED <<loading, restarts>>
  PROVE  Ledger'
<1> DEFINE row == [reason |-> Verdict(m, st, Request(d)), drawdown |-> Request(d).drawdown]
           new == [at |-> Len(journal) + 1, row |-> row]
<1>1. row \in Rows
  BY VerdictMeans DEF Rows, Request
<1>2. /\ entries' = Append(entries, row) /\ journal' = Append(journal, row)
      /\ hits' = Counted(hits, row) /\ unsaved' \in {unsaved, unsaved \cup {new}}
      /\ table' = table
  BY DEF RequestPermission, AppendRecord
<1> HIDE DEF row
<1>3. entries \in Seq(Rows) /\ journal \in Seq(Rows) /\ hits \in Nat /\ hits = Replay(entries)
  BY DEF Ledger, CountersAreReplay
<1>4. entries' \in Seq(Rows) /\ journal' \in Seq(Rows) /\ hits' \in Nat
      /\ Len(journal') = Len(journal) + 1 /\ Len(journal) \in Nat
  BY <1>1, <1>2, <1>3, AppendProperties, LenProperties, CountedIsNat
<1>5. CountersAreReplay'
  BY <1>1, <1>2, <1>3, ReplayAppends DEF CountersAreReplay
<1>6. new \in SavedRows
  BY <1>1, <1>4 DEF SavedRows
<1>7. unsaved' \subseteq SavedRows /\ table' \subseteq SavedRows
  BY <1>2, <1>6 DEF Ledger
<1>8. Stored'
  <2>1. new.at = Len(journal) + 1
    OBVIOUS
  <2>2. \A r \in table \cup unsaved : r.at \in Nat /\ r.at <= Len(journal)
    BY DEF Ledger, Stored, SavedRows
  <2> HIDE DEF new
  <2>3. \A r \in table' \cup unsaved' : r = new \/ r \in table \cup unsaved
    BY <1>2
  <2>4. Distinct(table' \cup unsaved')
    <3> SUFFICES ASSUME NEW q \in table' \cup unsaved', NEW r \in table' \cup unsaved', q.at = r.at
                 PROVE  q = r
      BY DEF Distinct
    <3> QED
      BY <1>4, <2>1, <2>2, <2>3 DEF Ledger, Stored, Distinct
  <2>5. \A r \in table' \cup unsaved' : r.at <= Len(journal')
    BY <1>4, <2>1, <2>2, <2>3
  <2> QED
    BY <1>2, <2>4, <2>5 DEF Stored, Distinct, Ledger
<1> QED
  BY <1>4, <1>5, <1>7, <1>8 DEF Ledger

LEMMA LedgerRests == Ledger /\ UNCHANGED <<ledgerVars, loading, restarts>> => Ledger'
BY DEF Ledger, ledgerVars, Stored, Distinct, CountersAreReplay

LEMMA SaveRowKeepsLedger ==
  ASSUME Ledger, NEW row \in unsaved, SaveRow(row)
  PROVE  Ledger'
<1>1. /\ unsaved' = unsaved \ {row} /\ table' \in {table, table \cup {row}}
      /\ UNCHANGED <<entries, hits, journal, loading, restarts>>
  BY DEF SaveRow
<1>2. IsFiniteSet(table')
  <2>1. IsFiniteSet(table) /\ IsFiniteSet(table \cup {row})
    BY FS_AddElement DEF Ledger, Stored
  <2> QED
    BY <1>1, <2>1
<1>3. table' \cup unsaved' \subseteq table \cup unsaved
  BY <1>1
<1>4. Stored'
  BY <1>1, <1>2, <1>3 DEF Ledger, Stored, Distinct
<1> QED
  BY <1>1, <1>3, <1>4 DEF Ledger, CountersAreReplay

LEMMA LoadQueryKeepsLedger ==
  ASSUME Ledger, LoadQuery
  PROVE  Ledger'
<1>1. /\ loading' = [phase |-> "read", rows |-> InOrder(table)]
      /\ UNCHANGED <<entries, hits, unsaved, table, journal, restarts>>
  BY DEF LoadQuery, ledgerVars
<1>2. InOrder(table) \in Seq(Rows)
  BY InOrderIsSeq DEF Ledger, Stored, Distinct
<1> QED
  BY <1>1, <1>2 DEF Ledger, Stored, Distinct, CountersAreReplay

LEMMA ProcessRowsKeepsLedger ==
  ASSUME Ledger, ProcessRows
  PROVE  Ledger'
<1>1. /\ entries' = loading.rows /\ hits' = Replay(loading.rows)
      /\ loading' = [phase |-> "done", rows |-> <<>>]
      /\ UNCHANGED <<unsaved, table, journal, restarts>>
  BY DEF ProcessRows
<1>2. loading.rows \in Seq(Rows) /\ <<>> \in Seq(Rows)
  BY EmptySeq DEF Ledger
<1>3. hits' \in Nat /\ CountersAreReplay'
  BY <1>1, <1>2, ReplayIsNat DEF CountersAreReplay
<1> QED
  BY <1>1, <1>2, <1>3 DEF Ledger, Stored, Distinct

LEMMA RestartStep ==
  ASSUME IInv, Restart
  PROVE  IInv'
<1>1. /\ warm' \in BOOLEAN /\ mol' = Awake /\ stress' = [level |-> 0, lethal |-> FALSE]
      /\ seen' = NothingSeen
      /\ entries' = <<>> /\ hits' = 0 /\ unsaved' = {}
      /\ loading' = [phase |-> IF HydrateAtBoot THEN "due" ELSE "done", rows |-> <<>>]
      /\ restarts < MaxRestarts /\ restarts' = restarts + 1 /\ UNCHANGED <<table, journal>>
  BY DEF Restart, Boot
<1>2. Machines'
  <2>1. Booting'
    BY <1>1 DEF Booting, Awake, NothingSeen, Unharmed, FullRelief, Calm
  <2> QED
    BY <2>1, MachinesBoot, PTL
<1>3. <<>> \in Seq(Rows)
  BY EmptySeq
<1>4. restarts' \in 0..MaxRestarts
  BY <1>1, Constants DEF IInv, Ledger
<1>5. CountersAreReplay'
  BY <1>1, ReplayOfNothing DEF CountersAreReplay
<1>6. Stored'
  BY <1>1 DEF IInv, Ledger, Stored, Distinct
<1>7. Ledger'
  BY <1>1, <1>3, <1>4, <1>5, <1>6 DEF IInv, Ledger
<1> QED
  BY <1>2, <1>7 DEF IInv

LEMMA InitIInv == Init => IInv
<1> SUFFICES ASSUME Init PROVE IInv
  OBVIOUS
<1>1. Machines
  BY MachinesBoot DEF Init, Booting
<1>2. <<>> \in Seq(Rows) /\ Len(<<>>) = 0
  BY EmptySeq
<1>3. Stored /\ CountersAreReplay
  BY FS_EmptySet, ReplayOfNothing DEF Init, Stored, Distinct, CountersAreReplay
<1>4. restarts \in 0..MaxRestarts
  BY Constants DEF Init
<1>5. Ledger
  BY <1>2, <1>3, <1>4 DEF Init, Ledger
<1> QED
  BY <1>1, <1>5 DEF IInv

LEMMA NextIInv == IInv /\ [Next]_vars => IInv'
<1> SUFFICES ASSUME IInv, [Next]_vars PROVE IInv'
  OBVIOUS
<1> USE DEF IInv
<1>1. CASE Stabilize
  <2>1. warm' = TRUE /\ UNCHANGED <<mol, stress, seen, ledgerVars, loading, restarts>>
    BY <1>1 DEF Stabilize
  <2>2. Machines'
    BY <2>1 DEF Machines, RecoveryTracked, ReliefTracked
  <2> QED
    BY <2>1, <2>2, LedgerRests
<1>2. ASSUME NEW o \in Observations, Tick(o) PROVE IInv'
  BY <1>2, MachinesAdvance, LedgerRests DEF Tick
<1>3. ASSUME NEW o \in Observations, NEW d \in Drawdowns, Entry(o, d) PROVE IInv'
  BY <1>3, MachinesAdvance, RequestKeepsLedger DEF Entry
<1>4. ASSUME NEW d \in Drawdowns, Exit(d) PROVE IInv'
  BY <1>4, MachinesRest, RequestKeepsLedger DEF Exit
<1>5. ASSUME NEW row \in unsaved, SaveRow(row) PROVE IInv'
  BY <1>5, MachinesRest, SaveRowKeepsLedger DEF SaveRow
<1>6. CASE LoadQuery
  BY <1>6, MachinesRest, LoadQueryKeepsLedger DEF LoadQuery
<1>7. CASE ProcessRows
  BY <1>7, MachinesRest, ProcessRowsKeepsLedger DEF ProcessRows
<1>8. CASE Restart
  BY <1>8, RestartStep
<1>9. CASE UNCHANGED vars
  BY <1>9, MachinesRest, LedgerRests DEF vars
<1> QED
  BY <1>1, <1>2, <1>3, <1>4, <1>5, <1>6, <1>7, <1>8, <1>9 DEF Next, Observe

LEMMA InductiveInvariant == Spec => []IInv
BY InitIInv, NextIInv, PTL DEF Spec

-----------------------------------------------------------------------------
(* What the court grants.                                                  *)

\* A verdict of GRANT is given by a court that may execute and is not in the
\* illusion, in the state that the observations so far have left it in.
LEMMA GrantMeans ==
  ASSUME IInv, [Next]_vars, Grants
  PROVE  CanExecute(mol)' /\ ~stress'.lethal
<1>1. ASSUME NEW m, NEW st, NEW d, RequestPermission(m, st, Request(d))
      PROVE  CanExecute(m) /\ ~st.lethal
  <2> DEFINE row == [reason |-> Verdict(m, st, Request(d)), drawdown |-> Request(d).drawdown]
  <2>1. journal' = Append(journal, row)
    BY <1>1 DEF RequestPermission, AppendRecord
  <2>2. journal \in Seq(Rows)
    BY DEF IInv, Ledger
  <2>3. Len(journal') = Len(journal) + 1 /\ journal'[Len(journal) + 1] = row
    <3>1. journal \in Seq(Rows \cup {row})
      BY <2>2, SeqMonotonic
    <3> HIDE DEF row
    <3> QED
      BY <2>1, <3>1, AppendProperties
  <2>4. row.reason = "GRANT"
    BY <2>3 DEF Grants
  <2> QED
    BY <2>4, VerdictMeans
<1>2. ASSUME NEW o \in Observations, NEW d \in Drawdowns, Entry(o, d)
      PROVE  CanExecute(mol)' /\ ~stress'.lethal
  <2>1. CanExecute(mol') /\ ~stress'.lethal /\ warm' = warm
    BY <1>1, <1>2 DEF Entry, ObserveState
  <2> QED
    BY <2>1 DEF CanExecute
<1>3. ASSUME NEW d \in Drawdowns, Exit(d)
      PROVE  CanExecute(mol)' /\ ~stress'.lethal
  <2>1. CanExecute(mol) /\ ~stress.lethal /\ UNCHANGED <<warm, mol, stress>>
    BY <1>1, <1>3 DEF Exit, molVars
  <2> QED
    BY <2>1 DEF CanExecute
<1>4. journal' # journal
  BY DEF Grants
<1> QED
  BY <1>2, <1>3, <1>4 DEF Next, Stabilize, Observe, Tick, SaveRow, LoadQuery, ProcessRows,
     Restart, vars, ledgerVars

\* Every variable of the court stays in its range.
THEOREM TypeCorrect == Spec => []TypeOK
BY InductiveInvariant, TypesHold, PTL

\* No order is granted between a veto of the kernel, or a tick of the warm-up,
\* and as many coherent ticks in a row as the threshold of mol.js says.
THEOREM RecoveryFirst == Spec => GrantAfterRecovery
<1>1. IInv /\ [Next]_vars => [Grants => seen'.recovery.over]_vars
  <2> SUFFICES ASSUME IInv, [Next]_vars, Grants PROVE seen'.recovery.over
    OBVIOUS
  <2>1. Machines'
    BY NextIInv DEF IInv
  <2>2. CanExecute(mol)'
    BY GrantMeans
  <2> QED
    BY <2>1, <2>2 DEF CanExecute, Machines, RecoveryTracked
<1> QED
  BY <1>1, InductiveInvariant, PTL DEF Spec, GrantAfterRecovery

\* No order is granted between a shock and the ticks that release its stress
\* down to the recovery threshold of c-clist.js.
THEOREM ReliefFirst == Spec => GrantAfterRelief
<1>1. IInv /\ [Next]_vars => [Grants => seen'.relief = FullRelief]_vars
  <2> SUFFICES ASSUME IInv, [Next]_vars, Grants PROVE seen'.relief = FullRelief
    OBVIOUS
  <2>1. ReliefTracked' /\ seen'.relief \in 0..FullRelief
    <3>1. Machines'
      BY NextIInv DEF IInv
    <3>2. FullRelief' = FullRelief
      BY DEF FullRelief
    <3> QED
      BY <3>1, <3>2 DEF Machines
  <2>2. ~stress'.lethal
    BY GrantMeans
  <2>3. ~(seen'.relief < FullRelief)
    BY <2>1, <2>2 DEF ReliefTracked, FullRelief
  <2> QED
    BY <2>1, <2>3, ReliefIsNeeded
<1> QED
  BY <1>1, InductiveInvariant, PTL DEF Spec, GrantAfterRelief

\* The counter that locks out edge riding is always the one that the rows in
\* memory imply, whichever of the court and its hydration wrote them.
THEOREM CounterIsReplay == Spec => []CountersAreReplay
<1>1. IInv => CountersAreReplay
  BY DEF IInv, Ledger
<1> QED
  BY <1>1, InductiveInvariant, PTL

-----------------------------------------------------------------------------
(* Edge riding.  Within one life of a process that does not hydrate, the   *)
(* counter pays for what the current stretch of verdicts was granted.      *)

Stretch(s, i, j) == \A k \in i..j : s[k].reason \in {"GRANT", "VETO_EDGE_RIDING"}
Granted(s, i, j) == { k \in i..j : s[k].reason = "GRANT" /\ IsNearMiss(s[k]) }
Earned(s, i, j)  == { k \in i..j : ~IsNearMiss(s[k]) }

\* h pays for every stretch that is still going on.
Paid(s, h) ==
  \A i \in 1..Len(s) : Stretch(s, i, Len(s)) =>
    Cardinality(Granted(s, i, Len(s))) <= h + Cardinality(Earned(s, i, Len(s)))

Limited(s) ==
  \A i, j \in 1..Len(s) : Stretch(s, i, j) =>
    Cardinality(Granted(s, i, j)) <= MaxHits + Cardinality(Earned(s, i, j))

LEMMA StretchesAreFinite ==
  ASSUME NEW s, NEW i \in Int, NEW j \in Int
  PROVE  /\ IsFiniteSet(Granted(s, i, j)) /\ Cardinality(Granted(s, i, j)) \in Nat
         /\ IsFiniteSet(Earned(s, i, j)) /\ Cardinality(Earned(s, i, j)) \in Nat
<1>1. IsFiniteSet(i..j)
  BY FS_Interval
<1>2. Granted(s, i, j) \in SUBSET (i..j) /\ Earned(s, i, j) \in SUBSET (i..j)
  BY DEF Granted, Earned
<1>3. IsFiniteSet(Granted(s, i, j)) /\ IsFiniteSet(Earned(s, i, j))
  BY <1>1, <1>2, FS_Subset
<1> QED
  BY <1>3, FS_CardinalityType

\* What one more row does to the stretch that begins at i.
LEMMA StretchGrows ==
  ASSUME NEW s \in Seq(Rows), NEW row \in Rows, NEW i \in 1..(Len(s) + 1)
  PROVE  LET all == Append(s, row)
             n   == Len(s)
         IN  /\ Stretch(all, i, n + 1) => /\ Stretch(s, i, n)
                                          /\ row.reason \in {"GRANT", "VETO_EDGE_RIDING"}
             /\ Cardinality(Granted(all, i, n + 1)) = Cardinality(Granted(s, i, n))
                  + (IF row.reason = "GRANT" /\ IsNearMiss(row) THEN 1 ELSE 0)
             /\ Cardinality(Earned(all, i, n + 1)) = Cardinality(Earned(s, i, n))
                  + (IF IsNearMiss(row) THEN 0 ELSE 1)
<1> DEFINE all == Append(s, row)
           n == Len(s)
<1>1. n \in Nat /\ all[n + 1] = row /\ \A k \in 1..n : all[k] = s[k]
  BY AppendProperties, LenProperties
<1> HIDE DEF all
<1>2. i..(n + 1) = (i..n) \cup {n + 1} /\ i..n \subseteq 1..n /\ n + 1 \notin i..n
  BY <1>1
<1>3. Stretch(all, i, n + 1) => Stretch(s, i, n) /\ row.reason \in {"GRANT", "VETO_EDGE_RIDING"}
  BY <1>1, <1>2 DEF Stretch
<1>4. IsFiniteSet(Granted(s, i, n)) /\ Cardinality(Granted(s, i, n)) \in Nat
      /\ IsFiniteSet(Earned(s, i, n)) /\ Cardinality(Earned(s, i, n)) \in Nat
  BY <1>1, StretchesAreFinite
<1>5. n + 1 \notin Granted(s, i, n) /\ n + 1 \notin Earned(s, i, n)
  BY <1>2 DEF Granted, Earned
<1>6. CASE row.reason = "GRANT" /\ IsNearMiss(row)
  <2>1. Granted(all, i, n + 1) = Granted(s, i, n) \cup {n + 1}
    BY <1>1, <1>2, <1>6 DEF Granted
  <2>2. Cardinality(Granted(all, i, n + 1)) = Cardinality(Granted(s, i, n)) + 1
    BY <1>4, <1>5, <2>1, FS_AddElement
  <2>3. Earned(all, i, n + 1) = Earned(s, i, n)
    BY <1>1, <1>2, <1>6 DEF Earned
  <2> QED
    BY <1>3, <1>4, <1>6, <2>2, <2>3 DEF all
<1>7. CASE ~(row.reason = "GRANT" /\ IsNearMiss(row))
  <2>1. Granted(all, i, n + 1) = Granted(s, i, n)
    BY <1>1, <1>2, <1>7 DEF Granted
  <2>2. CASE IsNearMiss(row)
    <3>1. Earned(all, i, n + 1) = Earned(s, i, n)
      BY <1>1, <1>2, <2>2 DEF Earned
    <3> QED
      BY <1>3, <1>4, <1>7, <2>1, <2>2, <3>1 DEF all
  <2>3. CASE ~IsNearMiss(row)
    <3>1. Earned(all, i, n + 1) = Earned(s, i, n) \cup {n + 1}
      BY <1>1, <1>2, <2>3 DEF Earned
    <3>2. Cardinality(Earned(all, i, n + 1)) = Cardinality(Earned(s, i, n)) + 1
      BY <1>4, <1>5, <3>1, FS_AddElement
    <3> QED
      BY <1>3, <1>4, <1>7, <2>1, <2>3, <3>2 DEF all
  <2> QED
    BY <2>2, <2>3
<1> QED
  BY <1>6, <1>7

\* A near miss is granted only while the counter is below its maximum, and the
\* counter grows with it.
LEMMA LimitKept ==
  ASSUME NEW s \in Seq(Rows), NEW row \in Rows, NEW h \in Nat,
         Paid(s, h), Limited(s), row.reason = "GRANT" => ~(h >= MaxHits)
  PROVE  Paid(Append(s, row), Counted(h, row)) /\ Limited(Append(s, row))
<1> DEFINE all == Append(s, row)
           n == Len(s)
<1>1. /\ all \in Seq(Rows) /\ Len(all) = n + 1 /\ n \in Nat
      /\ \A k \in 1..n : all[k] = s[k]
  BY AppendProperties, LenProperties
<1> HIDE DEF all
<1>2. ASSUME NEW i \in 1..(n + 1), Stretch(all, i, n + 1)
      PROVE  /\ Cardinality(Granted(all, i, n + 1)) <= Counted(h, row) + Cardinality(Earned(all, i, n + 1))
             /\ Cardinality(Granted(all, i, n + 1)) <= MaxHits + Cardinality(Earned(all, i, n + 1))
  <2> DEFINE g == Cardinality(Granted(s, i, n))
             e == Cardinality(Earned(s, i, n))
  <2>1. g \in Nat /\ e \in Nat
    BY <1>1, StretchesAreFinite
  <2>2. /\ Stretch(s, i, n) /\ row.reason \in {"GRANT", "VETO_EDGE_RIDING"}
        /\ Cardinality(Granted(all, i, n + 1)) =
             g + (IF row.reason = "GRANT" /\ IsNearMiss(row) THEN 1 ELSE 0)
        /\ Cardinality(Earned(all, i, n + 1)) = e + (IF IsNearMiss(row) THEN 0 ELSE 1)
    BY <1>2, StretchGrows DEF all
  <2>3. g <= h + e /\ g <= MaxHits + e
    <3>1. CASE i = n + 1
      <4>1. Granted(s, i, n) = {} /\ Earned(s, i, n) = {}
        BY <1>1, <3>1 DEF Granted, Earned
      <4>2. g = 0
        BY <4>1, FS_EmptySet
      <4> HIDE DEF g, e
      <4> QED
        BY <2>1, <4>2, Constants
    <3>2. CASE i # n + 1
      <4>1. i \in 1..n /\ n \in 1..n
        BY <1>1, <3>2
      <4> QED
        BY <2>2, <4>1 DEF Paid, Limited
    <3> QED
      BY <3>1, <3>2
  <2> HIDE DEF g, e
  <2>4. Counted(h, row) = IF IsNearMiss(row) THEN h + 1 ELSE Minus(h, 1)
    BY <2>2 DEF Counted
  <2>5. Minus(h, 1) \in Nat /\ Minus(h, 1) >= h - 1
    BY DEF Minus
  <2> QED
    BY <2>1, <2>2, <2>3, <2>4, <2>5, Constants
<1>3. Paid(all, Counted(h, row))
  BY <1>1, <1>2 DEF Paid
<1>4. Limited(all)
  <2> SUFFICES ASSUME NEW i \in 1..(n + 1), NEW j \in 1..(n + 1), Stretch(all, i, j)
               PROVE  Cardinality(Granted(all, i, j)) <= MaxHits + Cardinality(Earned(all, i, j))
    BY <1>1 DEF Limited
  <2>1. CASE j = n + 1
    BY <1>2, <2>1
  <2>2. CASE j # n + 1
    <3>1. j \in 1..n /\ i..j \subseteq 1..n
      BY <1>1, <2>2
    <3>2. Stretch(s, i, j)
      BY <1>1, <3>1 DEF Stretch
    <3>3. Granted(all, i, j) = Granted(s, i, j) /\ Earned(all, i, j) = Earned(s, i, j)
      BY <1>1, <3>1 DEF Granted, Earned
    <3>4. CASE i \in 1..n
      BY <3>1, <3>2, <3>3, <3>4 DEF Limited
    <3>5. CASE i = n + 1
      <4>1. i..j = {}
        BY <1>1, <3>1, <3>5
      <4>2. Granted(s, i, j) = {}
        BY <4>1 DEF Granted
      <4>3. Cardinality(Earned(s, i, j)) \in Nat
        BY <1>1, StretchesAreFinite
      <4> QED
        BY <3>3, <4>2, <4>3, FS_EmptySet, Constants
    <3> QED
      BY <1>1, <3>4, <3>5
  <2> QED
    BY <2>1, <2>2
<1> QED
  BY <1>3, <1>4 DEF all

EInv == loading.phase = "done" /\ Paid(journal, hits) /\ Limited(journal)

LEMMA EdgeRequest ==
  ASSUME IInv, EInv, NEW m, NEW st, NEW d \in Drawdowns,
         RequestPermission(m, st, Request(d)), UNCHANGED loading
  PROVE  EInv'
<1> DEFINE row == [reason |-> Verdict(m, st, Request(d)), drawdown |-> Request(d).drawdown]
<1>1. row \in Rows
  BY VerdictMeans DEF Rows, Request
<1>2. journal' = Append(journal, row) /\ hits' = Counted(hits, row)
  BY DEF RequestPermission, AppendRecord
<1>3. row.reason = "GRANT" => ~(hits >= MaxHits)
  BY VerdictMeans
<1>4. journal \in Seq(Rows) /\ hits \in Nat
  BY DEF IInv, Ledger
<1> HIDE DEF row
<1>5. Paid(Append(journal, row), Counted(hits, row)) /\ Limited(Append(journal, row))
  BY <1>1, <1>3, <1>4, LimitKept DEF EInv
<1>6. Paid(journal', hits') /\ Limited(journal')
  BY <1>2, <1>5
<1>7. loading'.phase = "done"
  BY DEF EInv
<1> QED
  BY <1>6, <1>7 DEF EInv, Paid, Limited, Stretch, Granted, Earned

LEMMA EdgeStep ==
  ASSUME MaxRestarts = 0, HydrateAtBoot = FALSE
  PROVE  IInv /\ EInv /\ [Next]_vars => EInv'
<1> SUFFICES ASSUME IInv, EInv, [Next]_vars PROVE EInv'
  OBVIOUS
<1>1. ASSUME UNCHANGED <<journal, hits, loading>> PROVE EInv'
  <2>1. journal' = journal /\ hits' = hits /\ loading' = loading
    BY <1>1
  <2>2. Paid(journal, hits) /\ Limited(journal) /\ loading.phase = "done"
    BY DEF EInv
  <2> QED
    BY <2>1, <2>2 DEF EInv, Paid, Limited, Stretch, Granted, Earned
<1>2. ASSUME NEW o \in Observations, NEW d \in Drawdowns, Entry(o, d) PROVE EInv'
  BY <1>2, EdgeRequest DEF Entry
<1>3. ASSUME NEW d \in Drawdowns, Exit(d) PROVE EInv'
  BY <1>3, EdgeRequest DEF Exit
<1>4. ~LoadQuery /\ ~ProcessRows
  BY DEF EInv, LoadQuery, ProcessRows
<1>5. ~Restart
  BY DEF IInv, Ledger, Restart
<1> QED
  BY <1>1, <1>2, <1>3, <1>4, <1>5 DEF Next, Stabilize, Observe, Tick, SaveRow, vars, ledgerVars

\* In one life of a process that does not hydrate, a stretch of verdicts grants
\* at most MaxHits near misses more than it earned back.  (A restart forgets the
\* counter, and a hydration the verdicts given meanwhile.)
THEOREM EdgeRidingIsLimited ==
  ASSUME MaxRestarts = 0, HydrateAtBoot = FALSE
  PROVE  Spec => []EdgeRidingBound
<1>1. Init => EInv
  BY DEF Init, EInv, Paid, Limited
<1>2. IInv /\ EInv /\ [Next]_vars => EInv'
  BY EdgeStep
<1>3. IInv /\ EInv => EdgeRidingBound
  <2> SUFFICES ASSUME IInv, EInv PROVE EdgeRidingBound
    OBVIOUS
  <2>1. DOMAIN journal = 1..Len(journal)
    BY LenProperties DEF IInv, Ledger
  <2> QED
    BY <2>1 DEF EInv, EdgeRidingBound, Limited, Stretch, Granted, Earned
<1> QED
  BY <1>1, <1>2, <1>3, InductiveInvariant, PTL DEF Spec

=============================================================================
