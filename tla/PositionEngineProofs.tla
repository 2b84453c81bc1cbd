------------------------- MODULE PositionEngineProofs -------------------------
(***************************************************************************)
(* The position of a stream engine: its capital, its closing and its time  *)
(* limit, for every value of the constants.                                *)
(***************************************************************************)
EXTENDS PositionEngine, TLAPS

\* A position this process did not open was restored by it at boot, when no
\* capital was in use, and what leaks is paid for by a request of the operator.
CapitalOwned ==
  /\ pos # NoPosition /\ ~pos.charged => leaked = 0
  /\ leaked <= requests

\* An open position is one that its ledger still allows to be closed.
Closable ==
  \A i \in Ids :
    /\ ledger[i].sold <= ledger[i].closed
    /\ ledger[i].closed + (IF pos.id = i THEN 1 ELSE 0) <= ledger[i].opened + crashes

IInv == TypeOK /\ CapitalExact /\ CapitalOwned /\ Closable /\ TimeExitHolds

-----------------------------------------------------------------------------
(* The constants, and the operators of the model.                          *)

LEMMA Constants ==
  /\ TimeLimit \in Nat /\ TimeLimit >= 1 /\ MaxCapital \in Nat /\ MaxCapital >= 1
  /\ MaxCandles \in Nat /\ MaxCandles >= 1 /\ MaxRequests \in Nat /\ MaxCrashes \in Nat
<1>1. {TimeLimit, MaxCapital, MaxCandles} \subseteq Nat \ {0}
  BY PositionAssumption
<1>2. {MaxRequests, MaxCrashes} \subseteq Nat
  BY PositionAssumption
<1> QED
  BY <1>1, <1>2

LEMMA LevelSet == Levels = {0, 1, 2, 3, 4, 5, 6, 7, 8}
BY DEF Levels, InitialStop, TakeProfit

\* Every set of levels has a greatest one.
LEMMA MaxOfLevels ==
  ASSUME NEW S \in SUBSET Levels, S # {}
  PROVE  Max(S) \in S /\ \A s \in S : s <= Max(S)
<1>1. \E x \in S : \A y \in S : x >= y
  <2>1. S \subseteq {0, 1, 2, 3, 4, 5, 6, 7, 8}
    BY LevelSet
  <2>2. \/ 0 \in S \/ 1 \in S \/ 2 \in S \/ 3 \in S \/ 4 \in S
        \/ 5 \in S \/ 6 \in S \/ 7 \in S \/ 8 \in S
    BY <2>1
  <2>3. CASE 8 \in S
    BY <2>1, <2>3
  <2>4. CASE S \subseteq {0, 1, 2, 3, 4, 5, 6, 7} /\ 7 \in S
    BY <2>4
  <2>5. CASE S \subseteq {0, 1, 2, 3, 4, 5, 6} /\ 6 \in S
    BY <2>5
  <2>6. CASE S \subseteq {0, 1, 2, 3, 4, 5} /\ 5 \in S
    BY <2>6
  <2>7. CASE S \subseteq {0, 1, 2, 3, 4} /\ 4 \in S
    BY <2>7
  <2>8. CASE S \subseteq {0, 1, 2, 3} /\ 3 \in S
    BY <2>8
  <2>9. CASE S \subseteq {0, 1, 2} /\ 2 \in S
    BY <2>9
  <2>10. CASE S \subseteq {0, 1} /\ 1 \in S
    BY <2>10
  <2>11. CASE S = {0}
    BY <2>11
  <2> QED
    BY <2>1, <2>2, <2>3, <2>4, <2>5, <2>6, <2>7, <2>8, <2>9, <2>10, <2>11
<1>2. \A s \in S : s \in Nat
  BY LevelSet
<1> QED
  BY <1>1, <1>2 DEF Max

LEMMA NoneIsNoPosition == NoPosition \notin Position /\ NoPosition.id \notin Ids
<1>1. NoPosition.id = 0 /\ 0 \notin Ids
  BY Constants DEF NoPosition, Ids
<1> QED
  BY <1>1 DEF Position

LEMMA PositionFields ==
  ASSUME TypeOK
  PROVE  /\ NoPosition.id = 0 /\ NoPosition.policy = "none" /\ ~NoPosition.charged
         /\ pos # NoPosition => pos \in Position
         /\ pos \in Position => /\ pos # NoPosition /\ pos.id \in Ids /\ pos.stop \in Levels
                                /\ pos.peak \in Levels /\ pos.policy \in Policies
                                /\ pos.charged \in BOOLEAN
<1>1. NoPosition.id = 0 /\ NoPosition.policy = "none" /\ ~NoPosition.charged
  BY DEF NoPosition
<1>2. 0 \notin Ids
  BY Constants DEF Ids
<1> QED
  BY <1>1, <1>2 DEF TypeOK, Position

\* What the tick guard and the exit policies leave of a position keeps its name,
\* its policy and its capital.
SamePosition(q) ==
  q \in Position /\ q.id = pos.id /\ q.policy = pos.policy /\ q.charged = pos.charged

LEMMA TickKeepsPosition ==
  ASSUME TypeOK, pos # NoPosition, NEW c \in Candles(minute + 1), TickHolds(c)
  PROVE  SamePosition(pos') /\ UNCHANGED <<used, ledger, due>>
<1>1. c.hi \in Levels /\ pos \in Position /\ pos.stop \in Levels
  BY PositionFields DEF Candles
<1>2. PICK s \in TickStops(c) : pos' = [pos EXCEPT !.stop = s]
  BY DEF TickHolds
<1>3. s \in Levels
  <2>1. InitialStop \in Levels /\ BreakEvenStop \in Levels
    BY LevelSet DEF InitialStop, BreakEvenStop
  <2>2. Max({pos.stop, BreakEvenStop}) \in Levels
    BY <1>1, <2>1, MaxOfLevels
  <2> QED
    BY <1>2, <2>1, <2>2 DEF TickStops
<1> QED
  BY <1>1, <1>2, <1>3 DEF SamePosition, Position, TickHolds

LEMMA ManagedKeepsPosition ==
  ASSUME TypeOK, pos # NoPosition, NEW c \in Candles(pending), NEW q \in Managed(pos, c)
  PROVE  SamePosition(q)
<1>1. c.hi \in Levels /\ pos \in Position /\ pos.stop \in Levels /\ pos.peak \in Levels
  BY PositionFields DEF Candles
<1> DEFINE r == [pos EXCEPT !.peak = Max({@, c.hi})]
           Crosses(level) == pos.peak < level /\ level <= r.peak
           locks == (IF Crosses(BreakEven) THEN {BreakEvenStop} ELSE {})
             \cup IF pos.policy # "HYBRID_SCALE_OUT" THEN {}
                  ELSE (IF Crosses(ScaleOut1) THEN {FirstLock} ELSE {})
                  \cup (IF Crosses(ScaleOut2) THEN {SecondLock} ELSE {})
           base == Max({pos.stop} \cup locks)
<1>2. Max({pos.peak, c.hi}) \in Levels
  BY <1>1, MaxOfLevels
<1>3. r \in Position /\ r.id = pos.id /\ r.policy = pos.policy /\ r.charged = pos.charged
      /\ r.peak \in Levels
  BY <1>1, <1>2 DEF Position
<1>4. base \in Levels
  <2>1. BreakEvenStop \in Levels /\ FirstLock \in Levels /\ SecondLock \in Levels
    BY LevelSet DEF BreakEvenStop, FirstLock, SecondLock
  <2>2. {pos.stop} \cup locks \in SUBSET Levels
    BY <1>1, <2>1
  <2> QED
    BY <2>2, MaxOfLevels
<1>5. base..r.peak \subseteq Levels
  BY <1>3, <1>4 DEF Levels, InitialStop, TakeProfit
<1>6. q = r \/ \E s \in {base} \cup
                 IF pos.policy = "HYBRID_SCALE_OUT" /\ BreakEvenApplied(r) THEN base..r.peak ELSE {} :
               q = [r EXCEPT !.stop = s]
  BY DEF Managed
<1> HIDE DEF r, base, locks
<1>7. q = r \/ \E s \in Levels : q = [r EXCEPT !.stop = s]
  BY <1>4, <1>5, <1>6
<1> QED
  BY <1>3, <1>7 DEF SamePosition, Position

-----------------------------------------------------------------------------
(* The position with its capital and its ledger, and all the rest.         *)

Entries == [opened : Nat, closed : Nat, sold : Nat]

Core ==
  /\ pos \in Position \cup {NoPosition} /\ used \in 0..MaxCapital /\ leaked \in 0..MaxRequests
  /\ ledger \in [Ids -> Entries] /\ due \in BOOLEAN
  /\ CapitalExact /\ CapitalOwned /\ Closable

Rest ==
  /\ disk \in [id : Ids, policy : Policies] \cup {Saved(NoPosition)}
  /\ minute \in 0..MaxCandles /\ processed \in 0..minute /\ seen \in 0..minute
  /\ pending \in 1..minute \cup {NoCandle}
  /\ conn \in {"CONNECTED", "DEGRADED", "RECONNECTING"} /\ closing \in BOOLEAN
  /\ requests \in 0..MaxRequests /\ crashes \in 0..MaxCrashes

LEMMA Parts == IInv <=> Core /\ Rest /\ TimeExitHolds
BY DEF IInv, TypeOK, Core, Rest, Entries

LEMMA PartsPrimed == IInv' <=> Core' /\ Rest' /\ TimeExitHolds'
BY Parts, PTL

\* One field of one entry of a book grows by one.
LEMMA BookClosed ==
  ASSUME NEW book \in [Ids -> Entries], NEW n \in Ids
  PROVE  LET new == [book EXCEPT ![n].closed = @ + 1]
         IN  /\ new \in [Ids -> Entries]
             /\ \A i \in Ids : /\ new[i].opened = book[i].opened /\ new[i].sold = book[i].sold
                               /\ new[i].closed = book[i].closed + (IF i = n THEN 1 ELSE 0)
BY DEF Entries

LEMMA BookSold ==
  ASSUME NEW book \in [Ids -> Entries], NEW n \in Ids
  PROVE  LET new == [book EXCEPT ![n].sold = @ + 1]
         IN  /\ new \in [Ids -> Entries]
             /\ \A i \in Ids : /\ new[i].opened = book[i].opened /\ new[i].closed = book[i].closed
                               /\ new[i].sold = book[i].sold + (IF i = n THEN 1 ELSE 0)
BY DEF Entries

LEMMA BookOpened ==
  ASSUME NEW book \in [Ids -> Entries], NEW n \in Ids
  PROVE  LET new == [book EXCEPT ![n].opened = @ + 1]
         IN  /\ new \in [Ids -> Entries]
             /\ \A i \in Ids : /\ new[i].closed = book[i].closed /\ new[i].sold = book[i].sold
                               /\ new[i].opened = book[i].opened + (IF i = n THEN 1 ELSE 0)
BY DEF Entries

\* A closed position gives back what it took, and nothing else.
LEMMA ReleaseIsExact ==
  ASSUME IInv, pos # NoPosition
  PROVE  Released = leaked /\ Released \in 0..MaxCapital
<1>1. used \in 0..MaxCapital /\ leaked \in 0..MaxRequests
  BY DEF IInv, TypeOK
<1>2. pos.charged \in BOOLEAN
  BY PositionFields DEF IInv
<1>3. CASE pos.charged
  BY <1>1, <1>3, Constants DEF IInv, CapitalExact, Released
<1>4. CASE ~pos.charged
  BY <1>1, <1>4, Constants DEF IInv, CapitalExact, CapitalOwned, Released
<1> QED
  BY <1>2, <1>3, <1>4

\* The tick guard, the candle and the operator close alike: the book gains one
\* close of the open position and at most one sale.
LEMMA ClosingKeepsCore ==
  ASSUME IInv, pos # NoPosition, pos' = NoPosition, used' = Released, due' \in BOOLEAN,
         UNCHANGED <<leaked, crashes>>, leaked <= requests',
         \/ ledger' = [ledger EXCEPT ![pos.id].closed = @ + 1]
         \/ ledger' = [[ledger EXCEPT ![pos.id].closed = @ + 1] EXCEPT ![pos.id].sold = @ + 1]
  PROVE  Core' /\ TimeExitHolds'
<1> DEFINE book == [ledger EXCEPT ![pos.id].closed = @ + 1]
<1>1. pos.id \in Ids /\ ledger \in [Ids -> Entries] /\ crashes \in Nat /\ leaked \in 0..MaxRequests
  BY PositionFields, Constants DEF IInv, TypeOK, Entries
<1>2. /\ book \in [Ids -> Entries]
      /\ \A i \in Ids : /\ book[i].opened = ledger[i].opened /\ book[i].sold = ledger[i].sold
                        /\ book[i].closed = ledger[i].closed + (IF i = pos.id THEN 1 ELSE 0)
  BY <1>1, BookClosed
<1> HIDE DEF book
<1>3. /\ ledger' \in [Ids -> Entries]
      /\ \A i \in Ids : /\ ledger'[i].opened = ledger[i].opened
                        /\ ledger'[i].closed = ledger[i].closed + (IF i = pos.id THEN 1 ELSE 0)
                        /\ ledger'[i].sold \in {ledger[i].sold,
                             ledger[i].sold + (IF i = pos.id THEN 1 ELSE 0)}
  <2>1. CASE ledger' = book
    BY <1>2, <2>1
  <2>2. CASE ledger' = [book EXCEPT ![pos.id].sold = @ + 1]
    <3>1. /\ ledger' \in [Ids -> Entries]
          /\ \A i \in Ids : /\ ledger'[i].opened = book[i].opened
                            /\ ledger'[i].closed = book[i].closed
                            /\ ledger'[i].sold = book[i].sold + (IF i = pos.id THEN 1 ELSE 0)
      BY <1>1, <1>2, <2>2, BookSold
    <3> QED
      BY <1>2, <3>1
  <2> QED
    BY <2>1, <2>2 DEF book
<1>4. Closable'
  <2> SUFFICES ASSUME NEW i \in Ids
               PROVE  /\ ledger'[i].sold <= ledger'[i].closed
                      /\ ledger'[i].closed + (IF pos'.id = i THEN 1 ELSE 0)
                           <= ledger'[i].opened + crashes'
    BY DEF Closable
  <2>1. pos'.id = 0 /\ 0 \notin Ids
    BY Constants DEF NoPosition, Ids
  <2>2. ledger[i].opened \in Nat /\ ledger[i].closed \in Nat /\ ledger[i].sold \in Nat
    BY <1>1 DEF Entries
  <2>3. /\ ledger[i].sold <= ledger[i].closed
        /\ ledger[i].closed + (IF pos.id = i THEN 1 ELSE 0) <= ledger[i].opened + crashes
    BY DEF IInv, Closable
  <2> QED
    BY <1>1, <1>3, <2>1, <2>2, <2>3
<1>5. CapitalExact' /\ CapitalOwned' /\ used' \in 0..MaxCapital
  <2>1. ~NoPosition.charged
    BY DEF NoPosition
  <2>2. Released = leaked /\ Released \in 0..MaxCapital
    BY ReleaseIsExact
  <2> QED
    BY <1>1, <2>1, <2>2 DEF CapitalExact, CapitalOwned, IInv
<1>6. TimeExitHolds'
  BY DEF TimeExitHolds, NoPosition
<1> QED
  BY <1>1, <1>3, <1>4, <1>5, <1>6 DEF Core

LEMMA CloseKeepsCore ==
  ASSUME IInv, pos # NoPosition, Close, UNCHANGED <<leaked, requests, crashes>>
  PROVE  Core' /\ TimeExitHolds'
<1>1. /\ pos' = NoPosition /\ used' = Released /\ due' \in BOOLEAN
      /\ \/ ledger' = [ledger EXCEPT ![pos.id].closed = @ + 1]
         \/ ledger' = [[ledger EXCEPT ![pos.id].closed = @ + 1] EXCEPT ![pos.id].sold = @ + 1]
  BY DEF Close, PlaceExit
<1>2. leaked <= requests'
  BY DEF IInv, CapitalOwned
<1> QED
  BY <1>1, <1>2, ClosingKeepsCore

\* What leaves the position what it is leaves the capital and the book alone.
LEMMA HoldingKeepsCore ==
  ASSUME IInv, SamePosition(pos') \/ UNCHANGED pos, pos # NoPosition \/ UNCHANGED pos,
         UNCHANGED <<used, ledger, leaked, requests, crashes>>, due' \in BOOLEAN
  PROVE  Core'
<1>1. pos' \in Position \cup {NoPosition} /\ pos'.id = pos.id /\ pos'.charged = pos.charged
      /\ (pos = NoPosition <=> pos' = NoPosition)
  BY NoneIsNoPosition DEF SamePosition, IInv, TypeOK
<1>2. CapitalExact' /\ CapitalOwned' /\ Closable'
  BY <1>1 DEF IInv, CapitalExact, CapitalOwned, Closable
<1> QED
  BY <1>1, <1>2 DEF Core, IInv, TypeOK, Entries

LEMMA TickGuardKeepsCore ==
  ASSUME IInv, TickGuard, UNCHANGED <<leaked, requests, crashes, processed>>
  PROVE  Core' /\ TimeExitHolds'
<1>1. due \in BOOLEAN
  BY DEF IInv, TypeOK
<1>2. CASE pos = NoPosition
  <2>1. UNCHANGED <<pos, used, ledger, due>>
    BY <1>2 DEF TickGuard
  <2>2. TimeExitHolds'
    BY <2>1 DEF IInv, TimeExitHolds
  <2> QED
    BY <1>1, <2>1, <2>2, HoldingKeepsCore
<1>3. CASE pos # NoPosition /\ Close
  BY <1>3, CloseKeepsCore
<1>4. ASSUME pos # NoPosition, NEW c \in Candles(minute + 1), TickHolds(c)
      PROVE  Core' /\ TimeExitHolds'
  <2>1. SamePosition(pos') /\ UNCHANGED <<used, ledger, due>>
    BY <1>4, TickKeepsPosition DEF IInv
  <2>2. TimeExitHolds'
    BY <2>1 DEF IInv, TimeExitHolds, SamePosition
  <2> QED
    BY <1>1, <1>4, <2>1, <2>2, HoldingKeepsCore
<1> QED
  BY <1>2, <1>3, <1>4 DEF TickGuard

LEMMA RestTypes ==
  ASSUME IInv
  PROVE  /\ minute \in Nat /\ minute <= MaxCandles /\ processed \in 0..minute /\ seen \in 0..minute
         /\ pending \in 0..minute
         /\ leaked \in 0..MaxRequests /\ used \in 0..MaxCapital
         /\ requests \in 0..MaxRequests /\ crashes \in 0..MaxCrashes
BY Constants DEF IInv, TypeOK, NoCandle

LEMMA TickStep ==
  ASSUME IInv, Tick
  PROVE  IInv'
<1>1. Core' /\ TimeExitHolds'
  BY TickGuardKeepsCore DEF Tick, feedVars
<1>2. Rest'
  BY DEF Tick, feedVars, Rest, IInv, TypeOK
<1> QED
  BY <1>1, <1>2, PartsPrimed

LEMMA ClosedKlineStep ==
  ASSUME IInv, ClosedKline
  PROVE  IInv'
<1>1. Core' /\ TimeExitHolds'
  BY TickGuardKeepsCore DEF ClosedKline
<1>2. minute' = minute + 1 /\ pending' = minute + 1 /\ minute < MaxCandles
      /\ UNCHANGED <<processed, seen>>
  BY DEF ClosedKline
<1>3. /\ minute' \in 0..MaxCandles /\ processed' \in 0..minute' /\ seen' \in 0..minute'
      /\ pending' \in 1..minute' \cup {NoCandle}
  BY <1>2, RestTypes, Constants
<1>4. Rest'
  BY <1>3 DEF ClosedKline, Rest, IInv, TypeOK
<1> QED
  BY <1>1, <1>4, PartsPrimed

LEMMA FeedStep ==
  ASSUME IInv, Feed
  PROVE  IInv'
<1>1. UNCHANGED <<pos, used, leaked, processed, diskVars, ledger, requests, crashes>>
  BY DEF Feed, SocketFails, CloseAfterError, CandleClosesUnpolled, PollFails, PollSucceeds
<1>2. Core'
  BY <1>1, HoldingKeepsCore DEF diskVars, IInv, TypeOK
<1>3. TimeExitHolds'
  BY <1>1 DEF IInv, TimeExitHolds
<1>4. conn' \in {"CONNECTED", "DEGRADED", "RECONNECTING"} /\ closing' \in BOOLEAN
  BY DEF Feed, SocketFails, CloseAfterError, CandleClosesUnpolled, PollFails, PollSucceeds,
         IInv, TypeOK
<1>5. /\ minute' \in 0..MaxCandles /\ minute' >= minute
      /\ seen' \in 0..minute' /\ pending' \in 1..minute' \cup {NoCandle}
  <2>1. CASE CandleClosesUnpolled
    <3>1. minute' = minute + 1 /\ minute < MaxCandles /\ UNCHANGED <<pending, seen>>
      BY <2>1 DEF CandleClosesUnpolled
    <3> QED
      BY <3>1, RestTypes, Constants DEF NoCandle
  <2>2. CASE PollSucceeds
    <3>1. minute' = minute /\ seen' = minute
          /\ (pending' = NoCandle \/ (pending' = minute /\ seen # minute))
      BY <2>2 DEF PollSucceeds
    <3> QED
      BY <3>1, RestTypes, Constants
  <2>3. CASE UNCHANGED <<minute, seen, pending>>
    BY <2>3, RestTypes, Constants DEF NoCandle
  <2> QED
    BY <2>1, <2>2, <2>3 DEF Feed, SocketFails, CloseAfterError, PollFails
<1>6. processed' \in 0..minute'
  BY <1>1, <1>5, RestTypes, Constants
<1>7. Rest'
  BY <1>1, <1>4, <1>5, <1>6 DEF Rest, diskVars, IInv, TypeOK
<1> QED
  BY <1>2, <1>3, <1>7, PartsPrimed

\* The capital limit holds: a position it does not cover is dropped at once, and
\* the one it covers is charged.
LEMMA EntryKeepsCore ==
  ASSUME IInv, pos = NoPosition, pending \in Ids, CandleEntry,
         UNCHANGED <<leaked, requests, crashes>>, processed' = pending
  PROVE  Core' /\ TimeExitHolds'
<1>1. CASE UNCHANGED <<pos, used, ledger, due>>
  <2>1. TimeExitHolds'
    BY <1>1 DEF TimeExitHolds, NoPosition
  <2> QED
    BY <1>1, <2>1, HoldingKeepsCore DEF IInv, TypeOK
<1>2. ASSUME NEW policy \in Policies,
             ledger' = [ledger EXCEPT ![pending].opened = @ + 1], due' = TRUE,
             IF used + 1 > MaxCapital
             THEN pos' = NoPosition /\ UNCHANGED used
             ELSE /\ pos' = [NoPosition EXCEPT !.id = pending, !.policy = policy, !.charged = TRUE]
                  /\ used' = used + 1
      PROVE  Core' /\ TimeExitHolds'
  <2>1. ledger \in [Ids -> Entries]
    BY DEF IInv, TypeOK, Entries
  <2>2. /\ ledger' \in [Ids -> Entries]
        /\ \A i \in Ids : /\ ledger'[i].closed = ledger[i].closed /\ ledger'[i].sold = ledger[i].sold
                          /\ ledger'[i].opened = ledger[i].opened + (IF i = pending THEN 1 ELSE 0)
    BY <1>2, <2>1, BookOpened
  <2>3. \A i \in Ids :
          /\ ledger[i].opened \in Nat /\ ledger[i].closed \in Nat /\ ledger[i].sold \in Nat
          /\ ledger[i].sold <= ledger[i].closed
          /\ ledger[i].closed <= ledger[i].opened + crashes
    BY <2>1, NoneIsNoPosition DEF Entries, IInv, Closable
  <2>4. used = leaked /\ leaked <= requests
    <3>1. ~pos.charged
      BY DEF NoPosition
    <3> QED
      BY <3>1, RestTypes DEF IInv, CapitalExact, CapitalOwned
  <2>5. CASE used + 1 > MaxCapital
    <3>1. pos' = NoPosition /\ used' = used
      BY <1>2, <2>5
    <3>2. Closable'
      BY <2>2, <2>3, <3>1, NoneIsNoPosition, RestTypes, Constants DEF Closable
    <3>3. CapitalExact' /\ CapitalOwned' /\ TimeExitHolds'
      <4>1. ~NoPosition.charged /\ NoPosition.policy = "none"
        BY DEF NoPosition
      <4> QED
        BY <2>4, <3>1, <4>1, RestTypes DEF CapitalExact, CapitalOwned, TimeExitHolds
    <3> QED
      BY <1>2, <2>2, <3>1, <3>2, <3>3, RestTypes DEF Core
  <2>6. CASE ~(used + 1 > MaxCapital)
    <3>1. pos' = [id |-> pending, stop |-> 0, peak |-> 0, policy |-> policy, charged |-> TRUE]
          /\ used' = used + 1
      BY <1>2, <2>6 DEF NoPosition
    <3>2. pos' \in Position /\ pos'.id = pending /\ pos'.charged /\ pos'.policy = policy
      BY <3>1, LevelSet DEF Position
    <3>3. Closable'
      BY <2>2, <2>3, <3>2, RestTypes, Constants DEF Closable
    <3>4. CapitalExact' /\ CapitalOwned' /\ used' \in 0..MaxCapital
      BY <2>4, <2>6, <3>1, <3>2, RestTypes, Constants DEF CapitalExact, CapitalOwned
    <3>5. TimeExitHolds'
      BY <3>2, RestTypes, Constants DEF TimeExitHolds
    <3> QED
      BY <1>2, <2>2, <3>2, <3>3, <3>4, <3>5, RestTypes DEF Core
  <2> QED
    BY <2>5, <2>6
<1> QED
  BY <1>1, <1>2 DEF CandleEntry

\* A position that outlives its candle is not past its limit.
LEMMA ExitKeepsCore ==
  ASSUME IInv, pos # NoPosition, pending \in Ids, CandleExit,
         UNCHANGED <<leaked, requests, crashes>>, processed' = pending
  PROVE  Core' /\ TimeExitHolds'
<1>1. CASE Close
  BY <1>1, CloseKeepsCore
<1>2. ASSUME NEW c \in Candles(pending), NEW q \in Managed(pos, c),
             ~MustClose(q, c), pos' = q, UNCHANGED <<used, ledger, due>>
      PROVE  Core' /\ TimeExitHolds'
  <2>1. SamePosition(q)
    BY <1>2, ManagedKeepsPosition DEF IInv
  <2>2. TimeExitHolds'
    <3>1. q.policy = "TIME" => c.n - q.id < TimeLimit
      <4>1. c.n \in Int /\ q.id \in Int
        BY <2>1, Constants DEF SamePosition, Position, Candles, Ids
      <4> QED
        BY <1>2, <4>1, Constants DEF MustClose, TimeUp, Age
    <3>2. c.n = pending /\ q.id \in Nat /\ pending \in Nat
      BY <2>1, Constants DEF SamePosition, Position, Candles, Ids
    <3> QED
      BY <1>2, <3>1, <3>2, Constants DEF TimeExitHolds
  <2> QED
    BY <1>2, <2>1, <2>2, HoldingKeepsCore DEF IInv, TypeOK
<1> QED
  BY <1>1, <1>2 DEF CandleExit

LEMMA ProcessCandleStep ==
  ASSUME IInv, ProcessCandle
  PROVE  IInv'
<1>1. pending \in 1..minute /\ pending \in Ids
  BY RestTypes, Constants DEF ProcessCandle, NoCandle, Ids
<1>2. processed' = pending /\ pending' = NoCandle
      /\ UNCHANGED <<leaked, minute, conn, closing, seen, disk, requests, crashes>>
  BY DEF ProcessCandle
<1>3. Core' /\ TimeExitHolds'
  BY <1>1, <1>2, EntryKeepsCore, ExitKeepsCore DEF ProcessCandle
<1>4. Rest'
  BY <1>1, <1>2, RestTypes, Constants DEF Rest, IInv, TypeOK
<1> QED
  BY <1>3, <1>4, PartsPrimed

LEMMA ManualCloseStep ==
  ASSUME IInv, ManualClose
  PROVE  IInv'
<1>1. pos # NoPosition /\ pos' = NoPosition /\ used' = Released /\ due' = TRUE
      /\ ledger' = [ledger EXCEPT ![pos.id].closed = @ + 1]
      /\ disk' = Saved(NoPosition) /\ requests' = requests + 1 /\ requests < MaxRequests
      /\ UNCHANGED <<leaked, feedVars, crashes>>
  BY DEF ManualClose, Request
<1>2. requests' \in 0..MaxRequests /\ leaked <= requests'
  BY <1>1, RestTypes, Constants DEF IInv, CapitalOwned
<1>3. Core' /\ TimeExitHolds'
  BY <1>1, <1>2, ClosingKeepsCore
<1>4. Rest'
  BY <1>1, <1>2 DEF feedVars, Rest, IInv, TypeOK
<1> QED
  BY <1>3, <1>4, PartsPrimed

\* A dropped position leaves its capital in use, for the request that dropped it.
LEMMA DropStep ==
  ASSUME IInv, Request, pos # NoPosition, Drop, due' \in BOOLEAN
  PROVE  IInv'
<1>1. /\ pos' = NoPosition /\ disk' = Saved(NoPosition)
      /\ leaked' = leaked + (IF pos.charged THEN 1 ELSE 0)
      /\ requests' = requests + 1 /\ requests < MaxRequests
      /\ UNCHANGED <<used, feedVars, ledger, crashes>>
  BY DEF Drop, Request
<1>2. ~NoPosition.charged /\ NoPosition.policy = "none"
  BY DEF NoPosition
<1>3. leaked' \in 0..MaxRequests /\ leaked' <= requests' /\ requests' \in 0..MaxRequests
  BY <1>1, RestTypes, Constants DEF IInv, CapitalOwned
<1>4. CapitalExact' /\ CapitalOwned'
  BY <1>1, <1>2, <1>3, RestTypes DEF IInv, CapitalExact, CapitalOwned
<1>5. Closable'
  <2> SUFFICES ASSUME NEW i \in Ids
               PROVE  /\ ledger[i].sold <= ledger[i].closed
                      /\ ledger[i].closed + (IF NoPosition.id = i THEN 1 ELSE 0)
                           <= ledger[i].opened + crashes
    BY <1>1 DEF Closable
  <2>1. NoPosition.id # i
    BY NoneIsNoPosition
  <2>2. ledger[i].opened \in Nat /\ ledger[i].closed \in Nat
    BY DEF IInv, TypeOK
  <2> QED
    BY <2>1, <2>2, RestTypes, Constants DEF IInv, Closable
<1>6. Core'
  BY <1>1, <1>3, <1>4, <1>5 DEF Core, IInv, TypeOK, Entries
<1>7. TimeExitHolds'
  BY <1>1, <1>2 DEF TimeExitHolds
<1>8. Rest'
  BY <1>1, <1>3 DEF feedVars, Rest, IInv, TypeOK
<1> QED
  BY <1>6, <1>7, <1>8, PartsPrimed

LEMMA SavedTypes ==
  ASSUME TypeOK
  PROVE  Saved(pos) \in [id : Ids, policy : Policies] \cup {Saved(NoPosition)}
BY DEF TypeOK, Saved, Position

LEMMA SaveStep ==
  ASSUME IInv, Save
  PROVE  IInv'
<1>1. UNCHANGED <<pos, used, leaked, feedVars, ledger, requests, crashes>> /\ due' \in BOOLEAN
      /\ disk' = Saved(pos)
  BY DEF Save
<1>2. Core'
  BY <1>1, HoldingKeepsCore
<1>3. TimeExitHolds'
  BY <1>1 DEF feedVars, IInv, TimeExitHolds
<1>4. Rest'
  BY <1>1, SavedTypes DEF feedVars, Rest, IInv, TypeOK
<1> QED
  BY <1>2, <1>3, <1>4, PartsPrimed

\* The crash pays for the second close of a position that the file brings back.
LEMMA RestartStep ==
  ASSUME IInv, Restart
  PROVE  IInv'
<1>1. /\ crashes < MaxCrashes /\ crashes' = crashes + 1
      /\ used' = 0 /\ leaked' = 0 /\ due' = FALSE /\ pending' = NoCandle /\ processed' = 0
      /\ conn' = "CONNECTED" /\ closing' = FALSE /\ seen' = 0
      /\ UNCHANGED <<minute, ledger, requests>>
      /\ disk' \in {disk, Saved(NoPosition)}
  BY DEF Restart
<1>2. disk' \in [id : Ids, policy : Policies] \cup {Saved(NoPosition)}
  BY <1>1 DEF IInv, TypeOK
<1>3. /\ NoPosition.id = 0 /\ NoPosition.policy = "none" /\ ~NoPosition.charged
      /\ Saved(NoPosition).id = 0
  BY DEF NoPosition, Saved
<1>4. /\ pos' \in Position \cup {NoPosition} /\ ~pos'.charged
      /\ pos' # NoPosition => pos'.id \in Nat
  <2>1. CASE disk'.id = 0
    BY <1>3, <2>1 DEF Restart
  <2>2. CASE disk'.id # 0
    <3>1. disk = disk' /\ disk \in [id : Ids, policy : Policies]
      BY <1>1, <1>2, <1>3, <2>2
    <3>2. PICK stop \in Levels, peak \in Levels :
            pos' = [id |-> disk.id, stop |-> stop, peak |-> peak,
                    policy |-> disk.policy, charged |-> FALSE]
      BY <2>2 DEF Restart
    <3>3. disk.id \in Ids /\ disk.policy \in Policies /\ disk.id \in Nat
      BY <3>1, Constants DEF Ids
    <3> QED
      BY <3>2, <3>3 DEF Position
  <2> QED
    BY <2>1, <2>2
<1>5. CapitalExact' /\ CapitalOwned'
  BY <1>1, <1>4, RestTypes, Constants DEF CapitalExact, CapitalOwned
<1>6. Closable'
  <2> SUFFICES ASSUME NEW i \in Ids
               PROVE  /\ ledger[i].sold <= ledger[i].closed
                      /\ ledger[i].closed + (IF pos'.id = i THEN 1 ELSE 0)
                           <= ledger[i].opened + crashes + 1
    BY <1>1, RestTypes, Constants DEF Closable, IInv, TypeOK
  <2>1. ledger[i].opened \in Nat /\ ledger[i].closed \in Nat
    BY DEF IInv, TypeOK
  <2>2. ledger[i].sold <= ledger[i].closed
        /\ ledger[i].closed + (IF pos.id = i THEN 1 ELSE 0) <= ledger[i].opened + crashes
    BY DEF IInv, Closable
  <2> QED
    BY <2>1, <2>2, RestTypes, Constants
<1>7. Core'
  <2>1. ledger' \in [Ids -> Entries] /\ due' \in BOOLEAN
    BY <1>1 DEF IInv, TypeOK, Entries
  <2>2. used' \in 0..MaxCapital /\ leaked' \in 0..MaxRequests
    BY <1>1, Constants
  <2> QED
    BY <1>4, <1>5, <1>6, <2>1, <2>2 DEF Core
<1>8. TimeExitHolds'
  BY <1>1, <1>3, <1>4, Constants DEF TimeExitHolds, Position, Ids
<1>9. Rest'
  <2>1. /\ minute' \in 0..MaxCandles /\ processed' \in 0..minute' /\ seen' \in 0..minute'
        /\ requests' \in 0..MaxRequests /\ crashes' \in 0..MaxCrashes
    BY <1>1, RestTypes, Constants
  <2>2. conn' \in {"CONNECTED", "DEGRADED", "RECONNECTING"} /\ closing' \in BOOLEAN
        /\ pending' \in 1..minute' \cup {NoCandle}
    BY <1>1
  <2> QED
    BY <1>2, <2>1, <2>2 DEF Rest
<1> QED
  BY <1>7, <1>8, <1>9, PartsPrimed

-----------------------------------------------------------------------------
(* The invariant and what it gives.                                        *)

LEMMA InitIInv == Init => IInv
<1> SUFFICES ASSUME Init PROVE IInv
  OBVIOUS
<1>1. ~NoPosition.charged /\ NoPosition.policy = "none"
  BY DEF NoPosition
<1>2. TypeOK
  <2>1. ledger \in [Ids -> [opened : Nat, closed : Nat, sold : Nat]]
    BY DEF Init
  <2>2. /\ used \in 0..MaxCapital /\ leaked \in 0..MaxRequests /\ minute \in 0..MaxCandles
        /\ processed \in 0..minute /\ seen \in 0..minute
        /\ requests \in 0..MaxRequests /\ crashes \in 0..MaxCrashes
    BY Constants DEF Init
  <2> QED
    BY <2>1, <2>2 DEF Init, TypeOK
<1>3. CapitalExact /\ CapitalOwned /\ TimeExitHolds
  BY <1>1 DEF Init, CapitalExact, CapitalOwned, TimeExitHolds
<1>4. Closable
  BY NoneIsNoPosition DEF Init, Closable
<1> QED
  BY <1>2, <1>3, <1>4 DEF IInv

LEMMA NextIInv == IInv /\ [Next]_vars => IInv'
<1> SUFFICES ASSUME IInv, [Next]_vars PROVE IInv'
  OBVIOUS
<1>1. CASE Tick
  BY <1>1, TickStep
<1>2. CASE ClosedKline
  BY <1>2, ClosedKlineStep
<1>3. CASE Feed
  BY <1>3, FeedStep
<1>4. CASE ProcessCandle
  BY <1>4, ProcessCandleStep
<1>5. CASE ManualClose
  BY <1>5, ManualCloseStep
<1>6. CASE Wipe
  BY <1>6, DropStep DEF Wipe
<1>7. CASE Reset
  BY <1>7, DropStep DEF Reset, IInv, TypeOK
<1>8. CASE Save
  BY <1>8, SaveStep
<1>9. CASE Restart
  BY <1>9, RestartStep
<1>10. CASE UNCHANGED vars
  BY <1>10 DEF vars, feedVars, diskVars, IInv, TypeOK, CapitalExact, CapitalOwned, Closable, TimeExitHolds
<1> QED
  BY <1>1, <1>2, <1>3, <1>4, <1>5, <1>6, <1>7, <1>8, <1>9, <1>10 DEF Next

LEMMA InductiveInvariant == Spec => []IInv
BY InitIInv, NextIInv, PTL DEF Spec

\* Every variable of the engine stays in its range; the capital in use never
\* passes MaxCapital.
THEOREM TypeCorrect == Spec => []TypeOK
<1>1. IInv => TypeOK
  BY DEF IInv
<1> QED
  BY <1>1, InductiveInvariant, PTL

\* No interleaving of ticks, candles, requests and crashes closes a position
\* twice within one life of the process, or sells it without closing it.
THEOREM NeverClosedTwice == Spec => []ClosedOnce
<1>1. IInv => ClosedOnce
  <2> SUFFICES ASSUME IInv, NEW i \in Ids
               PROVE  ledger[i].sold <= ledger[i].closed
                      /\ ledger[i].closed <= ledger[i].opened + crashes
    BY DEF ClosedOnce
  <2>1. ledger[i].opened \in Nat /\ ledger[i].closed \in Nat
    BY DEF IInv, TypeOK
  <2> QED
    BY <2>1, RestTypes, Constants DEF IInv, Closable
<1> QED
  BY <1>1, InductiveInvariant, PTL

\* releaseDailyCapital gives back exactly what the entry took, on every path
\* that closes a position.
THEOREM CapitalBalances == Spec => []CapitalExact
<1>1. IInv => CapitalExact
  BY DEF IInv
<1> QED
  BY <1>1, InductiveInvariant, PTL

\* The TIME policy's limit is met at every processed candle, whatever the feed
\* did before.
THEOREM TimeLimitHolds == Spec => []TimeExitHolds
<1>1. IInv => TimeExitHolds
  BY DEF IInv
<1> QED
  BY <1>1, InductiveInvariant, PTL
===============================================================================
