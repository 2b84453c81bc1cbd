---------------------------- MODULE PositionEngine ----------------------------
(***************************************************************************)
(* The position of one StreamEngine (backend/streamEngine.js) in LIVE mode *)
(* with an execution layer: ticks and closed candles of the feed           *)
(* (liveDataIngestor.js), the stop managed by both (regimeEngine.js), the  *)
(* operator's HTTP requests and the debounced file (statePersistence.js,   *)
(* server.js).  Node runs one task at a time; processCandle awaits the     *)
(* divergence monitor, and any other task may run before it goes on.       *)
(*                                                                         *)
(* A LONG position; a price is a level of its R multiples, and the other   *)
(* direction is symmetric.  A candle is its number and its high: its low   *)
(* may or may not reach a stop that lies below the high.  A position costs *)
(* one unit of capital and is named, as in the code, after its candle.     *)
(***************************************************************************)
EXTENDS Integers, FiniteSets, FiniteSetsExt

CONSTANTS
  Policies,     \* exit policies configured: TIME, DYNAMIC_TP, HYBRID_SCALE_OUT
  TimeLimit,    \* timeExitMinutes, in candles
  MaxCapital,   \* maxDailyCapital, in positions
  MaxCandles,   \* bound: candles
  MaxRequests,  \* bound: requests of the operator that drop the position
  MaxCrashes    \* bound: crashes of the process

ASSUME PositionAssumption ==
  /\ Policies # {} /\ Policies \subseteq {"TIME", "DYNAMIC_TP", "HYBRID_SCALE_OUT"}
  /\ {TimeLimit, MaxCapital, MaxCandles} \subseteq Nat \ {0}
  /\ {MaxRequests, MaxCrashes} \subseteq Nat

VARIABLES
  pos,        \* activePosition
  used,       \* dailyCapitalUsed
  leaked,     \* history: positions dropped while charged
  minute,     \* number of the last closed candle
  pending,    \* number of the candle whose processCandle awaits the monitor
  processed,  \* number of the last candle processed since boot
  conn,       \* connectionState
  closing,    \* the socket failed and its close event is still to come
  seen,       \* _lastClosedOpenTime of the polling loop
  disk,       \* id and policy of the position in engine_state.json
  due,        \* the debounced save is armed
  ledger,     \* history: times each position was opened, closed, and sold by an exit order
  requests, crashes

feedVars == <<minute, pending, processed, conn, closing, seen>>
diskVars == <<disk, due>>
vars == <<pos, used, leaked, feedVars, diskVars, ledger, requests, crashes>>

\* Levels of the price, from the initial stop up.
InitialStop   == 0
BreakEvenStop == 1    \* entry + 0.05%
FirstLock     == 2    \* +0.30R
BreakEven     == 3    \* the policy's break-even trigger, +0.40R or +0.80R
SecondLock    == 4    \* +1.00R, also the tick guard's CONFIRMATION
ScaleOut1     == 5    \* +1.20R
Expansion     == 6    \* +1.50R
ScaleOut2     == 7    \* +1.80R
TakeProfit    == 8
Levels        == InitialStop..TakeProfit

Ids        == 1..MaxCandles
NoCandle   == 0
NoPosition == [id |-> 0, stop |-> 0, peak |-> 0, policy |-> "none", charged |-> FALSE]
Candles(n) == [n : {n}, hi : Levels]

Saved(p) == [id |-> p.id, policy |-> p.policy]

BreakEvenApplied(p) == p.peak >= BreakEven
Age(p, c) == c.n - p.id

-----------------------------------------------------------------------------
(* Orders and capital.                                                     *)

\* placeOrder passes the gate with a granted token only; what it throws
\* otherwise is caught and logged.
PlaceExit(book, token) ==
  IF token = "granted" THEN [book EXCEPT ![pos.id].sold = @ + 1] ELSE book

\* Faulty variant: the release does not stop at zero.
ReleasedUnclamped == used - 1

\* releaseDailyCapital.
Released == IF used = 0 THEN 0 ELSE used - 1

\* The engine closes the position: exit order if the court grants it, release,
\* and state_changed in every case.
Close ==
  /\ \E token \in {"granted", "denied"} :
       ledger' = PlaceExit([ledger EXCEPT ![pos.id].closed = @ + 1], token)
  /\ used' = Released
  /\ pos' = NoPosition
  /\ due' = TRUE

-----------------------------------------------------------------------------
(* checkTickPositionExit and RegimeEngine.evaluate.                        *)

\* The regime follows the high of this candle alone.  The structural low of
\* EXPANSION may be any level.
TickStops(c) ==
  IF c.hi < SecondLock THEN {InitialStop}
  ELSE IF c.hi < Expansion THEN {Max({pos.stop, BreakEvenStop})}
  ELSE { s \in Levels : s >= pos.stop }

\* The position stays where the high misses the target and the low the stop.
TickHolds(c) ==
  /\ ~(pos.policy # "TIME" /\ c.hi >= TakeProfit)
  /\ \E s \in TickStops(c) : s < c.hi /\ pos' = [pos EXCEPT !.stop = s]
  /\ UNCHANGED <<used, ledger, due>>

\* Faulty variant: the tick guard closes without emitting state_changed.
TickGuardSilent ==
  IF pos = NoPosition THEN UNCHANGED <<pos, used, ledger, due>>
  ELSE \/ \E c \in Candles(minute + 1) : TickHolds(c)
       \/ /\ ledger' = [ledger EXCEPT ![pos.id].closed = @ + 1]
          /\ used' = Released /\ pos' = NoPosition /\ UNCHANGED due

\* Any candle may close it: its low reaches the stop or its high the target,
\* or above CONFIRMATION it is one of EXHAUSTION.
TickGuard ==
  IF pos = NoPosition THEN UNCHANGED <<pos, used, ledger, due>>
  ELSE Close \/ \E c \in Candles(minute + 1) : TickHolds(c)

\* A message about the candle that is still open, from the socket or a poll.
Tick ==
  /\ pos # NoPosition
  /\ TickGuard
  /\ UNCHANGED <<leaked, feedVars, disk, requests, crashes>>

-----------------------------------------------------------------------------
(* The feed.                                                               *)

\* The socket's message about a closed candle runs the tick guard and starts
\* processCandle in one task.  Its monitor answers before the next candle.
ClosedKline ==
  /\ conn = "CONNECTED" /\ minute < MaxCandles /\ pending = NoCandle
  /\ TickGuard
  /\ minute' = minute + 1 /\ pending' = minute + 1
  /\ UNCHANGED <<leaked, processed, conn, closing, seen, disk, requests, crashes>>

\* close, or error, which close follows; both start the polling loop, and
\* nothing opens a socket again.
SocketFails ==
  /\ conn = "CONNECTED"
  /\ conn' = "DEGRADED" /\ closing' \in BOOLEAN
  /\ UNCHANGED <<pos, used, leaked, minute, pending, processed, seen, diskVars, ledger, requests, crashes>>

CloseAfterError ==
  /\ closing /\ closing' = FALSE
  /\ conn' = "RECONNECTING"
  /\ UNCHANGED <<pos, used, leaked, minute, pending, processed, seen, diskVars, ledger, requests, crashes>>

CandleClosesUnpolled ==
  /\ conn # "CONNECTED" /\ minute < MaxCandles
  /\ minute' = minute + 1
  /\ UNCHANGED <<pos, used, leaked, pending, processed, conn, closing, seen, diskVars, ledger, requests, crashes>>

PollFails ==
  /\ conn = "DEGRADED"
  /\ conn' = "RECONNECTING"
  /\ UNCHANGED <<pos, used, leaked, minute, pending, processed, closing, seen, diskVars, ledger, requests, crashes>>

\* The last closed candle is handed over while the state is still that of the
\* poll before: in DEGRADED the engine ignores it.
PollSucceeds ==
  /\ conn # "CONNECTED" /\ pending = NoCandle
  /\ seen' = minute /\ conn' = "DEGRADED"
  /\ pending' = IF seen = minute \/ conn = "DEGRADED" THEN NoCandle ELSE minute
  /\ UNCHANGED <<pos, used, leaked, minute, processed, closing, diskVars, ledger, requests, crashes>>

-----------------------------------------------------------------------------
(* processCandle, from the monitor's answer on.                            *)

\* What the exit policy makes of the position: a trigger acts once, when the
\* peak first reaches it; the trailing stop may stand at any level below.
Managed(p, c) ==
  LET q == [p EXCEPT !.peak = Max({@, c.hi})]
      Crosses(level) == p.peak < level /\ level <= q.peak
      locks == (IF Crosses(BreakEven) THEN {BreakEvenStop} ELSE {})
        \cup IF p.policy # "HYBRID_SCALE_OUT" THEN {}
             ELSE (IF Crosses(ScaleOut1) THEN {FirstLock} ELSE {})
             \cup (IF Crosses(ScaleOut2) THEN {SecondLock} ELSE {})
      base == Max({p.stop} \cup locks)
  IN  IF p.policy = "TIME" THEN {q}
      ELSE { [q EXCEPT !.stop = s] : s \in {base} \cup
               IF p.policy = "HYBRID_SCALE_OUT" /\ BreakEvenApplied(q) THEN base..q.peak ELSE {} }

\* Faulty variant: the limit must be exceeded.
TimeUpLate(p, c) == p.policy = "TIME" /\ Age(p, c) > TimeLimit

TimeUp(p, c) == p.policy = "TIME" /\ Age(p, c) >= TimeLimit

MustClose(p, c) ==
  TimeUp(p, c) \/ c.hi <= p.stop \/ (p.policy # "TIME" /\ c.hi >= TakeProfit)

\* A low, a veto of the kernel or an exhaustion may close it in any case.
CandleExit ==
  \/ Close
  \/ \E c \in Candles(pending) : \E q \in Managed(pos, c) :
       ~MustClose(q, c) /\ pos' = q /\ UNCHANGED <<used, ledger, due>>

\* A signal that no gate refuses opens a position, which the capital limit
\* may drop again in the same turn.  The entry order carries no token: the gate
\* throws, the error is logged, and the position stays.
CandleEntry ==
  \/ UNCHANGED <<pos, used, ledger, due>>
  \/ \E policy \in Policies :
       /\ ledger' = [ledger EXCEPT ![pending].opened = @ + 1]
       /\ due' = TRUE
       /\ IF used + 1 > MaxCapital
          THEN pos' = NoPosition /\ UNCHANGED used
          ELSE /\ pos' = [NoPosition EXCEPT !.id = pending, !.policy = policy, !.charged = TRUE]
               /\ used' = used + 1

\* Faulty variant: the position is the one that was active before the await,
\* and is closed again when a tick or a request has dropped it meanwhile.
ProcessCandleStale ==
  /\ pending # NoCandle
  /\ \/ IF pos = NoPosition THEN CandleEntry ELSE CandleExit
     \/ /\ pos = NoPosition /\ \E i \in Ids : ledger[i].closed = 1 /\ ledger' = [ledger EXCEPT ![i].closed = 2]
        /\ UNCHANGED <<pos, used, due>>
  /\ processed' = pending /\ pending' = NoCandle
  /\ UNCHANGED <<leaked, minute, conn, closing, seen, disk, requests, crashes>>

ProcessCandle ==
  /\ pending # NoCandle
  /\ IF pos = NoPosition THEN CandleEntry ELSE CandleExit
  /\ processed' = pending /\ pending' = NoCandle
  /\ UNCHANGED <<leaked, minute, conn, closing, seen, disk, requests, crashes>>

-----------------------------------------------------------------------------
(* Requests of the operator, and the file.                                 *)

Request == requests < MaxRequests /\ requests' = requests + 1

\* Faulty variant: the manual close forgets the capital, as the wipe does.
ManualCloseUnreleased ==
  /\ Request /\ pos # NoPosition
  /\ ledger' = [ledger EXCEPT ![pos.id].closed = @ + 1]
  /\ pos' = NoPosition /\ disk' = Saved(NoPosition) /\ due' = TRUE
  /\ UNCHANGED <<used, leaked, feedVars, crashes>>

\* /api/trades/close: no order is sent, and the file is written at once.
ManualClose ==
  /\ Request /\ pos # NoPosition
  /\ ledger' = [ledger EXCEPT ![pos.id].closed = @ + 1]
  /\ used' = Released
  /\ pos' = NoPosition /\ disk' = Saved(NoPosition) /\ due' = TRUE
  /\ UNCHANGED <<leaked, feedVars, crashes>>

\* The position is forgotten: no trade is recorded and its capital stays used.
Drop ==
  /\ pos' = NoPosition /\ disk' = Saved(NoPosition)
  /\ leaked' = leaked + IF pos.charged THEN 1 ELSE 0
  /\ UNCHANGED <<used, feedVars, ledger, crashes>>

Wipe  == Request /\ pos # NoPosition /\ Drop /\ due' = TRUE
Reset == Request /\ pos # NoPosition /\ Drop /\ UNCHANGED due

\* The timer of debouncedSyncStateAndTrades.
Save ==
  /\ due /\ due' = FALSE
  /\ disk' = Saved(pos)
  /\ UNCHANGED <<pos, used, leaked, feedVars, ledger, requests, crashes>>

\* A crash while the file is written leaves nothing to read.  Every engine's
\* changes save all of them, so the stop restored is that of any moment since
\* the entry.  The capital counter starts at zero.
Restart ==
  /\ crashes < MaxCrashes /\ crashes' = crashes + 1
  /\ disk' \in {disk} \cup IF due THEN {Saved(NoPosition)} ELSE {}
  /\ IF disk'.id = 0 THEN pos' = NoPosition
     ELSE \E stop, peak \in Levels :
            pos' = [id |-> disk.id, stop |-> stop, peak |-> peak,
                    policy |-> disk.policy, charged |-> FALSE]
  /\ used' = 0 /\ leaked' = 0 /\ due' = FALSE
  /\ pending' = NoCandle /\ processed' = 0
  /\ conn' = "CONNECTED" /\ closing' = FALSE /\ seen' = 0
  /\ UNCHANGED <<minute, ledger, requests>>

Init ==
  /\ pos = NoPosition /\ used = 0 /\ leaked = 0
  /\ minute = 0 /\ pending = NoCandle /\ processed = 0
  /\ conn = "CONNECTED" /\ closing = FALSE /\ seen = 0
  /\ disk = Saved(NoPosition) /\ due = FALSE
  /\ ledger = [i \in Ids |-> [opened |-> 0, closed |-> 0, sold |-> 0]]
  /\ requests = 0 /\ crashes = 0

Feed == SocketFails \/ CloseAfterError \/ CandleClosesUnpolled \/ PollFails \/ PollSucceeds

Next ==
  \/ Tick \/ ClosedKline \/ Feed \/ ProcessCandle
  \/ ManualClose \/ Wipe \/ Reset \/ Save \/ Restart

Spec == Init /\ [][Next]_vars

\* The save's timer fires.
FairSpec == Spec /\ WF_vars(Save)

-----------------------------------------------------------------------------

Position == [id : Ids, stop : Levels, peak : Levels, policy : Policies, charged : BOOLEAN]

\* Type invariant.
TypeOK ==
  /\ pos \in Position \cup {NoPosition}
  /\ disk \in [id : Ids, policy : Policies] \cup {Saved(NoPosition)}
  /\ used \in 0..MaxCapital /\ leaked \in 0..MaxRequests
  /\ minute \in 0..MaxCandles /\ processed \in 0..minute /\ seen \in 0..minute
  /\ pending \in 1..minute \cup {NoCandle}
  /\ conn \in {"CONNECTED", "DEGRADED", "RECONNECTING"} /\ {closing, due} \subseteq BOOLEAN
  /\ ledger \in [Ids -> [opened : Nat, closed : Nat, sold : Nat]]
  /\ requests \in 0..MaxRequests /\ crashes \in 0..MaxCrashes

\* A position is closed once, and sold at most once, by whichever of the tick,
\* the candle and the operator comes first, also when processCandle was
\* suspended meanwhile; only a crash before the save brings it back, and only a
\* candle handed over twice opens a second one of the same name.
ClosedOnce ==
  \A i \in Ids : /\ ledger[i].sold <= ledger[i].closed
                 /\ ledger[i].closed <= ledger[i].opened + crashes

\* The capital in use is that of the open position, if this process opened it,
\* and of those a wipe or a reset dropped: every close gives back its own.
CapitalExact ==
  used = leaked + IF pos.charged THEN 1 ELSE 0

\* No position of the TIME policy outlives a processed candle past its limit,
\* whatever candles the feed lost or repeated before.
TimeExitHolds ==
  pos.policy = "TIME" => processed < pos.id + TimeLimit

\* What is on disk follows the position: the same one, or none (the stop saved
\* with it may be older).  Every close and every entry arms the save.
EventuallySaved == []<>(disk.id = pos.id)

\* README.md:140-142, "+0.80R (Break-Even Travado) ... Move SL para +0.30R":
\* once the candle path has locked the break-even, no step lowers the stop.
StopRatchets ==
  [][BreakEvenApplied(pos) /\ pos'.id = pos.id /\ crashes' = crashes => pos'.stop >= pos.stop]_vars
===============================================================================
