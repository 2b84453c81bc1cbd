--------------------------- MODULE ExperimentStore ---------------------------
(***************************************************************************)
(* Where closed trades are kept (backend/server.js, experimentManager.js,  *)
(* db.js): each engine's tradeHistory in memory, engine_state.json, and    *)
(* the rows of experiment_trades, which belong to an experiment.  A        *)
(* debounced timer saves the file and copies the histories into the ACTIVE *)
(* experiment; a freeze request turns it LEGACY, opens a new one and       *)
(* empties the histories.  Every database call is awaited and may fail,    *)
(* and any other task may run meanwhile.                                   *)
(*                                                                         *)
(* Experiment n is EXP-00n.  A trade is its number, so that the first of   *)
(* an array is the least; otherwise the order of an array is not kept.     *)
(***************************************************************************)
EXTENDS Naturals, Sequences, FiniteSets, FiniteSetsExt

CONSTANTS
  LastEngine,   \* the fleet is 1..LastEngine, in the order of the sync
  Requests,     \* freeze and wipe requests that may be in flight at once
  Kinds,        \* subset of {"freeze", "wipe"}
  Beside,       \* subset of {"promote", "reset", "retention"}
  Updates,      \* statuses the operator sets by update-status
  HistoryCap,   \* trades an engine keeps when a tick closes one (500)
  MaxTrades,    \* bound: trades closed
  MaxFreezes,   \* bound: freeze and wipe requests
  MaxMoves,     \* bound: experiments whose status the operator sets
  MaxFaults,    \* bound: database calls that fail, and rows that expire
  MaxCrashes    \* bound: crashes of the process

\* updateStatus knows these, and getActiveExperiment only the first.
Statuses == {"ACTIVE", "VALIDATING", "CHAMPION", "LEGACY", "ARCHIVED", "REJECTED"}

ASSUME ExperimentAssumption ==
  /\ {LastEngine, HistoryCap, MaxTrades, MaxFreezes, MaxMoves, MaxFaults, MaxCrashes} \subseteq Nat
  /\ LastEngine > 0
  /\ Kinds \subseteq {"freeze", "wipe"} /\ Updates \subseteq Statuses
  /\ Beside \subseteq {"promote", "reset", "retention"}

VARIABLES
  exps,      \* rows of experiments: the sequence of their statuses
  snaps,     \* experiments with a row in experiment_snapshots
  rows,      \* rows of experiment_trades: the experiment of each trade, or 0
  history,   \* [Engines -> tradeHistory]
  file,      \* [Engines -> tradeHistory in engine_state.json]
  timer,     \* saveStateTimeout is armed
  again,     \* pendingTradeSync
  sync,      \* the copy under way (isSyncingTrades)
  reqs,      \* [Requests -> where the request stands]
  next,      \* number of the next trade
  moved,     \* history: experiments whose status an operator has set
  abandoned, \* history: experiments frozen by a call that opened no other
  exposed,   \* history: trades that met one of the ways to be lost
  skipped,   \* history: trades not copied, or expired, since the last sync began
  freezes, crashes, faults

expVars == <<exps, snaps>>
memVars == <<history, file, timer, again, sync>>
marks   == <<moved, abandoned>>
aside   == <<skipped, faults>>
vars == <<expVars, rows, memVars, reqs, next, marks, exposed, aside, freezes, crashes>>

Engines == 1..LastEngine
Trades  == 1..MaxTrades
None    == 0
Remembered == UNION { history[e] : e \in Engines }
Active == { n \in DOMAIN exps : exps[n] = "ACTIVE" }

\* getActiveExperiment: the latest of them.
LatestActive == IF Active = {} THEN None ELSE Max(Active)

Unstored(S) == { t \in S : rows[t] = None }

\* A call that has frozen its experiment and has not opened the next.
Between == { f \in Requests : reqs[f].at \in {"nextId", "create"} }
Replaced == { reqs[f].exp : f \in Between }

\* live: the array iterated is still the engine's own.
NoSync == [at |-> "idle", exp |-> None, engine |-> 1, todo |-> {}, live |-> FALSE]
NoRequest == [at |-> "idle", kind |-> "freeze", exp |-> None, new |-> None, todo |-> {}]

-----------------------------------------------------------------------------
(* Trades, the timer and the sync.                                         *)

\* Pushed and announced in one turn; a sync that iterates the array meets it,
\* but misses another trade when the array loses its first and moves up.
Push(e, dropped) ==
  /\ next <= MaxTrades /\ next' = next + 1
  /\ history' = [history EXCEPT ![e] = (@ \cup {next}) \ dropped]
  /\ timer' = TRUE
  /\ IF sync.live /\ sync.engine = e
     THEN \E missed \in SUBSET (sync.todo \cup {next}) :
            /\ Cardinality(missed) = Cardinality(dropped)
            /\ sync' = [sync EXCEPT !.todo = (@ \cup {next}) \ missed]
     ELSE UNCHANGED sync
  /\ exposed' = exposed \cup Unstored(dropped)
       \cup IF \A f \in Requests : reqs[f].at = "idle" THEN {} ELSE {next}
  /\ UNCHANGED <<expVars, rows, file, again, reqs, marks, aside, freezes, crashes>>

\* By a candle, a manual close or a test order.
CloseTrade(e) == Push(e, {})

\* What the shift() after the push removes.
Overflow(e) ==
  { t \in history[e] \cup {next} :
      Cardinality(history[e]) >= HistoryCap /\ \A u \in history[e] \cup {next} : t <= u }

\* By the tick guard, which alone keeps to the cap.
CloseOnTick(e) == Overflow(e) # {} /\ Push(e, Overflow(e))

\* Faulty variant: a timer that fires during a sync is forgotten.
TimerForgotten ==
  /\ timer /\ timer' = FALSE
  /\ file' = history
  /\ sync' = IF sync.at = "idle" THEN [NoSync EXCEPT !.at = "read"] ELSE sync
  /\ skipped' = IF sync.at = "idle" THEN {} ELSE skipped
  /\ UNCHANGED <<expVars, rows, history, again, reqs, next, marks, exposed, freezes, crashes, faults>>

TimerFires ==
  /\ timer /\ timer' = FALSE
  /\ file' = history
  /\ IF sync.at = "idle"
     THEN sync' = [NoSync EXCEPT !.at = "read"] /\ skipped' = {} /\ UNCHANGED again
     ELSE again' = TRUE /\ UNCHANGED <<sync, skipped>>
  /\ UNCHANGED <<expVars, rows, history, reqs, next, marks, exposed, freezes, crashes, faults>>

SyncEngine(e, exp) ==
  sync' = [at |-> "insert", exp |-> exp, engine |-> e, todo |-> history[e], live |-> TRUE]

\* Faulty variant: pendingTradeSync is not reset.
SyncEndsPending ==
  /\ sync' = NoSync /\ UNCHANGED again
  /\ timer' = (timer \/ again)

SyncEnds ==
  /\ sync' = NoSync /\ again' = FALSE
  /\ timer' = (timer \/ again)

\* Without an ACTIVE experiment nothing is copied.
SyncReads ==
  /\ sync.at = "read"
  /\ IF LatestActive = None THEN SyncEnds /\ skipped' = skipped \cup Remembered
     ELSE SyncEngine(1, LatestActive) /\ UNCHANGED <<again, timer, skipped>>
  /\ UNCHANGED <<expVars, rows, history, file, reqs, next, marks, exposed, freezes, crashes, faults>>

\* The upsert moves a row that exists to the experiment given.
SyncInserts ==
  /\ sync.at = "insert"
  /\ \E t \in sync.todo : /\ rows' = [rows EXCEPT ![t] = sync.exp]
                          /\ sync' = [sync EXCEPT !.todo = @ \ {t}]
  /\ UNCHANGED <<expVars, history, file, timer, again, reqs, next, marks, exposed, aside, freezes, crashes>>

\* An error of the first read ends the sync, one of an insert is ignored: the
\* trade waits for a sync that something else announces.
SyncFails ==
  /\ faults < MaxFaults /\ faults' = faults + 1
  /\ \/ sync.at = "read" /\ SyncEnds /\ skipped' = skipped \cup Remembered
     \/ /\ sync.at = "insert" /\ UNCHANGED <<timer, again>>
        /\ \E t \in sync.todo : /\ sync' = [sync EXCEPT !.todo = @ \ {t}]
                                /\ skipped' = skipped \cup {t}
  /\ UNCHANGED <<expVars, rows, history, file, reqs, next, marks, exposed, freezes, crashes>>

SyncGoesOn ==
  /\ sync.at = "insert" /\ sync.todo = {}
  /\ IF sync.engine = LastEngine THEN SyncEnds
     ELSE SyncEngine(sync.engine + 1, sync.exp) /\ UNCHANGED <<again, timer>>
  /\ UNCHANGED <<expVars, rows, history, file, reqs, next, marks, exposed, aside, freezes, crashes>>

-----------------------------------------------------------------------------
(* /api/experiments/freeze-and-new and /api/trades/wipe, around            *)
(* freezeAndCreateNew.                                                     *)

\* Faulty variant: the request forgets to gather the trades in memory.
StartFreezeEmptyHanded(f) ==
  /\ reqs[f].at = "idle" /\ freezes < MaxFreezes /\ freezes' = freezes + 1
  /\ \E kind \in Kinds :
       reqs' = [reqs EXCEPT ![f] = [NoRequest EXCEPT !.at = "active", !.kind = kind]]
  /\ UNCHANGED <<expVars, rows, memVars, next, marks, exposed, aside, crashes>>

\* A freeze gathers the trades in memory, a wipe does not.
StartFreeze(f) ==
  /\ reqs[f].at = "idle" /\ freezes < MaxFreezes /\ freezes' = freezes + 1
  /\ \E kind \in Kinds :
       reqs' = [reqs EXCEPT ![f] = [NoRequest EXCEPT
         !.at = "active", !.kind = kind, !.todo = IF kind = "freeze" THEN Remembered ELSE {}]]
  /\ UNCHANGED <<expVars, rows, memVars, next, marks, exposed, aside, crashes>>

ReadActive(f) ==
  /\ reqs[f].at = "active"
  /\ reqs' = [reqs EXCEPT ![f] = IF LatestActive = None THEN NoRequest
                                 ELSE [@ EXCEPT !.at = "snapshot", !.exp = LatestActive]]
  /\ UNCHANGED <<expVars, rows, memVars, next, marks, exposed, aside, freezes, crashes>>

\* Metrics of the stored trades, the market's snapshot, INSERT OR REPLACE.
WriteSnapshot(f) ==
  /\ reqs[f].at = "snapshot"
  /\ snaps' = snaps \cup {reqs[f].exp}
  /\ reqs' = [reqs EXCEPT ![f].at = "freeze"]
  /\ UNCHANGED <<exps, rows, memVars, next, marks, exposed, aside, freezes, crashes>>

\* Faulty variant: the row is not updated.
FreezeNothing(f) ==
  /\ reqs[f].at = "freeze"
  /\ reqs' = [reqs EXCEPT ![f].at = "nextId"]
  /\ UNCHANGED <<expVars, rows, memVars, next, marks, exposed, aside, freezes, crashes>>

\* UPDATE ... WHERE status = 'ACTIVE'; how many rows changed is not looked at.
FreezeRow(f) ==
  /\ reqs[f].at = "freeze"
  /\ exps' = [exps EXCEPT ![reqs[f].exp] = IF @ = "ACTIVE" THEN "LEGACY" ELSE @]
  /\ reqs' = [reqs EXCEPT ![f].at = "nextId"]
  /\ UNCHANGED <<snaps, rows, memVars, next, marks, exposed, aside, freezes, crashes>>

ReadNextId(f) ==
  /\ reqs[f].at = "nextId"
  /\ reqs' = [reqs EXCEPT ![f].at = "create", ![f].new = Len(exps) + 1]
  /\ UNCHANGED <<expVars, rows, memVars, next, marks, exposed, aside, freezes, crashes>>

\* experiment_id is UNIQUE: who comes second with the same number fails.
Create(f) ==
  /\ reqs[f].at = "create"
  /\ IF reqs[f].new <= Len(exps)
     THEN /\ reqs' = [reqs EXCEPT ![f] = NoRequest]
          /\ abandoned' = abandoned \cup {reqs[f].exp} /\ UNCHANGED exps
     ELSE /\ exps' = Append(exps, "ACTIVE")
          /\ reqs' = [reqs EXCEPT ![f].at = "store"] /\ UNCHANGED abandoned
  /\ UNCHANGED <<snaps, rows, memVars, next, moved, exposed, aside, freezes, crashes>>

\* Any other error before the new experiment is there ends the request in the
\* catch of its route; what was done stays done.
CallFails(f) ==
  /\ reqs[f].at \in {"active", "snapshot", "freeze", "nextId", "create"}
  /\ faults < MaxFaults /\ faults' = faults + 1
  /\ reqs' = [reqs EXCEPT ![f] = NoRequest]
  /\ abandoned' = abandoned \cup IF f \in Between THEN {reqs[f].exp} ELSE {}
  /\ UNCHANGED <<expVars, rows, memVars, next, moved, exposed, skipped, freezes, crashes>>

StoreGathered(f) ==
  /\ reqs[f].at = "store"
  /\ \E t \in reqs[f].todo : /\ rows' = [rows EXCEPT ![t] = reqs[f].exp]
                             /\ reqs' = [reqs EXCEPT ![f].todo = @ \ {t}]
  /\ UNCHANGED <<expVars, memVars, next, marks, exposed, aside, freezes, crashes>>

\* The error of one insert is recorded and the request goes on to the next.
StoreFails(f) ==
  /\ reqs[f].at = "store" /\ faults < MaxFaults /\ faults' = faults + 1
  /\ \E t \in reqs[f].todo : /\ exposed' = exposed \cup Unstored({t})
                             /\ reqs' = [reqs EXCEPT ![f].todo = @ \ {t}]
  /\ UNCHANGED <<expVars, rows, memVars, next, marks, skipped, freezes, crashes>>

\* Every history is a new, empty array; a sync goes on with the old one.
Emptied ==
  /\ history' = [e \in Engines |-> {}] /\ file' = history'
  /\ sync' = [sync EXCEPT !.live = FALSE]

EmptyHistories(f) ==
  /\ reqs[f].at = "store" /\ reqs[f].todo = {}
  /\ reqs' = [reqs EXCEPT ![f] = NoRequest]
  /\ Emptied /\ timer' = TRUE
  /\ exposed' = exposed \cup IF reqs[f].kind = "wipe" THEN Unstored(Remembered) ELSE {}
  /\ UNCHANGED <<expVars, rows, again, next, marks, aside, freezes, crashes>>

-----------------------------------------------------------------------------
(* Other routes, housekeeping and the boot.                                *)

\* promoteChampion, of any experiment with a snapshot.
Promote(n) ==
  /\ "promote" \in Beside /\ n \in snaps
  /\ exps' = [exps EXCEPT ![n] = "CHAMPION"]
  /\ moved' = moved \cup {n} /\ Cardinality(moved') <= MaxMoves
  /\ UNCHANGED <<snaps, rows, memVars, reqs, next, abandoned, exposed, aside, freezes, crashes>>

\* /api/experiments/update-status, which looks at no other experiment.
UpdateStatus(n) ==
  /\ \E status \in Updates : exps' = [exps EXCEPT ![n] = status]
  /\ moved' = moved \cup {n} /\ Cardinality(moved') <= MaxMoves
  /\ UNCHANGED <<snaps, rows, memVars, reqs, next, abandoned, exposed, aside, freezes, crashes>>

\* /api/reset-engine: memory and file, without a sync.
Reset ==
  /\ "reset" \in Beside
  /\ Emptied /\ exposed' = exposed \cup Unstored(Remembered)
  /\ UNCHANGED <<expVars, rows, timer, again, reqs, next, marks, aside, freezes, crashes>>

\* The periodic clean-up deletes rows of 60 days, here of any age.
RowExpires(t) ==
  /\ "retention" \in Beside /\ rows[t] # None
  /\ faults < MaxFaults /\ faults' = faults + 1
  /\ rows' = [rows EXCEPT ![t] = None]
  /\ exposed' = exposed \cup {t} /\ skipped' = skipped \cup {t}
  /\ UNCHANGED <<expVars, memVars, reqs, next, marks, freezes, crashes>>

\* initialize opens an experiment where none is ACTIVE; its failure is logged.
Boot ==
  \/ /\ Active = {} /\ exps' = Append(exps, "ACTIVE")
     /\ UNCHANGED <<abandoned, faults>>
  \/ /\ IF Active # {} THEN UNCHANGED faults
        ELSE faults < MaxFaults /\ faults' = faults + 1
     /\ abandoned' = abandoned \cup Replaced /\ UNCHANGED exps

\* The histories come from the file, torn if it was being written.
Restart ==
  /\ crashes < MaxCrashes /\ crashes' = crashes + 1
  /\ history' \in {file} \cup IF timer THEN {[e \in Engines |-> {}]} ELSE {}
  /\ exposed' = exposed \cup IF timer THEN Remembered ELSE {}
  /\ file' = history' /\ timer' = FALSE /\ again' = FALSE /\ sync' = NoSync
  /\ reqs' = [f \in Requests |-> NoRequest]
  /\ skipped' = {}
  /\ Boot
  /\ UNCHANGED <<snaps, rows, next, moved, freezes>>

Init ==
  /\ exps = <<"ACTIVE">> /\ snaps = {} /\ rows = [t \in Trades |-> None]
  /\ history = [e \in Engines |-> {}] /\ file = history
  /\ timer = FALSE /\ again = FALSE /\ sync = NoSync
  /\ reqs = [f \in Requests |-> NoRequest]
  /\ next = 1 /\ moved = {} /\ abandoned = {} /\ exposed = {} /\ skipped = {}
  /\ freezes = 0 /\ crashes = 0 /\ faults = 0

Syncing == SyncReads \/ SyncInserts \/ SyncGoesOn

Freezing(f) ==
  \/ ReadActive(f) \/ WriteSnapshot(f) \/ FreezeRow(f) \/ ReadNextId(f)
  \/ Create(f) \/ StoreGathered(f) \/ EmptyHistories(f)

Next ==
  \/ \E e \in Engines : CloseTrade(e) \/ CloseOnTick(e)
  \/ TimerFires \/ Syncing \/ SyncFails \/ Reset \/ Restart
  \/ \E f \in Requests : StartFreeze(f) \/ Freezing(f) \/ CallFails(f) \/ StoreFails(f)
  \/ \E n \in DOMAIN exps : Promote(n) \/ UpdateStatus(n)
  \/ \E t \in Trades : RowExpires(t)

Spec == Init /\ [][Next]_vars

\* Timers fire and SQLite answers, with a result but for MaxFaults times.
FairSpec ==
  /\ Spec /\ WF_vars(TimerFires) /\ WF_vars(Syncing)
  /\ \A f \in Requests : WF_vars(Freezing(f))

-----------------------------------------------------------------------------

Sync == [at : {"idle", "read", "insert"}, exp : 0..(MaxFreezes + MaxCrashes + 1),
         engine : Engines, todo : SUBSET Trades, live : BOOLEAN]
Req  == [at : {"idle", "active", "snapshot", "freeze", "nextId", "create", "store"},
         kind : {"freeze", "wipe"}, exp : Nat, new : Nat, todo : SUBSET Trades]

\* Type invariant: rows, snapshots and calls under way name experiments that
\* exist; only a call that has not created its own looks one ahead.
TypeOK ==
  /\ exps \in Seq(Statuses) /\ snaps \cup moved \cup abandoned \subseteq DOMAIN exps
  /\ rows \in [Trades -> 0..Len(exps)]
  /\ {history, file} \subseteq [Engines -> SUBSET Trades]
  /\ {timer, again} \subseteq BOOLEAN /\ sync \in Sync /\ sync.exp <= Len(exps)
  /\ again => sync.at # "idle"
  /\ reqs \in [Requests -> Req]
  /\ \A f \in Requests : reqs[f].exp <= Len(exps) /\ reqs[f].new <= Len(exps) + 1
  /\ next \in 1..(MaxTrades + 1) /\ exposed \cup skipped \subseteq Trades
  /\ freezes \in 0..MaxFreezes /\ crashes \in 0..MaxCrashes /\ faults \in 0..MaxFaults

\* The latest experiment is the ACTIVE one, and the only one, but for those
\* whose status an operator has set (promote-champion, update-status) and for a
\* freeze that ends between its UPDATE and its INSERT: by an error, which
\* nothing repairs before the next boot, or by a crash, which the boot repairs
\* where no experiment is ACTIVE and the database answers.
OneActive ==
  /\ Active \subseteq moved \cup {Len(exps)}
  /\ Len(exps) \in Active \cup moved \cup abandoned \cup Replaced

\* A closed trade is in memory, stored, or in the hands of a freeze that will
\* store it, unless it met one of the ways to be lost: it closed while a request
\* was under way; the insert of a freeze failed; it left memory unstored by a
\* wipe, a reset or the cap of its history; the process died before the save
\* was due; or its row has expired.
TradesAccounted ==
  \A t \in 1..(next - 1) :
    \/ t \in Remembered \cup exposed \/ rows[t] # None
    \/ \E f \in Requests : t \in reqs[f].todo

\* A trade in memory is copied into the database at last, whatever syncs were
\* under way when it closed, unless memory is emptied, the process dies (what
\* it reads back is not copied by itself), or the last sync has skipped it: it
\* found no ACTIVE experiment, an insert failed, or the row has expired since.
\* Then the next one must.
EventuallySynced ==
  \A t \in Trades :
    (t \in Remembered /\ crashes = 0)
      ~> (rows[t] # None \/ t \notin Remembered \/ crashes > 0 \/ t \in skipped)

\* server.js:402, "All trade history must be preserved for quantitative
\* research": without a crash, a closed trade is in memory or stored.
TradesPreserved ==
  crashes = 0 => \A t \in 1..(next - 1) : t \in Remembered \/ rows[t] # None
===============================================================================
