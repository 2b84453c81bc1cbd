-------------------------------- MODULE Court --------------------------------
(***************************************************************************)
(* The constitutional court of packages/lyzer-constitution/src/eca: one    *)
(* object, shared by the stream engines of every symbol, that grants or    *)
(* vetoes their orders.  It holds two state machines driven by the ticks   *)
(* of the engines, the meta-observation layer (mol.js) and the stress      *)
(* oracle (c-clist.js), and the ledger (ledger.js), whose near-miss        *)
(* counter feeds back into its verdicts and whose rows are written to      *)
(* SQLite behind its back.                                                 *)
(*                                                                         *)
(* Stress is in units of stressAccumulation; of the two near-miss counters *)
(* only drawdown is modelled, the other being read nowhere.                *)
(***************************************************************************)
EXTENDS Naturals, Sequences, FiniteSets

CONSTANTS
  SclThreshold,     \* coherent ticks an awakening takes
  MinCooldown,      \* ticks of inaction it takes at least
  StressMax, Release, LethalLimit, Recovery,   \* C-CLIST, scaled
  MaxHits,          \* MAX_EDGE_RIDING_HITS (5 in the code)
  Persistent,       \* sqlite3 is available (_db is not null)
  HydrateAtBoot,    \* the process calls loadFromDb when it starts
  RecordTicks,      \* keep the last observation, which only liveness needs
  MaxRequests,      \* bound: requests for permission
  MaxRestarts       \* bound: restarts of the process

ASSUME CourtAssumption ==
  /\ {SclThreshold, MinCooldown, StressMax, Release, LethalLimit, Recovery,
      MaxRequests, MaxRestarts} \subseteq Nat
  /\ Release > 0 /\ Recovery < LethalLimit /\ LethalLimit <= StressMax
  /\ MaxHits \in Nat \ {0} /\ {Persistent, HydrateAtBoot, RecordTicks} \subseteq BOOLEAN

VARIABLES
  warm,       \* stabilizationWindowMs has passed since bootTime
  mol,        \* state, durationOfInaction and structuralCoherenceLock
  stress,     \* stressLevel and inLethalIllusion
  entries,    \* ledger.entries
  hits,       \* edgeRidingCounters.drawdownNearMisses
  unsaved,    \* rows whose INSERT has not run
  table,      \* rows of court_ledger
  loading,    \* loadFromDb: due, read (with the rows of its query) or done
  restarts,   \* restarts so far
  journal,    \* history: every verdict there ever was
  seen        \* history: what the engines observed, see Saw

molVars    == <<warm, mol, stress, seen>>
ledgerVars == <<entries, hits, unsaved, table, journal>>
vars       == <<molVars, ledgerVars, loading, restarts>>

AtMost(a, b)  == IF a <= b THEN a ELSE b
Minus(a, b)   == IF a >= b THEN a - b ELSE 0

-----------------------------------------------------------------------------
(* What an engine observes, and what it asks for.                          *)

\* kernel: the epistemic authority is VETO, or the scale divergence is above
\* 0.7 (incoherent) or not (coherent).  dvf: below dvfFloor or not.  shock: the
\* tail risk geometry is above 2.
Observations ==
  [kernel : {"veto", "incoherent", "coherent"}, dvf : {"flat", "lively"}, shock : BOOLEAN]

\* veto: epistemic_authority VETO, or a confidence or prediction in the request.
\* drawdown: below, above 95% of, or beyond MAX_DAILY_DRAWDOWN.
Drawdowns == {"low", "near", "over"}

\* What the engines send.  An entry is requested only when eef holds, which no
\* veto of the kernel leaves standing; an exit declares ALLOW and eef itself.
\* Neither fills the fields that the size, noise and altcoin checks read.
Request(drawdown) == [veto |-> FALSE, eef |-> TRUE, drawdown |-> drawdown]

-----------------------------------------------------------------------------
(* MetaObservationLayer.                                                   *)

Awake == [state |-> "EXECUTE", doi |-> 0, scl |-> 0]

\* durationOfInaction only matters up to MinCooldown and is counted no further.
NextDoi == AtMost(mol.doi + 1, MinCooldown)

\* Faulty variant: an incoherent tick of the recovery does not reset the lock.
EvaluateStateSticky(o) ==
  IF ~warm THEN [mol EXCEPT !.state = "RECOVERY"]
  ELSE IF o.kernel = "veto" THEN [state |-> "VETO", doi |-> NextDoi, scl |-> 0]
  ELSE IF mol.state = "EXECUTE" THEN mol
  ELSE LET scl == mol.scl + (IF o.kernel = "coherent" THEN 1 ELSE 0)
       IN  IF scl >= SclThreshold /\ NextDoi >= MinCooldown THEN Awake
           ELSE [state |-> "RECOVERY", doi |-> NextDoi, scl |-> AtMost(scl, SclThreshold)]

\* Faulty variant: a tick during the recovery that is not coherent is a veto.
EvaluateStateRelapsing(o) ==
  IF ~warm THEN [mol EXCEPT !.state = "RECOVERY"]
  ELSE IF o.kernel = "veto" \/ mol.state = "RECOVERY"
       THEN [state |-> "VETO", doi |-> NextDoi, scl |-> 0]
  ELSE IF mol.state = "EXECUTE" THEN mol
  ELSE [state |-> "RECOVERY", doi |-> NextDoi, scl |-> AtMost(1, SclThreshold)]

\* Likewise structuralCoherenceLock and SclThreshold.
EvaluateState(o) ==
  IF ~warm THEN [mol EXCEPT !.state = "RECOVERY"]
  ELSE IF o.kernel = "veto" THEN [state |-> "VETO", doi |-> NextDoi, scl |-> 0]
  ELSE IF mol.state = "EXECUTE" THEN mol
  ELSE LET scl == IF o.kernel = "coherent" THEN mol.scl + 1 ELSE 0
       IN  IF scl >= SclThreshold /\ NextDoi >= MinCooldown THEN Awake
           ELSE [state |-> "RECOVERY", doi |-> NextDoi, scl |-> AtMost(scl, SclThreshold)]

\* peekState
CanExecute(m) == warm /\ m.state = "EXECUTE"

-----------------------------------------------------------------------------
(* ContinuousCLIST.                                                        *)

\* Faulty variant: the stress is not clamped.
EvaluateStressUnclamped(o) ==
  LET level == IF o.shock THEN StressMax
               ELSE IF o.dvf = "flat" THEN stress.level + 1
               ELSE Minus(stress.level, Release)
  IN  [level  |-> level,
       lethal |-> level >= LethalLimit \/ (stress.lethal /\ level > Recovery)]

\* Faulty variant: no hysteresis.
EvaluateStressFlapping(o) ==
  LET level == IF o.shock THEN StressMax
               ELSE IF o.dvf = "flat" THEN AtMost(stress.level + 1, StressMax)
               ELSE Minus(stress.level, Release)
  IN  [level |-> level, lethal |-> level >= LethalLimit]

\* Faulty variant: the illusion is never left.
EvaluateStressForGood(o) ==
  LET level == IF o.shock THEN StressMax
               ELSE IF o.dvf = "flat" THEN AtMost(stress.level + 1, StressMax)
               ELSE Minus(stress.level, Release)
  IN  [level |-> level, lethal |-> stress.lethal \/ level >= LethalLimit]

EvaluateStress(o) ==
  LET level == IF o.shock THEN StressMax
               ELSE IF o.dvf = "flat" THEN AtMost(stress.level + 1, StressMax)
               ELSE Minus(stress.level, Release)
  IN  [level  |-> level,
       lethal |-> \/ level >= LethalLimit
                  \/ stress.lethal /\ level > Recovery]

-----------------------------------------------------------------------------
(* The ledger.                                                             *)

IsNearMiss(row) == row.drawdown # "low"

\* _updateEdgeRidingMetrics
Counted(n, row) ==
  IF row.reason \notin {"GRANT", "VETO_EDGE_RIDING"} THEN 0
  ELSE IF IsNearMiss(row) THEN n + 1
  ELSE Minus(n, 1)

\* The counter after a sequence of rows, as loadFromDb recomputes it.
Replay(rows) ==
  LET count[n \in 0..Len(rows)] ==
        IF n = 0 THEN 0 ELSE Counted(count[n - 1], rows[n])
  IN  count[Len(rows)]

\* ORDER BY timestamp.
InOrder(rows) ==
  LET rank(r) == Cardinality({ q \in rows : q.at <= r.at })
  IN  [k \in 1..Cardinality(rows) |-> (CHOOSE r \in rows : rank(r) = k).row]

\* Faulty variant: every veto, for edge riding too, clears the counter.
AppendRecordForgiving(row) ==
  /\ entries' = Append(entries, row)
  /\ hits' = IF row.reason = "GRANT" THEN Counted(hits, row) ELSE 0
  /\ unsaved' = IF Persistent THEN unsaved \cup {[at |-> Len(journal) + 1, row |-> row]}
                ELSE unsaved
  /\ journal' = Append(journal, row)

\* The row is in memory and counted at once; its INSERT runs later.
AppendRecord(row) ==
  /\ entries' = Append(entries, row)
  /\ hits' = Counted(hits, row)
  /\ unsaved' = IF Persistent THEN unsaved \cup {[at |-> Len(journal) + 1, row |-> row]}
                ELSE unsaved
  /\ journal' = Append(journal, row)

-----------------------------------------------------------------------------
(* The court.                                                              *)

\* The early returns of requestPermission and evaluate, in their order.
Verdict(m, s, r) ==
  IF r.veto THEN "VETO"
  ELSE IF ~CanExecute(m) THEN "VETO_MOL"
  ELSE IF s.lethal THEN "VETO_LETHAL_STABILITY_ILLUSION"
  ELSE IF r.drawdown = "over" THEN "VETO_HARD_LIMIT_DRAWDOWN"
  ELSE IF hits >= MaxHits THEN "VETO_EDGE_RIDING"
  ELSE IF ~r.eef THEN "VETO_NO_SURVIVAL_NECESSITY"
  ELSE "GRANT"

-----------------------------------------------------------------------------
(* What was observed since the process started, for the properties: the     *)
(* last observation (with a beat that no two ticks in a row share), whether *)
(* the recovery is over, and how many ticks have relieved the stress since  *)
(* the last shock.                                                          *)

FullRelief == (StressMax - Recovery + Release - 1) \div Release

\* A recovery asks for SclThreshold coherent ticks in a row.
Unharmed == [run |-> 0, over |-> TRUE]

Recovered(h, o) ==
  IF o.kernel = "veto" \/ ~warm THEN [run |-> 0, over |-> FALSE]
  ELSE LET run == IF o.kernel = "coherent" THEN AtMost(h.run + 1, SclThreshold) ELSE 0
       IN  [run |-> IF h.over THEN 0 ELSE run, over |-> h.over \/ run >= SclThreshold]

Calm == [kernel |-> "coherent", dvf |-> "lively", shock |-> FALSE]

NothingSeen ==
  [last |-> Calm, beat |-> FALSE, recovery |-> Unharmed, relief |-> FullRelief]

Saw(o) ==
  [last   |-> IF RecordTicks THEN o ELSE Calm,
   beat   |-> RecordTicks /\ ~seen.beat,
   recovery |-> Recovered(seen.recovery, o),
   relief |-> IF o.shock THEN 0
              ELSE IF o.dvf = "flat" THEN seen.relief
              ELSE AtMost(seen.relief + 1, FullRelief)]

-----------------------------------------------------------------------------
(* Actions.                                                                *)

\* A process starts: the window is 0 or configured, the memory is empty.
Boot ==
  /\ warm' \in BOOLEAN
  /\ mol' = Awake /\ stress' = [level |-> 0, lethal |-> FALSE]
  /\ entries' = <<>> /\ hits' = 0 /\ unsaved' = {}
  /\ loading' = [phase |-> IF HydrateAtBoot THEN "due" ELSE "done", rows |-> <<>>]
  /\ seen' = NothingSeen

Init ==
  /\ warm \in BOOLEAN
  /\ mol = Awake /\ stress = [level |-> 0, lethal |-> FALSE]
  /\ entries = <<>> /\ hits = 0 /\ unsaved = {}
  /\ loading = [phase |-> IF HydrateAtBoot THEN "due" ELSE "done", rows |-> <<>>]
  /\ seen = NothingSeen
  /\ table = {} /\ restarts = 0 /\ journal = <<>>

\* The stabilization window passes.
Stabilize ==
  /\ ~warm
  /\ warm' = TRUE
  /\ UNCHANGED <<mol, stress, seen, ledgerVars, loading, restarts>>

\* observeState: both machines advance on the tick of any engine.
ObserveState(o) ==
  /\ stress' = EvaluateStress(o)
  /\ mol' = EvaluateState(o)
  /\ seen' = Saw(o)
  /\ UNCHANGED warm

\* requestPermission, given the states it peeks at.
RequestPermission(m, st, r) ==
  /\ Len(journal) < MaxRequests
  /\ AppendRecord([reason |-> Verdict(m, st, r), drawdown |-> r.drawdown])
  /\ UNCHANGED table

\* A tick of an engine that asks for nothing.
Tick(o) ==
  /\ ObserveState(o)
  /\ UNCHANGED <<ledgerVars, loading, restarts>>

\* A tick that opens a position: no await lies between observation and request.
Entry(o, drawdown) ==
  /\ o.kernel # "veto"
  /\ ObserveState(o)
  /\ RequestPermission(mol', stress', Request(drawdown))
  /\ UNCHANGED <<loading, restarts>>

\* An exit is requested between ticks.
Exit(drawdown) ==
  /\ RequestPermission(mol, stress, Request(drawdown))
  /\ UNCHANGED <<molVars, loading, restarts>>

\* The INSERTs run on a thread pool, in any order; an error is only logged.
SaveRow(row) ==
  /\ row \in unsaved
  /\ unsaved' = unsaved \ {row}
  /\ table' \in {table, table \cup {row}}
  /\ UNCHANGED <<molVars, entries, hits, journal, loading, restarts>>

\* loadFromDb: the query, and later its callback.
LoadQuery ==
  /\ loading.phase = "due"
  /\ loading' = [phase |-> "read", rows |-> InOrder(table)]
  /\ UNCHANGED <<molVars, ledgerVars, restarts>>

\* Faulty variant: the counters are not reset before the rows are counted.
ProcessRowsOnTop ==
  /\ loading.phase = "read"
  /\ entries' = loading.rows
  /\ hits' = hits + Replay(loading.rows)
  /\ loading' = [phase |-> "done", rows |-> <<>>]
  /\ UNCHANGED <<molVars, unsaved, table, journal, restarts>>

ProcessRows ==
  /\ loading.phase = "read"
  /\ entries' = loading.rows
  /\ hits' = Replay(loading.rows)
  /\ loading' = [phase |-> "done", rows |-> <<>>]
  /\ UNCHANGED <<molVars, unsaved, table, journal, restarts>>

\* The process dies, with the rows not saved yet, and starts again.
Restart ==
  /\ restarts < MaxRestarts
  /\ restarts' = restarts + 1
  /\ Boot
  /\ UNCHANGED <<table, journal>>

Observe == \E o \in Observations : Tick(o)

Next ==
  \/ Stabilize
  \/ Observe
  \/ \E o \in Observations, d \in Drawdowns : Entry(o, d)
  \/ \E d \in Drawdowns : Exit(d)
  \/ \E row \in unsaved : SaveRow(row)
  \/ LoadQuery \/ ProcessRows
  \/ Restart

Spec == Init /\ [][Next]_vars

\* Time passes and the feeds deliver candles; nothing else need happen.
FairSpec == Spec /\ WF_vars(Stabilize) /\ WF_vars(Observe)

-----------------------------------------------------------------------------

Reasons ==
  {"VETO", "VETO_MOL", "VETO_LETHAL_STABILITY_ILLUSION", "VETO_HARD_LIMIT_DRAWDOWN",
   "VETO_EDGE_RIDING", "VETO_NO_SURVIVAL_NECESSITY", "GRANT"}

Rows == [reason : Reasons, drawdown : Drawdowns]

SavedRows == [at : Nat \ {0}, row : Rows]

\* The variables have their types; in particular the stress stays in its range.
TypeOK ==
  /\ warm \in BOOLEAN
  /\ mol \in [state : {"EXECUTE", "VETO", "RECOVERY"}, doi : 0..MinCooldown,
               scl : 0..SclThreshold]
  /\ stress \in [level : 0..StressMax, lethal : BOOLEAN]
  /\ entries \in Seq(Rows) /\ hits \in Nat
  /\ unsaved \subseteq SavedRows /\ table \subseteq SavedRows
  /\ loading \in [phase : {"due", "read", "done"}, rows : Seq(Rows)]
  /\ restarts \in 0..MaxRestarts /\ journal \in Seq(Rows)

\* A step grants an order.
Grants == journal' # journal /\ journal'[Len(journal')].reason = "GRANT"

\* After a tick vetoed by the kernel, or taken during the warm-up, nothing is
\* granted before as many coherent ticks in a row as the threshold says have
\* been observed: mol.js against what requestPermission peeks at.
GrantAfterRecovery == [][Grants => seen'.recovery.over]_vars

\* After a shock nothing is granted before enough ticks have released the
\* stress down to the recovery threshold: the hysteresis of c-clist.js.
GrantAfterRelief == [][Grants => seen'.relief = FullRelief]_vars

\* In a stretch of verdicts without a veto of another kind, near misses are
\* granted at most MaxHits times more than the other requests earned back:
\* the limit of constraintEngine.js, whatever the locked-out engine asks next.
EdgeRidingBound ==
  \A i, j \in DOMAIN journal :
    LET granted == { k \in i..j : journal[k].reason = "GRANT" /\ IsNearMiss(journal[k]) }
        earned  == { k \in i..j : ~IsNearMiss(journal[k]) }
    IN  (\A k \in i..j : journal[k].reason \in {"GRANT", "VETO_EDGE_RIDING"})
          => Cardinality(granted) <= MaxHits + Cardinality(earned)

\* The counter the court reads is the one its ledger's entries imply, also when
\* entries and counter are rebuilt behind the court's back.
CountersAreReplay == hits = Replay(entries)

\* When the kernel stays coherent the court wakes up and stays awake.
EventuallyAwake ==
  <>[](seen.last.kernel = "coherent") => <>[]CanExecute(mol)

\* When the market stays lively and without shocks the illusion is over.
EventuallyReleased ==
  <>[](seen.last.dvf = "lively" /\ ~seen.last.shock) => <>[]~stress.lethal

=============================================================================
