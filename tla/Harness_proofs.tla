----------------------------- MODULE Harness_proofs -----------------------------
(***************************************************************************)
(* The orchestrator leaves nothing behind, measures the pool it means to,  *)
(* and vouches with exit code 0 for what it has measured, for any list of  *)
(* pools, any plan and however it ends.                                    *)
(***************************************************************************)
EXTENDS Harness, FiniteSetTheorems, TLAPS

Within == {"prime", "enter", "image", "start", "ready", "enterFailed", "measure", "exit", "caught"}
InSession == Within \cup {"up", "remove"}
Over == {"return", "raised", "ended"}

NothingUp == bitcoind = FALSE /\ container = None /\ scratch = 0

(* A session holds one scratch directory, whose teardown is the only way   *)
(* out of the session; between two sessions nothing is up.                 *)
CleanInv ==
    /\ phase \in {"dispatch", "setup"} \cup InSession \cup Over
    /\ phase = "dispatch" => cleanup = "none"
    /\ phase \in InSession \cup {"return"} => cleanup = "due"
    /\ phase = "setup" => cleanup \in {"none", "due"}
    /\ ~keep /\ phase \in {"dispatch", "setup"} => scratch = 0
    /\ ~keep /\ phase \in InSession => scratch = 1
    /\ ~keep /\ cleanup = "due" /\ phase \in {"setup"} \cup Over => NothingUp

(* Within a session bitcoind is up; the name is free until the pool of the *)
(* unit takes it.                                                          *)
PoolInv ==
    /\ ~conflicts
    /\ phase \in Within => bitcoind = TRUE
    /\ phase \in {"image", "start"} => container = None
    /\ phase \in {"ready", "measure"} => container = pool

IInv == CleanInv /\ PoolInv

LEMMA InitIInv == Init => IInv
  BY Zenon DEF Init, IInv, CleanInv, PoolInv, Within, InSession, Over

(* The steps within a session neither leave it nor touch its directory or  *)
(* bitcoind.                                                               *)
MeasureStep ==
    BenchWindow \/ SweepPoint \/ HoldConnections \/ FindCeiling \/ TimeBlocks \/ Validate
    \/ AuditWork

WithinStep ==
    Enter \/ ObtainImage \/ Start \/ BecomesReady \/ EnterFails \/ CleanUpEnter \/ MeasureStep
    \/ MeasureFails \/ Measured \/ Exit \/ NextUnit \/ Propagate

LEMMA MeasureStays ==
    ASSUME MeasureStep
    PROVE  /\ phase = "measure"
           /\ UNCHANGED <<phase, unit, dockerVars, programVars, historyVars>>
  BY DEF MeasureStep, BenchWindow, SweepPoint, HoldConnections, FindCeiling, TimeBlocks, Validate,
         AuditWork, Measuring

LEMMA SessionGoesOn ==
    ASSUME WithinStep
    PROVE  /\ phase \in Within /\ phase' \in Within \cup {"remove"}
           /\ UNCHANGED <<bitcoind, scratch, keep, cleanup>>
<1> USE DEF Within, programVars, historyVars, dockerVars
<1>1. CASE Enter
  BY <1>1 DEF Enter
<1>2. CASE ObtainImage
  BY <1>2 DEF ObtainImage
<1>3. CASE Start
  BY <1>3 DEF Start
<1>4. CASE BecomesReady
  BY <1>4 DEF BecomesReady
<1>5. CASE EnterFails
  BY <1>5 DEF EnterFails
<1>6. CASE CleanUpEnter
  BY <1>6 DEF CleanUpEnter
<1>7. CASE MeasureStep
  BY <1>7, MeasureStays
<1>8. CASE MeasureFails
  BY <1>8 DEF MeasureFails
<1>9. CASE Measured
  BY <1>9 DEF Measured
<1>10. CASE Exit
  BY <1>10 DEF Exit
<1>11. CASE NextUnit
  BY <1>11 DEF NextUnit
<1>12. CASE Propagate
  BY <1>12 DEF Propagate
<1> QED
  BY <1>1, <1>2, <1>3, <1>4, <1>5, <1>6, <1>7, <1>8, <1>9, <1>10, <1>11, <1>12 DEF WithinStep

(* The steps of a session's start and end, and outside of one. *)
OuterStep ==
    Refuse \/ Dispatch \/ UpOrDown \/ NoCoresLeft \/ MakeScratch \/ BackendUp \/ PrimeChain
    \/ SessionFails \/ TearDown \/ TearDownInterrupted \/ Return \/ PersistFails \/ Raise

LEMMA NextClean == CleanInv /\ [Next]_vars => CleanInv'
<1> SUFFICES ASSUME CleanInv, [Next]_vars PROVE CleanInv'
  OBVIOUS
<1> USE DEF CleanInv, NothingUp, Within, InSession, Over, programVars, historyVars, dockerVars
<1>1. CASE WithinStep
  BY <1>1, SessionGoesOn
<1>2. CASE Refuse
  BY <1>2 DEF Refuse
<1>3. CASE Dispatch
  BY <1>3 DEF Dispatch
<1>4. CASE UpOrDown
  BY <1>4 DEF UpOrDown
<1>5. CASE NoCoresLeft
  BY <1>5 DEF NoCoresLeft
<1>6. CASE MakeScratch
  BY <1>6 DEF MakeScratch
<1>7. CASE BackendUp \/ PrimeChain \/ SessionFails
  BY <1>7 DEF BackendUp, PrimeChain, SessionFails
<1>8. CASE TearDown
  BY <1>8 DEF TearDown
<1>9. CASE TearDownInterrupted
  BY <1>9 DEF TearDownInterrupted
<1>10. CASE Return
  <2>1. /\ phase = "return" /\ phase' \in {"setup", "ended"}
        /\ UNCHANGED <<bitcoind, container, scratch, keep, cleanup>>
    BY <1>10 DEF Return
  <2> QED
    BY <2>1
<1>11. CASE PersistFails \/ Raise
  BY <1>11 DEF PersistFails, Raise
<1>12. CASE UNCHANGED vars
  BY <1>12 DEF vars
<1> QED
  BY <1>1, <1>2, <1>3, <1>4, <1>5, <1>6, <1>7, <1>8, <1>9, <1>10, <1>11, <1>12
  DEF Next, WithinStep, MeasureStep

(* `pool` changes only where the unit or the job does. *)
LEMMA SamePool ==
    ASSUME UNCHANGED <<unit, programVars>>
    PROVE  pool' = pool
  BY DEF programVars, pool, Units, cmd

LEMMA NextPool == PoolInv /\ [Next]_vars => PoolInv'
<1> SUFFICES ASSUME PoolInv, [Next]_vars PROVE PoolInv'
  OBVIOUS
<1> USE DEF PoolInv, Within, dockerVars, historyVars
<1>1. CASE Enter \/ ObtainImage
  BY <1>1 DEF Enter, ObtainImage
<1>2. CASE Start
  <2>1. pool' = pool
    BY <1>2, SamePool DEF Start, unitVars
  <2> QED
    BY <1>2, <2>1 DEF Start
<1>3. CASE BecomesReady
  BY <1>3, SamePool DEF BecomesReady, unitVars
<1>4. CASE EnterFails \/ CleanUpEnter
  BY <1>4 DEF EnterFails, CleanUpEnter
<1>5. CASE MeasureStep
  BY <1>5, MeasureStays, SamePool
<1>6. CASE MeasureFails \/ Measured \/ Exit
  BY <1>6 DEF MeasureFails, Measured, Exit
<1>7. CASE NextUnit \/ Propagate
  BY <1>7 DEF NextUnit, Propagate
<1>8. CASE OuterStep
  <2>1. phase' \notin Within \/ phase' = "prime" \/ (phase = "prime" /\ phase' = "enter")
    BY <1>8 DEF OuterStep, Refuse, Dispatch, UpOrDown, NoCoresLeft, MakeScratch, BackendUp,
                PrimeChain, SessionFails, TearDown, TearDownInterrupted, Return, PersistFails, Raise
  <2>2. UNCHANGED conflicts
    BY <1>8 DEF OuterStep, Refuse, Dispatch, UpOrDown, NoCoresLeft, MakeScratch, BackendUp,
                PrimeChain, SessionFails, TearDown, TearDownInterrupted, Return, PersistFails, Raise
  <2>3. phase' \in Within => bitcoind' = TRUE
    BY <1>8 DEF OuterStep, Refuse, Dispatch, UpOrDown, NoCoresLeft, MakeScratch, BackendUp,
                PrimeChain, SessionFails, TearDown, TearDownInterrupted, Return, PersistFails, Raise
  <2> QED
    BY <2>1, <2>2, <2>3
<1>9. CASE UNCHANGED vars
  BY <1>9, SamePool DEF vars, unitVars
<1> QED
  BY <1>1, <1>2, <1>3, <1>4, <1>5, <1>6, <1>7, <1>8, <1>9 DEF Next, OuterStep, MeasureStep

LEMMA IInvCorrect == Spec => []IInv
<1>1. IInv /\ [Next]_vars => IInv'
  BY NextClean, NextPool DEF IInv
<1> QED
  BY InitIInv, <1>1, PTL DEF Spec

(* However a command ends, a failed set-up, a pool that does not start, an *)
(* unexpected exception or Ctrl-C outside the teardown, nothing is left    *)
(* running and no scratch directory stays, unless --keep asked for it.     *)
THEOREM NothingLeftBehindCorrect == Spec => []NothingLeftBehind
<1>1. IInv => NothingLeftBehind
  BY DEF IInv, CleanInv, NothingLeftBehind, NothingUp, Over
<1> QED
  BY IInvCorrect, <1>1, PTL

(* The pool that is measured is the one whose row it becomes, and no pool  *)
(* meets a container of another in its place.                              *)
THEOREM MeasuresItsOwnPoolCorrect == Spec => []MeasuresItsOwnPool
<1>1. IInv => MeasuresItsOwnPool
  BY DEF IInv, PoolInv, Within, MeasuresItsOwnPool
<1> QED
  BY IInvCorrect, <1>1, PTL
-----------------------------------------------------------------------------
(* A failed row of a command that counts failures makes its result bad,    *)
(* and the suite's code so far is bad once a command's was.                *)
Bad == {"FAILED", "FAIL", "INCONCLUSIVE"}

RowsAreASequence == \E S : rows \in Seq(S)

RememberInv ==
    /\ RowsAreASequence
    /\ SomeFailed /\ CountsFailures => ~ok
    /\ phase = "dispatch" => flawed = {}
    /\ TRUE \in flawed => overall = 1
    /\ SuiteRemembers

LEMMA AddedRow ==
    ASSUME NEW e, RowsAreASequence, rows' = Append(rows, e)
    PROVE  RowsAreASequence' /\ (SomeFailed' => SomeFailed \/ e.outcome \in Bad)
<1>1. PICK S : rows \in Seq(S)
  BY DEF RowsAreASequence
<1>2. rows \in Seq(S \cup {e})
  BY <1>1
<1>3. /\ rows' \in Seq(S \cup {e}) /\ DOMAIN rows' = 1 .. Len(rows) + 1 /\ Len(rows) \in Nat
      /\ DOMAIN rows = 1 .. Len(rows)
      /\ \A i \in DOMAIN rows : rows'[i] = rows[i]
      /\ rows'[Len(rows) + 1] = e
  BY <1>2
<1>4. \A i \in DOMAIN rows' : i \in DOMAIN rows \/ i = Len(rows) + 1
  BY <1>3
<1>5. SomeFailed' => SomeFailed \/ e.outcome \in Bad
  BY <1>3, <1>4 DEF SomeFailed, Bad
<1> QED
  BY <1>3, <1>5 DEF RowsAreASequence

LEMMA SameCommand ==
    ASSUME UNCHANGED <<plan, at>>
    PROVE  CountsFailures' = CountsFailures
  BY DEF CountsFailures, cmd

(* Steps that add a row, or none, and are not the end of anything. *)
LEMMA RowsAreCounted ==
    ASSUME RememberInv, NEW e, rows' = Append(rows, e), UNCHANGED <<plan, at, flawed, overall>>,
           phase' \notin {"dispatch", "ended"},
           ok' => ok /\ ~(e.outcome \in Bad /\ CountsFailures)
    PROVE  RememberInv'
<1>1. RowsAreASequence' /\ (SomeFailed' => SomeFailed \/ e.outcome \in Bad)
  BY AddedRow DEF RememberInv
<1>2. CountsFailures' = CountsFailures
  BY SameCommand
<1>3. SuiteRemembers'
  BY DEF SuiteRemembers
<1> QED
  BY <1>1, <1>2, <1>3 DEF RememberInv

LEMMA NothingAdded ==
    ASSUME RememberInv, UNCHANGED <<resultVars, plan, at, flawed, overall>>,
           phase' = "dispatch" => phase = "dispatch",
           SuiteRemembers'
    PROVE  RememberInv'
<1>1. CountsFailures' = CountsFailures
  BY SameCommand
<1>2. SomeFailed' = SomeFailed /\ (RowsAreASequence <=> RowsAreASequence') /\ ok' = ok
  BY DEF SomeFailed, RowsAreASequence, resultVars
<1> QED
  BY <1>1, <1>2 DEF RememberInv

LEMMA InitRemember == Init => RememberInv
<1> SUFFICES ASSUME Init PROVE RememberInv
  OBVIOUS
<1>1. rows = <<>> /\ flawed = {} /\ phase = "dispatch"
  BY DEF Init
<1>2. RowsAreASequence /\ ~SomeFailed
  <2>1. rows \in Seq({})
    BY <1>1
  <2> QED
    BY <1>1, <2>1 DEF RowsAreASequence, SomeFailed
<1> QED
  BY <1>1, <1>2 DEF RememberInv, SuiteRemembers

LEMMA NextRemember == RememberInv /\ [Next]_vars => RememberInv'
<1> SUFFICES ASSUME RememberInv, [Next]_vars PROVE RememberInv'
  OBVIOUS
<1> USE DEF programVars, historyVars
<1>1. CASE SweepPoint \/ HoldConnections \/ FindCeiling \/ TimeBlocks
  <2>1. /\ rows' = Append(rows, Row("ok", None)) /\ ok' = ok
        /\ phase' = "measure" /\ UNCHANGED <<plan, at, flawed, overall>>
    BY <1>1 DEF SweepPoint, HoldConnections, FindCeiling, TimeBlocks, Measuring, AddRow
  <2>2. Row("ok", None).outcome \notin Bad
    BY DEF Row, Bad
  <2> QED
    BY <2>1, <2>2, RowsAreCounted
<1>2. CASE Validate
  <2> DEFINE e == Row(Verdict(audit'), audit')
  <2>1. /\ rows' = Append(rows, e) /\ ok' = (ok /\ Verdict(audit') = "PASS")
        /\ phase' = "measure" /\ UNCHANGED <<plan, at, flawed, overall>>
    BY <1>2 DEF Validate, Measuring, AddRow
  <2>2. e.outcome = Verdict(audit')
    BY DEF Row
  <2>3. ok' => ok /\ e.outcome \notin Bad
    BY <2>1, <2>2 DEF Bad
  <2> QED
    BY <2>1, <2>3, RowsAreCounted
<1>3. CASE NextUnit
  <2>1. phase' \in {"enter", "remove"} /\ UNCHANGED <<plan, at, flawed, overall>>
    BY <1>3 DEF NextUnit
  <2>2. CASE exc = "pool"
    <3>1. rows' = Append(rows, Row("FAILED", None)) /\ ok' = (ok /\ ~CountsFailures)
      BY <1>3, <2>2 DEF NextUnit, AddRow
    <3> QED
      BY <2>1, <3>1, RowsAreCounted
  <2>3. CASE exc = "none" /\ cmd = "bench"
    <3>1. rows' = Append(rows, Row("ok", None)) /\ ok' = ok
      BY <1>3, <2>3 DEF NextUnit, AddRow
    <3>2. Row("ok", None).outcome \notin Bad
      BY DEF Row, Bad
    <3> QED
      BY <2>1, <3>1, <3>2, RowsAreCounted
  <2>4. CASE exc = "none" /\ cmd = "test"
    <3> DEFINE e == Row(IF audit.code = 0 THEN "PASS" ELSE "FAIL", audit)
    <3>1. rows' = Append(rows, e) /\ ok' = (ok /\ audit.code = 0)
      BY <1>3, <2>4 DEF NextUnit, AddRow
    <3>2. ok' => ok /\ e.outcome \notin Bad
      BY <3>1 DEF Row, Bad
    <3> QED
      BY <2>1, <3>1, <3>2, RowsAreCounted
  <2>5. CASE exc = "none" /\ cmd \notin {"bench", "test"}
    <3>1. UNCHANGED resultVars
      BY <1>3, <2>5 DEF NextUnit
    <3> QED
      BY <2>1, <3>1, NothingAdded DEF SuiteRemembers
  <2> QED
    BY <1>3, <2>2, <2>3, <2>4, <2>5 DEF NextUnit
<1>4. CASE \/ BenchWindow \/ AuditWork \/ MeasureFails \/ Measured \/ Exit \/ Propagate
           \/ Enter \/ ObtainImage \/ BecomesReady \/ EnterFails \/ CleanUpEnter
  <2>1. /\ phase' \notin {"dispatch", "ended"}
        /\ UNCHANGED <<resultVars, plan, at, flawed, overall>>
    BY <1>4 DEF BenchWindow, AuditWork, Measuring, MeasureFails, Measured, Exit, Propagate, Enter,
                ObtainImage, BecomesReady, EnterFails, CleanUpEnter
  <2> QED
    BY <2>1, NothingAdded DEF SuiteRemembers
<1>5. CASE Start
  <2>1. phase' \in {"ready", "enterFailed"} /\ UNCHANGED <<resultVars, plan, at, flawed, overall>>
    BY <1>5 DEF Start
  <2> QED
    BY <2>1, NothingAdded DEF SuiteRemembers
<1>6. CASE \/ Refuse \/ Dispatch \/ NoCoresLeft \/ MakeScratch \/ BackendUp \/ PrimeChain
           \/ SessionFails \/ TearDown \/ TearDownInterrupted \/ PersistFails
  <2>1. /\ phase' \notin {"dispatch", "ended"}
        /\ UNCHANGED <<resultVars, plan, at, flawed, overall>>
    BY <1>6 DEF Refuse, Dispatch, NoCoresLeft, MakeScratch, BackendUp, PrimeChain, SessionFails,
                TearDown, TearDownInterrupted, PersistFails
  <2> QED
    BY <2>1, NothingAdded DEF SuiteRemembers
<1>7. CASE UpOrDown
  <2>1. phase = "dispatch" /\ phase' # "dispatch" /\ UNCHANGED <<resultVars, plan, at, flawed, overall>>
    BY <1>7 DEF UpOrDown
  <2>2. flawed' = {}
    BY <2>1 DEF RememberInv
  <2> QED
    BY <2>1, <2>2, NothingAdded DEF SuiteRemembers
<1>8. CASE Raise
  <2>1. /\ phase' = "ended" /\ exitCode' \in {1, 2, 130}
        /\ UNCHANGED <<resultVars, plan, at, flawed, overall>>
    BY <1>8 DEF Raise
  <2>2. SuiteRemembers'
    <3>1. exitCode' # 0
      BY <2>1
    <3> QED
      BY <3>1 DEF SuiteRemembers
  <2> QED
    BY <2>1, <2>2, NothingAdded
<1>9. CASE Return
  <2>1. /\ overall' = (IF code = 1 THEN 1 ELSE overall)
        /\ flawed' = (IF SomeFailed THEN flawed \cup {CountsFailures} ELSE flawed)
        /\ UNCHANGED plan
    BY <1>9 DEF Return
  <2>2. TRUE \in flawed' => overall' = 1
    <3>1. CASE SomeFailed /\ CountsFailures = TRUE
      BY <2>1, <3>1 DEF RememberInv, code
    <3>2. CASE ~SomeFailed \/ CountsFailures = FALSE
      BY <2>1, <3>2 DEF RememberInv
    <3> QED
      BY <3>1, <3>2 DEF CountsFailures
  <2>3. CASE at < Len(plan)
    <3>1. rows' = <<>> /\ phase' = "setup"
      BY <1>9, <2>3 DEF Return
    <3>2. RowsAreASequence' /\ ~SomeFailed'
      <4>1. rows' \in Seq({})
        BY <3>1
      <4> QED
        BY <3>1, <4>1 DEF RowsAreASequence, SomeFailed
    <3> QED
      BY <2>2, <3>1, <3>2 DEF RememberInv, SuiteRemembers
  <2>4. CASE ~(at < Len(plan))
    <3>1. phase' = "ended" /\ exitCode' = overall' /\ UNCHANGED <<at, rows, ok>>
      BY <1>9, <2>4 DEF Return
    <3>2. CountsFailures' = CountsFailures
      BY <2>1, <3>1, SameCommand
    <3>3. SomeFailed' = SomeFailed /\ (RowsAreASequence <=> RowsAreASequence')
      BY <3>1 DEF SomeFailed, RowsAreASequence
    <3>4. SuiteRemembers'
      <4>1. exitCode' = 0 => overall' # 1
        BY <3>1
      <4> QED
        BY <2>2, <4>1 DEF SuiteRemembers
    <3>5. SomeFailed' /\ CountsFailures' => ~ok'
      BY <3>1, <3>2, <3>3 DEF RememberInv
    <3> QED
      BY <2>2, <3>1, <3>3, <3>4, <3>5 DEF RememberInv
  <2> QED
    BY <2>3, <2>4
<1>10. CASE UNCHANGED vars
  <2>1. UNCHANGED <<phase, exitCode, resultVars, plan, at, flawed, overall>>
    BY <1>10 DEF vars
  <2> QED
    BY <2>1, NothingAdded DEF SuiteRemembers, RememberInv
<1> QED
  BY <1>1, <1>2, <1>3, <1>4, <1>5, <1>6, <1>7, <1>8, <1>9, <1>10 DEF Next

(* The suite exits with 0 only if no bench, sweep, validate or test in it  *)
(* had a failed pool, for any plan and whatever came after the failure.    *)
THEOREM SuiteRemembersCorrect == Spec => []SuiteRemembers
<1>1. RememberInv => SuiteRemembers
  BY DEF RememberInv
<1> QED
  BY InitRemember, NextRemember, <1>1, PTL DEF Spec
-----------------------------------------------------------------------------
(* What exit code 0 vouches for.  The rows so far are all clean exactly    *)
(* while the command's flag holds, and then they cover the units that are  *)
(* over, and the part of the unit that runs whose probes add rows.         *)
Good == {"bench", "sweep", "validate", "test"}
Count(r, p) == Cardinality({i \in DOMAIN r : r[i].pool = p})
Need == IF cmd = "sweep" THEN Points ELSE 1
AllClean == \A i \in DOMAIN rows : Clean(rows[i])

Before == {"setup", "up", "prime", "enter", "image", "start", "ready"}
Idle == {"dispatch", "raised", "ended"}

JobsOn(cpusets) == {Job(c, k) : c \in Commands, k \in cpusets}
PlanRuns == \E cpusets : plan \in Seq(JobsOn(cpusets))

PlanInv ==
    /\ \/ PlanRuns
       \/ phase \in Idle /\ Len(plan) = 1 /\ cmd \in {"up", "down"}
    /\ at \in 1 .. Len(plan)

(* An exception is on its way from where a step failed to the handler.     *)
ExcInv ==
    /\ phase \in Before \cup {"dispatch", "measure", "return"} => exc = "none"
    /\ phase = "enterFailed" => exc # "none"

UnitInv ==
    /\ unit \in Nat \ {0} /\ point \in Nat /\ audit \in Audits \cup {None}
    /\ phase \in Before \cup {"dispatch"} => point = 0
    /\ phase \in {"exit", "caught"} /\ exc = "none" => point = ProbesOf(cmd)
    /\ phase \in {"remove", "return"} /\ exc = "none" =>
           point = 0 /\ (cmd \in Good => unit > Len(pools))
    /\ cmd = "test" /\ point > 0 => audit \in Audits

CoverInv ==
    ok /\ cmd \in Good =>
        /\ \A u \in DOMAIN pools : u < unit => Count(rows, pools[u]) >= Need
        /\ cmd \in {"sweep", "validate"} => Count(rows, pool) >= point

VouchInv ==
    /\ RowsAreASequence
    /\ pools \in Seq(Range(Pools))
    /\ PlanInv /\ ExcInv /\ UnitInv
    /\ CoverInv
    /\ cmd \in Good => (ok <=> AllClean)

LEMMA RowsAreFinite ==
    ASSUME RowsAreASequence, NEW p
    PROVE  /\ IsFiniteSet({i \in DOMAIN rows : rows[i].pool = p})
           /\ Count(rows, p) \in Nat
<1>1. PICK S : rows \in Seq(S)
  BY DEF RowsAreASequence
<1>2. DOMAIN rows = 1 .. Len(rows) /\ Len(rows) \in Nat
  BY <1>1
<1>3. IsFiniteSet(1 .. Len(rows))
  BY <1>2, FS_Interval
<1>4. {i \in DOMAIN rows : rows[i].pool = p} \subseteq 1 .. Len(rows)
  BY <1>2
<1>5. IsFiniteSet({i \in DOMAIN rows : rows[i].pool = p})
  BY <1>3, <1>4, FS_Subset
<1> QED
  BY <1>5, FS_CardinalityType DEF Count

(* A row counts for its pool and takes none from another. *)
LEMMA CountGrows ==
    ASSUME RowsAreASequence, NEW e, rows' = Append(rows, e), NEW p
    PROVE  /\ Count(rows, p) \in Nat /\ Count(rows', p) \in Nat
           /\ Count(rows', p) >= Count(rows, p)
           /\ e.pool = p => Count(rows', p) = Count(rows, p) + 1
<1> DEFINE R == {i \in DOMAIN rows : rows[i].pool = p}
           R1 == {i \in DOMAIN rows' : rows'[i].pool = p}
<1>1. PICK S : rows \in Seq(S)
  BY DEF RowsAreASequence
<1>2. rows \in Seq(S \cup {e})
  BY <1>1
<1>3. /\ DOMAIN rows' = 1 .. Len(rows) + 1 /\ Len(rows) \in Nat
      /\ DOMAIN rows = 1 .. Len(rows)
      /\ \A i \in DOMAIN rows : rows'[i] = rows[i]
      /\ rows'[Len(rows) + 1] = e
  BY <1>2
<1>4. IsFiniteSet(R) /\ Count(rows, p) \in Nat
  BY RowsAreFinite
<1>5. Count(rows, p) = Cardinality(R) /\ Count(rows', p) = Cardinality(R1)
  BY DEF Count
<1>6. e.pool = p => R1 = R \cup {Len(rows) + 1} /\ Len(rows) + 1 \notin R
  BY <1>3
<1>7. e.pool # p => R1 = R
  BY <1>3
<1> HIDE DEF R, R1
<1>8. CASE e.pool = p
  <2>1. Cardinality(R1) = Cardinality(R) + 1
    BY <1>4, <1>6, <1>8, FS_AddElement
  <2> QED
    BY <1>4, <1>5, <2>1
<1>9. CASE e.pool # p
  BY <1>4, <1>5, <1>7, <1>9
<1> QED
  BY <1>8, <1>9

LEMMA CleanGrows ==
    ASSUME RowsAreASequence, NEW e, rows' = Append(rows, e), UNCHANGED <<plan, at>>
    PROVE  AllClean' <=> AllClean /\ Clean(e)
<1>1. PICK S : rows \in Seq(S)
  BY DEF RowsAreASequence
<1>2. rows \in Seq(S \cup {e})
  BY <1>1
<1>3. /\ DOMAIN rows' = 1 .. Len(rows) + 1 /\ Len(rows) \in Nat
      /\ DOMAIN rows = 1 .. Len(rows)
      /\ \A i \in DOMAIN rows : rows'[i] = rows[i]
      /\ rows'[Len(rows) + 1] = e
  BY <1>2
<1>4. cmd' = cmd
  BY DEF cmd
<1>5. ASSUME NEW r PROVE Clean(r)' <=> Clean(r)
  BY <1>4 DEF Clean
<1> QED
  BY <1>3, <1>4, <1>5 DEF AllClean, Clean

LEMMA CommandSet ==
    Commands = {"bench", "sweep", "connscale", "conn-limit", "latency", "validate", "test"}
<1>1. DOMAIN SuiteRest = 1 .. 5
  BY DEF SuiteRest
<1>2. Range(SuiteRest) = {SuiteRest[1], SuiteRest[2], SuiteRest[3], SuiteRest[4], SuiteRest[5]}
  BY <1>1 DEF Range
<1> QED
  BY <1>2 DEF Commands, SuiteRest

LEMMA CommandRuns ==
    ASSUME PlanInv, phase \notin Idle \/ cmd \notin {"up", "down"}
    PROVE  PlanRuns /\ cmd \in Commands
<1>1. PlanRuns
  BY DEF PlanInv
<1>2. PICK cpusets : plan \in Seq(JobsOn(cpusets))
  BY <1>1 DEF PlanRuns
<1>3. plan[at] \in JobsOn(cpusets)
  BY <1>2 DEF PlanInv
<1> QED
  BY <1>1, <1>3 DEF JobsOn, Job, cmd

LEMMA PlanStays ==
    ASSUME PlanInv, UNCHANGED <<plan, at>>,
           phase' \in Idle \/ phase \notin Idle \/ cmd \notin {"up", "down"}
    PROVE  PlanInv'
<1>1. cmd' = cmd /\ PlanRuns' = PlanRuns
  BY DEF cmd, PlanRuns
<1>2. CASE phase' \in Idle
  BY <1>1, <1>2 DEF PlanInv
<1>3. CASE phase \notin Idle \/ cmd \notin {"up", "down"}
  BY <1>1, <1>3, CommandRuns DEF PlanInv
<1> QED
  BY <1>2, <1>3

(* validate's verdict passes exactly the audits that a clean row has. *)
LEMMA PassIsClean ==
    ASSUME NEW a \in Audits, cmd = "validate"
    PROVE  Clean(Row(Verdict(a), a)) <=> Verdict(a) = "PASS"
<1>1. a.code \in {0, 1, 3} /\ a.retargets \in 0 .. 1 /\ a.submitted \in 0 .. 1
  BY DEF Audits
<1>2. PICK n \in 0 .. MaxBlocks : a.paid \in [1 .. n -> BOOLEAN]
  BY DEF Audits, Payouts
<1>3. /\ DOMAIN a.paid = 1 .. n /\ Len(a.paid) = n /\ n \in Nat
      /\ a.paid = <<>> <=> n = 0
      /\ \A h \in 1 .. n : a.paid[h] \in BOOLEAN
  <2>1. n \in Nat
    BY MaxBlocksAssumption
  <2>2. a.paid \in Seq(BOOLEAN)
    BY <1>2, <2>1
  <2> QED
    BY <1>2, <2>1, <2>2
<1> DEFINE AllPaid == \A h \in DOMAIN a.paid : a.paid[h]
           o == BlockOutcome(a)
<1>4. /\ n > 0 /\ AllPaid => o = "yes"
      /\ n > 0 /\ ~AllPaid => o = "wrong-payout"
      /\ n = 0 /\ a.submitted > 0 => o = "no-relay"
      /\ n = 0 /\ ~(a.submitted > 0) => o = "none"
  BY <1>3 DEF BlockOutcome
<1>5. n = 0 => AllPaid
  BY <1>3
<1>6. Verdict(a) = "PASS" <=> a.code = 0 /\ o \in {"yes", "none"} /\ a.retargets # 0
  <2>1. o \in {"yes", "none", "no-relay", "wrong-payout"}
    BY <1>1, <1>3, <1>4
  <2> HIDE DEF o
  <2>2. CASE a.code # 0 \/ o \in {"no-relay", "wrong-payout"}
    BY <2>1, <2>2 DEF Verdict, o
  <2>3. CASE a.code = 0 /\ o \in {"yes", "none"} /\ a.retargets = 0
    BY <2>3 DEF Verdict, o
  <2>4. CASE a.code = 0 /\ o \in {"yes", "none"} /\ a.retargets # 0
    BY <2>4 DEF Verdict, o
  <2> QED
    BY <2>1, <2>2, <2>3, <2>4
<1>7. a # None
  BY NoneAssumption
<1>8. Clean(Row(Verdict(a), a)) <=>
          /\ Verdict(a) \in {"ok", "PASS"} /\ a.code = 0 /\ a.retargets > 0
          /\ AllPaid /\ (a.submitted > 0 => a.paid # <<>>)
  BY <1>7 DEF Clean, Row
<1>9. Verdict(a) # "ok"
  BY DEF Verdict
<1> HIDE DEF AllPaid, o
<1>10. a.retargets # 0 <=> a.retargets > 0
  BY <1>1
<1>11. o \in {"yes", "none"} <=> AllPaid /\ (a.submitted > 0 => a.paid # <<>>)
  BY <1>1, <1>3, <1>4, <1>5
<1> QED
  BY <1>6, <1>8, <1>9, <1>10, <1>11

LEMMA QuietStep ==
    ASSUME VouchInv, UNCHANGED <<resultVars, plan, at, pools, unit>>,
           point' = point \/ cmd \notin {"sweep", "validate"},
           PlanInv', ExcInv', UnitInv'
    PROVE  VouchInv'
<1> USE DEF resultVars
<1>1. cmd' = cmd /\ pool' = pool /\ Need' = Need
  BY DEF cmd, Units, pool, Need
<1>2. AllClean' = AllClean /\ RowsAreASequence' = RowsAreASequence
  BY <1>1 DEF AllClean, Clean, RowsAreASequence
<1>3. CoverInv'
  BY <1>1 DEF VouchInv, CoverInv
<1> QED
  BY <1>1, <1>2, <1>3 DEF VouchInv

LEMMA RowStep ==
    ASSUME VouchInv, NEW e, rows' = Append(rows, e), UNCHANGED <<plan, at, pools>>,
           PlanInv', ExcInv', UnitInv', CoverInv',
           cmd \in Good => (ok' <=> ok /\ Clean(e))
    PROVE  VouchInv'
<1>1. cmd' = cmd
  BY DEF cmd
<1>2. RowsAreASequence'
  BY AddedRow DEF VouchInv
<1>3. AllClean' <=> AllClean /\ Clean(e)
  BY CleanGrows DEF VouchInv
<1> QED
  BY <1>1, <1>2, <1>3 DEF VouchInv

(* The row of a probe covers its unit by one more. *)
LEMMA ProbeCovers ==
    ASSUME VouchInv, NEW e, rows' = Append(rows, e), e.pool = pool, UNCHANGED <<plan, at, pools, unit>>,
           point' = point + 1, ok' => ok
    PROVE  CoverInv'
<1>1. cmd' = cmd /\ Need' = Need /\ pool' = pool
  BY DEF cmd, Need, Units, pool
<1>2. \A p : /\ Count(rows, p) \in Nat /\ Count(rows', p) \in Nat /\ Count(rows', p) >= Count(rows, p)
             /\ e.pool = p => Count(rows', p) = Count(rows, p) + 1
  BY CountGrows DEF VouchInv
<1>3. Need \in Nat /\ point \in Nat
  BY PointsAssumption DEF Need, VouchInv, UnitInv
<1> SUFFICES ASSUME ok, cmd \in Good
             PROVE  /\ \A u \in DOMAIN pools : u < unit => Count(rows', pools[u]) >= Need
                    /\ cmd \in {"sweep", "validate"} => Count(rows', pool) >= point + 1
  BY <1>1 DEF CoverInv
<1>4. /\ \A u \in DOMAIN pools : u < unit => Count(rows, pools[u]) >= Need
      /\ cmd \in {"sweep", "validate"} => Count(rows, pool) >= point
  BY DEF VouchInv, CoverInv
<1> QED
  BY <1>2, <1>3, <1>4

LEMMA Concatenated ==
    ASSUME NEW S, NEW s \in Seq(S), NEW t \in Seq(S)
    PROVE  s \o t \in Seq(S) /\ Len(s \o t) = Len(s) + Len(t)
OBVIOUS

LEMMA InitVouch == Init => VouchInv
<1> SUFFICES ASSUME Init PROVE VouchInv
  OBVIOUS
<1>1. /\ rows = <<>> /\ ok = TRUE /\ phase = "dispatch" /\ exc = "none"
      /\ at = 1 /\ unit = 1 /\ point = 0 /\ audit = None
  BY DEF Init
<1>2. RowsAreASequence /\ AllClean
  <2>1. rows \in Seq({})
    BY <1>1
  <2> QED
    BY <1>1, <2>1 DEF RowsAreASequence, AllClean
<1>3. pools \in Seq(Range(Pools))
  <2>1. PICK n \in 1 .. Len(Pools) : pools = SubSeq(Pools, 1, n)
    BY DEF Init
  <2> QED
    BY <2>1, PoolsAssumption
<1>4. PlanInv
  <2>1. ASSUME NEW cores \in CoreLists, plan = Suite(cores)
        PROVE  PlanRuns /\ Len(plan) \in Nat \ {0}
    <3> DEFINE K == {cores[i] : i \in DOMAIN cores} \cup {Largest(cores)}
               s == [i \in DOMAIN cores |-> Job("bench", cores[i])]
               t == [i \in DOMAIN SuiteRest |-> Job(SuiteRest[i], Largest(cores))]
    <3>1. DOMAIN cores = 1 .. Len(cores) /\ Len(cores) \in Nat
      <4>1. cores \in Seq(SUBSET Host)
        BY CoresAssumption
      <4> QED
        BY <4>1
    <3>2. DOMAIN SuiteRest = 1 .. 5
      BY DEF SuiteRest
    <3>3. \A i \in DOMAIN cores : Job("bench", cores[i]) \in JobsOn(K)
      BY DEF JobsOn, Commands
    <3>4. \A i \in DOMAIN SuiteRest : Job(SuiteRest[i], Largest(cores)) \in JobsOn(K)
      BY DEF JobsOn, Commands, Range
    <3>5. s \in Seq(JobsOn(K)) /\ Len(s) = Len(cores)
      BY <3>1, <3>3
    <3>6. t \in Seq(JobsOn(K)) /\ Len(t) = 5
      BY <3>2, <3>4
    <3> HIDE DEF K, s, t
    <3>7. s \o t \in Seq(JobsOn(K)) /\ Len(s \o t) = Len(s) + Len(t)
      BY <3>5, <3>6, Concatenated
    <3>8. plan = s \o t
      BY <2>1 DEF Suite, s, t
    <3> QED
      BY <3>1, <3>5, <3>6, <3>7, <3>8 DEF PlanRuns
  <2>2. ASSUME NEW c \in Commands, plan = <<Job(c, None)>>
        PROVE  PlanRuns /\ Len(plan) \in Nat \ {0}
    <3>1. Job(c, None) \in JobsOn({None})
      BY DEF JobsOn
    <3>2. plan \in Seq(JobsOn({None})) /\ Len(plan) = 1
      BY <2>2, <3>1
    <3> QED
      BY <3>2 DEF PlanRuns
  <2>3. ASSUME NEW c \in {"up", "down"}, plan = <<Job(c, None)>>
        PROVE  cmd \in {"up", "down"} /\ Len(plan) = 1
    BY <1>1, <2>3 DEF cmd, Job
  <2>4. (PlanRuns \/ (cmd \in {"up", "down"} /\ Len(plan) = 1)) /\ Len(plan) \in Nat \ {0}
    <3>1. CASE plan \in {Suite(cores) : cores \in CoreLists}
      BY <3>1, <2>1
    <3>2. CASE plan \in {<<Job(c, None)>> : c \in Commands}
      BY <3>2, <2>2
    <3>3. CASE plan \in {<<Job(c, None)>> : c \in {"up", "down"}}
      BY <3>3, <2>3
    <3> QED
      BY <3>1, <3>2, <3>3 DEF Init
  <2> QED
    BY <1>1, <2>4 DEF PlanInv, Idle
<1>5. ExcInv /\ UnitInv
  BY <1>1 DEF ExcInv, UnitInv, Before
<1>6. CoverInv
  <2>1. Count(rows, pool) = 0
    BY <1>1, FS_EmptySet DEF Count
  <2>2. DOMAIN pools = 1 .. Len(pools)
    BY <1>3
  <2> QED
    BY <1>1, <2>1, <2>2 DEF CoverInv
<1> QED
  BY <1>1, <1>2, <1>3, <1>4, <1>5, <1>6 DEF VouchInv

LEMMA NextVouch == VouchInv /\ [Next]_vars => VouchInv'
<1> SUFFICES ASSUME VouchInv, [Next]_vars PROVE VouchInv'
  OBVIOUS
<1> USE DEF programVars, historyVars
<1>1. /\ PlanInv /\ ExcInv /\ UnitInv /\ CoverInv /\ RowsAreASequence
      /\ unit \in Nat \ {0} /\ point \in Nat
  BY DEF VouchInv, UnitInv
<1>2. ASSUME UNCHANGED <<plan, at>> PROVE cmd' = cmd /\ \A c : ProbesOf(c)' = ProbesOf(c)
  BY <1>2 DEF cmd, ProbesOf
<1>3. CASE SweepPoint \/ HoldConnections \/ FindCeiling \/ TimeBlocks
  <2>1. /\ phase = "measure" /\ phase' = "measure" /\ point' = point + 1 /\ cmd # "test"
        /\ rows' = Append(rows, Row("ok", None)) /\ ok' = ok
        /\ UNCHANGED <<plan, at, pools, exc, unit, audit>>
    BY <1>3 DEF SweepPoint, HoldConnections, FindCeiling, TimeBlocks, Measuring, AddRow
  <2>2. PlanInv'
    BY <1>1, <2>1, PlanStays DEF Idle
  <2>3. ExcInv' /\ UnitInv'
    BY <1>1, <1>2, <2>1 DEF ExcInv, UnitInv, Before
  <2>4. CoverInv'
    BY <2>1, ProbeCovers DEF Row
  <2>5. cmd \in Good => Clean(Row("ok", None))
    <3>1. cmd # "validate"
      BY <1>3 DEF SweepPoint, HoldConnections, FindCeiling, TimeBlocks, Measuring
    <3> QED
      BY <3>1 DEF Row, Clean
  <2> QED
    BY <2>1, <2>2, <2>3, <2>4, <2>5, RowStep
<1>4. CASE Validate
  <2> DEFINE e == Row(Verdict(audit'), audit')
  <2>1. /\ phase = "measure" /\ phase' = "measure" /\ point' = point + 1 /\ cmd = "validate"
        /\ audit' \in Audits
        /\ rows' = Append(rows, e) /\ ok' = (ok /\ Verdict(audit') = "PASS")
        /\ UNCHANGED <<plan, at, pools, exc, unit>>
    BY <1>4 DEF Validate, Measuring, AddRow
  <2>2. PlanInv'
    BY <1>1, <2>1, PlanStays DEF Idle
  <2>3. ExcInv' /\ UnitInv'
    BY <1>1, <1>2, <2>1 DEF ExcInv, UnitInv, Before
  <2>4. e.pool = pool
    BY DEF Row
  <2>5. Clean(e) <=> Verdict(audit') = "PASS"
    BY <2>1, PassIsClean
  <2> HIDE DEF e
  <2>6. CoverInv'
    BY <2>1, <2>4, ProbeCovers
  <2> QED
    BY <2>1, <2>2, <2>3, <2>5, <2>6, RowStep
<1>5. CASE BenchWindow \/ AuditWork
  <2>1. /\ phase = "measure" /\ phase' = "measure" /\ point' = point + 1
        /\ cmd \in {"bench", "test"} /\ (cmd = "test" => audit' \in Audits)
        /\ UNCHANGED <<resultVars, plan, at, pools, exc, unit>>
    <3>1. CASE AuditWork
      BY <3>1 DEF AuditWork, Measuring
    <3>2. CASE BenchWindow
      BY <1>1, <3>2 DEF BenchWindow, Measuring, UnitInv
    <3> QED
      BY <1>5, <3>1, <3>2
  <2>2. PlanInv'
    BY <1>1, <2>1, PlanStays DEF Idle
  <2>3. ExcInv' /\ UnitInv'
    <3>1. audit' \in Audits \cup {None}
      BY <1>1, <1>5 DEF BenchWindow, AuditWork, UnitInv
    <3> QED
      BY <1>1, <1>2, <2>1, <3>1 DEF ExcInv, UnitInv, Before
  <2> QED
    BY <2>1, <2>2, <2>3, QuietStep
<1>6. ASSUME UNCHANGED <<resultVars, plan, at, pools, unit, point, audit>>,
             phase' \in Idle \/ phase \notin Idle \/ cmd \notin {"up", "down"},
             ExcInv',
             phase' \in Before \cup {"dispatch"} => phase \in Before \cup {"dispatch"},
             phase' \in {"exit", "caught"} /\ exc' = "none" => point = ProbesOf(cmd),
             phase' \in {"remove", "return"} /\ exc' = "none" => phase = "remove" /\ exc = "none"
      PROVE  VouchInv'
  <2>1. PlanInv'
    BY <1>1, <1>6, PlanStays
  <2>2. UnitInv'
    BY <1>1, <1>2, <1>6 DEF UnitInv
  <2> QED
    BY <1>6, <2>1, <2>2, QuietStep
<1> DEFINE Same == UNCHANGED <<resultVars, plan, at, pools, unit, point, audit>>
<1>7. CASE Refuse \/ Dispatch \/ UpOrDown \/ Raise
  <2>1. Same /\ phase \in {"dispatch", "raised"} /\ phase' \in {"raised", "setup", "ended"}
        /\ (phase' = "setup" => Dispatch)
    BY <1>7 DEF Refuse, Dispatch, UpOrDown, Raise, unitVars
  <2>2. phase' \in Idle \/ cmd \notin {"up", "down"}
    BY <2>1 DEF Dispatch, Idle
  <2>3. ExcInv'
    BY <1>1, <2>1 DEF Dispatch, ExcInv, Before
  <2>4. phase' = "setup" => phase = "dispatch"
    BY <2>1 DEF Dispatch
  <2> QED
    BY <1>6, <2>1, <2>2, <2>3, <2>4 DEF Before
<1>8. CASE NoCoresLeft \/ MakeScratch \/ BackendUp \/ PrimeChain \/ SessionFails
  <2>1. /\ Same /\ phase \in {"setup", "up", "prime"}
        /\ \/ phase' \in {"up", "prime", "enter"} /\ exc' = exc
           \/ phase' = "raised"
           \/ phase' = "remove" /\ exc' # "none"
    BY <1>8 DEF NoCoresLeft, MakeScratch, BackendUp, PrimeChain, SessionFails, unitVars
  <2>2. ExcInv'
    BY <1>1, <2>1 DEF ExcInv, Before
  <2> QED
    BY <1>6, <2>1, <2>2 DEF Before, Idle
<1>9. CASE Enter \/ ObtainImage \/ Start \/ BecomesReady \/ EnterFails
  <2>1. /\ Same /\ phase \in {"enter", "image", "start", "ready"}
        /\ \/ phase' \in {"image", "start", "ready", "measure"} /\ exc' = exc
           \/ phase' = "enterFailed" /\ exc' # "none"
    BY <1>9 DEF Enter, ObtainImage, Start, BecomesReady, EnterFails, unitVars
  <2>2. ExcInv'
    BY <1>1, <2>1 DEF ExcInv, Before
  <2> QED
    BY <1>6, <2>1, <2>2 DEF Before, Idle
<1>10. CASE CleanUpEnter \/ MeasureFails \/ Measured \/ Exit
  <2>1. /\ Same /\ phase \in {"enterFailed", "measure", "exit"} /\ phase' \in {"exit", "caught"}
        /\ \/ exc' # "none"
           \/ exc' = "none" /\ exc = "none" /\ phase \in {"measure", "exit"}
              /\ (phase = "measure" => point = ProbesOf(cmd))
    BY <1>1, <1>10 DEF CleanUpEnter, MeasureFails, Measured, Exit, unitVars, ExcInv
  <2>2. ExcInv'
    BY <2>1 DEF ExcInv, Before
  <2>3. exc' = "none" => point = ProbesOf(cmd)
    BY <1>1, <2>1 DEF UnitInv
  <2> QED
    BY <1>6, <2>1, <2>2, <2>3 DEF Before, Idle
<1>11. CASE Propagate \/ TearDown \/ TearDownInterrupted \/ PersistFails
  <2>1. /\ Same /\ phase \in {"caught", "remove", "return"}
        /\ \/ phase' = "remove" /\ exc' # "none"
           \/ phase = "remove" /\ phase' = "return" /\ exc = "none" /\ exc' = "none"
           \/ phase' = "raised"
    BY <1>11 DEF Propagate, TearDown, TearDownInterrupted, PersistFails, unitVars
  <2>2. ExcInv'
    BY <2>1 DEF ExcInv, Before
  <2> QED
    BY <1>6, <2>1, <2>2 DEF Before, Idle
<1>12. CASE UNCHANGED vars
  <2>1. Same /\ phase' = phase /\ exc' = exc
    BY <1>12 DEF vars, unitVars
  <2>2. PlanInv'
    BY <1>1, <1>2, <2>1 DEF PlanInv, PlanRuns
  <2>3. ExcInv' /\ UnitInv'
    BY <1>1, <1>2, <2>1 DEF ExcInv, UnitInv
  <2> QED
    BY <2>1, <2>2, <2>3, QuietStep
<1>13. CASE NextUnit
  <2>1. /\ phase = "caught" /\ exc \in {"none", "pool"} /\ exc' = "none"
        /\ unit' = unit + 1 /\ point' = 0 /\ audit' = None
        /\ phase' = (IF unit < Len(Units) THEN "enter" ELSE "remove")
        /\ UNCHANGED <<plan, at, pools>>
    BY <1>13 DEF NextUnit
  <2>2. PlanInv'
    BY <1>1, <2>1, PlanStays DEF Idle
  <2>3. cmd' = cmd /\ Need' = Need /\ (cmd \in Good => Units = pools /\ pool = pools[unit])
    BY <2>1 DEF cmd, Need, Units, pool, Good
  <2>4. ExcInv' /\ UnitInv'
    <3>1. Len(pools) \in Nat
      BY DEF VouchInv
    <3>2. unit + 1 \in Nat \ {0}
      BY <1>1
    <3>3. phase' = "remove" /\ cmd \in Good => unit + 1 > Len(pools)
      BY <1>1, <2>1, <2>3, <3>1
    <3> QED
      BY <1>1, <2>1, <2>3, <3>2, <3>3 DEF ExcInv, UnitInv, Before
  <2>5. \A u \in DOMAIN pools : u < unit + 1 => u < unit \/ u = unit
    <3>1. DOMAIN pools = 1 .. Len(pools)
      BY DEF VouchInv
    <3> QED
      BY <1>1, <3>1
  <2>6. \A p : Count(rows, p) \in Nat
    BY <1>1, RowsAreFinite
  <2>7. Need \in Nat
    BY PointsAssumption DEF Need
  <2>8. ASSUME NEW e, rows' = Append(rows, e), e.pool = pool,
               cmd \in Good => (ok' <=> ok /\ Clean(e)),
               cmd \in {"bench", "test"} \/ ~ok' \/ cmd \notin Good
        PROVE  VouchInv'
    <3>1. \A p : /\ Count(rows, p) \in Nat /\ Count(rows', p) \in Nat
                 /\ Count(rows', p) >= Count(rows, p)
                 /\ e.pool = p => Count(rows', p) = Count(rows, p) + 1
      BY <1>1, <2>8, CountGrows
    <3>2. CoverInv'
      <4> SUFFICES ASSUME ok', cmd \in Good
                   PROVE  /\ \A u \in DOMAIN pools : u < unit + 1 => Count(rows', pools[u]) >= Need
                          /\ cmd \notin {"sweep", "validate"}
        BY <2>1, <2>3 DEF CoverInv
      <4>1. ok /\ cmd \in {"bench", "test"} /\ Need = 1
        BY <2>8 DEF Need
      <4>2. ASSUME NEW u \in DOMAIN pools, u < unit
            PROVE  Count(rows', pools[u]) >= Need
        <5>1. Count(rows, pools[u]) >= Need
          BY <1>1, <4>1, <4>2 DEF CoverInv
        <5> QED
          BY <2>7, <3>1, <5>1
      <4>3. Count(rows', pools[unit]) >= Need
        BY <2>3, <2>8, <3>1, <4>1
      <4> QED
        BY <2>5, <4>1, <4>2, <4>3
    <3> QED
      BY <2>1, <2>2, <2>4, <2>8, <3>2, RowStep
  <2>9. CASE exc = "pool"
    <3>1. rows' = Append(rows, Row("FAILED", None)) /\ ok' = (ok /\ ~CountsFailures)
      BY <1>13, <2>9 DEF NextUnit, AddRow
    <3>2. cmd \in Good => CountsFailures
      BY DEF Good, CountsFailures
    <3>3. Row("FAILED", None).pool = pool /\ ~Clean(Row("FAILED", None))
      BY DEF Row, Clean
    <3> QED
      BY <2>8, <3>1, <3>2, <3>3
  <2>10. CASE exc = "none" /\ cmd = "bench"
    <3>1. rows' = Append(rows, Row("ok", None)) /\ ok' = ok
      BY <1>13, <2>10 DEF NextUnit, AddRow
    <3>2. Row("ok", None).pool = pool /\ Clean(Row("ok", None))
      BY <2>10 DEF Row, Clean
    <3> QED
      BY <2>8, <2>10, <3>1, <3>2
  <2>11. CASE exc = "none" /\ cmd = "test"
    <3> DEFINE e == Row(IF audit.code = 0 THEN "PASS" ELSE "FAIL", audit)
    <3>1. rows' = Append(rows, e) /\ ok' = (ok /\ audit.code = 0)
      BY <1>13, <2>11 DEF NextUnit, AddRow
    <3>2. audit # None
      <4>1. point = 2
        BY <1>1, <2>1, <2>11 DEF UnitInv, ProbesOf
      <4> QED
        BY <1>1, <2>11, <4>1, NoneAssumption DEF UnitInv
    <3>3. e.pool = pool /\ (Clean(e) <=> audit.code = 0)
      BY <2>11, <3>2 DEF Row, Clean
    <3> HIDE DEF e
    <3> QED
      BY <2>8, <2>11, <3>1, <3>3
  <2>12. CASE exc = "none" /\ cmd \notin {"bench", "test"}
    <3>1. UNCHANGED <<rows, ok>>
      BY <1>13, <2>12 DEF NextUnit, resultVars
    <3>2. cmd \in Good => point = Need
      BY <1>1, <2>1, <2>12 DEF UnitInv, ProbesOf, Need, Good
    <3>3. CoverInv'
      <4> SUFFICES ASSUME ok, cmd \in Good
                   PROVE  /\ \A u \in DOMAIN pools : u < unit + 1 => Count(rows, pools[u]) >= Need
                          /\ Count(rows', pool') >= 0
        BY <2>1, <2>3, <3>1 DEF CoverInv
      <4>1. Count(rows, pools[unit]) >= Need
        BY <1>1, <2>3, <2>12, <3>2 DEF CoverInv, Good
      <4>2. \A u \in DOMAIN pools : u < unit => Count(rows, pools[u]) >= Need
        BY <1>1 DEF CoverInv
      <4>3. Count(rows', pool') \in Nat
        BY <2>6, <3>1
      <4> QED
        BY <2>5, <4>1, <4>2, <4>3
    <3>4. AllClean' = AllClean /\ RowsAreASequence'
      BY <1>1, <2>3, <3>1 DEF AllClean, Clean, RowsAreASequence
    <3> QED
      BY <2>1, <2>2, <2>3, <2>4, <3>1, <3>3, <3>4 DEF VouchInv
  <2> QED
    BY <2>1, <2>9, <2>10, <2>11, <2>12
<1>14. CASE Return
  <2>1. phase = "return" /\ exc = "none" /\ exc' = "none" /\ point = 0
        /\ UNCHANGED <<pools, plan, point, audit>>
    BY <1>1, <1>14 DEF Return, ExcInv, UnitInv
  <2>2. CASE at < Len(plan)
    <3>1. /\ at' = at + 1 /\ unit' = 1 /\ rows' = <<>> /\ ok' = TRUE /\ phase' = "setup"
      BY <1>14, <2>2 DEF Return
    <3>2. PlanInv'
      <4>1. PlanRuns' /\ at + 1 \in 1 .. Len(plan)
        <5>1. PlanRuns
          BY <1>1, <2>1, CommandRuns DEF Idle
        <5>2. Len(plan) \in Nat
          BY <5>1 DEF PlanRuns
        <5> QED
          BY <1>1, <2>1, <2>2, <5>1, <5>2 DEF PlanRuns, PlanInv
      <4> QED
        BY <2>1, <3>1, <4>1 DEF PlanInv
    <3>3. ExcInv' /\ UnitInv'
      BY <1>1, <2>1, <3>1 DEF ExcInv, UnitInv, Before
    <3>4. RowsAreASequence' /\ AllClean'
      <4>1. rows' \in Seq({})
        BY <3>1
      <4> QED
        BY <3>1, <4>1 DEF RowsAreASequence, AllClean
    <3>5. CoverInv'
      <4>1. Count(rows', pool') = 0
        BY <3>1, FS_EmptySet DEF Count
      <4>2. \A u \in DOMAIN pools : ~(u < 1)
        <5>1. DOMAIN pools = 1 .. Len(pools)
          BY DEF VouchInv
        <5> QED
          BY <5>1
      <4> QED
        BY <2>1, <3>1, <4>1, <4>2 DEF CoverInv
    <3> QED
      BY <2>1, <3>1, <3>2, <3>3, <3>4, <3>5 DEF VouchInv
  <2>3. CASE ~(at < Len(plan))
    <3>1. phase' = "ended" /\ UNCHANGED <<at, unit, rows, ok>>
      BY <1>14, <2>3 DEF Return
    <3>2. ExcInv'
      BY <3>1 DEF ExcInv, Before
    <3> QED
      BY <1>6, <2>1, <3>1, <3>2 DEF Before, Idle, resultVars
  <2> QED
    BY <2>2, <2>3
<1> QED
  BY <1>3, <1>4, <1>5, <1>7, <1>8, <1>9, <1>10, <1>11, <1>12, <1>13, <1>14 DEF Next

(* A bench, sweep, validate or test returns 0 exactly if it has the rows   *)
(* of every pool and no flawed one, for any list of pools, any numbers of  *)
(* points, windows and blocks, and whatever failed on the way.             *)
THEOREM ZeroVouchesCorrect == Spec => []ZeroVouchesForEveryPool
<1>1. ASSUME VouchInv, phase = "return", CountsFailures
      PROVE  ok <=> /\ \A p \in Range(pools) :
                          Cardinality({i \in DOMAIN rows : rows[i].pool = p}) >=
                              (IF cmd = "sweep" THEN Points ELSE 1)
                    /\ \A i \in DOMAIN rows : Clean(rows[i])
  <2>1. cmd \in Good
    <3>1. cmd \in Commands
      BY <1>1, CommandRuns DEF VouchInv, Idle
    <3> QED
      BY <1>1, <3>1, CommandSet DEF CountsFailures, Good
  <2>2. unit > Len(pools) /\ unit \in Nat
    BY <1>1, <2>1 DEF VouchInv, ExcInv, UnitInv
  <2>3. DOMAIN pools = 1 .. Len(pools)
    BY <1>1 DEF VouchInv
  <2>4. ASSUME ok, NEW p \in Range(pools)
        PROVE  Count(rows, p) >= Need
    <3>1. PICK u \in DOMAIN pools : p = pools[u]
      BY DEF Range
    <3>2. u < unit
      BY <2>2, <2>3
    <3> QED
      BY <1>1, <2>1, <2>4, <3>1, <3>2 DEF VouchInv, CoverInv
  <2>5. ok <=> AllClean
    BY <1>1, <2>1 DEF VouchInv
  <2> QED
    BY <2>4, <2>5 DEF AllClean, Count, Need
<1>2. VouchInv => ZeroVouchesForEveryPool
  BY <1>1 DEF ZeroVouchesForEveryPool
<1> QED
  BY InitVouch, NextVouch, <1>2, PTL DEF Spec

================================================================================
