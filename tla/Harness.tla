-------------------------------- MODULE Harness --------------------------------
(***************************************************************************)
(* The orchestrator (openbench/cli.py, runner.py, regtest.Backend,         *)
(* adapters.PoolUnderTest): the commands, each in a regtest session of its *)
(* own, take the pools one after the other, and the suite runs bench at    *)
(* each cpuset of --cores and then the other commands at the largest.      *)
(*                                                                         *)
(* Docker is external and named by what it holds: bitcoind, the one pool   *)
(* container, whose name all pools share, and the session's scratch        *)
(* directory beside it.  Every call may fail, and Ctrl-C may come during   *)
(* any of them.  `docker rm -f` and `compose down` are taken to work.      *)
(* What a probe measured is left out; what the miner's audit and the chain *)
(* say of a pool is kept, for validate and test.                           *)
(***************************************************************************)
EXTENDS Integers, FiniteSets, Sequences, SequencesExt

CONSTANTS
    Pools,      \* the registry's pools, in order
    Points,     \* bound: connection counts of connscale and points of sweep
    Repeat,     \* bench's --repeat
    MaxBlocks,  \* bound: blocks mined in a validate run
    Host,       \* the host's cores
    BitcoindCpus,   \* the pinning of bitcoind
    CoreLists,  \* the values of --cores: sequences of cpusets
    None        \* no container, no audit, the registry's own pinning

ASSUME PoolsAssumption == Pools \in Seq(Range(Pools))
ASSUME PointsAssumption == Points \in Nat \ {0} /\ Repeat \in Nat \ {0}
ASSUME MaxBlocksAssumption == MaxBlocks \in Nat

ASSUME CoresAssumption ==
    \A cores \in CoreLists : cores \in Seq(SUBSET Host) /\ cores # <<>>

SuiteRest == <<"sweep", "connscale", "conn-limit", "latency", "validate">>
Commands == Range(SuiteRest) \cup {"bench", "test"}

(* What runs: a command, with the pool on some cpus. *)
Job(c, cpus) == [cmd |-> c, cpus |-> cpus]

(* The first cpuset of the largest size. *)
Largest(cores) ==
    cores[CHOOSE i \in DOMAIN cores :
              /\ \A j \in DOMAIN cores : Cardinality(cores[j]) <= Cardinality(cores[i])
              /\ \A j \in 1 .. i - 1 : Cardinality(cores[j]) < Cardinality(cores[i])]

Suite(cores) == [i \in DOMAIN cores |-> Job("bench", cores[i])]
                \o [i \in DOMAIN SuiteRest |-> Job(SuiteRest[i], Largest(cores))]

(* What is left for the load generator must not be empty. *)
CoresLeft(job) == job.cpus # None => Host \ (BitcoindCpus \cup job.cpus) # {}

(* Of each block mined, whether it pays the address. *)
Payouts == UNION {[1 .. n -> BOOLEAN] : n \in 0 .. MaxBlocks}

(* What the miner and the chain say of a pool: the exit code of the audit, *)
(* the AUDIT line's retargets and blocks_submitted, and the payouts.       *)
Audits == [code : {0, 1, 3}, retargets : 0 .. 1, submitted : 0 .. 1, paid : Payouts]

ASSUME NoneAssumption == None \notin Range(Pools) /\ None \notin Audits

VARIABLES
    pools,      \* the --pool list
    plan,       \* the jobs to run: the suite's, or a single one
    keep,       \* --keep
    at,         \* the job that runs
    unit,       \* the `with PoolUnderTest` that runs, counted from 1
    phase,      \* where the command is
    point,      \* probes done in this unit
    exc,        \* exception on its way up: "pool" for one of _POOL_ERRORS, "config", "other", "interrupt"
    audit,      \* the audit of this unit
    rows,       \* the command's rows
    ok,         \* the command's overall_ok, or not failed
    overall,    \* the suite's exit code so far
    exitCode,   \* the program's
    bitcoind,   \* it is up
    container,  \* the pool whose container has the name POOL_CONTAINER
    scratch,    \* scratch directories
    conflicts,  \* history: `docker run` met a container of that name
    flawed,     \* history: a command that counts failures (TRUE), or one that does not
                \* (FALSE), returned with a row of a failed pool
    cleanup     \* history: "due" since a session began, "skipped" if it has no handler for
                \* what went wrong

unitVars == <<unit, point, audit>>
resultVars == <<rows, ok>>
dockerVars == <<bitcoind, container, scratch>>
programVars == <<pools, plan, keep, at, overall, exitCode>>
historyVars == <<conflicts, flawed, cleanup>>
vars == <<phase, exc, unitVars, resultVars, dockerVars, programVars, historyVars>>

cmd == plan[at].cmd

(* connscale starts the pool anew for each count. *)
Units == IF cmd = "connscale"
         THEN [i \in 1 .. Len(pools) * Points |-> pools[1 + (i - 1) \div Points]]
         ELSE pools
pool == Units[unit]

(* The probes and miners of one unit. *)
ProbesOf(c) == CASE c = "bench" -> Repeat
                 [] c = "sweep" -> Points
                 [] c = "test" -> 2
                 [] OTHER -> 1

Row(outcome, a) == [pool |-> pool, outcome |-> outcome, audit |-> a]

Init ==
    /\ pools \in {SubSeq(Pools, 1, n) : n \in 1 .. Len(Pools)}
    /\ \/ plan \in {Suite(cores) : cores \in CoreLists} /\ keep = FALSE
       \/ plan \in {<<Job(c, None)>> : c \in Commands} /\ keep \in BOOLEAN
       \/ plan \in {<<Job(c, None)>> : c \in {"up", "down"}} /\ keep = FALSE
    /\ at = 1 /\ unit = 1 /\ point = 0
    /\ phase = "dispatch"
    /\ exc = "none" /\ audit = None
    /\ rows = <<>> /\ ok = TRUE
    /\ overall = 0 /\ exitCode = None
    \* `up`, or an earlier run with --keep, may have left bitcoind and a pool
    /\ bitcoind \in BOOLEAN /\ container \in {None} \cup {p \in Range(Pools) : bitcoind}
    /\ scratch = 0
    /\ conflicts = FALSE /\ flawed = {} /\ cleanup = "none"

-----------------------------------------------------------------------------
(* cli: the registry, Docker, the pools' names and --keep are checked. *)

Refuse ==
    /\ phase = "dispatch"
    /\ phase' = "raised" /\ exc' \in {"config", "other", "interrupt"}
    /\ UNCHANGED <<unitVars, resultVars, dockerVars, programVars, historyVars>>

Dispatch ==
    /\ phase = "dispatch" /\ cmd \notin {"up", "down"}
    /\ ~(keep /\ Len(pools) > 1)
    /\ phase' = "setup"
    /\ UNCHANGED <<exc, unitVars, resultVars, dockerVars, programVars, historyVars>>

(* `up` waits for bitcoind's RPC, `down` takes only the compose project down. *)
UpOrDown ==
    /\ phase = "dispatch" /\ cmd \in {"up", "down"}
    /\ \/ /\ phase' = "ended" /\ exitCode' = 0
          /\ bitcoind' = (cmd = "up")
          /\ UNCHANGED exc
       \/ /\ phase' = "raised" /\ exc' \in {"other", "interrupt"}
          /\ bitcoind' \in {bitcoind, cmd = "up"}
          /\ UNCHANGED exitCode
    /\ UNCHANGED <<unitVars, resultVars, container, scratch, pools, plan, keep, at, overall,
                   historyVars>>

-----------------------------------------------------------------------------
(* session() and PoolUnderTest.__enter__ *)

(* The suite reckons the cores of each job when it comes to it. *)
NoCoresLeft ==
    /\ phase = "setup" /\ ~CoresLeft(plan[at])
    /\ phase' = "raised" /\ exc' = "config"
    /\ UNCHANGED <<unitVars, resultVars, dockerVars, programVars, historyVars>>

(* mkdtemp and the pinning override come before the try. *)
MakeScratch ==
    /\ phase = "setup" /\ CoresLeft(plan[at])
    /\ \/ /\ phase' = "up" /\ scratch' = scratch + 1
          /\ cleanup' = "due"
          /\ UNCHANGED exc
       \/ /\ phase' = "raised" /\ exc' \in {"other", "interrupt"}
          /\ scratch' \in {scratch, scratch + 1}
          /\ cleanup' = "skipped"
    /\ UNCHANGED <<bitcoind, container, unitVars, resultVars, programVars, conflicts, flawed>>

(* compose up, until the RPC answers. *)
BackendUp ==
    /\ phase = "up"
    /\ phase' = "prime" /\ bitcoind' = TRUE
    /\ UNCHANGED <<exc, container, scratch, unitVars, resultVars, programVars, historyVars>>

(* The probe image; 20 blocks, or for latency 110 to a wallet of its own. *)
PrimeChain ==
    /\ phase = "prime"
    /\ phase' = "enter"
    /\ UNCHANGED <<exc, unitVars, resultVars, dockerVars, programVars, historyVars>>

(* What fails here is not of a pool, and its handler is the teardown. *)
SessionFails ==
    /\ phase \in {"up", "prime"}
    /\ phase' = "remove" /\ exc' \in {"other", "interrupt"}
    /\ bitcoind' \in {bitcoind, TRUE}
    /\ UNCHANGED <<container, scratch, unitVars, resultVars, programVars, historyVars>>

EnterAsIs ==   \* faulty: does not remove what has the name
    /\ phase = "enter"
    /\ phase' = "image"
    /\ UNCHANGED <<exc, unitVars, resultVars, dockerVars, programVars, historyVars>>

Enter ==
    /\ phase = "enter"
    /\ phase' = "image"
    /\ container' = None
    /\ UNCHANGED <<exc, unitVars, resultVars, bitcoind, scratch, programVars, historyVars>>

(* _ensure_image and _render_config_volume. *)
ObtainImage ==
    /\ phase = "image"
    /\ phase' = "start"
    /\ UNCHANGED <<exc, unitVars, resultVars, dockerVars, programVars, historyVars>>

(* docker run -d: it fails if the name is taken, and a run that fails      *)
(* otherwise may leave the container behind.                               *)
Start ==
    /\ phase = "start"
    /\ IF container = None
       THEN /\ \/ phase' = "ready" /\ container' = pool /\ UNCHANGED exc
               \/ phase' = "enterFailed" /\ container' \in {None, pool}
                  /\ exc' \in {"pool", "interrupt"}
            /\ UNCHANGED conflicts
       ELSE /\ phase' = "enterFailed" /\ exc' = "pool" /\ conflicts' = TRUE
            /\ UNCHANGED container
    /\ UNCHANGED <<unitVars, resultVars, bitcoind, scratch, programVars, flawed, cleanup>>

BecomesReady ==
    /\ phase = "ready"
    /\ phase' = "measure"
    /\ UNCHANGED <<exc, unitVars, resultVars, dockerVars, programVars, historyVars>>

(* An AdapterError or DockerError, something else, or Ctrl-C. *)
EnterFails ==
    /\ phase \in {"enter", "image", "ready"}
    /\ phase' = "enterFailed"
    /\ exc' \in {"pool", "other", "interrupt"}
    /\ UNCHANGED <<unitVars, resultVars, dockerVars, programVars, historyVars>>

(* except BaseException: remove; raise *)
CleanUpEnter ==
    /\ phase = "enterFailed"
    /\ phase' = "caught"
    /\ \/ container' = None /\ UNCHANGED exc
       \/ UNCHANGED container /\ exc' = "interrupt"
    /\ UNCHANGED <<unitVars, resultVars, bitcoind, scratch, programVars, historyVars>>
-----------------------------------------------------------------------------
(* The body of the with statement, and the row it adds. *)

BlockOutcome(a) ==
    CASE Len(a.paid) > 0 /\ (\A h \in DOMAIN a.paid : a.paid[h]) -> "yes"
      [] Len(a.paid) > 0 /\ (\E h \in DOMAIN a.paid : ~a.paid[h]) -> "wrong-payout"
      [] Len(a.paid) = 0 /\ a.submitted > 0 -> "no-relay"
      [] OTHER -> "none"

VerdictIfMined(a) ==   \* faulty: only asks that blocks were mined
    CASE a.code # 0 \/ BlockOutcome(a) = "no-relay" -> "FAIL"
      [] a.code = 0 /\ BlockOutcome(a) # "no-relay" /\ a.retargets = 0 -> "INCONCLUSIVE"
      [] OTHER -> "PASS"

Verdict(a) ==
    CASE a.code # 0 \/ BlockOutcome(a) \in {"no-relay", "wrong-payout"} -> "FAIL"
      [] a.code = 0 /\ BlockOutcome(a) \in {"yes", "none"} /\ a.retargets = 0 -> "INCONCLUSIVE"
      [] OTHER -> "PASS"

(* One probe or miner's run after the other, of the command that runs. *)
Measuring(c) ==
    /\ phase = "measure" /\ cmd = c /\ point < ProbesOf(c)
    /\ point' = point + 1
    /\ UNCHANGED <<phase, exc, unit, dockerVars, programVars, historyVars>>

AddRow(outcome, a) == rows' = Append(rows, Row(outcome, a))

(* The windows of bench, whose best makes the row, and the one of test. *)
BenchWindow ==
    /\ Measuring("bench") \/ (Measuring("test") /\ audit # None)
    /\ UNCHANGED <<audit, resultVars>>

(* A row after each point, on one warm pool. *)
SweepPoint ==
    /\ Measuring("sweep")
    /\ AddRow("ok", None)
    /\ UNCHANGED <<audit, ok>>

HoldConnections ==
    /\ Measuring("connscale")
    /\ AddRow("ok", None)
    /\ UNCHANGED <<audit, ok>>

FindCeiling ==
    /\ Measuring("conn-limit")
    /\ AddRow("ok", None)
    /\ UNCHANGED <<audit, ok>>

TimeBlocks ==
    /\ Measuring("latency")
    /\ AddRow("ok", None)
    /\ UNCHANGED <<audit, ok>>

(* The miner's audit and the chain's answer. The AUDIT line may be missing, *)
(* and is then read as zeros.                                               *)
Validate ==
    /\ Measuring("validate")
    /\ audit' \in Audits
    /\ AddRow(Verdict(audit'), audit')
    /\ ok' = (ok /\ Verdict(audit') = "PASS")

(* test looks at the miner's exit code only. *)
AuditWork ==
    /\ Measuring("test") /\ audit = None
    /\ audit' \in {a \in Audits : a.retargets = 0 /\ a.submitted = 0 /\ a.paid = <<>>}
    /\ UNCHANGED resultVars

(* The probe fails, times out or prints nonsense; an RPC fails; Ctrl-C. *)
MeasureFails ==
    /\ phase = "measure" /\ point < ProbesOf(cmd)
    /\ phase' = "exit"
    /\ exc' \in {"pool", "other", "interrupt"}
    /\ UNCHANGED <<unitVars, resultVars, dockerVars, programVars, historyVars>>

Measured ==
    /\ phase = "measure" /\ point = ProbesOf(cmd)
    /\ phase' = "exit"
    /\ UNCHANGED <<exc, unitVars, resultVars, dockerVars, programVars, historyVars>>

(* __exit__; Ctrl-C may take the place of what was on its way. *)
Exit ==
    /\ phase = "exit"
    /\ phase' = "caught"
    /\ \/ container' = (IF keep THEN container ELSE None) /\ UNCHANGED exc
       \/ UNCHANGED container /\ exc' = "interrupt"
    /\ UNCHANGED <<unitVars, resultVars, bitcoind, scratch, programVars, historyVars>>

(* The end of the loop's body: only _POOL_ERRORS are caught, and turned    *)
(* into a FAILED row; connscale, conn-limit and latency have no flag.      *)
CountsFailures == cmd \notin {"connscale", "conn-limit", "latency"}

NextUnit ==
    /\ phase = "caught"
    /\ exc \in {"none", "pool"}
    /\ exc' = "none"
    /\ CASE exc = "pool" ->
                /\ AddRow("FAILED", None)
                /\ ok' = (ok /\ ~CountsFailures)
         [] exc = "none" /\ cmd = "bench" -> AddRow("ok", None) /\ UNCHANGED ok
         [] exc = "none" /\ cmd = "test" ->
                /\ AddRow(IF audit.code = 0 THEN "PASS" ELSE "FAIL", audit)
                /\ ok' = (ok /\ audit.code = 0)
         [] OTHER -> UNCHANGED resultVars
    /\ unit' = unit + 1 /\ point' = 0 /\ audit' = None
    /\ phase' = IF unit < Len(Units) THEN "enter" ELSE "remove"
    /\ UNCHANGED <<dockerVars, programVars, historyVars>>

Propagate ==
    /\ phase = "caught"
    /\ exc \in {"other", "interrupt"}
    /\ phase' = "remove"
    /\ UNCHANGED <<exc, unitVars, resultVars, dockerVars, programVars, historyVars>>
-----------------------------------------------------------------------------
(* session()'s finally, the command's return, and the suite. *)

TearDownOnSuccess ==   \* faulty: no finally, the teardown is skipped by an exception
    /\ phase = "remove"
    /\ phase' = IF exc = "none" THEN "return" ELSE "raised"
    /\ IF keep \/ exc # "none" THEN UNCHANGED dockerVars
       ELSE container' = None /\ bitcoind' = FALSE /\ scratch' = scratch - 1
    /\ UNCHANGED <<exc, unitVars, resultVars, programVars, historyVars>>

TearDown ==
    /\ phase = "remove"
    /\ phase' = IF exc = "none" THEN "return" ELSE "raised"
    /\ IF keep THEN UNCHANGED dockerVars
       ELSE container' = None /\ bitcoind' = FALSE /\ scratch' = scratch - 1
    /\ UNCHANGED <<exc, unitVars, resultVars, programVars, historyVars>>

(* Ctrl-C during the teardown: what is not yet down stays. *)
TearDownInterrupted ==
    /\ phase = "remove" /\ ~keep
    /\ phase' = "raised" /\ exc' = "interrupt" /\ cleanup' = "skipped"
    /\ container' \in {None, container}
    /\ bitcoind' \in {bitcoind} \cup {b \in {FALSE} : container' = None}
    /\ UNCHANGED <<scratch, unitVars, resultVars, programVars, conflicts, flawed>>

code == IF ok THEN 0 ELSE 1

SomeFailed == \E i \in DOMAIN rows : rows[i].outcome \in {"FAILED", "FAIL", "INCONCLUSIVE"}

ReturnLast ==   \* faulty: keeps the last command's code
    /\ phase = "return"
    /\ overall' = code
    /\ flawed' = IF SomeFailed THEN flawed \cup {CountsFailures} ELSE flawed
    /\ IF at < Len(plan)
       THEN /\ at' = at + 1 /\ unit' = 1
            /\ rows' = <<>> /\ ok' = TRUE
            /\ phase' = "setup"
            /\ UNCHANGED exitCode
       ELSE /\ phase' = "ended" /\ exitCode' = overall'
            /\ UNCHANGED <<at, unit, rows, ok>>
    /\ UNCHANGED <<exc, point, audit, dockerVars, pools, plan, keep, conflicts, cleanup>>

(* The command is over; the suite ors its code and goes on. *)
Return ==
    /\ phase = "return"
    /\ overall' = IF code = 1 THEN 1 ELSE overall
    /\ flawed' = IF SomeFailed THEN flawed \cup {CountsFailures} ELSE flawed
    /\ IF at < Len(plan)
       THEN /\ at' = at + 1 /\ unit' = 1
            /\ rows' = <<>> /\ ok' = TRUE
            /\ phase' = "setup"
            /\ UNCHANGED exitCode
       ELSE /\ phase' = "ended" /\ exitCode' = overall'
            /\ UNCHANGED <<at, unit, rows, ok>>
    /\ UNCHANGED <<exc, point, audit, dockerVars, pools, plan, keep, conflicts, cleanup>>

(* The table or the file in --out cannot be written. *)
PersistFails ==
    /\ phase = "return"
    /\ phase' = "raised"
    /\ exc' \in {"other", "interrupt"}
    /\ UNCHANGED <<unitVars, resultVars, dockerVars, programVars, historyVars>>

(* cli.main: 130 for Ctrl-C, 2 for a ConfigError; an OSError, no Docker and *)
(* a traceback are all 1.                                                   *)
Raise ==
    /\ phase = "raised"
    /\ phase' = "ended"
    /\ exitCode' = CASE exc = "interrupt" -> 130 [] exc = "config" -> 2 [] OTHER -> 1
    /\ UNCHANGED <<exc, unitVars, resultVars, dockerVars, pools, plan, keep, at, overall,
                   historyVars>>

Next ==
    \/ Refuse \/ Dispatch \/ UpOrDown
    \/ NoCoresLeft \/ MakeScratch \/ BackendUp \/ PrimeChain \/ SessionFails
    \/ Enter \/ ObtainImage \/ Start \/ BecomesReady \/ EnterFails \/ CleanUpEnter
    \/ BenchWindow \/ SweepPoint \/ HoldConnections \/ FindCeiling \/ TimeBlocks
    \/ Validate \/ AuditWork \/ MeasureFails \/ Measured \/ Exit \/ NextUnit \/ Propagate
    \/ TearDown \/ TearDownInterrupted \/ Return \/ PersistFails \/ Raise

Spec == Init /\ [][Next]_vars

-----------------------------------------------------------------------------
Outcomes == {"ok", "FAILED", "PASS", "FAIL", "INCONCLUSIVE"}

(* Every variable has its type. *)
TypeOK ==
    /\ pools \in Seq(Range(Pools))
    /\ plan \in Seq([cmd : Commands \cup {"up", "down"}, cpus : {None} \cup SUBSET Host])
    /\ keep \in BOOLEAN
    /\ at \in DOMAIN plan
    /\ unit \in 1 .. Len(Units) + 1
    /\ phase \in {"dispatch", "setup", "up", "prime", "enter", "image", "start", "ready",
                  "enterFailed", "measure", "exit", "caught", "remove", "return", "raised", "ended"}
    /\ point \in 0 .. ProbesOf(cmd)
    /\ exc \in {"none", "pool", "config", "other", "interrupt"}
    /\ audit \in Audits \cup {None}
    /\ rows \in Seq([pool : Range(Pools), outcome : Outcomes, audit : Audits \cup {None}])
    /\ ok \in BOOLEAN
    /\ overall \in {0, 1}
    /\ exitCode \in {None, 0, 1, 2, 130}
    /\ bitcoind \in BOOLEAN
    /\ container \in Range(Pools) \cup {None}
    /\ scratch \in Nat
    /\ conflicts \in BOOLEAN /\ flawed \subseteq BOOLEAN /\ cleanup \in {"none", "due", "skipped"}

(* What is measured is the pool whose row it becomes, though all pools     *)
(* have the same name; a container left by an earlier unit, or by an       *)
(* earlier run with --keep, never makes a pool fail to start.              *)
MeasuresItsOwnPool ==
    /\ phase = "measure" => container = pool /\ bitcoind
    /\ ~conflicts

(* However a program that began a session ends, it leaves nothing running  *)
(* and no scratch directory, unless it was told to keep them, or Ctrl-C    *)
(* stopped the teardown itself, or a session failed before its try.        *)
NothingLeftBehind ==
    phase = "ended" /\ ~keep /\ cleanup = "due" =>
        ~bitcoind /\ container = None /\ scratch = 0

Clean(row) ==
    /\ row.outcome \in {"ok", "PASS"}
    /\ row.audit # None => row.audit.code = 0
    /\ cmd = "validate" =>
           /\ row.audit.retargets > 0
           /\ \A h \in DOMAIN row.audit.paid : row.audit.paid[h]
           /\ row.audit.submitted > 0 => row.audit.paid # <<>>

(* "Exit 0 iff every pool passed": a bench, sweep, validate or test that   *)
(* returns 0 has a row of every pool and no flawed one, for validate down  *)
(* to each block the pool mined.                                           *)
ZeroVouchesForEveryPool ==
    phase = "return" /\ CountsFailures =>
        (ok <=> /\ \A p \in Range(pools) :
                      Cardinality({i \in DOMAIN rows : rows[i].pool = p}) >=
                          (IF cmd = "sweep" THEN Points ELSE 1)
                /\ \A i \in DOMAIN rows : Clean(rows[i]))

(* The suite does not forget: it exits with 0 only if no bench, at any of  *)
(* the cpusets, no sweep and no validate had a failed pool, whatever the   *)
(* commands after it returned.                                             *)
SuiteRemembers == phase = "ended" /\ exitCode = 0 => TRUE \notin flawed

(* "Non-zero if any failed": a suite that exits with 0 had no FAILED row.  *)
SuiteReportsFailures ==
    phase = "ended" /\ exitCode = 0 /\ Len(plan) > 1 => flawed = {}
=============================================================================
