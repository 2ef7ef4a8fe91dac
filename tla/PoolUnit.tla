-------------------------------- MODULE PoolUnit --------------------------------
(***************************************************************************)
(* The units of a session seen from inside (adapters.PoolUnderTest,        *)
(* docker.py, probes/wait_ready.py, runner._run_bench_probe): for each,    *)
(* the source is cloned and built, the pool's container started and waited *)
(* for, and then probed by one-shot containers under a thread that samples *)
(* its statistics.                                                         *)
(*                                                                         *)
(* A timeout kills the docker command, not the container it waits for, and *)
(* the sampler is joined for five seconds only, so one-shots and samplers  *)
(* of an earlier unit may run on beside a later one, whose container has   *)
(* the same name.  The pool may die at any time and a probe may hang.      *)
(* Docker commands without a timeout (rm, run -d, ps, logs, build) return. *)
(***************************************************************************)
EXTENDS Integers, Sequences, SequencesExt

CONSTANTS
    Units,   \* bound: `with PoolUnderTest` blocks, one after the other
    Points   \* probes of a unit: those of a sweep

ASSUME BoundsAssumption == Units \in Nat \ {0} /\ Points \in Nat \ {0}

(* A probe, with its sampler, is named by its unit and its number in it;   *)
(* number 0 is the readiness check of http and tcp.                        *)
Probes == (1 .. Units) \X (1 .. Points)
Oneshots == (1 .. Units) \X (0 .. Points)

VARIABLES
    kind,       \* the pool's readiness: "log", or "net" for http and tcp
    source,     \* the build context: "absent", "partial" or "whole"
    image,      \* what the pool's image was built of
    pc,         \* where the orchestrator is
    unit, point,    \* the unit, and the probes it has done
    box,        \* the unit whose container has the name, 0 if none
    pool,       \* what runs in it: "starting", "serving" or "dead"
    logged,     \* it has served: its logs have the pattern
    oneshots,   \* the one-shot containers that run
    thread,     \* the sampler of each probe: "off", "ask", "stats" or "ended"
    stop,       \* the samplers that were told to stop
    lines,      \* the units each sampler has samples of
    rows        \* [unit, outcome, samples]

sourceVars == <<kind, source, image>>
poolVars == <<box, pool, logged>>
samplerVars == <<thread, stop, lines>>
vars == <<sourceVars, pc, unit, point, poolVars, oneshots, samplerVars, rows>>

\* A half clone that an earlier program left is not started from.
Init ==
    /\ kind \in {"log", "net"}
    /\ source \in {"absent", "whole"} /\ image = "none"
    /\ pc = "remove" /\ unit = 1 /\ point = 0
    /\ box = 0 /\ pool = "dead" /\ logged = FALSE
    /\ oneshots = {}
    /\ thread = [s \in Probes |-> "off"] /\ stop = {} /\ lines = [s \in Probes |-> {}]
    /\ rows = <<>>

Goto(a, b) == pc = a /\ pc' = b

Running == box # 0 /\ pool # "dead"
-----------------------------------------------------------------------------
(* __enter__ *)

RemoveOld ==
    /\ Goto("remove", "source")
    /\ box' = 0 /\ pool' = "dead" /\ logged' = FALSE
    /\ UNCHANGED <<sourceVars, unit, point, oneshots, samplerVars, rows>>

(* Only a missing directory is cloned. git takes its own failures back, a  *)
(* git that is killed by the timeout leaves what it had.                   *)
Clone ==
    /\ source = "absent"
    /\ \/ Goto("source", "build") /\ source' = "whole"
       \/ Goto("source", "failed") /\ source' \in {"absent", "partial"}
    /\ UNCHANGED <<kind, image, unit, point, poolVars, oneshots, samplerVars, rows>>

KeepSource ==
    /\ source # "absent"
    /\ Goto("source", "build")
    /\ UNCHANGED <<sourceVars, unit, point, poolVars, oneshots, samplerVars, rows>>

(* docker build, and the rendered configuration. *)
Build ==
    /\ \/ Goto("build", "start") /\ image' = source
       \/ Goto("build", "failed") /\ UNCHANGED image
    /\ UNCHANGED <<kind, source, unit, point, poolVars, oneshots, samplerVars, rows>>

(* The check runs beside the pool; the log is read by the orchestrator.    *)
Checks == IF kind = "net" THEN {<<unit, 0>>} ELSE {}

StartPool ==
    /\ box = 0
    /\ \/ Goto("start", "await") /\ box' = unit /\ oneshots' = oneshots \cup Checks
       \/ Goto("start", "failed") /\ box' \in {0, unit} /\ UNCHANGED oneshots
    /\ pool' = "starting" /\ logged' = FALSE
    /\ UNCHANGED <<sourceVars, unit, point, samplerVars, rows>>

SeenReadyIfRunning ==   \* faulty: takes a running container for a ready pool
    /\ kind = "log" /\ Running
    /\ Goto("await", "measure")
    /\ UNCHANGED <<sourceVars, unit, point, poolVars, oneshots, samplerVars, rows>>

(* wait_log: the pattern is in the logs, of a pool that has died as well.  *)
SeenReady ==
    /\ kind = "log" /\ logged
    /\ Goto("await", "measure")
    /\ UNCHANGED <<sourceVars, unit, point, poolVars, oneshots, samplerVars, rows>>

(* wait_ready.py reached the pool, or not until its deadline. *)
CheckEnds ==
    /\ <<unit, 0>> \in oneshots
    /\ oneshots' = oneshots \ {<<unit, 0>>}
    /\ \/ pool = "serving" /\ Goto("await", "measure")
       \/ Goto("await", "failed")
    /\ UNCHANGED <<sourceVars, unit, point, poolVars, samplerVars, rows>>

(* The deadline, or a pool that has exited without the pattern; for the    *)
(* check, the timeout of its docker command.                               *)
NotReady ==
    /\ Goto("await", "failed")
    /\ UNCHANGED <<sourceVars, unit, point, poolVars, oneshots, samplerVars, rows>>
-----------------------------------------------------------------------------
(* _run_bench_probe *)

StartProbeOneMore ==   \* faulty: a point too many
    /\ point <= Points
    /\ Goto("measure", "probe")
    /\ point' = point + 1
    /\ oneshots' = oneshots \cup {<<unit, point'>>}
    /\ thread' = [thread EXCEPT ![<<unit, point'>>] = "ask"]
    /\ UNCHANGED <<sourceVars, unit, poolVars, stop, lines, rows>>

StartProbe ==
    /\ point < Points
    /\ Goto("measure", "probe")
    /\ point' = point + 1
    /\ oneshots' = oneshots \cup {<<unit, point'>>}
    /\ thread' = [thread EXCEPT ![<<unit, point'>>] = "ask"]
    /\ UNCHANGED <<sourceVars, unit, poolVars, stop, lines, rows>>

(* The one-shot ends; run_oneshot raises for an exit code but 0. *)
ProbeReturns ==
    /\ <<unit, point>> \in oneshots
    /\ oneshots' = oneshots \ {<<unit, point>>}
    /\ Goto("probe", "join") \/ Goto("probe", "joinFailed")
    /\ stop' = stop \cup {<<unit, point>>}
    /\ UNCHANGED <<sourceVars, unit, point, poolVars, thread, lines, rows>>

ProbeTimesOutQuietly ==   \* faulty: what the probe had printed is taken
    /\ Goto("probe", "join")
    /\ stop' = stop \cup {<<unit, point>>}
    /\ UNCHANGED <<sourceVars, unit, point, poolVars, oneshots, thread, lines, rows>>

NoTimeOut == FALSE   \* faulty: no timeout

(* TimeoutExpired: the command is killed, its container is not. *)
ProbeTimesOut ==
    /\ Goto("probe", "joinFailed")
    /\ stop' = stop \cup {<<unit, point>>}
    /\ UNCHANGED <<sourceVars, unit, point, poolVars, oneshots, thread, lines, rows>>

Row(outcome) == [unit |-> unit, outcome |-> outcome,
                 samples |-> IF outcome = "ok" THEN lines[<<unit, point>>] ELSE {}]

(* join(timeout=5) returns, whether or not the thread has ended; the       *)
(* output may be nonsense.                                                 *)
Joined ==
    /\ \/ Goto("join", "measure") /\ rows' = Append(rows, Row("ok"))
       \/ (Goto("join", "failed") \/ Goto("joinFailed", "failed")) /\ UNCHANGED rows
    /\ UNCHANGED <<sourceVars, unit, point, poolVars, oneshots, samplerVars>>

(* __exit__, or the handler of __enter__, and the row of what failed. *)
UnitEnds ==
    /\ pc = "failed" \/ (pc = "measure" /\ point = Points)
    /\ box' = 0 /\ pool' = "dead" /\ logged' = FALSE
    /\ rows' = IF pc = "failed" THEN Append(rows, Row("FAILED")) ELSE rows
    /\ IF unit < Units
       THEN pc' = "remove" /\ unit' = unit + 1 /\ point' = 0
       ELSE pc' = "ended" /\ UNCHANGED <<unit, point>>
    /\ UNCHANGED <<sourceVars, oneshots, samplerVars>>
-----------------------------------------------------------------------------
(* StatsSampler._loop: `docker ps` and `docker stats` in turns, until the  *)
(* container is gone or the thread is told to stop; a command that fails   *)
(* ends it.                                                                *)
Ask(s) ==
    /\ thread[s] = "ask"
    /\ thread' = [thread EXCEPT ![s] = IF s \notin stop /\ Running THEN "stats" ELSE "ended"]
    /\ UNCHANGED <<sourceVars, pc, unit, point, poolVars, oneshots, stop, lines, rows>>

SamplerDies(s) ==
    /\ thread[s] = "ask" /\ s \notin stop
    /\ thread' = [thread EXCEPT ![s] = "ended"]
    /\ UNCHANGED <<sourceVars, pc, unit, point, poolVars, oneshots, stop, lines, rows>>

SampleShared(s) ==   \* faulty: one list for all samplers
    /\ thread[s] = "stats"
    /\ thread' = [thread EXCEPT ![s] = "ask"]
    /\ lines' = [t \in Probes |-> IF box = 0 THEN lines[t] ELSE lines[t] \cup {box}]
    /\ UNCHANGED <<sourceVars, pc, unit, point, poolVars, oneshots, stop, rows>>

Sample(s) ==
    /\ thread[s] = "stats"
    /\ thread' = [thread EXCEPT ![s] = "ask"]
    /\ lines' = IF box = 0 THEN lines ELSE [lines EXCEPT ![s] = @ \cup {box}]
    /\ UNCHANGED <<sourceVars, pc, unit, point, poolVars, oneshots, stop, rows>>
-----------------------------------------------------------------------------
(* The pool's process, and the one-shots nobody waits for any more. *)

Serve ==
    /\ box # 0 /\ pool = "starting"
    /\ pool' = "serving" /\ logged' = TRUE
    /\ UNCHANGED <<sourceVars, pc, unit, point, box, oneshots, samplerVars, rows>>

Die ==
    /\ Running
    /\ pool' = "dead"
    /\ UNCHANGED <<sourceVars, pc, unit, point, box, logged, oneshots, samplerVars, rows>>

Waited == CASE pc = "await" -> {<<unit, 0>>} [] pc = "probe" -> {<<unit, point>>} [] OTHER -> {}

OrphanEnds ==
    /\ \E o \in oneshots \ Waited : oneshots' = oneshots \ {o}
    /\ UNCHANGED <<sourceVars, pc, unit, point, poolVars, samplerVars, rows>>

Main ==
    \/ RemoveOld \/ Clone \/ KeepSource \/ Build \/ StartPool \/ SeenReady \/ NotReady
    \/ StartProbe \/ ProbeTimesOut \/ Joined \/ UnitEnds

Next ==
    \/ Main \/ CheckEnds \/ ProbeReturns \/ OrphanEnds \/ Serve \/ Die
    \/ \E s \in Probes : Ask(s) \/ SamplerDies(s) \/ Sample(s)

(* The orchestrator goes on and its deadlines pass; the pool, the samplers *)
(* and the one-shots, which may hang, promise nothing.                     *)
Spec == Init /\ [][Next]_vars /\ WF_vars(Main)

-----------------------------------------------------------------------------
Outcomes == {"ok", "FAILED"}

(* Every variable has its type. *)
TypeOK ==
    /\ kind \in {"log", "net"}
    /\ source \in {"absent", "partial", "whole"} /\ image \in {"none", "partial", "whole"}
    /\ pc \in {"remove", "source", "build", "start", "await", "measure", "probe", "join",
               "joinFailed", "failed", "ended"}
    /\ unit \in 1 .. Units /\ point \in 0 .. Points
    /\ box \in 0 .. Units
    /\ pool \in {"starting", "serving", "dead"} /\ logged \in BOOLEAN
    /\ oneshots \subseteq Oneshots
    /\ thread \in [Probes -> {"off", "ask", "stats", "ended"}]
    /\ stop \subseteq Probes
    /\ lines \in [Probes -> SUBSET (1 .. Units)]
    /\ rows \in Seq([unit : 1 .. Units, outcome : Outcomes, samples : SUBSET (1 .. Units)])

(* A row's CPU and memory are of the pool it names, though samplers of     *)
(* earlier units may still run and all pools have one name.                *)
SamplesAreOwn == \A i \in DOMAIN rows : rows[i].samples \subseteq {rows[i].unit}

(* A pool is measured only if it has served since this unit started it,    *)
(* whatever an earlier container had logged.                               *)
MeasuredWasReady == pc \in {"measure", "probe"} => logged /\ box = unit

HasFailed(u) == \E i \in DOMAIN rows : rows[i].unit = u /\ rows[i].outcome = "FAILED"

(* Where a measurement is disturbed by a one-shot that outlived its        *)
(* timeout, or its pool is built of half a clone, the table says so: an    *)
(* earlier unit, the one-shot's own, is FAILED.  What an earlier program   *)
(* left is out of sight of this table, and of Init.                        *)
DisturbancesAreAnnounced ==
    pc = "probe" =>
        /\ \A o \in oneshots \ {<<unit, point>>} : HasFailed(o[1]) /\ o[1] < unit
        /\ image = "partial" => \E u \in 1 .. unit - 1 : HasFailed(u)

(* The units end, though a probe may hang for ever, as stratum_bench does  *)
(* if one of its processes is killed.                                      *)
UnitsEnd == <>(pc = "ended")
=============================================================================
