------------------------------ MODULE LatencyProbe ------------------------------
(***************************************************************************)
(* The new-block latency probe (openbench/probes/zmqlatency.py): main      *)
(* mines a block through bitcoind, waits for a new job and records         *)
(* notify_ts - t0; the read task stamps notify_ts.  Both run on one        *)
(* asyncio loop: an action is what runs between two awaits.                *)
(*                                                                         *)
(* Bitcoind and the pool are external.  The pool announces a new block     *)
(* when it likes, may refresh its job without one, and may send a job      *)
(* again under its id.  perf_counter() is a counter that every reading of  *)
(* the clock moves on.                                                     *)
(***************************************************************************)
EXTENDS Integers, Sequences, SequencesExt

CONSTANTS
    Rounds,       \* --rounds
    MaxRefreshes, \* bound: jobs the pool sends without a new block
    MaxResends,   \* bound: jobs it sends twice
    None          \* no job yet

ASSUME RoundsAssumption == Rounds \in Nat
ASSUME BoundsAssumption == MaxRefreshes \in Nat /\ MaxResends \in Nat

Heights == 0 .. Rounds
Jobs == [id : Nat, height : Heights]
Samples == [block : Heights, t0 : Nat, ts : Nat, job : Jobs]

ASSUME NoneAssumption == None \notin Jobs

VARIABLES
    pc,         \* main: "initial", "sleep", "rpc", "wait", then "reported", "noJob", "crashed"
    round,      \* rounds begun
    clock,      \* readings of perf_counter()
    t0,         \* main's reading in this round
    lats,       \* the samples, with the job that gave each
    job_id,     \* the read task's last job
    notify_ts,  \* its stamp
    new_job,    \* the event
    reading,    \* the read task runs
    wire,       \* notifies on their way to the client
    height,     \* blocks mined by the probe
    poolJob,    \* the pool's current job
    refreshes, resends,
    skipped     \* history: a round ended without a sample

clientVars == <<job_id, notify_ts, new_job, reading>>
poolVars == <<height, poolJob, refreshes, resends>>
vars == <<pc, round, clock, t0, lats, clientVars, wire, poolVars, skipped>>

Init ==
    /\ pc = "initial"
    /\ round = 0 /\ clock = 0 /\ t0 = 0
    /\ lats = <<>>
    /\ job_id = None /\ notify_ts = 0 /\ new_job = FALSE
    /\ reading = TRUE
    /\ poolJob = [id |-> 0, height |-> 0]
    /\ wire = <<poolJob>>
    /\ height = 0 /\ refreshes = 0 /\ resends = 0
    /\ skipped = FALSE

-----------------------------------------------------------------------------
(* main() *)

AfterRound == IF round < Rounds THEN "sleep" ELSE "reported"

GotInitialJob ==
    /\ pc = "initial" /\ new_job
    /\ pc' = AfterRound
    /\ UNCHANGED <<round, clock, t0, lats, clientVars, wire, poolVars, skipped>>

NoInitialJob ==
    /\ pc = "initial"
    /\ pc' = "noJob"
    /\ UNCHANGED <<round, clock, t0, lats, clientVars, wire, poolVars, skipped>>

StartRoundUncleared ==   \* faulty: the event keeps a job that came during the sleep
    /\ pc = "sleep"
    /\ pc' = "rpc"
    /\ round' = round + 1
    /\ clock' = clock + 1 /\ t0' = clock'
    /\ UNCHANGED <<lats, clientVars, wire, poolVars, skipped>>

(* After the sleep: clear, t0 and the call, with no await between them. *)
StartRound ==
    /\ pc = "sleep"
    /\ pc' = "rpc"
    /\ round' = round + 1
    /\ new_job' = FALSE
    /\ clock' = clock + 1 /\ t0' = clock'
    /\ UNCHANGED <<lats, job_id, notify_ts, reading, wire, poolVars, skipped>>

(* bitcoind mines in the call's thread; the call returns later. *)
MineBlock ==
    /\ pc = "rpc" /\ height < round
    /\ height' = round
    /\ UNCHANGED <<pc, round, clock, t0, lats, clientVars, wire, poolJob, refreshes, resends,
                   skipped>>

RpcReturns ==
    /\ pc = "rpc" /\ height = round
    /\ pc' = "wait"
    /\ UNCHANGED <<round, clock, t0, lats, clientVars, wire, poolVars, skipped>>

(* An HTTP error or its 15 s timeout is not caught. *)
RpcFails ==
    /\ pc = "rpc"
    /\ pc' = "crashed"
    /\ UNCHANGED <<round, clock, t0, lats, clientVars, wire, poolVars, skipped>>

(* The wait resumes some time after the event was set: notify_ts is what   *)
(* it is by then.                                                          *)
RecordSample ==
    /\ pc = "wait" /\ new_job
    /\ pc' = AfterRound
    /\ lats' = Append(lats, [block |-> round, t0 |-> t0, ts |-> notify_ts, job |-> job_id])
    /\ UNCHANGED <<round, clock, t0, clientVars, wire, poolVars, skipped>>

NoTimeOut == FALSE   \* faulty: wait() without a timeout

(* wait_for's timer: it wins over a job that arrives as it fires. *)
TimeOut ==
    /\ pc = "wait"
    /\ pc' = AfterRound
    /\ skipped' = TRUE
    /\ UNCHANGED <<round, clock, t0, lats, clientVars, wire, poolVars>>

-----------------------------------------------------------------------------
(* The read task: asyncio.run cancels it when main ends. *)

Ended == pc \in {"reported", "noJob", "crashed"}

OnNotifyAny(job) ==   \* faulty: does not compare the job ids
    /\ clock' = clock + 1
    /\ notify_ts' = clock'
    /\ job_id' = job
    /\ new_job' = TRUE

OnNotify(job) ==
    \/ /\ job # job_id
       /\ clock' = clock + 1
       /\ notify_ts' = clock'
       /\ job_id' = job
       /\ new_job' = TRUE
    \/ job = job_id /\ UNCHANGED <<clock, notify_ts, job_id, new_job>>

ReadNotify ==
    /\ ~Ended /\ reading /\ wire # <<>>
    /\ OnNotify(Head(wire))
    /\ wire' = Tail(wire)
    /\ UNCHANGED <<pc, round, t0, lats, reading, poolVars, skipped>>

EndOfStream ==
    /\ ~Ended /\ reading
    /\ reading' = FALSE
    /\ UNCHANGED <<pc, round, clock, t0, lats, job_id, notify_ts, new_job, wire, poolVars,
                   skipped>>

-----------------------------------------------------------------------------
(* The pool. *)

SendNewJob ==
    /\ poolJob' = [id |-> poolJob.id + 1, height |-> height]
    /\ wire' = Append(wire, poolJob')
    /\ UNCHANGED <<pc, round, clock, t0, lats, clientVars, height, skipped>>

PoolSeesBlock ==
    /\ poolJob.height < height
    /\ SendNewJob
    /\ UNCHANGED <<refreshes, resends>>

PoolRefreshes ==
    /\ poolJob.height = height /\ refreshes < MaxRefreshes
    /\ refreshes' = refreshes + 1
    /\ SendNewJob
    /\ UNCHANGED resends

PoolResends ==
    /\ resends < MaxResends
    /\ resends' = resends + 1
    /\ wire' = Append(wire, poolJob)
    /\ UNCHANGED <<pc, round, clock, t0, lats, clientVars, height, poolJob, refreshes, skipped>>

Main ==
    \/ GotInitialJob \/ NoInitialJob \/ StartRound \/ RpcReturns \/ RpcFails
    \/ RecordSample \/ TimeOut

Pool == PoolSeesBlock \/ PoolRefreshes \/ PoolResends

Next == Main \/ MineBlock \/ ReadNotify \/ EndOfStream \/ Pool

(* Each of main's waits has a timer: 30 s, 0.4 s, 15 s, 10 s.  Nothing is  *)
(* assumed of the pool or of bitcoind.                                     *)
Spec == Init /\ [][Next]_vars /\ WF_vars(Main)

-----------------------------------------------------------------------------
(* Every variable has its type. *)
TypeOK ==
    /\ pc \in {"initial", "sleep", "rpc", "wait", "reported", "noJob", "crashed"}
    /\ round \in Heights
    /\ clock \in Nat /\ t0 \in Nat /\ notify_ts \in Nat
    /\ lats \in Seq(Samples)
    /\ job_id \in Jobs \cup {None}
    /\ new_job \in BOOLEAN /\ reading \in BOOLEAN
    /\ wire \in Seq(Jobs)
    /\ height \in Heights
    /\ poolJob \in Jobs
    /\ refreshes \in 0 .. MaxRefreshes /\ resends \in 0 .. MaxResends
    /\ skipped \in BOOLEAN

SampleRange == {lats[i] : i \in DOMAIN lats}

(* No latency is negative: a job that came during the sleep, or the late   *)
(* job of the round before, does not end a round that starts after it.     *)
LatenciesArePositive == \A s \in SampleRange : s.ts > s.t0

(* Against a pool that sends one new job per block, in time, a sample is   *)
(* the delay of its own block, however often the pool repeats a job.       *)
ExactForPromptPools ==
    refreshes = 0 /\ ~skipped => \A s \in SampleRange : s.job.height = s.block

(* The probe ends, though the pool or bitcoind never answers. *)
ProbeEnds == <>Ended

=============================================================================
