# Verification of Open Pool Benchmark

TLA+ models of the concurrent and failure-prone parts of Open Pool Benchmark,
the TLC runs that check them on small instances, and TLAPS proofs of the
invariants that matter most for every value of the constants.

Two programs carry the core logic. The *test miner* (`miner/openbench_miner.py`)
is a real Stratum client with real proof of work whose auditor decides whether a
pool ever hands out the same work twice. The *harness* (`openbench/`) starts
one pool after the other on a regtest chain, runs probes against each and
reports the result. Both produce verdicts, so what could go wrong is a verdict
that is wrong: a miscounted share, a stale job, an exit code that hides a
failure, a container left behind that disturbs the next measurement.

## 1. Inventory

| Component | Source | State | Operations | Interacts with |
| --- | --- | --- | --- | --- |
| Work auditor | `miner/openbench_miner.py` `WorkAuditor` | owners of extranonce1s, first label and owner of every digest, difficulty and epoch per connection, event lists, first failure | `record_subscribe`, `record_set_difficulty`, `record_notify` | called by every reader thread under one lock; read without it by the main thread |
| Job board and search workers | same, `_publish`, `_republish_job`, `_search_worker` | `shared["job"]`, `shared["gen"]`; each worker's generation, search and position | publish, read generation, read job, grind, stop, terminate | reader thread writes, worker processes read, no lock |
| Stratum client | same, `StratumClient`, `_Connection.start` | message ids, events `subscribed`/`authorized`, session, counters | connect, subscribe, authorize, suggest, dispatch, submit | main thread, reader thread, pool |
| Miner run | same, `run_miner` | connections, polling loop, exit code, AUDIT line | start, poll, drain, gate, verdict, summary | all of the above |
| Block building and hashing | same | none | pure functions on bytes | search workers |
| Load generator | `openbench/probes/stratum_bench.py` | per connection: slots, pending ids, counters; per process: stop event; barrier, queue | connect, flood, read, warm up, reset, close the window, merge | pool; processes among themselves |
| Latency probe | `openbench/probes/zmqlatency.py` | last job id, its stamp, an event, the samples | mine, wait, read, time out | pool, bitcoind |
| Orchestrator | `openbench/runner.py`, `cli.py`, `context.py` | command, pool, rows, exit code, scratch directory | session, unit, probe, verdict, teardown, suite | Docker, probes, miner, chain |
| Pool under test | `openbench/adapters.py` | its source directory, image and container of a fixed name | enter, clone, build, ready, exit | orchestrator, Docker |
| Docker and regtest backend | `openbench/docker.py`, `regtest.py` | containers, sampler threads, the chain | run, one-shot, logs, stats, compose | orchestrator |
| Connection probes | `openbench/probes/conn*.py`, `wait_ready.py` | connections held, counts | open, hold, count | pool |
| Result store, report | `openbench/results.py`, `report.py` | a directory of runs | write, list, read, render | orchestrator; other harness processes |
| Configuration, pool images | `openbench/config.py`, `pools.yml`, `pools/` | none at run time | parse, check | orchestrator |

What is hard here, and what each part must get right:

* **Auditor.** Reader threads of several connections report in any order and the
  auditor keeps only the *first* label and owner of a digest. Its tallies must
  still be right against the whole history, and its pass/fail must mean that no
  search space was handed out twice.
* **Job board.** A job and its generation are two unlocked writes and two
  unlocked reads. No worker may file an old job under a new generation, miss a
  publication for ever, or search what another searches.
* **Stratum client.** The reader runs before the first request is sent and
  recognises answers by ids stored after the send; an answer with a null id equals an
  id that is not stored yet. The handshake's timeouts race late answers, refusals and a
  closed connection.
* **Miner run.** The verdict, the exit code and the AUDIT line are separate reads
  of an auditor that is still being written to; one of several connections can
  fail; an exception or Ctrl-C can leave the polling loop anywhere, and a drain of shares
  that never ends keeps the loop from looking at the time.
* **Load generator.** Slots must survive late, doubled and missing answers; a
  share must count once and only in the window; processes start together through
  a barrier that may break.
* **Latency probe.** A stamp is read after an await and may belong to another job;
  a round that timed out leaves its notify for the next.
* **Connection probes.** What the kernel accepted is not what the pool did; a pool may
  refuse, ignore or drop a connection; each counts once.
* **Pool under test, Docker.** A timeout kills a docker command and not its container, a
  sampler is joined for five seconds only, and a pool may die at any time: what outlives
  its unit meets a container of the same name.
* **Harness.** All pools share one container name; any Docker call may fail; Ctrl-C
  may come during any of them; exit code 0 must vouch for every pool, and the suite's
  for every command.
* **Result store.** Runs are stored by a test and a write without a lock, by processes that
  may be killed, beside a report that reads them.

`PROJECT.json` lists every hazard with its line and the properties that cover it,
or the reason why none does.

## 2. Modules

```
WorkPromise  <--implements--  WorkAudit  <--INSTANCE--  MinerRun
                                                          | abstracts these to
JobBoard      StratumClient   ----------------------------+ their outcomes

LoadGen       LatencyProbe    ConnProbes        the probes
PoolUnit                                        one unit seen from inside
Harness                                         units, sessions, commands, suite
ResultStore                                     the directory of runs
```

`PoolUnit` and `Harness` look at the same code at two scales: `PoolUnit` has the threads and
containers that live within and beyond a unit, `Harness` the order of units, sessions and
commands. A probe is to both a step that succeeds, fails or hangs; the probes' own modules say
what it prints. Every module but `WorkPromise` has its theorems in a module of proofs:
`<name>_proofs`, except that `Probes_proofs` is about `ConnProbes` and `LatencyProbe`, and
`Session_proofs` about `PoolUnit` and `ResultStore`. As these two extend two specifications each,
`ConnProbes` calls its own `ConnInit`, `ConnNext`, `ConnSpec` and `ResultStore` its own `StoreInit`,
`StoreNext`, `StoreSpec`. `MCWorkAudit`, `MCJobBoard` and `MCHarness` give the symmetry set, the set of
worker ids, and the pools and cores of their configurations; the other modules need
only constants, given in their `.cfg` files. Operators marked "faulty" (`EnterAsIs`, `NameAnyway`,
...) are plausible bugs and are not used by any specification: each property of a passing
run has one that, put in the place of the definition it varies, makes TLC find the property
violated.

### WorkPromise, WorkAudit

`WorkPromise` is what an audit promises: a relation of connections and the
extranonce1s they hold, a relation of work and the labels it was handed out
under, and a flag `clean` that is true exactly as long as neither overlaps.

`WorkAudit` is the class `WorkAuditor`: one variable per attribute, one action per
`record_*` method (each holds the lock for its whole body). A digest is the pair
(extranonce1, work), a message the record of what it prints. The history `log` of
all deliveries is an auxiliary variable no action reads. `record_subscribe` and
the client's own `extranonce1` are one action, because the reader does both before
its next message. A connection subscribes once; a notify is audited only for a
subscribed one, as `_handle_notify` returns early otherwise.

### JobBoard

One connection's `shared` dict. The reader's publication is two actions
(`WriteJob`, `WriteGen`, in the order `Publication`), a worker's look at the board
is two (`ReadGen`, `ReadJob`), so every interleaving of the four is explored.
`Grind` is one chunk of nonces; extranonce2 advances by the number of workers,
masked to its size. `OnSetDifficulty` republishes the current job with the new target.

### StratumClient

`_Connection.start` on the main thread, `read_forever` on the reader thread, the
wire in both directions, the pool. A request is two steps, `SendRequest` and
`StoreId`, since `subscribe()` stores the id only after `_send` returned. The pool
may answer or refuse each request once, never answer, send notifies or responses without an id
at any time, or close. A message is what `_StratumMessage` makes of a line: `Dispatch` tells a
notification from a response by its method, as `_dispatch` does, so a response with a null id
comes to `HandleResponse` and there matches whichever awaited id is still `None`. The histories
`handled` and `unasked` remember the responses with an id and those without, the latter
with the ids that were stored by then.

### MinerRun

`run_miner` with `--audit-work`. It INSTANCEs `WorkAudit` and lets every live
reader take its actions until the process exits: the readers are daemon threads.
The verdict is two reads (`ReadDuplicates`, `Decide`) and the AUDIT line a read per
field (`Summarise`), none of them under the lock, as in the code. Workers find shares
(`FindShare`) for as long as the run is, so a drain may never see its queue empty. That every behaviour of a
run is one of `WorkAudit` is a theorem (`ImplementsAudit`).

### LoadGen

`run_local` per process, `Client` per connection, `main`. A connection's
semaphore is `free`, its `_pending` dict is `pending`. The reset at the window's
start clears the counters and leaves slots and pending ids alone. `Submit`
includes the write's success, `WriteFails` the exception. The barrier may release
or, by its timeout, break; after either the floods start. `Finish` and `Emit` add up with `Total`,
the fold that stands for the two loops of `+=`.

### LatencyProbe

An action is what runs between two awaits of the asyncio loop: `StartRound`,
`MineBlock`, `RpcReturns`, `RecordSample`, `TimeOut` for main and `ReadNotify` for the
read task. `perf_counter()` is a counter that advances with every reading. The pool
announces new blocks when it likes, refreshes its job without a block, and sends a
job twice.

### ConnProbes

`connscale.py` (`CreateBatch`, one `TaskConnects`/`TaskEstablished`/`TaskFails` per task,
`PrintEstablished`, `Stop`) and `conn_probe.py` (`OpenNext`, `Hold`, `NotHeld`, `NotOpened`,
`ReachCap`) against a pool of which each connection is waiting in the kernel, open, answered
or gone. A limit is the pool's own; `faults` remembers whether the pool failed a
connection it had room for, or the probe gave up for reasons of its own.

### PoolUnit

`__enter__` step by step (`RemoveOld`, `Clone` or `KeepSource`, `Build`, `StartPool`, and
`SeenReady`, `CheckEnds` or `NotReady`), then the probes, each a one-shot container and a sampler
thread (`StartProbe`, `ProbeReturns` or `ProbeTimesOut`, `Joined`), then `UnitEnds`. `Ask` and
`Sample` are the two docker calls of `StatsSampler._loop`. One-shots leave `oneshots` only when
they end by themselves, samplers go on after `Joined`, and the pool's process serves or dies at
any time. `Init` has nothing of an earlier program, neither half a clone nor a one-shot.

### Harness

The commands `bench`, `sweep`, `connscale`, `conn-limit`, `latency`, `validate`, `test`, each in a
session, `up` and `down`, and `suite`: bench at each cpuset of `--cores`, then the other
commands but `test` at the largest, whose cores are reckoned when the suite comes to them
(`NoCoresLeft`). A unit is one `with PoolUnderTest`: `Enter` (remove what has the name), `ObtainImage`,
`Start`, `BecomesReady`, the probes, `Exit`. `MeasureFails`, `EnterFails` and their like raise one of
`_POOL_ERRORS`, another exception, or `KeyboardInterrupt` at any Docker call; `Propagate` and
`TearDown` are the `except` and `finally` clauses, and `Return` and `Raise` the exit codes. What a
measurement returned is left out, but the miner's audit and the chain's answer, with the payout
of each block mined, are kept, because `validate` judges by them (`Verdict`).

### ResultStore

`write_run` as its steps on the directory: `NameTaken` and `NameFree` for the loop's test,
`Open` and `Write` for `write_bytes`, which creates or truncates before it writes; `load_runs`
as a listing (`BeginReport`) and a read per file (`ReadFile`). A writer may be killed
between any two.

## 3. Runs

Runs that pass:

| Run | What it shows |
| --- | --- |
| `work_audit` | `TallyMatchesHistory`: the tally is the number of deliveries that repeat earlier work under another label than its first. `DuplicatesStayWithinAConnection`: with distinct extranonce1s no duplicate spans connections. `VardiffMeansOwnRetarget`: a duplicate is blamed on vardiff exactly for a retarget of its own connection. `KeepsPromise`: the auditor implements `WorkPromise`. |
| `job_board` | `NeverReadsAnEmptyBoard`, `JobMatchesGeneration`: the order job-then-generation is the right one. `BoardHasCurrentDifficulty`. `WorkersAreDisjoint`: no header is ground twice. `PublicationReachesWorkers`, `WorkersEnd` (liveness). |
| `stratum_client` | `RunningMeansGranted`: `start()` reports success only with a session, and each request was granted unless a response without an id stood in for the grant before the request's id was stored. `JobsNeedASession`. `SharesAreShares`: on a running connection every share's answer is counted, and nothing else but the responses without an id that met only stored ids, and at most one answer to each request of the handshake that came before its id was stored. `StartReturns` (liveness). |
| `miner_run` | `ExitThreeHasEvidence`, `ExitZeroVouches`: exit codes 3 and 0 against evidence, while readers go on reporting. `KnownProblemFailsTheRun`, `RunEnds` (liveness): a known problem decides the exit code, and a run with `--duration` ends, unless one connection's `drain_and_submit` never returns. `TypeOK`, whose range of exit codes a verdict that added to the gate's would leave. |
| `load_gen` | `SlotsConserved`; `SharesCountedOnce`: once, and only in the window; `ErrorsAreReported`: a line without errors comes from processes that all ran to the end; `MainEnds` (liveness). |
| `latency_probe` | `LatenciesArePositive`; `ExactForPromptPools`: with one new job per block, in time, a sample is of its own block; `ProbeEnds` (liveness). |
| `conn_probes` | `CountedOnce`; `OvercountIsDrops`: the number is above the pool's limit by drops only; `ExactForSteadyPools`: it is exact for a pool that drops nobody. |
| `pool_unit` | `SamplesAreOwn`: a row's statistics are of its own pool though samplers outlive their units. `MeasuredWasReady`. `DisturbancesAreAnnounced`: a probe that runs beside an orphan, or against a pool built of half a clone, follows a FAILED row of its session. `UnitsEnd` (liveness). `TypeOK`. |
| `harness` | `MeasuresItsOwnPool`, `NothingLeftBehind`, `ZeroVouchesForEveryPool`, `SuiteRemembers`: a failure in any bench, sweep or validate survives to the suite's exit code. |
| `result_store` | `LostOnlyToARival`: a stored run is lost only to one of the same name stored at the same time. `ReportHasWhatWasStored`, whatever half-written files lie beside it. |

Runs that find the code at odds with a document; each is a finding of `PROJECT.json`:

| Run | Statement | What the code does |
| --- | --- | --- |
| `stratum_client_race` | A timeout means "no subscribe response from pool" | An answer dispatched between the send and the storing of its id is counted as a share's; a granted handshake then times out. |
| `harness_suite` | "Non-zero if any failed" (`suite`) | `connscale`, `conn-limit` and `latency` return 0 with FAILED rows, so the suite does. |

### Known divergences, stated in the models and without a run

* "Each repeat is tallied" (`openbench_miner.py:253`): a repeat under the same connection *and*
  job id as the first delivery is neither counted nor remembered (`:331`), so
  `TallyMatchesHistory` counts relabelled deliveries.
* A response with a null id that comes before `_subscribe_id` or `_authorize_id` is stored is
  taken for the answer to that request (`openbench_miner.py:570`, `:585`; the third case is
  guarded, `:596`): `true` authorizes a connection the pool never authorized. Hence
  `StoodIn` in `RunningMeansGranted`.
* "run for this many seconds, then stop and print the audit summary" (`openbench_miner.py:917`):
  the time is looked at between drains only (`:795`), and a drain ends when it sees the queue
  empty (`:734`), with a `sendall` on a socket without timeout (`:505`) for every share. Hence
  `StaysIn` in `RunEnds` and `KnownProblemFailsTheRun`; without it TLC finds
  the drain whose queue is refilled after every submit.
* The exit code is decided before the AUDIT line is read (`openbench_miner.py:830`, `:867`): a
  duplicate recorded in between is printed by a run that exits with 0. `ExitZeroVouches`
  therefore speaks of what was recorded before the verdict.
* A round's stamp is that of the last new job read before main resumes (`zmqlatency.py:56`),
  not of the first; hence the premise of `ExactForPromptPools`.
* "so a run is never lost" (`results.py:61`) holds for runs that do not overlap; hence the rivals
  of `LostOnlyToARival`.
* A block the pool relays after the one reading of the height is a no-relay
  (`runner.py:586`), and a directory a killed clone left is taken for the source by the next unit
  (`adapters.py:269`).
* "its own disjoint cores" (`config.py:98`): the suite takes the load generator's cores off
  the other two, and lets the pool's and bitcoind's overlap.
* The stride keeps workers apart if their number divides the extranonce2 space; otherwise the
  mask folds them together once the space is used up (`openbench_miner.py:367`).

### Bounds, and why they are enough

* `WorkAudit`: two connections, extranonce1s, works, job ids and difficulties and three
  notifies. Two of a kind are the least with which a label, an owner or a difficulty can
  differ; the third notify is a repeat after a repeat. Two retargets separate "some
  retarget" from "a retarget since". The connections, values and job ids are symmetric (the
  run's temporal property is a safety refinement).
* `JobBoard`: two workers, three publications' worth of generations (none, 1, 2), two
  difficulties, an extranonce2 space of 4 and a nonce space of two chunks: each worker
  goes past its first slot, and past the last one, where the mask folds it back to its
  own.
* `StratumClient`: with `suggest_difficulty`, two shares, two notifies and two responses without
  an id: one may stand in for each awaited answer. `Race` needs no more than the handshake itself.
* `MinerRun`: two connections; one unit of work, two job ids and two extranonce1s
  give duplicates, collisions and clean runs with two notifies. At most one share waits at a
  connection (`MaxShares`) and one of a run's is a block (`MaxBlocks`), but as many are found as
  there is time for: a queue that is refilled after each submit is in the model. Difficulties play
  no part in exit codes.
* `LoadGen`: two connections in one process or two, `--pipeline` 1 and two submits
  of each connection, so that the pipeline is full before the submits are used up.
* `LatencyProbe`: three rounds: one that times out, one whose event the late notify may
  set, and one after it; one refresh and one resend.
* `ConnProbes`: four connections in batches of two against every limit from 0 to 4: limits
  below, at and above a batch, and the cap.
* `PoolUnit`: two units of two probes: the second unit is the one that meets what the first
  left, the second probe the one that follows a probe of its own unit.
* `Harness`: all lists of up to two pools, all commands and the suite, two points of a sweep and
  two windows of a bench, up to two blocks in a validation, so that one may pay and one not. A host
  of three cores, and lists of two cpusets of which the larger leaves a core for the load
  generator or does not. `harness_suite` needs only one pool.
* `ResultStore`: three writers and two names: a run, its rival, and one that comes before,
  between or after them.

The theorems remove the bounds of the properties they are about. `CHECK_DEADLOCK FALSE` is set
wherever the program ends by itself; an ended program has no step. `work_audit` never ends
within its bounds: a subscribed connection may always be told its difficulty again.

### Fairness

* `JobBoard`: the reader finishes a publication it began and every started worker process
  is scheduled. Nothing is assumed of notifies, of `stop()` or of the OS killing a
  process, so `PublicationReachesWorkers` speaks of what was published.
* `StratumClient`: the main thread is scheduled (all its waits have timeouts) and the
  reader reads what has arrived. Nothing is assumed of the pool.
* `MinerRun`: the main thread goes on (`Proceed`) and time passes; nothing is assumed of a submit,
  which may block for ever, of the workers or of the pool. The handshake's end is that of
  `StratumClient`'s `StartReturns`.
* `LoadGen`: every process' controlling coroutine runs (it sleeps and closes by timers), and
  `main` collects. No fairness for connection tasks, which wait for the pool.
* `LatencyProbe`: main alone; its waits and its RPC have timeouts.
* `PoolUnit`: the orchestrator goes on and its deadlines pass. Nothing is assumed of the
  pool, of one-shots, which may hang, or of samplers, which are not waited for beyond five seconds.
* `WorkAudit`, `ConnProbes`, `Harness` and `ResultStore` state safety only.

## 4. Proofs

| Module | Theorems | Invariant behind them |
| --- | --- | --- |
| `WorkAudit_proofs` | `TypeCorrect`, `AuditInvariant`, `TallyCorrect`, `DuplicatesStayCorrect`, `ReportsCorrect`, `Implements`, `FailureCorrect`, `EvidenceCorrect` | `TypeOK /\ AuditInv` |
| | `VardiffCorrect`, `RetargetCorrect` | with `VardiffInv`; with `DifficultyInv` |
| `JobBoard_proofs` | `BoardInvariant`, `NeverReadsAnEmptyBoardCorrect`, `JobMatchesGenerationCorrect` | `TypeOK /\ JobInv` |
| | `CurrentDifficultyCorrect`, `WorkersAreDisjointCorrect` | with `DifficultyInv`; `StrideInv` |
| `StratumClient_proofs` | `ClientInvariant`, `TypeCorrect`, `RunningMeansGrantedCorrect`, `JobsNeedASessionCorrect` | `IInv` |
| | `SharesAreSharesCorrect` | with `ShareInv` |
| `LoadGen_proofs` | `SlotsCorrect` | `SlotsInv` |
| | `CountedCorrect`, of the first part of `SharesCountedOnce` | with `OnceInv` |
| | `TypeCorrect`, `ErrorsAreReportedCorrect` | `ResultInv` |
| | `SharesCountedOnceCorrect` | `ResultInv` with `OnceInv` |
| `MinerRun_proofs` | `ImplementsAudit`, `AuditHolds` | `WorkAudit`'s, by refinement |
| | `RunInvariant`, `TypeCorrect`, `ExitThreeCorrect`, `ExitZeroCorrect` | `RunInv` with `AuditFacts` |
| `Probes_proofs` | of `LatencyProbe`: `LatenciesCorrect` | `ClockInv` |
| | `TypeCorrect`, `ExactCorrect` | `TypeInv`; with `PromptInv` |
| | of `ConnProbes`: `ProbesInvariant`, `ConnTypeCorrect`, `CountedOnceCorrect`, `OvercountCorrect` | `ConnInv` |
| | `ExactForSteadyPoolsCorrect` | with `Steady` |
| `Harness_proofs` | `NothingLeftBehindCorrect`, `MeasuresItsOwnPoolCorrect` | `CleanInv /\ PoolInv` |
| | `SuiteRemembersCorrect` | `RememberInv` |
| | `ZeroVouchesCorrect` | `VouchInv` |
| `Session_proofs` | of `ResultStore`: `StoreInvariant`, `StoreTypeCorrect`, `LostOnlyToARivalCorrect` | `StoreInv` |
| | `ReportCorrect` | with `ReportInv` |
| | of `PoolUnit`: `UnitInvariant`, `TypeCorrect`, `SamplesAreOwnCorrect`, `MeasuredWasReadyCorrect`, `DisturbancesCorrect` | `UnitInv` |

* **AuditInv.** The tally's correctness is not inductive: it compares an event list with
  the whole history, and the auditor looks at `seen` only. `RemembersFirsts` says `seen`
  and `seenOwner` are the first deliveries of the history; `TallyIsRelabelled` restates the
  tally against `seen`; `DigestsAreHeld` and `OwnersHold` tie every digest and owner to an
  extranonce1 a connection holds; `CollisionIffShared` and `FailureIffEvents` tie reports to
  causes. `RepeatsAreRelabelled` then turns the tally back into history. `Implements`
  maps each action to a `WorkPromise` step or a stutter: `SubscribeAssigns`,
  `NotifyHands`. `VardiffInv` counts the relabelled deliveries of a later epoch than the
  remembered one; `OwnerRepeats` says that without collisions they are the owner's own.
* **JobInv.** Between its two writes the reader's board is *ahead*: the job is one
  publication newer than the generation (`BoardInv`). A worker's generation is never
  above the board's, so the job it reads is at least as new (`WorkersInv`). With
  the writes in the other order `BoardInv` fails. `StrideInv` keeps each worker in its residue
  class of extranonce2s; that the mask keeps the class is arithmetic on a space that
  is a multiple of the number of workers, which the theorem assumes.
* **StratumClient's IInv.** Whatever is on the wire answers a request that was sent, or has no id
  (`WireIsKnown`); a stored id is of the request it is named for (`IdsAreRight`), and the ids
  are stored in the requests' order (`StoredInTurn`), so that a response without an id is taken for
  one awaited answer at most. An event that is set was then granted, or stood in for
  (`EventsAreGrants`), and main is where its events allow (`PhasesFollow`). `ShareInv` adds that an
  id is once on the wire or handled, and each request of the handshake sent once: an answer taken
  for a share's is then a share's, or the only answer to its request; if that is an
  awaited one, its event can only be set by a stand-in.
* **SlotsInv.** Conservation needs that pending ids are ids in use: a fresh id is not
  pending, so `Submit` moves exactly one slot. `OnceInv` adds that what was counted is no longer
  pending; that `Reset` zeroes the connections of its own process, and those only, is
  `DealtOnce`: `divmod` gives each connection to exactly one process.
* **ClockInv, PromptInv.** Every stamp and `t0` is a past reading of the clock, and an event
  that is set while main waits was set by a job read after `t0`, because `StartRound` clears it.
  For a prompt pool the jobs on the wire lie, in order, between the one read last and the
  pool's own, and a set event means the last one read is of this round's block (`StepInv`).
* **ResultInv.** A flood runs only while its process does (`FloodsRun`), so the counts and errors
  of a process with a result are final, and its result is their sum, or `_worker`'s for one
  that could not connect (`ReportsAreFinal`); the line is the sum of the results
  (`MergedIsTheSum`). A flood that was cut short left an error (`CutShortHasError`). What a sum
  over a finite set is rests on `FoldIs`: a function on the subsets that obeys the fold's equation
  whichever element is taken first is the fold, because a smallest subset where they differ
  cannot exist. The number of pairs of an element and a unit of it is such a function
  (`TotalIsUnits`), from which follow that a sum is a count, that it is zero only if all its terms
  are, and that the sums of the parts add up to the sum of the whole (`TotalOfParts`), the parts
  being those `DealtOnce` and `DealtWithin` find in `divmod`.
* **RunInv.** A run implements `WorkAudit`: a report of a live reader is one of its actions, any
  other step leaves the auditor alone. `AuditHolds` carries its invariant over. On top come the
  order in which connections start (`StartInv`: past the start all have their extranonce1, so no
  collision can still be recorded, which is why `dups` may be read first), the summary's length,
  and that what justified a verdict (`EvidenceInv`, `VerdictInv`) is not taken back: readers only
  add to the auditor (`ReportsOnlyAdd`), so a list that was not empty at the verdict is not empty
  when its field is read for the AUDIT line.
* **UnitInv.** Only the unit at work has a container (`ContainerInv`); a sampler has lines of its
  own unit and of those that came after (`SamplerInv`), and a row is written while its sampler's
  unit is the one at work, so that there are none after; a one-shot that still runs is the one
  waited for, or its unit has failed or is about to (`OneshotInv`, `Doomed`); and half a clone is
  one a failed unit left (`SourceInv`).
* **ConnInv.** The counters are cardinalities of the connections' states; what is up
  was taken by the pool, or dropped; the pool takes no more than its limit; `conn_probe` has asked
  exactly one connection more than it holds (`OneByOne`).
* **CleanInv, PoolInv, RememberInv.** A session holds one scratch directory from `MakeScratch` to
  `TearDown`, and the teardown is the only way out of it, on return, failure or Ctrl-C. Within it
  bitcoind is up, and the name is free until the unit's pool takes it. A row that failed has made
  the command's flag false, and a command that failed the suite's code 1. `VouchInv` is about what
  a row is missing for: the flag holds exactly while all rows are clean, the rows cover the units
  that are over and the probes the running unit has done, and a failure is raised only on the way
  to its handler.
* **StoreInv.** A file that was written is never removed, so a writer that began
  after another was done finds the name taken (`NamesApart`): writers that share a name overlap.
  `ReportInv` adds that a whole file is of a run that was stored, and that a run which is due to the report
  is on its list, read, or overwritten.

Assumptions are the named `ASSUME`s of each module: bounds are natural numbers, counts
are positive, `None` is no other value. They are evaluated by the runs. The bounds of
the models (`MaxNotifies`, `MaxGen`, `MaxSubmits`, `Rounds`, `N`, ...) are arbitrary in the theorems.

Only model-checked: the liveness properties (`PublicationReachesWorkers`, `WorkersEnd`,
`StartReturns`, `KnownProblemFailsTheRun`, `RunEnds`, `MainEnds`, `ProbeEnds`, `UnitsEnd`), which
rest on fairness and are outside what the prover does. Every safety property of a passing run is
stated by a theorem; `WorkersAreDisjoint` for extranonce2 spaces that the number of workers
divides, as it is false for others. An induction over a set is done by a smallest
counterexample (`FoldIs`), since the induction theorems take an operator.

## 5. Not modelled

* Hashing, merkle roots, headers, targets: pure functions over bytes, with a selftest in
  the miner. A share is found or not.
* The numbers of a measurement: latencies, rates, CPU samples, the best of several runs.
* The text of messages, tables, the HTML report. `report.py` keeps no state.
* Configuration: a YAML file is parsed and checked once, before anything runs. What it rejects
  is `Refuse` of `Harness`.
* Pool definitions and images: build files and templates of external programs.
* Processes killed from outside (`LoadGen`; `PoolUnit` has the probe that hangs by it), and a
  failing `docker rm -f` or `compose down` (`Harness`): the code has no answer to either.

`PROJECT.json` marks as *partly* modelled the orchestrator (which window of a bench is the
best, the tables, `list`), the backend (path translation, image checks) and the
result store (layout).

## 6. What is left

`Harness` and `PoolUnit` composed: a `Harness` whose probes meet the one-shots that an earlier
unit left, with a theorem that each unit of the composition is one of `PoolUnit`.
