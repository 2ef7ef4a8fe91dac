------------------------------- MODULE JobBoard -------------------------------
(***************************************************************************)
(* The job board of one connection of the test miner                       *)
(* (miner/openbench_miner.py): the manager dict `shared` that the          *)
(* connection's reader thread writes (StratumClient._publish and           *)
(* ._republish_job) and its search workers, separate processes, read       *)
(* (_search_worker).  There is no lock: the reader writes `job` and then   *)
(* `gen`, a worker reads `gen` and then `job`, and the two writes and the  *)
(* two reads interleave freely.                                            *)
(*                                                                         *)
(* A job is the number of the notify it came from, the difficulty its      *)
(* target was computed from and, as history, the generation it was         *)
(* published for.  The nonce space of one extranonce2 is cut into chunks,  *)
(* as the worker's inner loop does.                                        *)
(***************************************************************************)
EXTENDS Integers, FiniteSets

CONSTANTS
    NumWorkers,  \* --workers: the stride of the extranonce2 search
    Workers,     \* the worker ids that run
    Diffs,       \* difficulties of mining.set_difficulty
    InitDiff,    \* StratumClient's difficulty before any set_difficulty
    En2Space,    \* 256^extranonce2_size: extranonce2 is masked to its size
    Chunks,      \* chunks of CHECK_CHUNK nonces in one nonce space
    None,        \* Python's None
    MaxGen       \* bound: publications on the board

ASSUME NumWorkersAssumption == NumWorkers \in Nat \ {0}
ASSUME WorkersAssumption == Workers \subseteq 0 .. NumWorkers - 1
ASSUME SpaceAssumption == En2Space \in Nat \ {0} /\ Chunks \in Nat \ {0}
ASSUME MaxGenAssumption == MaxGen \in Nat

Difficulties == Diffs \cup {InitDiff}
Jobs == [work : Nat, diff : Difficulties, pub : Nat]
ASSUME NoneAssumption == None \notin Jobs

VARIABLES
    difficulty,   \* StratumClient.difficulty
    generation,   \* StratumClient._generation
    works,        \* notifies handled so far: names the next job's work
    readerStep,   \* 0: waiting for a message; else the write of Publication it does next
    newJob,       \* the job the reader is publishing
    boardJob,     \* shared["job"]
    boardGen,     \* shared["gen"]
    stopEvent,    \* _Connection.stop_event
    workerPc,     \* where each worker is
    localGen,     \* local_generation of each worker
    job,          \* the job each worker grinds
    extranonce2,  \* what each worker's extranonce2 is after masking
    chunk,        \* the chunk of the nonce space each worker grinds next
    ground        \* history: the headers each worker has ground

clientVars == <<difficulty, generation, works>>
boardVars == <<boardJob, boardGen>>
readerVars == <<clientVars, readerStep, newJob, boardVars>>
workerVars == <<workerPc, localGen, job, extranonce2, chunk, ground>>
vars == <<readerVars, stopEvent, workerVars>>

(* A header: the work, the extranonce2 and the nonces it was ground with. *)
Headers == Nat \X (0 .. En2Space - 1) \X (0 .. Chunks - 1)

Init ==
    /\ difficulty = InitDiff
    /\ generation = 0
    /\ works = 0
    /\ readerStep = 0
    /\ newJob = None
    /\ boardJob = None
    /\ boardGen = -1
    /\ stopEvent = FALSE
    /\ workerPc = [w \in Workers |-> "unborn"]
    /\ localGen = [w \in Workers |-> -1]
    /\ job = [w \in Workers |-> None]
    /\ extranonce2 = [w \in Workers |-> w % En2Space]
    /\ chunk = [w \in Workers |-> 0]
    /\ ground = [w \in Workers |-> {}]

-----------------------------------------------------------------------------
(* The reader thread.  The daemon thread outlives stop(): it keeps         *)
(* publishing until the process exits.                                     *)

(* A faulty order: the generation announced before its job is there. *)
PublicationGenFirst == <<"gen", "job">>

(* The order of the two writes of a publication. *)
Publication == <<"job", "gen">>

Publish(newWork, newDiff) ==
    /\ newJob' = [work |-> newWork, diff |-> newDiff, pub |-> generation + 1]
    /\ readerStep' = 1

WrittenNow(field) == readerStep \in DOMAIN Publication /\ Publication[readerStep] = field
StepWritten == readerStep' = (readerStep + 1) % 3

(* `self.shared["job"] = ...` *)
WriteJob ==
    /\ WrittenNow("job")
    /\ boardJob' = newJob
    /\ StepWritten
    /\ UNCHANGED <<clientVars, newJob, boardGen, stopEvent, workerVars>>

(* `self._generation += 1; self.shared["gen"] = self._generation` *)
WriteGen ==
    /\ WrittenNow("gen")
    /\ generation' = generation + 1
    /\ boardGen' = generation'
    /\ StepWritten
    /\ UNCHANGED <<difficulty, works, newJob, boardJob, stopEvent, workerVars>>

(* mining.notify: a new job with the client's current difficulty. *)
OnNotify ==
    /\ readerStep = 0
    /\ generation < MaxGen
    /\ works' = works + 1
    /\ Publish(works', difficulty)
    /\ UNCHANGED <<difficulty, generation, boardVars, stopEvent, workerVars>>

(* A faulty handler that leaves the live job at its old target. *)
OnSetDifficultyNoRepublish(d) ==
    /\ readerStep = 0
    /\ generation < MaxGen
    /\ difficulty' = d
    /\ UNCHANGED <<generation, works, readerStep, newJob, boardVars, stopEvent, workerVars>>

(* mining.set_difficulty: the live job, if any, is republished with the    *)
(* new target (_republish_job).                                            *)
OnSetDifficulty(d) ==
    /\ readerStep = 0
    /\ generation < MaxGen
    /\ difficulty' = d
    /\ \/ boardJob # None /\ Publish(boardJob.work, d)
       \/ boardJob = None /\ UNCHANGED <<newJob, readerStep>>
    /\ UNCHANGED <<generation, works, boardVars, stopEvent, workerVars>>

-----------------------------------------------------------------------------
(* A search worker. *)

(* process.start(), after the handshake: jobs may be published by then. *)
StartWorker(w) ==
    /\ workerPc[w] = "unborn"
    /\ ~stopEvent
    /\ workerPc' = [workerPc EXCEPT ![w] = "gen"]
    /\ UNCHANGED <<readerVars, stopEvent, localGen, job, extranonce2, chunk, ground>>

(* `generation = shared["gen"]`: below 0 the worker sleeps; a generation   *)
(* it does not know sends it to the job; else it goes on grinding.         *)
ReadGen(w) ==
    /\ workerPc[w] = "gen"
    /\ ~stopEvent
    /\ boardGen >= 0
    /\ localGen' = [localGen EXCEPT ![w] = boardGen]
    /\ workerPc' = [workerPc EXCEPT ![w] = IF boardGen # localGen[w] THEN "job" ELSE "grind"]
    /\ UNCHANGED <<readerVars, stopEvent, job, extranonce2, chunk, ground>>

(* `job = shared["job"]`: the search starts over at the worker's own       *)
(* extranonce2.  On an empty board the worker sleeps, but has stored the   *)
(* generation already.                                                     *)
ReadJob(w) ==
    /\ workerPc[w] = "job"
    /\ job' = [job EXCEPT ![w] = boardJob]
    /\ extranonce2' = [extranonce2 EXCEPT ![w] = w % En2Space]
    /\ chunk' = [chunk EXCEPT ![w] = 0]
    /\ workerPc' = [workerPc EXCEPT ![w] = IF boardJob = None THEN "gen" ELSE "grind"]
    /\ UNCHANGED <<readerVars, stopEvent, localGen, ground>>

NextExtranonce2ByOne(x) == (x + 1) % En2Space   \* faulty: into the neighbour's slice
(* `extranonce2 += num_workers`, masked by _prepare_search. *)
NextExtranonce2(x) == (x + NumWorkers) % En2Space

(* One chunk of nonces; at the end of the nonce space on to the next       *)
(* extranonce2.  Without a prepared search the worker dies here.           *)
Grind(w) ==
    /\ workerPc[w] = "grind" /\ job[w] # None
    /\ ground' = [ground EXCEPT ![w] = @ \cup {<<job[w].work, extranonce2[w], chunk[w]>>}]
    /\ \/ /\ chunk[w] + 1 < Chunks
          /\ chunk' = [chunk EXCEPT ![w] = @ + 1]
          /\ UNCHANGED extranonce2
       \/ /\ chunk[w] + 1 = Chunks
          /\ chunk' = [chunk EXCEPT ![w] = 0]
          /\ extranonce2' = [extranonce2 EXCEPT ![w] = NextExtranonce2(@)]
    /\ workerPc' = [workerPc EXCEPT ![w] = "gen"]
    /\ UNCHANGED <<readerVars, stopEvent, localGen, job>>

(* A faulty loop that looks at the stop event only while it has no job. *)
WorkerExitsIdleOnly(w) ==
    /\ workerPc[w] = "gen"
    /\ stopEvent
    /\ boardGen < 0
    /\ workerPc' = [workerPc EXCEPT ![w] = "done"]
    /\ UNCHANGED <<readerVars, stopEvent, localGen, job, extranonce2, chunk, ground>>

(* `while not stop_event.is_set()`: the worker flushes its count and ends. *)
WorkerExits(w) ==
    /\ workerPc[w] = "gen"
    /\ stopEvent
    /\ workerPc' = [workerPc EXCEPT ![w] = "done"]
    /\ UNCHANGED <<readerVars, stopEvent, localGen, job, extranonce2, chunk, ground>>

(* _Connection.stop: the event, and terminate() for a worker that has not  *)
(* ended after a second.                                                   *)
Stop ==
    /\ ~stopEvent
    /\ stopEvent' = TRUE
    /\ UNCHANGED <<readerVars, workerVars>>

Terminate(w) ==
    /\ stopEvent
    /\ workerPc[w] \in {"gen", "job", "grind"}
    /\ workerPc' = [workerPc EXCEPT ![w] = "done"]
    /\ UNCHANGED <<readerVars, stopEvent, localGen, job, extranonce2, chunk, ground>>

Worker(w) == StartWorker(w) \/ ReadGen(w) \/ ReadJob(w) \/ Grind(w) \/ WorkerExits(w)
Reader == WriteJob \/ WriteGen \/ OnNotify \/ \E d \in Diffs : OnSetDifficulty(d)

Next == Reader \/ Stop \/ \E w \in Workers : Worker(w) \/ Terminate(w)

(* The reader finishes a publication it has begun and every process is     *)
(* scheduled; nothing obliges the pool to send, or the run to stop.        *)
Fairness == WF_vars(WriteJob \/ WriteGen) /\ \A w \in Workers : WF_vars(Worker(w))

Spec == Init /\ [][Next]_vars /\ Fairness

-----------------------------------------------------------------------------
(* Every variable has its type. *)
TypeOK ==
    /\ difficulty \in Difficulties
    /\ generation \in Nat
    /\ works \in Nat
    /\ readerStep \in 0 .. 2
    /\ newJob \in Jobs \cup {None}
    /\ boardJob \in Jobs \cup {None}
    /\ boardGen \in Nat \cup {-1}
    /\ stopEvent \in BOOLEAN
    /\ workerPc \in [Workers -> {"unborn", "gen", "job", "grind", "done"}]
    /\ localGen \in [Workers -> Nat \cup {-1}]
    /\ job \in [Workers -> Jobs \cup {None}]
    /\ extranonce2 \in [Workers -> 0 .. En2Space - 1]
    /\ chunk \in [Workers -> 0 .. Chunks - 1]
    /\ ground \in [Workers -> SUBSET Headers]

(* A worker that has seen a generation finds a job on the board, so the    *)
(* sleep-and-retry for an empty board in _search_worker is never taken     *)
(* (taken, it would leave the worker with no prepared search).             *)
NeverReadsAnEmptyBoard ==
    \A w \in Workers : workerPc[w] = "job" => boardJob # None

(* The job a worker grinds is the one of the generation it remembers, or a *)
(* newer one: it never files an old job under a new generation, which it   *)
(* would then not look at again.                                           *)
JobMatchesGeneration ==
    \A w \in Workers :
        workerPc[w] = "grind" => job[w] # None /\ job[w].pub >= localGen[w]

(* The inductive invariant behind the two: the board's job is never older  *)
(* than its generation, in particular between the two writes, and no       *)
(* worker is ahead of the board.                                           *)
BoardInv ==
    /\ boardGen = IF generation = 0 THEN -1 ELSE generation
    /\ readerStep # 0 => newJob # None /\ newJob.pub = generation + 1
    /\ readerStep = 2 => boardJob = newJob
    /\ readerStep # 2 => IF generation = 0 THEN boardJob = None
                         ELSE boardJob # None /\ boardJob.pub = generation

WorkersInv ==
    \A w \in Workers :
        /\ localGen[w] <= boardGen
        /\ workerPc[w] = "unborn" => localGen[w] = -1
        /\ workerPc[w] = "job" => localGen[w] >= 1
        /\ workerPc[w] \in {"gen", "grind"} /\ localGen[w] # -1 =>
              job[w] # None /\ job[w].pub >= localGen[w]
        /\ workerPc[w] = "grind" => localGen[w] # -1

JobInv == BoardInv /\ WorkersInv

(* Between messages the job on the board has the target of the client's    *)
(* current difficulty, whichever of set_difficulty and notify came first.  *)
BoardHasCurrentDifficulty ==
    readerStep = 0 /\ boardJob # None => boardJob.diff = difficulty

(* "no two ever grind the same header" (_search_worker's docstring). *)
WorkersAreDisjoint ==
    \A v, w \in Workers : v # w => ground[v] \cap ground[w] = {}

(* Every publication reaches every running worker, or a newer one does:    *)
(* no worker goes on with a stale job or a stale target for ever.          *)
PublicationReachesWorkers ==
    \A g \in 1 .. MaxGen : \A w \in Workers :
        generation >= g /\ workerPc[w] # "done" ~>
            \/ workerPc[w] = "done" \/ stopEvent
            \/ job[w] # None /\ job[w].pub >= g

(* After stop() every worker that was started ends: each is scheduled, and *)
(* no wait it is in outlasts a look at the stop event.                     *)
WorkersEnd ==
    \A w \in Workers : stopEvent ~> workerPc[w] \in {"unborn", "done"}
=============================================================================
