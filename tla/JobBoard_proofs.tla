--------------------------- MODULE JobBoard_proofs ---------------------------
(***************************************************************************)
(* Proofs about the job board, for any number of workers and of            *)
(* publications: without a lock, the order of the reader's two writes and  *)
(* of the workers' two reads is enough.                                    *)
(***************************************************************************)
EXTENDS JobBoard, TLAPS

USE NumWorkersAssumption, WorkersAssumption, SpaceAssumption, MaxGenAssumption, NoneAssumption

-----------------------------------------------------------------------------
LEMMA SlotRange ==
    ASSUME NEW x \in Nat
    PROVE  x % En2Space \in 0 .. En2Space - 1
OBVIOUS

LEMMA WorkerSlot == \A w \in Workers : w % En2Space \in 0 .. En2Space - 1
BY SlotRange

LEMMA InitType == Init => TypeOK
<1> SUFFICES ASSUME Init PROVE TypeOK
  OBVIOUS
<1>1. extranonce2 \in [Workers -> 0 .. En2Space - 1]
  BY WorkerSlot DEF Init
<1>2. chunk \in [Workers -> 0 .. Chunks - 1]
  BY DEF Init
<1>3. /\ workerPc \in [Workers -> {"unborn", "gen", "job", "grind", "done"}]
      /\ localGen \in [Workers -> Nat \cup {-1}]
      /\ job \in [Workers -> Jobs \cup {None}]
      /\ ground \in [Workers -> SUBSET Headers]
  BY DEF Init
<1>4. /\ boardGen \in Nat \cup {-1} /\ generation \in Nat /\ works \in Nat
      /\ readerStep \in 0 .. 2
  BY DEF Init
<1>5. difficulty \in Difficulties
  BY DEF Init, Difficulties
<1>6. newJob \in Jobs \cup {None} /\ boardJob \in Jobs \cup {None}
  BY Zenon DEF Init
<1>7. stopEvent \in BOOLEAN
  BY Zenon DEF Init
<1>8. QED
  BY <1>1, <1>2, <1>3, <1>4, <1>5, <1>6, <1>7 DEF TypeOK

LEMMA ReaderType ==
    ASSUME TypeOK, Reader
    PROVE  TypeOK'
<1>1. CASE WriteJob
  BY <1>1 DEF TypeOK, WriteJob, WrittenNow, StepWritten, Publication, clientVars, workerVars
<1>2. CASE WriteGen
  BY <1>2 DEF TypeOK, WriteGen, WrittenNow, StepWritten, Publication, workerVars
<1>3. CASE OnNotify
  BY <1>3 DEF TypeOK, OnNotify, Publish, Jobs, boardVars, workerVars
<1>4. ASSUME NEW d \in Diffs, OnSetDifficulty(d)
      PROVE  TypeOK'
  <2>1. d \in Difficulties
    BY DEF Difficulties
  <2>2. newJob' \in Jobs \cup {None} /\ readerStep' \in 0 .. 2
    BY <1>4, <2>1 DEF TypeOK, OnSetDifficulty, Publish, Jobs
  <2>3. QED
    BY <1>4, <2>1, <2>2 DEF TypeOK, OnSetDifficulty, boardVars, workerVars
<1>5. QED
  BY <1>1, <1>2, <1>3, <1>4 DEF Reader

LEMMA WorkerType ==
    ASSUME TypeOK, WorkersInv, NEW w \in Workers, Worker(w) \/ Terminate(w)
    PROVE  TypeOK'
<1> USE DEF readerVars, clientVars, boardVars
<1>1. CASE StartWorker(w)
  BY <1>1 DEF TypeOK, StartWorker
<1>2. CASE ReadGen(w)
  BY <1>2 DEF TypeOK, ReadGen
<1>3. CASE ReadJob(w)
  <2>1. w % En2Space \in 0 .. En2Space - 1
    BY WorkerSlot
  <2>2. QED
    BY <1>3, <2>1 DEF TypeOK, ReadJob
<1>4. CASE Grind(w)
  <2>1. NextExtranonce2(extranonce2[w]) \in 0 .. En2Space - 1
    BY DEF TypeOK, NextExtranonce2
  <2>2. extranonce2' \in [Workers -> 0 .. En2Space - 1]
    BY <1>4, <2>1 DEF TypeOK, Grind
  <2>3. chunk' \in [Workers -> 0 .. Chunks - 1]
    BY <1>4 DEF TypeOK, Grind
  <2>4. ground' \in [Workers -> SUBSET Headers]
    <3>1. job[w] \in Jobs
      BY <1>4 DEF TypeOK, Grind, WorkersInv
    <3>2. <<job[w].work, extranonce2[w], chunk[w]>> \in Headers
      BY <3>1 DEF TypeOK, Headers, Jobs
    <3>3. QED
      BY <1>4, <3>2 DEF TypeOK, Grind
  <2>5. QED
    BY <1>4, <2>2, <2>3, <2>4 DEF TypeOK, Grind
<1>5. CASE WorkerExits(w)
  BY <1>5 DEF TypeOK, WorkerExits
<1>6. CASE Terminate(w)
  BY <1>6 DEF TypeOK, Terminate
<1>7. QED
  BY <1>1, <1>2, <1>3, <1>4, <1>5, <1>6 DEF Worker

-----------------------------------------------------------------------------
(* JobInv, by the reader's writes and the workers' reads. *)
LEMMA InitInv == Init => JobInv
BY DEF Init, JobInv, BoardInv, WorkersInv

LEMMA ReaderKeepsBoard ==
    ASSUME TypeOK, JobInv, Reader
    PROVE  BoardInv'
<1>1. CASE WriteJob
  BY <1>1 DEF TypeOK, JobInv, BoardInv, WriteJob, WrittenNow, StepWritten, Publication, clientVars
<1>2. CASE WriteGen
  BY <1>2 DEF TypeOK, JobInv, BoardInv, WriteGen, WrittenNow, StepWritten, Publication
<1>3. CASE OnNotify
  <2>1. newJob' # None /\ newJob'.pub = generation + 1
    BY <1>3 DEF TypeOK, OnNotify, Publish, Jobs
  <2>2. QED
    BY <1>3, <2>1 DEF TypeOK, JobInv, BoardInv, OnNotify, Publish, boardVars
<1>4. ASSUME NEW d \in Diffs, OnSetDifficulty(d)
      PROVE  BoardInv'
  <2>1. CASE boardJob # None
    <3>1. newJob' # None /\ newJob'.pub = generation + 1
      BY <1>4, <2>1 DEF TypeOK, OnSetDifficulty, Publish, Jobs, Difficulties
    <3>2. QED
      BY <1>4, <2>1, <3>1 DEF TypeOK, JobInv, BoardInv, OnSetDifficulty, Publish, boardVars
  <2>2. CASE boardJob = None
    BY <1>4, <2>2 DEF TypeOK, JobInv, BoardInv, OnSetDifficulty, boardVars
  <2>3. QED
    BY <2>1, <2>2
<1>5. QED
  BY <1>1, <1>2, <1>3, <1>4 DEF Reader

(* The generation on the board only grows, so the workers stay behind it. *)
LEMMA ReaderKeepsWorkers ==
    ASSUME TypeOK, JobInv, Reader
    PROVE  WorkersInv'
<1>1. boardGen' \in Int /\ boardGen \in Int /\ boardGen <= boardGen'
  BY DEF TypeOK, JobInv, BoardInv, Reader, WriteJob, WriteGen, OnNotify, OnSetDifficulty, boardVars
<1>2. UNCHANGED workerVars
  BY DEF Reader, WriteJob, WriteGen, OnNotify, OnSetDifficulty
<1>3. \A w \in Workers : localGen[w] \in Int
  BY DEF TypeOK
<1>4. QED
  BY <1>1, <1>2, <1>3 DEF JobInv, WorkersInv, workerVars

LEMMA WorkerKeepsWorkers ==
    ASSUME TypeOK, JobInv, NEW w \in Workers, Worker(w) \/ Terminate(w)
    PROVE  WorkersInv'
<1> USE DEF readerVars, clientVars, boardVars
<1>1. CASE StartWorker(w)
  BY <1>1 DEF TypeOK, JobInv, WorkersInv, StartWorker
<1>2. CASE ReadGen(w)
  <2>1. boardGen \in Int /\ boardGen >= 1
    BY <1>2 DEF TypeOK, JobInv, BoardInv, ReadGen
  <2>2. QED
    BY <1>2, <2>1 DEF TypeOK, JobInv, WorkersInv, ReadGen
<1>3. CASE ReadJob(w)
  <2>1. localGen[w] >= 1 /\ localGen[w] <= boardGen /\ localGen[w] \in Int
    BY <1>3 DEF TypeOK, JobInv, WorkersInv, ReadJob
  <2>2. boardGen = generation /\ generation > 0 /\ generation \in Nat
    BY <2>1 DEF TypeOK, JobInv, BoardInv
  <2>3. boardJob # None /\ boardJob.pub >= generation
    BY <2>2 DEF TypeOK, JobInv, BoardInv
  <2>4. boardJob.pub \in Nat /\ boardJob.pub >= localGen[w]
    BY <2>1, <2>2, <2>3 DEF TypeOK, Jobs
  <2>5. /\ job'[w] = boardJob /\ workerPc'[w] = "grind"
        /\ \A v \in Workers \ {w} : job'[v] = job[v] /\ workerPc'[v] = workerPc[v]
        /\ localGen' = localGen /\ boardGen' = boardGen
    BY <1>3, <2>3 DEF TypeOK, ReadJob
  <2>6. QED
    BY <2>1, <2>3, <2>4, <2>5 DEF JobInv, WorkersInv
<1>4. CASE Grind(w)
  BY <1>4 DEF TypeOK, JobInv, WorkersInv, Grind
<1>5. CASE WorkerExits(w)
  BY <1>5 DEF TypeOK, JobInv, WorkersInv, WorkerExits
<1>6. CASE Terminate(w)
  BY <1>6 DEF TypeOK, JobInv, WorkersInv, Terminate
<1>7. QED
  BY <1>1, <1>2, <1>3, <1>4, <1>5, <1>6 DEF Worker

LEMMA WorkerKeepsBoard ==
    ASSUME BoardInv, NEW w \in Workers, Worker(w) \/ Terminate(w)
    PROVE  BoardInv'
BY DEF Worker, StartWorker, ReadGen, ReadJob, Grind, WorkerExits, Terminate,
       BoardInv, readerVars, clientVars, boardVars

LEMMA Step == TypeOK /\ JobInv /\ [Next]_vars => (TypeOK /\ JobInv)'
<1> SUFFICES ASSUME TypeOK, JobInv, [Next]_vars
             PROVE  (TypeOK /\ JobInv)'
  OBVIOUS
<1>1. CASE Reader
  BY <1>1, ReaderType, ReaderKeepsBoard, ReaderKeepsWorkers DEF JobInv
<1>2. ASSUME NEW w \in Workers, Worker(w) \/ Terminate(w)
      PROVE  (TypeOK /\ JobInv)'
  BY <1>2, WorkerType, WorkerKeepsBoard, WorkerKeepsWorkers DEF JobInv
<1>3. CASE Stop \/ UNCHANGED vars
  <2>1. UNCHANGED <<readerVars, workerVars>> /\ stopEvent' \in BOOLEAN
    BY <1>3 DEF Stop, vars, TypeOK
  <2>2. TypeOK'
    BY <2>1 DEF TypeOK, readerVars, clientVars, boardVars, workerVars
  <2>3. BoardInv'
    BY <2>1 DEF JobInv, BoardInv, readerVars, clientVars, boardVars
  <2>4. WorkersInv'
    BY <2>1 DEF JobInv, WorkersInv, readerVars, clientVars, boardVars, workerVars
  <2>5. QED
    BY <2>2, <2>3, <2>4 DEF JobInv
<1>4. QED
  BY <1>1, <1>2, <1>3 DEF Next

(* The board's job is never older than its generation, and no worker is    *)
(* ahead of the board.                                                     *)
THEOREM BoardInvariant == Spec => [](TypeOK /\ JobInv)
BY InitType, InitInv, Step, PTL DEF Spec

(* A worker that has seen a generation finds a job: the sleep-and-retry of *)
(* _search_worker for an empty board is dead code.                         *)
THEOREM NeverReadsAnEmptyBoardCorrect == Spec => []NeverReadsAnEmptyBoard
<1>1. TypeOK /\ JobInv => NeverReadsAnEmptyBoard
  <2> SUFFICES ASSUME TypeOK, JobInv, NEW w \in Workers, workerPc[w] = "job"
               PROVE  boardJob # None
    BY DEF NeverReadsAnEmptyBoard
  <2>1. boardGen \in Int /\ localGen[w] \in Int /\ localGen[w] >= 1 /\ localGen[w] <= boardGen
    BY DEF TypeOK, JobInv, WorkersInv
  <2>2. generation \in Nat /\ generation > 0
    BY <2>1 DEF TypeOK, JobInv, BoardInv
  <2>3. QED
    BY <2>2 DEF TypeOK, JobInv, BoardInv
<1>2. QED
  BY <1>1, BoardInvariant, PTL

(* A worker grinds the job of the generation it remembers, or a newer one. *)
THEOREM JobMatchesGenerationCorrect == Spec => []JobMatchesGeneration
<1>1. JobInv => JobMatchesGeneration
  BY DEF JobInv, WorkersInv, JobMatchesGeneration
<1>2. QED
  BY <1>1, BoardInvariant, PTL
-----------------------------------------------------------------------------
(* The reader publishes with the difficulty it holds. *)
DifficultyInv ==
    /\ readerStep # 0 => newJob.diff = difficulty
    /\ BoardHasCurrentDifficulty

LEMMA DifficultyStep == TypeOK /\ JobInv /\ DifficultyInv /\ [Next]_vars => DifficultyInv'
<1> SUFFICES ASSUME TypeOK, JobInv, DifficultyInv, [Next]_vars PROVE DifficultyInv'
  OBVIOUS
<1> USE DEF readerVars, clientVars, boardVars
<1>1. CASE UNCHANGED <<difficulty, readerStep, newJob, boardJob>>
  BY <1>1 DEF DifficultyInv, BoardHasCurrentDifficulty
<1>2. CASE WriteJob
  BY <1>2 DEF TypeOK, WriteJob, WrittenNow, StepWritten, Publication, DifficultyInv, BoardHasCurrentDifficulty
<1>3. CASE WriteGen
  <2>1. readerStep = 2 /\ readerStep' = 0 /\ UNCHANGED <<difficulty, newJob, boardJob>>
    BY <1>3 DEF TypeOK, WriteGen, WrittenNow, StepWritten, Publication
  <2>2. boardJob = newJob /\ newJob.diff = difficulty
    BY <2>1 DEF JobInv, BoardInv, DifficultyInv
  <2>3. QED
    BY <2>1, <2>2 DEF DifficultyInv, BoardHasCurrentDifficulty
<1>4. CASE OnNotify
  BY <1>4 DEF TypeOK, OnNotify, Publish, DifficultyInv, BoardHasCurrentDifficulty
<1>5. ASSUME NEW d \in Diffs, OnSetDifficulty(d)
      PROVE  DifficultyInv'
  BY <1>5 DEF TypeOK, OnSetDifficulty, Publish, DifficultyInv, BoardHasCurrentDifficulty
<1>6. ASSUME NEW w \in Workers, Worker(w) \/ Terminate(w)
      PROVE  UNCHANGED <<difficulty, readerStep, newJob, boardJob>>
  BY <1>6 DEF Worker, StartWorker, ReadGen, ReadJob, Grind, WorkerExits, Terminate
<1>7. QED
  BY <1>1, <1>2, <1>3, <1>4, <1>5, <1>6 DEF Next, Reader, Stop, vars

(* Between messages the job on the board has the current target, whichever *)
(* of set_difficulty and notify came first.                                *)
THEOREM CurrentDifficultyCorrect == Spec => []BoardHasCurrentDifficulty
<1>1. Init => DifficultyInv
  BY DEF Init, DifficultyInv, BoardHasCurrentDifficulty
<1>2. DifficultyInv => BoardHasCurrentDifficulty
  BY DEF DifficultyInv
<1>3. QED
  BY <1>1, <1>2, DifficultyStep, BoardInvariant, PTL DEF Spec

-----------------------------------------------------------------------------
(* When the number of workers divides the extranonce2 space, the stride    *)
(* keeps each worker in its own residue class, over the fold of the mask   *)
(* too.                                                                    *)
OfWorker(w, x) == \E q \in Nat : x = w + q * NumWorkers

LEMMA StrideKeepsClass ==
    ASSUME NEW k \in Nat, En2Space = k * NumWorkers,
           NEW w \in 0 .. NumWorkers - 1, NEW x \in 0 .. En2Space - 1, OfWorker(w, x)
    PROVE  OfWorker(w, NextExtranonce2(x))
<1>1. PICK q \in Nat : x = w + q * NumWorkers
  BY DEF OfWorker
<1>2. x + NumWorkers = w + (q + 1) * NumWorkers
  BY <1>1
<1>3. CASE x + NumWorkers < En2Space
  <2>1. (x + NumWorkers) % En2Space = x + NumWorkers
    BY <1>3
  <2>2. NextExtranonce2(x) = w + (q + 1) * NumWorkers
    BY <1>2, <2>1 DEF NextExtranonce2
  <2>3. q + 1 \in Nat
    OBVIOUS
  <2>4. QED
    BY <2>2, <2>3 DEF OfWorker
<1>4. CASE x + NumWorkers >= En2Space
  <2>1. k >= 1
    <3>1. k # 0
      BY DEF OfWorker
    <3>2. QED
      BY <3>1
  <2>2. NumWorkers <= En2Space
    BY <2>1
  <2>3. 0 <= x + NumWorkers - En2Space /\ x + NumWorkers - En2Space < En2Space
    BY <1>4, <2>2
  <2>4. (x + NumWorkers) % En2Space = x + NumWorkers - En2Space
    <3>1. PICK y \in Nat : y = x + NumWorkers - En2Space /\ y < En2Space
      BY <2>3
    <3>2. (y + En2Space) % En2Space = y
      BY <3>1
    <3>3. QED
      BY <3>1, <3>2
  <2>5. x + NumWorkers - En2Space = w + (q + 1 - k) * NumWorkers
    BY <1>2
  <2>6. q + 1 - k \in Nat
    <3>1. CASE q + 1 - k <= -1
      <4>1. (q + 1 - k) * NumWorkers <= (-1) * NumWorkers
        BY <3>1
      <4>2. QED
        BY <2>3, <2>5, <4>1
    <3>2. QED
      BY <3>1
  <2>7. QED
    BY <2>4, <2>5, <2>6 DEF NextExtranonce2, OfWorker
<1>5. QED
  BY <1>3, <1>4

LEMMA ClassesAreDisjoint ==
    ASSUME NEW v \in 0 .. NumWorkers - 1, NEW w \in 0 .. NumWorkers - 1, NEW x,
           OfWorker(v, x), OfWorker(w, x)
    PROVE  v = w
<1>1. PICK q \in Nat : x = v + q * NumWorkers
  BY DEF OfWorker
<1>2. PICK r \in Nat : x = w + r * NumWorkers
  BY DEF OfWorker
<1>3. ~(q >= r + 1)
  <2> SUFFICES ASSUME q >= r + 1 PROVE FALSE
    OBVIOUS
  <2>1. q * NumWorkers >= (r + 1) * NumWorkers
    OBVIOUS
  <2>2. QED
    BY <1>1, <1>2, <2>1
<1>4. ~(r >= q + 1)
  <2> SUFFICES ASSUME r >= q + 1 PROVE FALSE
    OBVIOUS
  <2>1. r * NumWorkers >= (q + 1) * NumWorkers
    OBVIOUS
  <2>2. QED
    BY <1>1, <1>2, <2>1
<1>5. q = r
  BY <1>3, <1>4
<1>6. QED
  BY <1>1, <1>2, <1>5

(* What every worker is at, and what it has ground, is of its own class. *)
StrideInv ==
    \A w \in Workers :
        /\ OfWorker(w, extranonce2[w])
        /\ \A h \in ground[w] : OfWorker(w, h[2])

LEMMA OwnSlot ==
    ASSUME NEW k \in Nat, En2Space = k * NumWorkers, NEW w \in Workers
    PROVE  OfWorker(w, w % En2Space)
<1>1. w \in 0 .. NumWorkers - 1
  OBVIOUS
<1>2. k >= 1
  <2>1. k # 0
    OBVIOUS
  <2>2. QED
    BY <2>1
<1>3. NumWorkers <= En2Space
  BY <1>2
<1>4. w % En2Space = w
  BY <1>1, <1>3
<1>5. w = w + 0 * NumWorkers
  BY <1>1
<1>6. QED
  BY <1>4, <1>5 DEF OfWorker

LEMMA StrideStep ==
    ASSUME NEW k \in Nat, En2Space = k * NumWorkers, TypeOK, StrideInv, [Next]_vars
    PROVE  StrideInv'
<1>1. CASE UNCHANGED <<extranonce2, ground>>
  BY <1>1 DEF StrideInv, OfWorker
<1>2. ASSUME NEW w \in Workers, ReadJob(w)
      PROVE  StrideInv'
  <2>1. /\ extranonce2'[w] = w % En2Space /\ ground' = ground
        /\ \A v \in Workers \ {w} : extranonce2'[v] = extranonce2[v]
    BY <1>2 DEF ReadJob, TypeOK
  <2>2. QED
    BY <2>1, OwnSlot DEF StrideInv, OfWorker
<1>3. ASSUME NEW w \in Workers, Grind(w)
      PROVE  StrideInv'
  <2>1. /\ extranonce2'[w] \in {extranonce2[w], NextExtranonce2(extranonce2[w])}
        /\ ground'[w] = ground[w] \cup {<<job[w].work, extranonce2[w], chunk[w]>>}
        /\ \A v \in Workers \ {w} : extranonce2'[v] = extranonce2[v] /\ ground'[v] = ground[v]
    BY <1>3 DEF Grind, TypeOK
  <2>2. w \in 0 .. NumWorkers - 1 /\ extranonce2[w] \in 0 .. En2Space - 1 /\ OfWorker(w, extranonce2[w])
    BY DEF TypeOK, StrideInv
  <2>3. OfWorker(w, extranonce2'[w])
    BY <2>1, <2>2, StrideKeepsClass
  <2>4. \A h \in ground'[w] : OfWorker(w, h[2])
    BY <2>1, <2>2 DEF StrideInv
  <2>5. ASSUME NEW v \in Workers
        PROVE  OfWorker(v, extranonce2'[v]) /\ \A h \in ground'[v] : OfWorker(v, h[2])
    <3>1. CASE v = w
      BY <2>3, <2>4, <3>1
    <3>2. CASE v # w
      BY <2>1, <3>2 DEF StrideInv
    <3>3. QED
      BY <3>1, <3>2
  <2>6. QED
    BY <2>5 DEF StrideInv, OfWorker
<1>4. QED
  BY <1>1, <1>2, <1>3
  DEF Next, Reader, WriteJob, WriteGen, OnNotify, OnSetDifficulty, Stop, Worker, StartWorker,
      ReadGen, WorkerExits, Terminate, vars, workerVars

(* No two workers ever grind the same header, if their number divides the  *)
(* extranonce2 space.                                                      *)
THEOREM WorkersAreDisjointCorrect ==
    ASSUME NEW k \in Nat, En2Space = k * NumWorkers
    PROVE  Spec => []WorkersAreDisjoint
<1>1. Init => StrideInv
  BY OwnSlot DEF Init, StrideInv
<1>2. TypeOK /\ StrideInv /\ [Next]_vars => StrideInv'
  BY StrideStep
<1>3. TypeOK /\ StrideInv => WorkersAreDisjoint
  <2> SUFFICES ASSUME StrideInv, NEW v \in Workers, NEW w \in Workers, NEW h,
                      h \in ground[v], h \in ground[w]
               PROVE  v = w
    BY DEF WorkersAreDisjoint
  <2>1. OfWorker(v, h[2]) /\ OfWorker(w, h[2])
    BY DEF StrideInv
  <2>2. v \in 0 .. NumWorkers - 1 /\ w \in 0 .. NumWorkers - 1
    OBVIOUS
  <2>3. QED
    BY <2>1, <2>2, ClassesAreDisjoint
<1>4. QED
  BY <1>1, <1>2, <1>3, BoardInvariant, PTL DEF Spec
=============================================================================
