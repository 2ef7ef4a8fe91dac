-------------------------------- MODULE LoadGen --------------------------------
(***************************************************************************)
(* The synthetic load generator (openbench/probes/stratum_bench.py): one   *)
(* or several processes, each an asyncio loop that drives its share of the *)
(* connections.  A connection's flood task keeps at most `pipeline`        *)
(* submits in flight; its read loop gives a slot back for every answer.    *)
(* The processes start together at a barrier and hand their counts to the  *)
(* main process over a queue.                                              *)
(*                                                                         *)
(* Within a process an action is what runs between two awaits.  Hashing    *)
(* and the nonces are left out: every submit is a new id.  The pool is     *)
(* external: it answers a submit when it likes, twice, or never, and may   *)
(* close a connection.  A latency, and an accept or a reject, is recorded  *)
(* exactly when `submits` is incremented and is left out.                  *)
(***************************************************************************)
EXTENDS Integers, FiniteSets, FiniteSetsExt

CONSTANTS
    Connections,  \* --connections
    MaxWorkers,   \* bound: --workers, the processes of a run
    Pipeline,     \* --pipeline: submits in flight on a connection
    MaxSubmits,   \* bound: submits of a connection
    None          \* no result yet

ASSUME ConnectionsAssumption == Connections \in Nat \ {0}
ASSUME MaxWorkersAssumption == MaxWorkers \in 1 .. Connections
ASSUME PipelineAssumption == Pipeline \in Nat \ {0}
ASSUME MaxSubmitsAssumption == MaxSubmits \in Nat

Clients == 0 .. Connections - 1
Reports == [submits : Nat, errors : Nat]

ASSUME NoneAssumption == None \notin Reports

VARIABLES
    workers,      \* processes of this run, after min(workers, connections)
    procPc,       \* where run_local is in each process
    barrier,      \* the barrier: "closed", "released" or "broken"
    stop,         \* stop_evt of each process
    connected,    \* connect() has returned
    readerAlive,  \* _read_loop runs
    floodPc,      \* where flood is
    free,         \* the value of the semaphore of in-flight slots
    pending,      \* ids of the submits without an answer
    sent,         \* submits so far: the ids in use are 1 .. sent
    submits,      \* answered submits of the window
    errors,       \* write errors
    results,      \* what each process put on the queue
    merged,       \* the result line
    mainPc,       \* "collect", then "emitted" or "crashed"
    counted,      \* history: ids answered in the window
    cutShort      \* history: processes whose floods stopped before the window closed

loopVars == <<procPc, barrier, stop>>
taskVars == <<connected, readerAlive, floodPc, free, pending, sent, submits, errors, counted>>
mainVars == <<results, merged, mainPc>>
vars == <<workers, loopVars, taskVars, mainVars, cutShort>>

(* divmod(connections, w): the first processes take one more. *)
Procs == 0 .. MaxWorkers - 1
Active == 0 .. workers - 1
Load(p) == Connections \div workers + (IF p < Connections % workers THEN 1 ELSE 0)
First(p) == p * (Connections \div workers) + Min({p, Connections % workers})
ClientsOf(p) == First(p) .. First(p) + Load(p) - 1
ProcOf(c) == CHOOSE p \in Active : c \in ClientsOf(p)

(* sum() over the clients, or over the processes. *)
Total(f, S) == MapThenSumSet(LAMBDA x : f[x], S)

Stopped(c) == stop[ProcOf(c)]
Measuring(c) == procPc[ProcOf(c)] = "window"

(* barrier.wait() blocks the whole loop; asyncio.run cancels what is left. *)
LoopRuns(c) == procPc[ProcOf(c)] \notin {"barrier", "failed", "done"}

Init ==
    /\ workers \in 1 .. MaxWorkers
    /\ procPc = [p \in Procs |-> "connect"]
    /\ barrier = "closed"
    /\ stop = [p \in Procs |-> FALSE]
    /\ connected = [c \in Clients |-> FALSE]
    /\ readerAlive = [c \in Clients |-> FALSE]
    /\ floodPc = [c \in Clients |-> "idle"]
    /\ free = [c \in Clients |-> Pipeline]
    /\ pending = [c \in Clients |-> {}]
    /\ sent = [c \in Clients |-> 0]
    /\ submits = [c \in Clients |-> 0]
    /\ errors = [c \in Clients |-> 0]
    /\ results = [p \in Procs |-> None]
    /\ merged = None
    /\ mainPc = "collect"
    /\ counted = [c \in Clients |-> {}]
    /\ cutShort = {}

-----------------------------------------------------------------------------
(* run_local: the connections, then the barrier. *)

(* connect(): subscribed, authorized and with a job. *)
Connect(c) ==
    /\ procPc[ProcOf(c)] = "connect"
    /\ ~connected[c]
    /\ connected' = [connected EXCEPT ![c] = TRUE]
    /\ readerAlive' = [readerAlive EXCEPT ![c] = TRUE]
    /\ UNCHANGED <<workers, loopVars, floodPc, free, pending, sent, submits, errors, counted,
                   mainVars, cutShort>>

(* A faulty _worker, without its except clause: nothing is put on the queue. *)
ConnectFailsSilently(p) ==
    /\ procPc[p] = "connect"
    /\ procPc' = [procPc EXCEPT ![p] = "failed"]
    /\ UNCHANGED <<workers, barrier, stop, taskVars, mainVars, cutShort>>

(* A connection is refused, rejected or times out: gather raises, _worker  *)
(* turns it into a result with no shares and n_conn errors.  A run with a  *)
(* single process has no _worker: the exception ends the program.          *)
ConnectFails(p) ==
    /\ procPc[p] = "connect"
    /\ procPc' = [procPc EXCEPT ![p] = "failed"]
    /\ \/ /\ workers > 1
          /\ results' = [results EXCEPT ![p] = [submits |-> 0, errors |-> Load(p)]]
          /\ UNCHANGED mainPc
       \/ /\ workers = 1
          /\ mainPc' = "crashed"
          /\ UNCHANGED results
    /\ UNCHANGED <<workers, barrier, stop, taskVars, merged, cutShort>>

AllConnected(p) == \A c \in ClientsOf(p) : connected[c]

ArriveAtBarrier(p) ==
    /\ workers > 1
    /\ procPc[p] = "connect" /\ AllConnected(p)
    /\ procPc' = [procPc EXCEPT ![p] = "barrier"]
    /\ UNCHANGED <<workers, barrier, stop, taskVars, mainVars, cutShort>>

Waiting == {p \in Active : procPc[p] = "barrier"}

BarrierReleases ==
    /\ barrier = "closed"
    /\ Waiting = Active
    /\ barrier' = "released"
    /\ UNCHANGED <<workers, procPc, stop, taskVars, mainVars, cutShort>>

BarrierNeverBreaks == FALSE   \* faulty: wait() without a timeout

(* wait(timeout=60) gives up: everyone waiting, now or later, goes on. *)
BarrierBreaks ==
    /\ barrier = "closed"
    /\ Waiting # {} /\ Waiting # Active
    /\ barrier' = "broken"
    /\ UNCHANGED <<workers, procPc, stop, taskVars, mainVars, cutShort>>

StartFloods(p) ==
    /\ \/ workers = 1 /\ procPc[p] = "connect" /\ AllConnected(p)
       \/ procPc[p] = "barrier" /\ barrier # "closed"
    /\ procPc' = [procPc EXCEPT ![p] = "warmup"]
    /\ floodPc' = [c \in Clients |-> IF c \in ClientsOf(p) THEN "acquire" ELSE floodPc[c]]
    /\ UNCHANGED <<workers, barrier, stop, connected, readerAlive, free, pending, sent, submits,
                   errors, counted, mainVars, cutShort>>
-----------------------------------------------------------------------------
(* run_local: warmup, the measured window, the result. *)

ResetAll(p) ==   \* faulty: the errors of the warmup are forgotten
    /\ procPc[p] = "warmup"
    /\ procPc' = [procPc EXCEPT ![p] = "window"]
    /\ submits' = [c \in Clients |-> IF c \in ClientsOf(p) THEN 0 ELSE submits[c]]
    /\ errors' = [c \in Clients |-> IF c \in ClientsOf(p) THEN 0 ELSE errors[c]]
    /\ UNCHANGED <<workers, barrier, stop, connected, readerAlive, floodPc, free, pending, sent,
                   counted, mainVars, cutShort>>

(* c.reset() for every client, with no await in between. *)
Reset(p) ==
    /\ procPc[p] = "warmup"
    /\ procPc' = [procPc EXCEPT ![p] = "window"]
    /\ submits' = [c \in Clients |-> IF c \in ClientsOf(p) THEN 0 ELSE submits[c]]
    /\ UNCHANGED <<workers, barrier, stop, connected, readerAlive, floodPc, free, pending, sent,
                   errors, counted, mainVars, cutShort>>

(* `measuring = False` for every client, then stop_evt. *)
CloseWindow(p) ==
    /\ procPc[p] = "window"
    /\ procPc' = [procPc EXCEPT ![p] = "closing"]
    /\ stop' = [stop EXCEPT ![p] = TRUE]
    /\ UNCHANGED <<workers, barrier, taskVars, mainVars, cutShort>>

(* After 0.3 s the floods are cancelled and the counts summed up. *)
Finish(p) ==
    /\ procPc[p] = "closing"
    /\ procPc' = [procPc EXCEPT ![p] = "done"]
    /\ floodPc' = [c \in Clients |-> IF c \in ClientsOf(p) THEN "done" ELSE floodPc[c]]
    /\ readerAlive' = [c \in Clients |-> readerAlive[c] /\ c \notin ClientsOf(p)]
    /\ results' = [results EXCEPT ![p] =
           [submits |-> Total(submits, ClientsOf(p)), errors |-> Total(errors, ClientsOf(p))]]
    /\ UNCHANGED <<workers, barrier, stop, connected, free, pending, sent, submits, errors,
                   counted, merged, mainPc, cutShort>>

(* main: one q.get() per process, the counts added up. *)
Emit ==
    /\ mainPc = "collect"
    /\ \A p \in Active : results[p] # None
    /\ merged' = [submits |-> Total([p \in Active |-> results[p].submits], Active),
                  errors |-> Total([p \in Active |-> results[p].errors], Active)]
    /\ mainPc' = "emitted"
    /\ UNCHANGED <<workers, loopVars, taskVars, results, cutShort>>
-----------------------------------------------------------------------------
(* One connection: its flood and its read loop. *)

(* A slot, then the next share. *)
Submit(c) ==
    /\ floodPc[c] = "acquire"
    /\ ~Stopped(c)
    /\ free[c] > 0 /\ sent[c] < MaxSubmits
    /\ free' = [free EXCEPT ![c] = @ - 1]
    /\ sent' = [sent EXCEPT ![c] = @ + 1]
    /\ pending' = [pending EXCEPT ![c] = @ \cup {sent'[c]}]
    /\ floodPc' = [floodPc EXCEPT ![c] = "drain"]
    /\ UNCHANGED <<workers, loopVars, connected, readerAlive, submits, errors, counted,
                   mainVars, cutShort>>

(* The write went through; stop_evt is looked at before the next slot.     *)
Drained(c) ==
    /\ floodPc[c] = "drain"
    /\ floodPc' = [floodPc EXCEPT ![c] = IF Stopped(c) THEN "done" ELSE "acquire"]
    /\ UNCHANGED <<workers, loopVars, connected, readerAlive, free, pending, sent, submits,
                   errors, counted, mainVars, cutShort>>

(* An OSError of the write stops every flood of the process. *)
WriteFails(c) ==
    /\ floodPc[c] = "drain"
    /\ errors' = [errors EXCEPT ![c] = @ + 1]
    /\ stop' = [stop EXCEPT ![ProcOf(c)] = TRUE]
    /\ cutShort' = cutShort \cup IF Stopped(c) THEN {} ELSE {ProcOf(c)}
    /\ floodPc' = [floodPc EXCEPT ![c] = "done"]
    /\ UNCHANGED <<workers, procPc, barrier, connected, readerAlive, free, pending, sent, submits,
                   counted, mainVars>>

(* A flood that waits for a slot sees stop_evt when it gets one, and gives *)
(* it back.                                                                *)
FloodStops(c) ==
    /\ floodPc[c] = "acquire"
    /\ Stopped(c) /\ free[c] > 0
    /\ floodPc' = [floodPc EXCEPT ![c] = "done"]
    /\ UNCHANGED <<workers, loopVars, connected, readerAlive, free, pending, sent, submits,
                   errors, counted, mainVars, cutShort>>

CountAnswer(c, id) ==
    /\ submits' = [submits EXCEPT ![c] = @ + 1]
    /\ counted' = [counted EXCEPT ![c] = @ \cup {id}]

OnAnswerUnchecked(c, id) ==   \* faulty: does not look for the id in _pending
    /\ pending' = [pending EXCEPT ![c] = @ \ {id}]
    /\ free' = [free EXCEPT ![c] = @ + 1]
    /\ \/ Measuring(c) /\ CountAnswer(c, id)
       \/ ~Measuring(c) /\ UNCHANGED <<submits, counted>>

(* An answer to a submit; a second one to the same submit is ignored. *)
OnAnswer(c, id) ==
    \/ /\ id \in pending[c]
       /\ pending' = [pending EXCEPT ![c] = @ \ {id}]
       /\ free' = [free EXCEPT ![c] = @ + 1]
       /\ \/ Measuring(c) /\ CountAnswer(c, id)
          \/ ~Measuring(c) /\ UNCHANGED <<submits, counted>>
    \/ id \notin pending[c] /\ UNCHANGED <<pending, free, submits, counted>>

(* The read loop sees stop_evt only after the line it waited for. *)
ReadAnswer(c, id) ==
    /\ LoopRuns(c) /\ readerAlive[c]
    /\ OnAnswer(c, id)
    /\ readerAlive' = [readerAlive EXCEPT ![c] = ~Stopped(c)]
    /\ UNCHANGED <<workers, loopVars, connected, floodPc, sent, errors, mainVars, cutShort>>

(* The pool closes the connection. *)
EndOfStream(c) ==
    /\ LoopRuns(c) /\ readerAlive[c]
    /\ readerAlive' = [readerAlive EXCEPT ![c] = FALSE]
    /\ UNCHANGED <<workers, loopVars, connected, floodPc, free, pending, sent, submits, errors,
                   counted, mainVars, cutShort>>

Controller(p) ==
    \/ ArriveAtBarrier(p) \/ StartFloods(p) \/ ConnectFails(p)
    \/ Reset(p) \/ CloseWindow(p) \/ Finish(p)

Task(c) ==
    \/ Connect(c) \/ Submit(c) \/ Drained(c) \/ WriteFails(c) \/ FloodStops(c) \/ EndOfStream(c)
    \/ \E id \in 1 .. sent[c] : ReadAnswer(c, id)

Main == BarrierReleases \/ BarrierBreaks \/ Emit

Next == \/ Main
        \/ \E p \in Active : Controller(p)
        \/ \E c \in Clients : Task(c)

(* Each process' controller is woken by its timers: connect's waits, the   *)
(* barrier's and the window's.  Nothing is assumed of the pool, and        *)
(* nothing of the connections' tasks.                                      *)
Fairness == WF_vars(Main) /\ \A p \in Procs : WF_vars(p \in Active /\ Controller(p))

Spec == Init /\ [][Next]_vars /\ Fairness

-----------------------------------------------------------------------------
(* Every variable has its type. *)
TypeOK ==
    /\ workers \in 1 .. MaxWorkers
    /\ procPc \in [Procs -> {"connect", "failed", "barrier", "warmup", "window", "closing",
                             "done"}]
    /\ barrier \in {"closed", "released", "broken"}
    /\ stop \in [Procs -> BOOLEAN]
    /\ connected \in [Clients -> BOOLEAN]
    /\ readerAlive \in [Clients -> BOOLEAN]
    /\ floodPc \in [Clients -> {"idle", "acquire", "drain", "done"}]
    /\ free \in [Clients -> Nat]
    /\ sent \in [Clients -> 0 .. MaxSubmits]
    /\ pending \in [Clients -> SUBSET (1 .. MaxSubmits)]
    /\ submits \in [Clients -> Nat]
    /\ errors \in [Clients -> Nat]
    /\ results \in [Procs -> Reports \cup {None}]
    /\ merged \in Reports \cup {None}
    /\ mainPc \in {"collect", "emitted", "crashed"}
    /\ counted \in [Clients -> SUBSET (1 .. MaxSubmits)]
    /\ cutShort \in SUBSET Procs

(* No slot is lost or made up, whatever the pool answers and however the   *)
(* run ends: --pipeline really is the number of submits in flight.         *)
SlotsConserved == \A c \in Clients : free[c] + Cardinality(pending[c]) = Pipeline

(* On a connection, what is counted is the answers that came in the window *)
(* to different submits.                                                   *)
CountedPerConnection ==
    \A c \in Clients :
        Measuring(c) \/ procPc[ProcOf(c)] \in {"closing", "done"} =>
            submits[c] = Cardinality(counted[c])

(* A share counts once, and only if its answer came in the window; the     *)
(* result line, validated_per_sec's numerator, is the sum of those.        *)
SharesCountedOnce ==
    /\ CountedPerConnection
    /\ mainPc = "emitted" =>
           merged.submits = Total([c \in Clients |-> Cardinality(counted[c])], Clients)

(* A result line without errors comes from processes that all connected    *)
(* and whose floods ran until their windows closed: an error in the warmup *)
(* or in a process of its own is not lost on the way.                      *)
ErrorsAreReported ==
    mainPc = "emitted" /\ merged.errors = 0 =>
        cutShort = {} /\ \A p \in Active : procPc[p] # "failed"

(* The probe ends, with a result line or with an exception: a process that *)
(* cannot connect leaves nobody waiting at the barrier or on the queue.    *)
MainEnds == <>(mainPc # "collect")
=============================================================================
