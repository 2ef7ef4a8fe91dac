------------------------------- MODULE MinerRun -------------------------------
(***************************************************************************)
(* One auditing run of the test miner: run_miner of                        *)
(* miner/openbench_miner.py with --audit-work.  The main thread starts the *)
(* connections one after the other, polls them until the run is over, and  *)
(* turns the auditor's state into an exit code and an AUDIT line.  The     *)
(* reader threads are daemons: they go on reporting to the auditor until   *)
(* the process exits, while the main thread reads the auditor without its  *)
(* lock.                                                                   *)
(*                                                                         *)
(* The auditor is WorkAudit's, its actions taken by the live readers; the  *)
(* handshake inside _Connection.start is StratumClient's and only its      *)
(* outcome is here; the workers' search is JobBoard's and only the shares  *)
(* they find are here.                                                     *)
(***************************************************************************)
EXTENDS Integers, Sequences, FiniteSets

CONSTANTS
    NumConns,        \* --connections
    Extranonce1s, Works, JobIds, Diffs, None, MaxNotifies, MaxRetargets,
    MaxShares,       \* bound: shares waiting at one connection; how many are found in a run has none
    MaxBlocks        \* bound: blocks among the shares of a run

ASSUME NumConnsAssumption == NumConns \in Nat \ {0}
ASSUME BoundsAssumption ==
    MaxShares \in Nat /\ MaxBlocks \in Nat /\ MaxNotifies \in Nat /\ MaxRetargets \in Nat

Conns == 0 .. NumConns - 1

VARIABLES
    \* the auditor and its history (WorkAudit)
    extranonce1, extranonce1Owner, seen, seenOwner, connEpoch, connDifficulty,
    duplicateEvents, vardiffEvents, collisions, setDifficultyCount,
    difficultiesSeen, failure, log, offered,
    \* the connections
    readerAlive,      \* the reader thread runs
    started,          \* start() returned True: its workers run
    found,            \* shares in found_queue, or taken from it and not sent yet
    \* the main thread
    mainPc,
    current,          \* the connection it is at in its for loop
    timed,            \* --duration was given
    elapsed,          \* the duration is over
    raised,           \* an exception is on its way out
    verdictDups,      \* `dups`, read for the verdict
    exitCode,
    blocksSubmitted,  \* of all connections
    summary,          \* the fields of the AUDIT line read so far
    verdictLog        \* history: notifies audited when `dups` was read

auditVars == <<extranonce1, extranonce1Owner, seen, seenOwner, connEpoch, connDifficulty,
               duplicateEvents, vardiffEvents, collisions, setDifficultyCount,
               difficultiesSeen, failure, log, offered>>
connVars == <<readerAlive, started, found>>
endVars == <<verdictDups, exitCode, summary, verdictLog>>
mainVars == <<mainPc, current, timed, elapsed, raised, endVars, blocksSubmitted>>
vars == <<auditVars, connVars, mainVars>>

Audit == INSTANCE WorkAudit

ASSUME NoneAssumption ==
    None \notin Conns \cup Extranonce1s \cup Diffs \cup Audit!Labels
                  \cup Audit!DuplicateEvents \cup Audit!CollisionEvents \cup Audit!OwnerEntries

(* The reads of the auditor that make the AUDIT line, in their order. *)
SummaryFields == <<"retargets", "duplicates", "vardiff_duplicates", "collisions">>

Init ==
    /\ Audit!Init
    /\ readerAlive = [c \in Conns |-> FALSE]
    /\ started = [c \in Conns |-> FALSE]
    /\ found = [c \in Conns |-> 0]
    /\ mainPc = "start"
    /\ current = 0
    /\ timed \in BOOLEAN
    /\ elapsed = FALSE
    /\ raised = FALSE
    /\ verdictDups = 0
    /\ exitCode = 0
    /\ blocksSubmitted = 0
    /\ summary = <<>>
    /\ verdictLog = 0

Running == mainPc # "exited"
-----------------------------------------------------------------------------
(* Starting the connections. *)
Connect ==
    /\ mainPc = "start"
    /\ readerAlive' = [readerAlive EXCEPT ![current] = TRUE]
    /\ mainPc' = "handshake"
    /\ UNCHANGED <<auditVars, started, found, current, timed, elapsed, raised,
                   endVars, blocksSubmitted>>

HandshakeSucceeds ==
    /\ mainPc = "handshake"
    /\ extranonce1[current] # None
    /\ started' = [started EXCEPT ![current] = TRUE]
    /\ \/ /\ current + 1 < NumConns
          /\ current' = current + 1
          /\ mainPc' = "start"
       \/ /\ current + 1 = NumConns
          /\ current' = 0
          /\ mainPc' = "loop"
    /\ UNCHANGED <<auditVars, readerAlive, found, timed, elapsed, raised,
                   endVars, blocksSubmitted>>

(* connect() raises, or the handshake raises, is refused or times out: the *)
(* run is over with exit code 1, before the `try` whose `finally` prints   *)
(* the AUDIT line.                                                         *)
StartFails ==
    /\ mainPc \in {"start", "handshake"}
    /\ mainPc' = "exited"
    /\ exitCode' = 1
    /\ UNCHANGED <<auditVars, connVars, current, timed, elapsed, raised, verdictDups,
                   summary, verdictLog, blocksSubmitted>>

-----------------------------------------------------------------------------
(* The polling loop: what ends it, in the order of its tests. *)
NoReader == \A c \in Conns : ~readerAlive[c]
DurationOverIfQuiet == timed /\ elapsed /\ failure = None   \* faulty
DurationOver == timed /\ elapsed
GateTrips == ~timed /\ failure # None

LeaveLoop(code) ==
    /\ mainPc' = "verdict"
    /\ exitCode' = code
    /\ UNCHANGED current

Poll ==
    /\ mainPc = "loop"
    /\ \/ (NoReader \/ DurationOver) /\ LeaveLoop(exitCode)
       \/ ~NoReader /\ ~DurationOver /\ GateTrips /\ LeaveLoop(3)
       \/ /\ ~NoReader /\ ~DurationOver /\ ~GateTrips
          /\ mainPc' = "drain"
          /\ current' = 0
          /\ UNCHANGED exitCode
    /\ UNCHANGED <<auditVars, connVars, timed, elapsed, raised, verdictDups, summary,
                   verdictLog, blocksSubmitted>>

(* drain_and_submit: one share of the queue, counted if it makes a block   *)
(* and submitted; the pool may have closed the connection by now, and then *)
(* the submit may raise an OSError.  The socket has no timeout: while the  *)
(* pool does not read, the submit may also never return.                   *)
DrainShare(isBlock) ==
    /\ mainPc = "drain"
    /\ found[current] > 0
    /\ isBlock => blocksSubmitted < MaxBlocks
    /\ found' = [found EXCEPT ![current] = @ - 1]
    /\ blocksSubmitted' = blocksSubmitted + IF isBlock THEN 1 ELSE 0
    /\ \/ UNCHANGED <<mainPc, raised>>
       \/ /\ raised' = TRUE
          /\ mainPc' = "verdict"
    /\ UNCHANGED <<auditVars, readerAlive, started, current, timed, elapsed, endVars>>

(* queue.Empty: on to the next connection, then back to the loop's test. *)
DrainEnds ==
    /\ mainPc = "drain"
    /\ found[current] = 0
    /\ \/ /\ current + 1 < NumConns
          /\ current' = current + 1
          /\ UNCHANGED mainPc
       \/ /\ current + 1 = NumConns
          /\ current' = 0
          /\ mainPc' = "loop"
    /\ UNCHANGED <<auditVars, connVars, timed, elapsed, raised, endVars, blocksSubmitted>>

(* KeyboardInterrupt. *)
Interrupt ==
    /\ mainPc \in {"loop", "drain"}
    /\ mainPc' = "verdict"
    /\ UNCHANGED <<auditVars, connVars, current, timed, elapsed, raised, endVars,
                   blocksSubmitted>>

-----------------------------------------------------------------------------
(* The `finally` block. *)

(* `dups = auditor.duplicate_count` *)
ReadDuplicates ==
    /\ mainPc = "verdict"
    /\ verdictDups' = Len(duplicateEvents)
    /\ verdictLog' = Len(log)
    /\ mainPc' = "collisions"
    /\ UNCHANGED <<auditVars, connVars, current, timed, elapsed, raised, exitCode, summary,
                   blocksSubmitted>>

(* A faulty verdict that looks at the duplicates alone. *)
DecideOnDuplicates ==
    /\ mainPc = "collisions"
    /\ exitCode' = IF verdictDups > 0 THEN 3 ELSE exitCode
    /\ mainPc' = "summary"
    /\ UNCHANGED <<auditVars, connVars, current, timed, elapsed, raised, verdictDups, summary,
                   verdictLog, blocksSubmitted>>

(* A faulty verdict that adds its code to the gate's. *)
DecideAdding ==
    /\ mainPc = "collisions"
    /\ exitCode' = IF verdictDups > 0 \/ collisions # <<>> THEN exitCode + 3 ELSE exitCode
    /\ mainPc' = "summary"
    /\ UNCHANGED <<auditVars, connVars, current, timed, elapsed, raised, verdictDups, summary,
                   verdictLog, blocksSubmitted>>

(* `collisions = len(...)`, and the verdict. *)
Decide ==
    /\ mainPc = "collisions"
    /\ exitCode' = IF verdictDups > 0 \/ collisions # <<>> THEN 3 ELSE exitCode
    /\ mainPc' = "summary"
    /\ UNCHANGED <<auditVars, connVars, current, timed, elapsed, raised, verdictDups, summary,
                   verdictLog, blocksSubmitted>>

Count(field) ==
    CASE field = "retargets" -> setDifficultyCount
      [] field = "duplicates" -> Len(duplicateEvents)
      [] field = "vardiff_duplicates" -> Len(vardiffEvents)
      [] field = "collisions" -> Len(collisions)

(* The AUDIT line reads the auditor again, a field at a time. *)
Summarise ==
    /\ mainPc = "summary"
    /\ Len(summary) < Len(SummaryFields)
    /\ summary' = Append(summary, Count(SummaryFields[Len(summary) + 1]))
    /\ UNCHANGED <<auditVars, connVars, mainPc, current, timed, elapsed, raised, verdictDups,
                   exitCode, verdictLog, blocksSubmitted>>

(* The AUDIT line is printed and the process ends; an exception that went  *)
(* through the `finally` makes Python's exit code 1.                       *)
Exit ==
    /\ mainPc = "summary"
    /\ Len(summary) = Len(SummaryFields)
    /\ mainPc' = "exited"
    /\ exitCode' = IF raised THEN 1 ELSE exitCode
    /\ UNCHANGED <<auditVars, connVars, current, timed, elapsed, raised, verdictDups, summary,
                   verdictLog, blocksSubmitted>>

(* What the main thread does with the share it has, and everything else it *)
(* does: that waits for nothing, or for no longer than a timeout.          *)
Submit == \E isBlock \in BOOLEAN : DrainShare(isBlock)
Proceed == \/ Connect \/ HandshakeSucceeds \/ StartFails
           \/ Poll \/ DrainEnds
           \/ ReadDuplicates \/ Decide \/ Summarise \/ Exit
Main == Proceed \/ Submit
-----------------------------------------------------------------------------
(* The reader threads, the workers and the pool. *)
Report(c) ==
    /\ Running /\ readerAlive[c]
    /\ \/ \E e \in Extranonce1s : Audit!RecordSubscribe(c, e)
       \/ \E d \in Diffs : Audit!RecordSetDifficulty(c, d)
       \/ \E w \in Works, j \in JobIds : Audit!RecordNotify(c, w, j)
    /\ UNCHANGED <<connVars, mainVars>>

(* The end of the stream, or a line the reader cannot decode or handle. *)
ReaderEnds(c) ==
    /\ Running /\ readerAlive[c]
    /\ readerAlive' = [readerAlive EXCEPT ![c] = FALSE]
    /\ UNCHANGED <<auditVars, started, found, mainVars>>

(* A worker of a started connection, with a job, finds a share; it has no  *)
(* regard for how many are waiting, and finds them as long as the run is.  *)
FindShare(c) ==
    /\ started[c] /\ mainPc \in {"start", "handshake", "loop", "drain"}
    /\ \E i \in DOMAIN log : log[i].label.conn = c
    /\ found[c] < MaxShares
    /\ found' = [found EXCEPT ![c] = @ + 1]
    /\ UNCHANGED <<auditVars, readerAlive, started, mainVars>>

Elapse ==
    /\ mainPc \in {"loop", "drain"} /\ timed /\ ~elapsed
    /\ elapsed' = TRUE
    /\ UNCHANGED <<auditVars, connVars, mainPc, current, timed, raised, endVars,
                   blocksSubmitted>>

Next ==
    \/ Main \/ Interrupt \/ Elapse
    \/ \E c \in Conns : Report(c) \/ ReaderEnds(c) \/ FindShare(c)

(* The main thread is scheduled and its handshakes end (their waits time   *)
(* out); time passes.  A submit need not return, and the pool and the      *)
(* workers owe nothing: neither that a queue runs empty nor that it fills. *)
Spec == Init /\ [][Next]_vars /\ WF_vars(Proceed) /\ WF_vars(Elapse)

-----------------------------------------------------------------------------
(* Every variable has its type (the auditor's: WorkAudit's TypeOK). *)
TypeOK ==
    /\ Audit!TypeOK
    /\ readerAlive \in [Conns -> BOOLEAN]
    /\ started \in [Conns -> BOOLEAN]
    /\ found \in [Conns -> 0 .. MaxShares]
    /\ mainPc \in {"start", "handshake", "loop", "drain", "verdict", "collisions",
                   "summary", "exited"}
    /\ current \in Conns
    /\ timed \in BOOLEAN
    /\ elapsed \in BOOLEAN
    /\ raised \in BOOLEAN
    /\ verdictDups \in Nat
    /\ exitCode \in {0, 1, 3}
    /\ blocksSubmitted \in 0 .. MaxBlocks
    /\ summary \in Seq(Nat)
    /\ verdictLog \in Nat

Printed == mainPc = "exited" /\ summary # <<>>
Summary(field) ==
    summary[CHOOSE i \in DOMAIN SummaryFields : SummaryFields[i] = field]

(* Exit code 3 is never a false alarm: the AUDIT line that comes with it   *)
(* shows a duplicate or a collision, whether the gate or the verdict set   *)
(* the code.                                                               *)
ExitThreeHasEvidence ==
    mainPc = "exited" /\ exitCode = 3 =>
        Printed /\ Summary("duplicates") + Summary("collisions") > 0

(* Exit code 0 vouches for everything audited before the verdict's read:   *)
(* all connections had their own extranonce1, and no work had been handed  *)
(* out under two labels.                                                   *)
ExitZeroVouches ==
    mainPc = "exited" /\ exitCode = 0 =>
        /\ \A c, d \in Conns : c # d => extranonce1[c] # extranonce1[d]
        /\ \A i, j \in 1 .. verdictLog :
              log[i].digest = log[j].digest => log[i].label = log[j].label

(* The main thread is for ever in one connection's drain_and_submit, whose *)
(* queue it never leaves empty: its workers are faster than the submits,   *)
(* or a submit does not return.                                            *)
StaysIn(c) ==
    /\ <>[](mainPc = "drain" /\ current = c)
    /\ []<>(found[c] > 0)

(* A problem the auditor knows of while the main loop runs fails the run,  *)
(* however the loop is left: by the gate, the duration, the last reader's  *)
(* end, an interrupt or an exception.  Only a drain_and_submit that never  *)
(* returns keeps it from being told.                                       *)
KnownProblemFailsTheRun ==
    [](mainPc \in {"loop", "drain"} /\ failure # None =>
           \/ <>(mainPc = "exited" /\ exitCode # 0)
           \/ \E c \in Conns : StaysIn(c))

(* What --duration is good for.  A run that has it ends, unless one        *)
(* connection's drain_and_submit never returns: the time is looked at      *)
(* between the drains only, so nothing else of the pool, of the workers or *)
(* of the order of the readers' ends can hold the run, least of all a      *)
(* problem it has found.  A run whose connections are all gone when the    *)
(* loop looks ends in any case.                                            *)
RunEnds ==
    /\ timed => <>(mainPc = "exited") \/ \E c \in Conns : StaysIn(c)
    /\ mainPc = "loop" /\ NoReader ~> mainPc = "exited"

=============================================================================
