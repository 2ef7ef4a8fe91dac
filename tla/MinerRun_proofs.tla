----------------------------- MODULE MinerRun_proofs -----------------------------
(***************************************************************************)
(* What the exit code of an auditing run says, for any number of           *)
(* connections.  The run is an implementation of WorkAudit, so that what   *)
(* is proved of the auditor holds of the run; on top of that come the      *)
(* order in which the main thread starts the connections and reads the     *)
(* auditor, and what the readers may change meanwhile.                     *)
(***************************************************************************)
EXTENDS MinerRun, FiniteSetTheorems, TLAPS

P == INSTANCE WorkAudit_proofs

(* The assumptions of WorkAudit hold of the constants here. *)
LEMMA AuditAssumptions ==
    /\ MaxNotifies \in Nat /\ MaxRetargets \in Nat
    /\ None \notin Conns \cup Extranonce1s \cup Diffs \cup P!Labels
                     \cup P!DuplicateEvents \cup P!CollisionEvents \cup P!OwnerEntries
BY BoundsAssumption, NoneAssumption
DEF P!Labels, P!DuplicateEvents, P!CollisionEvents, P!OwnerEntries,
    Audit!Labels, Audit!DuplicateEvents, Audit!CollisionEvents, Audit!OwnerEntries

(* The auditor is the one of WorkAudit_proofs. *)
LEMMA SameInit == Audit!Init <=> P!Init
BY DEF Audit!Init, P!Init, Audit!Digests, P!Digests

LEMMA SameVars == Audit!vars = P!vars
BY DEF Audit!vars, P!vars, Audit!auditVars, P!auditVars

LEMMA SameTypeOK == Audit!TypeOK <=> P!TypeOK
BY DEF Audit!TypeOK, P!TypeOK, Audit!Digests, P!Digests, Audit!Labels, P!Labels, Audit!OwnerEntries,
   P!OwnerEntries, Audit!DuplicateEvents, P!DuplicateEvents, Audit!CollisionEvents, P!CollisionEvents

LEMMA SameNext == Audit!Next <=> P!Next
<1>1. \A c, e : Audit!RecordSubscribe(c, e) <=> P!RecordSubscribe(c, e)
    BY DEF Audit!RecordSubscribe, P!RecordSubscribe, Audit!Subscribed, P!Subscribed, Audit!Collides,
       P!Collides, Audit!FirstFailure, P!FirstFailure
<1>2. \A c, d : Audit!RecordSetDifficulty(c, d) <=> P!RecordSetDifficulty(c, d)
    BY DEF Audit!RecordSetDifficulty, P!RecordSetDifficulty, Audit!IsRetarget, P!IsRetarget
<1>3. \A c, w, j : Audit!RecordNotify(c, w, j) <=> P!RecordNotify(c, w, j)
    BY DEF Audit!RecordNotify, P!RecordNotify, Audit!Subscribed, P!Subscribed, Audit!notifiesSeen,
       P!notifiesSeen, Audit!Digest, P!Digest, Audit!Label, P!Label, Audit!IsDuplicate, P!IsDuplicate,
       Audit!TallyDuplicate, P!TallyDuplicate, Audit!AcrossRetarget, P!AcrossRetarget,
       Audit!FirstFailure, P!FirstFailure, Audit!Remember, P!Remember
<1> QED
    BY <1>1, <1>2, <1>3 DEF Audit!Next, P!Next

(* A step of the run is one of the auditor, or leaves it alone. *)
LEMMA AuditStep == [Next]_vars => [Audit!Next]_(Audit!vars)
<1> SUFFICES ASSUME [Next]_vars PROVE [Audit!Next]_(Audit!vars)
    OBVIOUS
<1>1. ASSUME NEW c \in Conns, Report(c) PROVE Audit!Next
    BY <1>1 DEF Report, Audit!Next
<1>2. UNCHANGED auditVars \/ \E c \in Conns : Report(c)
    BY DEF Next, Main, Proceed, Submit, Connect, HandshakeSucceeds, StartFails, Poll, DrainEnds, DrainShare,
           ReadDuplicates, Decide, Summarise, Exit, Interrupt, Elapse, ReaderEnds, FindShare, vars
<1>3. UNCHANGED auditVars => UNCHANGED Audit!vars
    BY DEF auditVars, Audit!vars, Audit!auditVars
<1> QED
    BY <1>1, <1>2, <1>3

(* The run implements the auditor: reports that are made by live readers   *)
(* only, between the main thread's steps, are reports of WorkAudit.        *)
THEOREM ImplementsAudit == Spec => Audit!Spec
<1>1. Init => Audit!Init
    BY DEF Init
<1> QED
    BY <1>1, AuditStep, PTL DEF Spec, Audit!Spec

(* What is proved of the auditor and needed of it here. *)
AuditFacts ==
    /\ Audit!TypeOK /\ Audit!CollisionIffShared /\ Audit!FailureIffEvents
    /\ duplicateEvents = <<>> => \A i \in DOMAIN log : log[i].label = seen[log[i].digest]

LEMMA FactsOfTheAudit == P!TypeOK /\ P!AuditInv => AuditFacts
<1> SUFFICES ASSUME P!TypeOK, P!AuditInv PROVE AuditFacts
    OBVIOUS
<1>1. Audit!TypeOK
    BY SameTypeOK
<1>2. Audit!CollisionIffShared /\ Audit!FailureIffEvents
    BY DEF P!AuditInv, Audit!CollisionIffShared, P!CollisionIffShared, Audit!FailureIffEvents,
       P!FailureIffEvents, Audit!Subscribed, P!Subscribed
<1>3. ASSUME duplicateEvents = <<>>, NEW i \in DOMAIN log PROVE log[i].label = seen[log[i].digest]
    BY <1>3, P!NoDuplicateNoneRelabelled, AuditAssumptions DEF P!Relabelled
<1> QED
    BY <1>1, <1>2, <1>3 DEF AuditFacts

(* What is proved of the auditor is true of it in the run. *)
THEOREM AuditHolds == Spec => []AuditFacts
<1>1. Audit!Spec => P!Spec
    <2>1. [Audit!Next]_(Audit!vars) => [P!Next]_(P!vars)
        BY SameNext, SameVars DEF Audit!vars, P!vars, Audit!auditVars, P!auditVars
    <2> QED
        BY <2>1, SameInit, PTL DEF Audit!Spec, P!Spec
<1>2. P!Spec => [](P!TypeOK /\ P!AuditInv)
    BY P!AuditInvariant, AuditAssumptions
<1> QED
    BY <1>1, <1>2, ImplementsAudit, FactsOfTheAudit, PTL
-----------------------------------------------------------------------------
(* All connections are started, and the run goes on or ended regularly. *)
PastStart == mainPc \notin {"start", "handshake", "exited"} \/ (mainPc = "exited" /\ exitCode # 1)

(* A connection that is started has its extranonce1. *)
StartInv == \A c \in Conns : PastStart \/ c < current => Audit!Subscribed(c)

(* The summary is as long as the main thread is far. *)
SummaryInv ==
    /\ mainPc \notin {"summary", "exited"} => summary = <<>>
    /\ mainPc = "exited" /\ exitCode # 1 => Len(summary) = Len(SummaryFields)

(* Either list justifies exit code 3, and is still there when its field of *)
(* the summary is read.                                                    *)
Shows(field) == \A i \in DOMAIN summary : SummaryFields[i] = field => summary[i] > 0

EvidenceInv ==
    exitCode = 3 =>
        \/ duplicateEvents # <<>> /\ Shows("duplicates")
        \/ collisions # <<>> /\ Shows("collisions")

(* The notifies that were audited when no duplicate was read. *)
VouchedFor ==
    \A i, j \in 1 .. verdictLog : log[i].digest = log[j].digest => log[i].label = log[j].label

VerdictInv ==
    /\ verdictLog <= Len(log)
    /\ verdictDups > 0 => duplicateEvents # <<>>
    /\ verdictDups = 0 => VouchedFor
    /\ mainPc \in {"summary", "exited"} /\ exitCode = 0 => verdictDups = 0 /\ collisions = <<>>

RunInv == TypeOK /\ StartInv /\ SummaryInv /\ EvidenceInv /\ VerdictInv

LEMMA InitRunInv == Init => RunInv
<1> SUFFICES ASSUME Init PROVE RunInv
    OBVIOUS
<1>1. Audit!TypeOK
    BY SameInit, SameTypeOK, P!InitType, AuditAssumptions DEF Init
<1>2. TypeOK
    <2>1. readerAlive \in [Conns -> BOOLEAN] /\ started \in [Conns -> BOOLEAN] /\ found \in [Conns -> 0 .. MaxShares]
        BY BoundsAssumption DEF Init
    <2>2. blocksSubmitted \in 0 .. MaxBlocks /\ current \in Conns /\ summary \in Seq(Nat)
        BY NumConnsAssumption, BoundsAssumption DEF Init, Conns
    <2> QED
        BY <1>1, <2>1, <2>2 DEF Init, TypeOK
<1>3. StartInv /\ SummaryInv /\ EvidenceInv
    BY DEF Init, StartInv, PastStart, SummaryInv, EvidenceInv, Conns
<1>4. VerdictInv
    BY DEF Init, Audit!Init, VerdictInv, VouchedFor
<1> QED
    BY <1>2, <1>3, <1>4 DEF RunInv

LEMMA NextAuditTypeOK == Audit!TypeOK /\ [Next]_vars => Audit!TypeOK'
<1> SUFFICES ASSUME Audit!TypeOK, [Next]_vars PROVE Audit!TypeOK'
    OBVIOUS
<1>1. [P!Next]_(P!vars)
    BY AuditStep, SameNext DEF Audit!vars, P!vars, Audit!auditVars, P!auditVars
<1>2. P!TypeOK'
    BY <1>1, SameTypeOK, P!StepType, AuditAssumptions
<1> QED
    BY <1>2 DEF Audit!TypeOK, P!TypeOK, Audit!Digests, P!Digests, Audit!Labels, P!Labels, Audit!OwnerEntries,
       P!OwnerEntries, Audit!DuplicateEvents, P!DuplicateEvents, Audit!CollisionEvents, P!CollisionEvents

(* What the reports may change of what the main thread reads. *)
LEMMA ReportsOnlyAdd ==
    ASSUME RunInv, [Next]_vars
    PROVE  /\ \A c \in Conns : Audit!Subscribed(c) => Audit!Subscribed(c)'
           /\ duplicateEvents # <<>> => duplicateEvents' # <<>>
           /\ collisions # <<>> => collisions' # <<>>
           /\ Len(log) <= Len(log') /\ \A i \in 1 .. Len(log) : log'[i] = log[i]
           /\ (\A c \in Conns : Audit!Subscribed(c)) => collisions' = collisions
<1> USE DEF RunInv, TypeOK, Audit!TypeOK, Audit!Subscribed
<1>1. CASE UNCHANGED Audit!vars
    BY <1>1 DEF Audit!vars, Audit!auditVars
<1>2. ASSUME NEW c \in Conns, NEW e \in Extranonce1s, Audit!RecordSubscribe(c, e)
      PROVE  /\ UNCHANGED <<duplicateEvents, log>> /\ ~Audit!Subscribed(c)
             /\ collisions # <<>> => collisions' # <<>>
             /\ \A d \in Conns : Audit!Subscribed(d) => Audit!Subscribed(d)'
    BY <1>2 DEF Audit!RecordSubscribe
<1>3. ASSUME NEW c \in Conns, NEW d \in Diffs, Audit!RecordSetDifficulty(c, d)
      PROVE  UNCHANGED <<extranonce1, duplicateEvents, collisions, log>>
    BY <1>3 DEF Audit!RecordSetDifficulty
<1>4. ASSUME NEW c \in Conns, NEW w \in Works, NEW j \in JobIds, Audit!RecordNotify(c, w, j)
      PROVE  /\ UNCHANGED <<extranonce1, collisions>>
             /\ duplicateEvents # <<>> => duplicateEvents' # <<>>
             /\ Len(log) <= Len(log') /\ \A i \in 1 .. Len(log) : log'[i] = log[i]
    <2>1. UNCHANGED <<extranonce1, collisions>> /\ \E entry : log' = Append(log, entry)
        BY <1>4 DEF Audit!RecordNotify
    <2>2. duplicateEvents' = duplicateEvents \/ \E message : duplicateEvents' = Append(duplicateEvents, message)
        BY <1>4 DEF Audit!RecordNotify, Audit!TallyDuplicate, Audit!Remember
    <2> QED
        BY <2>1, <2>2
<1> QED
    BY <1>1, <1>2, <1>3, <1>4, AuditStep DEF Audit!Next

(* Reports, readers, workers and time leave the main thread's state alone. *)
LEMMA Bystanders ==
    ASSUME NEW c \in Conns, Report(c) \/ ReaderEnds(c) \/ FindShare(c)
    PROVE  UNCHANGED mainVars
BY DEF Report, ReaderEnds, FindShare

LEMMA NextTypeOK == RunInv /\ AuditFacts' /\ [Next]_vars => TypeOK'
<1> SUFFICES ASSUME RunInv, AuditFacts', [Next]_vars PROVE TypeOK'
    OBVIOUS
<1> USE DEF RunInv, TypeOK, connVars, mainVars, endVars
<1>1. Audit!TypeOK'
    BY DEF AuditFacts
<1>2. /\ duplicateEvents \in Seq(Audit!DuplicateEvents) /\ vardiffEvents \in Seq(Audit!DuplicateEvents)
      /\ collisions \in Seq(Audit!CollisionEvents) /\ setDifficultyCount \in Nat /\ Len(log) \in Nat
    BY DEF Audit!TypeOK
<1>3. CASE Connect \/ HandshakeSucceeds \/ StartFails
    <2>1. current' \in Conns
        BY <1>3, NumConnsAssumption DEF Connect, HandshakeSucceeds, StartFails, Conns
    <2> QED
        BY <1>1, <1>3, <2>1 DEF Connect, HandshakeSucceeds, StartFails
<1>4. CASE Poll \/ Interrupt \/ Elapse
    <2>1. current' \in Conns
        BY <1>4, NumConnsAssumption DEF Poll, LeaveLoop, Interrupt, Elapse, Conns
    <2> QED
        BY <1>1, <1>4, <2>1 DEF Poll, LeaveLoop, Interrupt, Elapse
<1>5. ASSUME NEW isBlock \in BOOLEAN, DrainShare(isBlock) PROVE TypeOK'
    <2>1. found' \in [Conns -> 0 .. MaxShares] /\ blocksSubmitted' \in 0 .. MaxBlocks
        BY <1>5, BoundsAssumption DEF DrainShare
    <2> QED
        BY <1>1, <1>5, <2>1 DEF DrainShare
<1>6. CASE DrainEnds
    <2>1. current' \in Conns
        BY <1>6, NumConnsAssumption DEF DrainEnds, Conns
    <2> QED
        BY <1>1, <1>6, <2>1 DEF DrainEnds
<1>7. CASE ReadDuplicates \/ Decide \/ Exit
    BY <1>1, <1>2, <1>7 DEF ReadDuplicates, Decide, Exit
<1>8. CASE Summarise
    <2>1. SummaryFields[Len(summary) + 1] \in {"retargets", "duplicates", "vardiff_duplicates", "collisions"}
        BY <1>8 DEF Summarise, SummaryFields
    <2>2. Count(SummaryFields[Len(summary) + 1]) \in Nat
        BY <1>2, <2>1 DEF Count
    <2> QED
        BY <1>1, <1>8, <2>2 DEF Summarise
<1>9. ASSUME NEW c \in Conns, Report(c) \/ ReaderEnds(c) PROVE TypeOK'
    BY <1>1, <1>9 DEF Report, ReaderEnds
<1>10. ASSUME NEW c \in Conns, FindShare(c) PROVE TypeOK'
    <2>1. found' \in [Conns -> 0 .. MaxShares]
        BY <1>10, BoundsAssumption DEF FindShare
    <2> QED
        BY <1>1, <1>10, <2>1 DEF FindShare
<1>11. CASE UNCHANGED vars
    BY <1>1, <1>11 DEF vars
<1> QED
    BY <1>3, <1>4, <1>5, <1>6, <1>7, <1>8, <1>9, <1>10, <1>11 DEF Next, Main, Proceed, Submit

LEMMA NextStartInv == RunInv /\ [Next]_vars => StartInv'
<1> SUFFICES ASSUME RunInv, [Next]_vars PROVE StartInv'
    OBVIOUS
<1> USE DEF RunInv, TypeOK, connVars, mainVars, endVars
<1>1. \A c \in Conns : Audit!Subscribed(c) => Audit!Subscribed(c)'
    BY ReportsOnlyAdd
<1>2. CASE PastStart' => PastStart
    <2>1. CASE current' = current \/ PastStart
        BY <1>1, <1>2, <2>1 DEF StartInv
    <2>2. CASE HandshakeSucceeds
        <3>1. current' = current + 1 \/ (current' = 0 /\ current + 1 = NumConns)
            BY <2>2 DEF HandshakeSucceeds
        <3> QED
            BY <1>1, <1>2, <2>2, <3>1, NumConnsAssumption
            DEF StartInv, HandshakeSucceeds, Conns, Audit!Subscribed, PastStart
    <2> QED
        BY <2>1, <2>2, Bystanders
        DEF Next, Main, Proceed, Submit, Connect, StartFails, Poll, LeaveLoop, DrainEnds, DrainShare,
            ReadDuplicates, Decide, Summarise, Exit, Interrupt, Elapse, PastStart, vars
<1>3. CASE PastStart' /\ ~PastStart
    <2>1. HandshakeSucceeds /\ current + 1 = NumConns
        BY <1>3, Bystanders
        DEF Next, Main, Proceed, Submit, Connect, HandshakeSucceeds, StartFails, Poll, LeaveLoop, DrainEnds,
            DrainShare, ReadDuplicates, Decide, Summarise, Exit, Interrupt, Elapse, PastStart, vars
    <2>2. \A c \in Conns : c < current \/ c = current
        BY <2>1, NumConnsAssumption DEF Conns
    <2> QED
        BY <1>1, <1>3, <2>1, <2>2 DEF StartInv, HandshakeSucceeds, Audit!Subscribed
<1> QED
    BY <1>2, <1>3

LEMMA NextSummaryInv == RunInv /\ [Next]_vars => SummaryInv'
BY Bystanders
DEF RunInv, TypeOK, SummaryInv, Next, Main, Proceed, Submit, Connect, HandshakeSucceeds, StartFails, Poll,
    LeaveLoop, DrainEnds, DrainShare, ReadDuplicates, Decide, Summarise, Exit, Interrupt, Elapse, vars,
    mainVars, endVars

(* A field of the summary is what the auditor has when it is read. *)
LEMMA SummaryGrows ==
    ASSUME RunInv, Summarise, NEW i \in DOMAIN summary'
    PROVE  \/ i \in DOMAIN summary /\ summary'[i] = summary[i]
           \/ summary'[i] = Count(SummaryFields[i])
<1>1. summary' = Append(summary, Count(SummaryFields[Len(summary) + 1]))
    BY DEF Summarise
<1>2. \A x : LET more == Append(summary, x)
             IN  /\ DOMAIN more = 1 .. Len(summary) + 1 /\ Len(summary) \in Nat
                 /\ more[Len(summary) + 1] = x
                 /\ \A k \in 1 .. Len(summary) : k \in DOMAIN summary /\ more[k] = summary[k]
    BY DEF RunInv, TypeOK
<1> QED
    BY <1>1, <1>2

LEMMA StillShows ==
    ASSUME RunInv, Summarise, NEW field \in {"duplicates", "collisions"}, Shows(field), Count(field) > 0
    PROVE  Shows(field)'
BY SummaryGrows DEF Shows

LEMMA NextEvidenceInv == RunInv /\ AuditFacts /\ [Next]_vars => EvidenceInv'
<1> SUFFICES ASSUME RunInv, AuditFacts, [Next]_vars, exitCode' = 3
             PROVE  \/ duplicateEvents' # <<>> /\ Shows("duplicates")'
                    \/ collisions' # <<>> /\ Shows("collisions")'
    BY DEF EvidenceInv
<1>1. (duplicateEvents # <<>> => duplicateEvents' # <<>>) /\ (collisions # <<>> => collisions' # <<>>)
    BY ReportsOnlyAdd
<1>2. CASE exitCode = 3 /\ summary' = summary
    BY <1>1, <1>2 DEF RunInv, EvidenceInv, Shows
<1>3. summary' = <<>> => Shows("duplicates")' /\ Shows("collisions")'
    BY DEF Shows
<1>4. CASE Poll
    <2>1. summary' = <<>> /\ (exitCode = 3 \/ failure # None)
        BY <1>4 DEF Poll, LeaveLoop, GateTrips, RunInv, SummaryInv
    <2>2. CASE failure # None
        BY <1>1, <1>3, <2>1, <2>2 DEF AuditFacts, Audit!FailureIffEvents
    <2> QED
        BY <1>2, <1>4, <2>1, <2>2 DEF Poll
<1>5. CASE Decide
    <2>1. summary' = <<>> /\ summary = <<>>
        BY <1>5 DEF Decide, RunInv, SummaryInv
    <2>2. CASE collisions # <<>>
        BY <1>1, <1>3, <2>1, <2>2
    <2>3. CASE verdictDups > 0
        BY <1>1, <1>3, <2>1, <2>3 DEF RunInv, VerdictInv
    <2> QED
        BY <1>2, <1>5, <2>1, <2>2, <2>3 DEF Decide
<1>6. CASE Summarise
    <2>1. exitCode = 3
        BY <1>6 DEF Summarise
    <2>2. /\ duplicateEvents # <<>> => Count("duplicates") > 0
          /\ collisions # <<>> => Count("collisions") > 0
        BY DEF Count, RunInv, TypeOK, Audit!TypeOK
    <2> QED
        BY <1>1, <1>6, <2>1, <2>2, StillShows DEF RunInv, EvidenceInv
<1> QED
    BY <1>2, <1>4, <1>5, <1>6, Bystanders
    DEF Next, Main, Proceed, Submit, Connect, HandshakeSucceeds, StartFails, DrainEnds, DrainShare,
        ReadDuplicates, Exit, Interrupt, Elapse, vars, mainVars, endVars

LEMMA NextVerdictInv == RunInv /\ AuditFacts /\ [Next]_vars => VerdictInv'
<1> SUFFICES ASSUME RunInv, AuditFacts, [Next]_vars PROVE VerdictInv'
    OBVIOUS
<1> USE DEF RunInv, TypeOK
<1>1. Len(log) \in Nat /\ Len(log) <= Len(log') /\ \A i \in 1 .. Len(log) : log'[i] = log[i]
    <2>1. Len(log) \in Nat
        BY DEF Audit!TypeOK
    <2> QED
        BY <2>1, ReportsOnlyAdd
<1>2. Len(log') \in Nat /\ Len(duplicateEvents) \in Nat
    BY NextAuditTypeOK DEF Audit!TypeOK
<1>3. duplicateEvents # <<>> => duplicateEvents' # <<>>
    BY ReportsOnlyAdd
<1>4. CASE ReadDuplicates
    <2>1. UNCHANGED <<log, duplicateEvents>> /\ verdictDups' = Len(duplicateEvents) /\ verdictLog' = Len(log)
          /\ mainPc' = "collisions"
        BY <1>4 DEF ReadDuplicates, auditVars
    <2>2. ASSUME Len(duplicateEvents) = 0 PROVE VouchedFor'
        <3>1. duplicateEvents = <<>>
            BY <2>2 DEF Audit!TypeOK
        <3>2. \A i \in 1 .. Len(log) : log[i].label = seen[log[i].digest]
            BY <3>1 DEF AuditFacts, Audit!TypeOK
        <3>3. \A i, j \in 1 .. Len(log) : log[i].digest = log[j].digest => log[i].label = log[j].label
            BY <3>2
        <3> QED
            BY <2>1, <3>3 DEF VouchedFor
    <2>3. Len(duplicateEvents) > 0 => duplicateEvents # <<>>
        OBVIOUS
    <2> QED
        BY <1>1, <1>2, <2>1, <2>2, <2>3 DEF VerdictInv
<1>5. CASE UNCHANGED <<verdictDups, verdictLog>>
    <2>1. verdictLog' <= Len(log') /\ (verdictDups' > 0 => duplicateEvents' # <<>>)
        BY <1>1, <1>2, <1>3, <1>5 DEF VerdictInv
    <2>2. VouchedFor => VouchedFor'
        <3>1. \A i \in 1 .. verdictLog : log'[i] = log[i]
            BY <1>1 DEF VerdictInv
        <3> QED
            BY <1>5, <3>1 DEF VouchedFor
    <2>3. ASSUME mainPc' \in {"summary", "exited"}, exitCode' = 0 PROVE verdictDups' = 0 /\ collisions' = <<>>
        <3>1. CASE mainPc \in {"summary", "exited"} /\ exitCode = 0
            <4>1. \A c \in Conns : Audit!Subscribed(c)
                BY <3>1 DEF StartInv, PastStart
            <4> QED
                BY <1>5, <3>1, <4>1, ReportsOnlyAdd DEF VerdictInv
        <3>2. CASE Decide
            BY <1>5, <2>3, <3>2 DEF Decide, auditVars
        <3> QED
            BY <2>3, <3>1, <3>2, Bystanders
            DEF Next, Main, Proceed, Submit, Connect, HandshakeSucceeds, StartFails, Poll, LeaveLoop,
                DrainEnds, DrainShare, ReadDuplicates, Summarise, Exit, Interrupt, Elapse, vars, mainVars,
                endVars
    <2> QED
        BY <1>5, <2>1, <2>2, <2>3 DEF VerdictInv
<1> QED
    BY <1>4, <1>5, Bystanders
    DEF Next, Main, Proceed, Submit, Connect, HandshakeSucceeds, StartFails, Poll, DrainEnds, DrainShare,
        Decide, Summarise, Exit, Interrupt, Elapse, vars, mainVars, endVars

(* The inductive invariant of a run: the connections it has started, the   *)
(* evidence behind its exit code and what a code of 0 can still vouch for. *)
THEOREM RunInvariant == Spec => []RunInv
<1>1. RunInv /\ AuditFacts /\ AuditFacts' /\ [Next]_vars => RunInv'
    BY NextTypeOK, NextStartInv, NextSummaryInv, NextEvidenceInv, NextVerdictInv DEF RunInv
<1> QED
    BY <1>1, InitRunInv, AuditHolds, PTL DEF Spec

(* Every variable of the run, and of the auditor in it, has its type. *)
THEOREM TypeCorrect == Spec => []TypeOK
BY RunInvariant, PTL DEF RunInv

(* An exit code of 3 comes with an AUDIT line that shows why, though the   *)
(* gate and the verdict read the auditor before its fields are read for    *)
(* the line (the `finally` block of run_miner).                            *)
THEOREM ExitThreeCorrect == Spec => []ExitThreeHasEvidence
<1>1. RunInv => ExitThreeHasEvidence
    <2> SUFFICES ASSUME RunInv, mainPc = "exited", exitCode = 3
                 PROVE  Printed /\ Summary("duplicates") + Summary("collisions") > 0
        BY DEF ExitThreeHasEvidence
    <2>1. summary \in Seq(Nat) /\ DOMAIN summary = DOMAIN SummaryFields
        BY DEF RunInv, TypeOK, SummaryInv, SummaryFields
    <2>2. \A i \in DOMAIN summary : summary[i] \in Nat
        BY <2>1
    <2>3. \A field \in {"duplicates", "collisions"} :
              LET i == CHOOSE k \in DOMAIN SummaryFields : SummaryFields[k] = field
              IN  i \in DOMAIN summary /\ SummaryFields[i] = field
        <3>1. \A field \in {"duplicates", "collisions"} : \E k \in DOMAIN SummaryFields : SummaryFields[k] = field
            <4>1. 2 \in DOMAIN SummaryFields /\ SummaryFields[2] = "duplicates"
                BY DEF SummaryFields
            <4>2. 4 \in DOMAIN SummaryFields /\ SummaryFields[4] = "collisions"
                BY DEF SummaryFields
            <4> QED
                BY <4>1, <4>2
        <3> QED
            BY <2>1, <3>1
    <2>4. Summary("duplicates") \in Nat /\ Summary("collisions") \in Nat
        BY <2>2, <2>3 DEF Summary
    <2>5. Summary("duplicates") > 0 \/ Summary("collisions") > 0
        BY <2>3 DEF RunInv, EvidenceInv, Shows, Summary
    <2>6. Printed
        BY <2>3 DEF Printed
    <2> QED
        BY <2>4, <2>5, <2>6
<1> QED
    BY <1>1, RunInvariant, PTL

(* An exit code of 0 vouches for what was audited up to the verdict's      *)
(* read: `dups` is read before the collisions, but by then no connection   *)
(* can still be given an extranonce1.                                      *)
THEOREM ExitZeroCorrect == Spec => []ExitZeroVouches
<1>1. RunInv /\ AuditFacts => ExitZeroVouches
    <2> SUFFICES ASSUME RunInv, AuditFacts, mainPc = "exited", exitCode = 0
                 PROVE  (\A c, d \in Conns : c # d => extranonce1[c] # extranonce1[d]) /\ VouchedFor
        BY DEF ExitZeroVouches, VouchedFor
    <2>1. collisions = <<>> /\ VouchedFor /\ \A c \in Conns : Audit!Subscribed(c)
        BY DEF RunInv, VerdictInv, StartInv, PastStart
    <2> QED
        BY <2>1 DEF AuditFacts, Audit!CollisionIffShared
<1> QED
    BY <1>1, RunInvariant, AuditHolds, PTL
===================================================================================
