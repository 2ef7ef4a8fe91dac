------------------------------ MODULE WorkAudit ------------------------------
(***************************************************************************)
(* The work auditor of the test miner: class WorkAuditor of                *)
(* miner/openbench_miner.py, shared by the reader threads of every         *)
(* connection of one run.  Each record_* method holds the auditor's lock   *)
(* for its whole body, so each is one action here; the reader threads      *)
(* interleave between them.                                                *)
(*                                                                         *)
(* The data is abstracted to what the auditor tells apart: a digest of     *)
(* (extranonce1, work) is the pair itself, a message is the record of the  *)
(* labels it prints.                                                       *)
(***************************************************************************)
EXTENDS Naturals, Sequences, FiniteSets

CONSTANTS
    Conns,          \* connection ids
    Extranonce1s,   \* the extranonce1 values a pool can hand out
    Works,          \* the work of a mining.notify: its fields but job id and clean
    JobIds,         \* job ids of mining.notify
    Diffs,          \* difficulties of mining.set_difficulty
    None,           \* Python's None
    MaxNotifies,    \* bound: notifies audited in a run
    MaxRetargets    \* bound: genuine retargets of one connection

Labels == [conn : Conns, job : JobIds]
DuplicateEvents == [got : Labels, prior : Labels]
OwnerEntries == [conn : Conns, epoch : Nat]
CollisionEvents == [owner : Conns, conn : Conns, extranonce1 : Extranonce1s]

ASSUME BoundsAssumption == MaxNotifies \in Nat /\ MaxRetargets \in Nat
ASSUME NoneAssumption ==
    None \notin Conns \cup Extranonce1s \cup Diffs \cup Labels
                  \cup DuplicateEvents \cup CollisionEvents \cup OwnerEntries

VARIABLES
    extranonce1,         \* StratumClient.extranonce1 of each subscribed connection
    extranonce1Owner,    \* extranonce1 -> first connection that got it
    seen,                \* digest -> label of its first delivery
    seenOwner,           \* digest -> (first connection, its epoch then)
    connEpoch,           \* connection -> genuine retargets so far
    connDifficulty,      \* connection -> its current difficulty
    duplicateEvents,     \* duplicate-work messages
    vardiffEvents,       \* duplicates re-issued across a difficulty change
    collisions,          \* extranonce1-collision messages
    setDifficultyCount,  \* genuine retargets of all connections
    difficultiesSeen,    \* every difficulty a pool set
    failure,             \* the first problem
    log,                 \* history: every audited notify; its length is notifies_seen
    offered              \* history: the difficulties each connection was sent

auditVars == <<extranonce1Owner, seen, seenOwner, connEpoch, connDifficulty,
               duplicateEvents, vardiffEvents, collisions, setDifficultyCount,
               difficultiesSeen, failure>>
vars == <<extranonce1, auditVars, log, offered>>

Digests == Extranonce1s \X Works

(* The digest of a unit of work: what the pool may never repeat. *)
Digest(e, w) == <<e, w>>

Label(c, j) == [conn |-> c, job |-> j]

Subscribed(c) == extranonce1[c] # None

notifiesSeen == Len(log)
uniqueWorkUnits == Cardinality({d \in Digests : seen[d] # None})

(* `self.failure = self.failure or message` *)
FirstFailure(message) == IF failure = None THEN message ELSE failure

Init ==
    /\ extranonce1 = [c \in Conns |-> None]
    /\ extranonce1Owner = [e \in Extranonce1s |-> None]
    /\ seen = [d \in Digests |-> None]
    /\ seenOwner = [d \in Digests |-> None]
    /\ connEpoch = [c \in Conns |-> 0]
    /\ connDifficulty = [c \in Conns |-> None]
    /\ duplicateEvents = <<>>
    /\ vardiffEvents = <<>>
    /\ collisions = <<>>
    /\ setDifficultyCount = 0
    /\ difficultiesSeen = {}
    /\ failure = None
    /\ log = <<>>
    /\ offered = [c \in Conns |-> {}]

-----------------------------------------------------------------------------
(* A faulty check: the newest connection silently becomes the owner. *)
CollidesNever(c, e) == FALSE

(* record_subscribe: the pool's subscribe result gives connection c the    *)
(* extranonce1 e.  A pool answers a connection's one subscribe once: it    *)
(* neither repeats the answer nor sends a second one without an id (what   *)
(* such a one does to the handshake is StratumClient's).                   *)
Collides(c, e) == extranonce1Owner[e] \notin {None, c}

(* A faulty report that leaves `failure` alone. *)
RecordSubscribeQuiet(c, e) ==
    /\ ~Subscribed(c)
    /\ extranonce1' = [extranonce1 EXCEPT ![c] = e]
    /\ \/ /\ Collides(c, e)
          /\ LET message == [owner |-> extranonce1Owner[e], conn |-> c, extranonce1 |-> e]
             IN  collisions' = Append(collisions, message)
          /\ UNCHANGED extranonce1Owner
       \/ /\ ~Collides(c, e)
          /\ extranonce1Owner' = [extranonce1Owner EXCEPT ![e] = c]
          /\ UNCHANGED collisions
    /\ UNCHANGED <<seen, seenOwner, connEpoch, connDifficulty, duplicateEvents, failure,
                   vardiffEvents, setDifficultyCount, difficultiesSeen, log, offered>>

RecordSubscribe(c, e) ==
    /\ ~Subscribed(c)
    /\ extranonce1' = [extranonce1 EXCEPT ![c] = e]
    /\ \/ /\ Collides(c, e)
          /\ LET message == [owner |-> extranonce1Owner[e], conn |-> c, extranonce1 |-> e]
             IN  /\ collisions' = Append(collisions, message)
                 /\ failure' = FirstFailure(message)
          /\ UNCHANGED extranonce1Owner
       \/ /\ ~Collides(c, e)
          /\ extranonce1Owner' = [extranonce1Owner EXCEPT ![e] = c]
          /\ UNCHANGED <<collisions, failure>>
    /\ UNCHANGED <<seen, seenOwner, connEpoch, connDifficulty, duplicateEvents,
                   vardiffEvents, setDifficultyCount, difficultiesSeen, log, offered>>

(* record_set_difficulty: a value that differs from the connection's       *)
(* current one is a retarget; the first one is only its baseline.  It may  *)
(* arrive before the subscribe result.                                     *)
IsRetarget(c, d) == connDifficulty[c] \notin {None, d}

RecordSetDifficulty(c, d) ==
    /\ IsRetarget(c, d) => connEpoch[c] < MaxRetargets
    /\ difficultiesSeen' = difficultiesSeen \cup {d}
    /\ connDifficulty' = [connDifficulty EXCEPT ![c] = d]
    /\ \/ /\ IsRetarget(c, d)
          /\ setDifficultyCount' = setDifficultyCount + 1
          /\ connEpoch' = [connEpoch EXCEPT ![c] = @ + 1]
       \/ /\ ~IsRetarget(c, d)
          /\ UNCHANGED <<setDifficultyCount, connEpoch>>
    /\ offered' = [offered EXCEPT ![c] = @ \cup {d}]
    /\ UNCHANGED <<extranonce1, extranonce1Owner, seen, seenOwner, duplicateEvents,
                   vardiffEvents, collisions, failure, log>>

(* record_notify: the first delivery of a digest is remembered with its    *)
(* label and its connection's epoch; a delivery under another label is a   *)
(* duplicate, and an after-vardiff duplicate if the first owner has been   *)
(* retargeted since.  A notify before the subscribe result is dropped by   *)
(* StratumClient._on_notify and never reaches the auditor.                 *)
IsDuplicateAcross(digest, label) ==   \* faulty: deaf to repeats within a connection
    seen[digest] # None /\ seen[digest].conn # label.conn

IsDuplicate(digest, label) == seen[digest] \notin {None, label}
AcrossRetargetEver(digest) == connEpoch[seenOwner[digest].conn] > 0   \* faulty

AcrossRetarget(digest) == connEpoch[seenOwner[digest].conn] > seenOwner[digest].epoch

TallyDuplicateUncounted(digest, label) ==   \* faulty: the event is not appended
    /\ failure' = FirstFailure([got |-> label, prior |-> seen[digest]])
    /\ UNCHANGED <<duplicateEvents, vardiffEvents, seen, seenOwner>>

TallyDuplicate(digest, label) ==
    LET message == [got |-> label, prior |-> seen[digest]]
    IN  /\ duplicateEvents' = Append(duplicateEvents, message)
        /\ vardiffEvents' = IF AcrossRetarget(digest)
                            THEN Append(vardiffEvents, message)
                            ELSE vardiffEvents
        /\ failure' = FirstFailure(message)
        /\ UNCHANGED <<seen, seenOwner>>

(* `setdefault`: an entry that is there stays. *)
Remember(digest, label) ==
    /\ seen' = [seen EXCEPT ![digest] = label]
    /\ seenOwner' = IF seen[digest] = None
                    THEN [seenOwner EXCEPT ![digest] =
                            [conn |-> label.conn, epoch |-> connEpoch[label.conn]]]
                    ELSE seenOwner
    /\ UNCHANGED <<duplicateEvents, vardiffEvents, failure>>

RecordNotify(c, w, j) ==
    LET digest == Digest(extranonce1[c], w)
        label == Label(c, j)
    IN  /\ Subscribed(c)
        /\ notifiesSeen < MaxNotifies
        /\ \/ IsDuplicate(digest, label) /\ TallyDuplicate(digest, label)
           \/ ~IsDuplicate(digest, label) /\ Remember(digest, label)
        /\ log' = Append(log, [digest |-> <<extranonce1[c], w>>, label |-> label,
                               epoch |-> connEpoch[c]])
        /\ UNCHANGED <<extranonce1, extranonce1Owner, connEpoch, connDifficulty,
                       collisions, setDifficultyCount, difficultiesSeen, offered>>

Next ==
    \E c \in Conns :
        \/ \E e \in Extranonce1s : RecordSubscribe(c, e)
        \/ \E d \in Diffs : RecordSetDifficulty(c, d)
        \/ \E w \in Works, j \in JobIds : RecordNotify(c, w, j)

Spec == Init /\ [][Next]_vars

-----------------------------------------------------------------------------
(* Every variable has its type. *)
TypeOK ==
    /\ extranonce1 \in [Conns -> Extranonce1s \cup {None}]
    /\ extranonce1Owner \in [Extranonce1s -> Conns \cup {None}]
    /\ seen \in [Digests -> Labels \cup {None}]
    /\ seenOwner \in [Digests -> OwnerEntries \cup {None}]
    /\ connEpoch \in [Conns -> Nat]
    /\ connDifficulty \in [Conns -> Diffs \cup {None}]
    /\ duplicateEvents \in Seq(DuplicateEvents)
    /\ vardiffEvents \in Seq(DuplicateEvents)
    /\ collisions \in Seq(CollisionEvents)
    /\ setDifficultyCount \in Nat
    /\ difficultiesSeen \in SUBSET Diffs
    /\ failure \in DuplicateEvents \cup CollisionEvents \cup {None}
    /\ log \in Seq([digest : Digests, label : Labels, epoch : Nat])
    /\ offered \in [Conns -> SUBSET Diffs]

(* The history's own account of what was delivered. *)
IsFirst(j) == \A i \in 1 .. j - 1 : log[i].digest # log[j].digest

FirstAndRepeat(j, k) ==
    /\ j < k
    /\ log[j].digest = log[k].digest
    /\ log[j].label # log[k].label
    /\ IsFirst(j)

Repeats == {k \in DOMAIN log : \E j \in DOMAIN log : FirstAndRepeat(j, k)}

RepeatsAfterOwnRetarget ==
    {k \in DOMAIN log :
        \E j \in DOMAIN log : FirstAndRepeat(j, k) /\ log[j].epoch < log[k].epoch}

(* record_notify tallies exactly the deliveries whose work was first seen  *)
(* under another label: none is missed and none is counted twice, however  *)
(* the connections interleave.                                             *)
TallyMatchesHistory == Len(duplicateEvents) = Cardinality(Repeats)

(* While the subscribes gave every connection its own extranonce1, a       *)
(* duplicate is always within one connection: the same job sent to several *)
(* connections is normal distribution and is never counted (the promise of *)
(* WorkAuditor's docstring).                                               *)
DuplicatesStayWithinAConnection ==
    collisions = <<>> =>
        \A i \in DOMAIN duplicateEvents :
            duplicateEvents[i].got.conn = duplicateEvents[i].prior.conn

(* While no extranonce1 is shared, a duplicate is called an after-vardiff  *)
(* one exactly when the connection that got it was itself retargeted       *)
(* between the first delivery and the repeat.                              *)
VardiffMeansOwnRetarget ==
    collisions = <<>> => Len(vardiffEvents) = Cardinality(RepeatsAfterOwnRetarget)

(* Collisions are recorded exactly when two subscribed connections share   *)
(* an extranonce1, whichever of them subscribed first.                     *)
CollisionIffShared ==
    collisions # <<>> <=>
        \E c, d \in Conns : c # d /\ Subscribed(c) /\ extranonce1[c] = extranonce1[d]

(* The counter behind the INCONCLUSIVE verdict is positive exactly when    *)
(* some connection was sent two different difficulties: a pool's initial   *)
(* baseline, or two connections with different baselines, is no retarget.  *)
RetargetIffTwoDifficulties ==
    setDifficultyCount > 0 <=> \E c \in Conns : \E d, e \in offered[c] : d # e

(* run_miner's gate reads `failure`, its verdict the counts: they agree,   *)
(* and `failure` is the first event of one of the two lists.               *)
FailureIffEvents ==
    /\ (failure = None) <=> (duplicateEvents = <<>> /\ collisions = <<>>)
    /\ failure # None =>
        \/ duplicateEvents # <<>> /\ failure = Head(duplicateEvents)
        \/ collisions # <<>> /\ failure = Head(collisions)

(* What was reported stays reported: no step drops an event or replaces    *)
(* the first failure, and the first label of a digest never changes.       *)
Extends(new, old) == Len(old) <= Len(new) /\ SubSeq(new, 1, Len(old)) = old

EvidenceIsKept ==
    [][/\ Extends(duplicateEvents', duplicateEvents)
       /\ Extends(vardiffEvents', vardiffEvents)
       /\ Extends(collisions', collisions)
       /\ failure # None => failure' = failure
       /\ \A d \in Digests : seen[d] # None => seen'[d] = seen[d]
                                          /\ seenOwner'[d] = seenOwner[d]]_vars

-----------------------------------------------------------------------------
(* What the code remembers, related to the history: the inductive          *)
(* invariant behind the properties above.                                  *)

(* `seen` and `seenOwner` hold the first delivery of every digest in the   *)
(* history, and nothing else.                                              *)
FirstIsRemembered(i) ==
    /\ seen[log[i].digest] = log[i].label
    /\ seenOwner[log[i].digest] = [conn |-> log[i].label.conn, epoch |-> log[i].epoch]

RemembersFirsts ==
    /\ \A d \in Digests : seen[d] = None <=> seenOwner[d] = None
    /\ \A d \in Digests : seen[d] # None <=> \E i \in DOMAIN log : log[i].digest = d /\ IsFirst(i)
    /\ \A i \in DOMAIN log : seen[log[i].digest] # None
    /\ \A i \in DOMAIN log : IsFirst(i) => FirstIsRemembered(i)

(* The deliveries under another label than the one remembered. *)
Relabelled == {k \in DOMAIN log : log[k].label # seen[log[k].digest]}

TallyIsRelabelled == Len(duplicateEvents) = Cardinality(Relabelled)

(* A digest is made with the extranonce1 its connection holds for good,    *)
(* and so are the two connections of a duplicate.                          *)
DigestsAreHeld ==
    /\ \A i \in DOMAIN log : extranonce1[log[i].label.conn] = log[i].digest[1]
    /\ \A i \in DOMAIN duplicateEvents :
          /\ Subscribed(duplicateEvents[i].got.conn)
          /\ extranonce1[duplicateEvents[i].got.conn] = extranonce1[duplicateEvents[i].prior.conn]

(* The owner table knows an owner of every extranonce1 in use. *)
OwnersHold ==
    /\ \A c \in Conns : Subscribed(c) => extranonce1Owner[extranonce1[c]] # None
    /\ \A e \in Extranonce1s :
          extranonce1Owner[e] # None => extranonce1[extranonce1Owner[e]] = e

(* The part of the invariant that a proof by steps needs: what is          *)
(* remembered, what is tallied, who holds what.                            *)
AuditInv ==
    /\ RemembersFirsts
    /\ TallyIsRelabelled
    /\ DigestsAreHeld
    /\ OwnersHold
    /\ CollisionIffShared
    /\ FailureIffEvents

(* The auditor keeps WorkPromise: it remembers one label for a digest and  *)
(* one owner for an extranonce1, yet its `failure` is None exactly as long *)
(* as the whole history of deliveries is clean.                            *)
Held == {p \in Conns \X Extranonce1s : extranonce1[p[1]] = p[2]}
Handed == {<<log[i].digest, log[i].label>> : i \in DOMAIN log}
Clean == failure = None

Promise == INSTANCE WorkPromise WITH held <- Held, handed <- Handed, clean <- Clean

KeepsPromise == Promise!Spec

(* A run without a failure had every unit of work under one label and      *)
(* every extranonce1 on one connection, and a run with one did not.        *)
FailureMeansOverlap == Promise!CleanIffDisjoint
=============================================================================
