--------------------------- MODULE WorkAudit_proofs ---------------------------
(***************************************************************************)
(* Proofs about the work auditor, for any sets of connections,             *)
(* extranonce1s, works, job ids and difficulties.                          *)
(***************************************************************************)
EXTENDS WorkAudit, FiniteSetTheorems, TLAPS

USE NoneAssumption, BoundsAssumption

LogEntries == [digest : Digests, label : Labels, epoch : Nat]

-----------------------------------------------------------------------------
(* The effect of a delivery, by the two cases of record_notify. *)
Delivery(c, w, j) == [digest |-> <<extranonce1[c], w>>, label |-> Label(c, j),
                      epoch |-> connEpoch[c]]

LEMMA DeliveryType ==
    ASSUME TypeOK, NEW c \in Conns, NEW w \in Works, NEW j \in JobIds, Subscribed(c)
    PROVE  /\ Delivery(c, w, j) \in LogEntries
           /\ Label(c, j) \in Labels
           /\ Digest(extranonce1[c], w) \in Digests
           /\ Digest(extranonce1[c], w) = <<extranonce1[c], w>>
BY DEF TypeOK, Delivery, LogEntries, Label, Labels, Digests, Digest, Subscribed

(* A message is an event, so never None: it sets `failure`. *)
LEMMA FirstFailureType ==
    ASSUME NEW message \in DuplicateEvents \cup CollisionEvents,
           failure \in DuplicateEvents \cup CollisionEvents \cup {None}
    PROVE  /\ FirstFailure(message) \in DuplicateEvents \cup CollisionEvents
           /\ FirstFailure(message) # None
BY DEF FirstFailure

-----------------------------------------------------------------------------
(* Every variable keeps its type, whatever the pool sends. *)
LEMMA InitType == Init => TypeOK
BY DEF Init, TypeOK

LEMMA SubscribeType ==
    ASSUME TypeOK, NEW c \in Conns, NEW e \in Extranonce1s, RecordSubscribe(c, e)
    PROVE  TypeOK'
<1>1. extranonce1' \in [Conns -> Extranonce1s \cup {None}]
  BY DEF TypeOK, RecordSubscribe
<1>2. CASE Collides(c, e)
  <2> DEFINE message == [owner |-> extranonce1Owner[e], conn |-> c, extranonce1 |-> e]
  <2>1. message \in CollisionEvents
    BY <1>2 DEF TypeOK, Collides, CollisionEvents
  <2>2. collisions' = Append(collisions, message) /\ failure' = FirstFailure(message)
    BY <1>2 DEF RecordSubscribe
  <2>3. FirstFailure(message) \in DuplicateEvents \cup CollisionEvents
    BY <2>1, FirstFailureType DEF TypeOK
  <2>4. collisions' \in Seq(CollisionEvents)
    BY <2>1, <2>2 DEF TypeOK
  <2>5. QED
    BY <1>1, <1>2, <2>2, <2>3, <2>4 DEF TypeOK, RecordSubscribe
<1>3. CASE ~Collides(c, e)
  BY <1>1, <1>3 DEF TypeOK, RecordSubscribe
<1>4. QED
  BY <1>2, <1>3

LEMMA SetDifficultyType ==
    ASSUME TypeOK, NEW c \in Conns, NEW d \in Diffs, RecordSetDifficulty(c, d)
    PROVE  TypeOK'
<1>1. /\ connDifficulty' \in [Conns -> Diffs \cup {None}]
      /\ difficultiesSeen' \in SUBSET Diffs
      /\ offered' \in [Conns -> SUBSET Diffs]
  BY DEF TypeOK, RecordSetDifficulty
<1>2. setDifficultyCount' \in Nat /\ connEpoch' \in [Conns -> Nat]
  <2>1. connEpoch \in [Conns -> Nat] /\ setDifficultyCount \in Nat
    BY DEF TypeOK
  <2>2. CASE IsRetarget(c, d)
    <3>1. connEpoch' = [connEpoch EXCEPT ![c] = @ + 1] /\ setDifficultyCount' = setDifficultyCount + 1
      BY <2>2 DEF RecordSetDifficulty
    <3>2. QED
      BY <2>1, <3>1
  <2>3. CASE ~IsRetarget(c, d)
    BY <2>1, <2>3 DEF RecordSetDifficulty
  <2>4. QED
    BY <2>2, <2>3
<1>3. QED
  BY <1>1, <1>2 DEF TypeOK, RecordSetDifficulty

LEMMA NotifyType ==
    ASSUME TypeOK, NEW c \in Conns, NEW w \in Works, NEW j \in JobIds, RecordNotify(c, w, j)
    PROVE  TypeOK'
<1> DEFINE digest == Digest(extranonce1[c], w)
           label == Label(c, j)
<1>1. /\ digest \in Digests /\ label \in Labels /\ label.conn = c
      /\ Delivery(c, w, j) \in LogEntries
  BY DeliveryType DEF RecordNotify, Label
<1>2. log' = Append(log, Delivery(c, w, j))
  BY DEF RecordNotify, Delivery
<1>3. log' \in Seq(LogEntries)
  BY <1>1, <1>2 DEF TypeOK, LogEntries
<1>4. CASE IsDuplicate(digest, label)
  <2> DEFINE message == [got |-> label, prior |-> seen[digest]]
  <2>1. message \in DuplicateEvents
    BY <1>1, <1>4 DEF TypeOK, IsDuplicate, DuplicateEvents
  <2>2. TallyDuplicate(digest, label)
    BY <1>4 DEF RecordNotify
  <2>3. failure' \in DuplicateEvents \cup CollisionEvents
    BY <2>1, <2>2, FirstFailureType DEF TypeOK, TallyDuplicate
  <2>4. duplicateEvents' \in Seq(DuplicateEvents) /\ vardiffEvents' \in Seq(DuplicateEvents)
    BY <2>1, <2>2 DEF TypeOK, TallyDuplicate
  <2>5. QED
    BY <1>3, <2>2, <2>3, <2>4 DEF TypeOK, TallyDuplicate, RecordNotify, LogEntries
<1>5. CASE ~IsDuplicate(digest, label)
  <2>1. Remember(digest, label)
    BY <1>5 DEF RecordNotify
  <2>2. [conn |-> label.conn, epoch |-> connEpoch[label.conn]] \in OwnerEntries
    BY <1>1 DEF TypeOK, OwnerEntries
  <2>3. seen' \in [Digests -> Labels \cup {None}]
    BY <1>1, <2>1 DEF TypeOK, Remember
  <2>4. seenOwner' \in [Digests -> OwnerEntries \cup {None}]
    BY <1>1, <2>1, <2>2 DEF TypeOK, Remember, OwnerEntries
  <2>5. QED
    BY <1>3, <2>1, <2>3, <2>4 DEF TypeOK, Remember, RecordNotify, LogEntries, OwnerEntries
<1>6. QED
  BY <1>4, <1>5

LEMMA StepType == TypeOK /\ [Next]_vars => TypeOK'
<1> SUFFICES ASSUME TypeOK, [Next]_vars PROVE TypeOK'
  OBVIOUS
<1>1. CASE UNCHANGED vars
  BY <1>1 DEF vars, auditVars, TypeOK
<1>2. CASE Next
  BY <1>2, SubscribeType, SetDifficultyType, NotifyType DEF Next
<1>3. QED
  BY <1>1, <1>2

(* Every variable has its type in every state of the auditor. *)
THEOREM TypeCorrect == Spec => []TypeOK
BY InitType, StepType, PTL DEF Spec

-----------------------------------------------------------------------------
LEMMA LogTypes ==
    ASSUME TypeOK
    PROVE  \A i \in DOMAIN log :
              /\ log[i] \in LogEntries /\ log[i].digest \in Digests
              /\ log[i].label \in Labels /\ log[i].label.conn \in Conns
              /\ log[i].digest[1] \in Extranonce1s
<1>0. log \in Seq(LogEntries)
  BY DEF TypeOK, LogEntries
<1>1. \A i \in DOMAIN log : log[i] \in LogEntries
  BY <1>0
<1>2. QED
  BY <1>1 DEF LogEntries, Labels, Digests

(* Appending a delivery to the history leaves the earlier ones, and which  *)
(* of them are firsts, as they were.                                       *)
LEMMA AppendToLog ==
    ASSUME TypeOK, NEW x \in LogEntries, log' = Append(log, x),
           NEW n, n = Len(log) + 1
    PROVE  /\ DOMAIN log' = DOMAIN log \cup {n} /\ n \notin DOMAIN log
           /\ \A i \in DOMAIN log : log'[i] = log[i]
           /\ \A i \in DOMAIN log : IsFirst(i)' <=> IsFirst(i)
           /\ log'[n] = x
           /\ IsFirst(n)' <=> \A i \in DOMAIN log : log[i].digest # x.digest
<1>1. log \in Seq(LogEntries)
  BY DEF TypeOK, LogEntries
<1>2. /\ DOMAIN log = 1 .. Len(log) /\ Len(log) \in Nat
      /\ DOMAIN log' = 1 .. Len(log) + 1
      /\ \A i \in DOMAIN log : log'[i] = log[i]
      /\ log'[Len(log) + 1] = x
  BY <1>1
<1>3. ASSUME NEW i \in DOMAIN log
      PROVE  IsFirst(i)' <=> IsFirst(i)
  BY <1>2 DEF IsFirst
<1>4. IsFirst(n)' <=> \A i \in DOMAIN log : log[i].digest # x.digest
  BY <1>2 DEF IsFirst
<1>5. QED
  BY <1>2, <1>3, <1>4

(* A delivery x whose digest is known changes neither dictionary and is a  *)
(* duplicate if its label is not the remembered one; a delivery whose      *)
(* digest is new enters both dictionaries.                                 *)
KnownDigest(x) ==
    /\ seen[x.digest] # None
    /\ seen' = seen /\ seenOwner' = seenOwner
    /\ \/ seen[x.digest] # x.label /\ TallyDuplicate(x.digest, x.label)
       \/ /\ seen[x.digest] = x.label
          /\ UNCHANGED <<duplicateEvents, vardiffEvents, failure>>

NewDigest(x) ==
    /\ seen[x.digest] = None
    /\ seen' = [seen EXCEPT ![x.digest] = x.label]
    /\ seenOwner' = [seenOwner EXCEPT ![x.digest] = [conn |-> x.label.conn, epoch |-> x.epoch]]
    /\ UNCHANGED <<duplicateEvents, vardiffEvents, failure>>

DeliveryOf(x, c, w, j) ==
    /\ x \in LogEntries
    /\ log' = Append(log, x)
    /\ x.digest \in Digests /\ x.label \in Labels /\ x.label = Label(c, j)
    /\ x.digest = <<extranonce1[c], w>> /\ x.digest[1] = extranonce1[c]
    /\ x.label.conn = c
    /\ x.epoch = connEpoch[c]

LEMMA DeliveryCases ==
    ASSUME TypeOK, RemembersFirsts, NEW c \in Conns, NEW w \in Works, NEW j \in JobIds,
           RecordNotify(c, w, j)
    PROVE  \E x : DeliveryOf(x, c, w, j) /\ (KnownDigest(x) \/ NewDigest(x))
<1> DEFINE x == Delivery(c, w, j)
<1>1. /\ x \in LogEntries /\ x.label = Label(c, j) /\ x.epoch = connEpoch[c]
      /\ x.digest = Digest(extranonce1[c], w) /\ x.digest \in Digests
      /\ x.digest = <<extranonce1[c], w>>
      /\ x.label.conn = c /\ x.digest[1] = extranonce1[c] /\ x.label \in Labels
  BY DeliveryType DEF RecordNotify, Delivery, Label
<1>2. DeliveryOf(x, c, w, j)
  <2>1. log' = Append(log, x)
    BY DEF RecordNotify, Delivery
  <2>2. QED
    BY <1>1, <2>1 DEF DeliveryOf
<1> HIDE DEF x
<1>3. x.label # None
  BY <1>1
<1>4. CASE IsDuplicate(x.digest, x.label)
  <2>1. TallyDuplicate(x.digest, x.label)
    BY <1>1, <1>4 DEF RecordNotify
  <2>2. KnownDigest(x)
    BY <2>1, <1>4 DEF TallyDuplicate, IsDuplicate, KnownDigest
  <2>3. QED
    BY <1>2, <2>2
<1>5. CASE ~IsDuplicate(x.digest, x.label)
  <2>1. Remember(x.digest, x.label)
    BY <1>1, <1>5 DEF RecordNotify
  <2>2. UNCHANGED <<duplicateEvents, vardiffEvents, failure>>
    BY <2>1 DEF Remember
  <2>3. CASE seen[x.digest] = None
    <3>1. NewDigest(x)
      BY <1>1, <2>1, <2>2, <2>3 DEF Remember, NewDigest
    <3>2. QED
      BY <1>2, <3>1
  <2>4. CASE seen[x.digest] = x.label
    <3>1. seen' = [seen EXCEPT ![x.digest] = x.label] /\ seenOwner' = seenOwner
      BY <1>3, <2>1, <2>4 DEF Remember
    <3>2. seen' = seen
      BY <1>1, <2>4, <3>1 DEF TypeOK
    <3>3. KnownDigest(x)
      BY <1>3, <2>2, <2>4, <3>1, <3>2 DEF KnownDigest
    <3>4. QED
      BY <1>2, <3>3
  <2>5. QED
    BY <1>5, <2>3, <2>4 DEF IsDuplicate
<1>6. QED
  BY <1>4, <1>5

-----------------------------------------------------------------------------
(* RemembersFirsts. *)
LEMMA RemembersFirstsStep ==
    ASSUME TypeOK, RemembersFirsts, [Next]_vars
    PROVE  RemembersFirsts'
<1>1. CASE UNCHANGED <<log, seen, seenOwner>>
  BY <1>1 DEF RemembersFirsts, FirstIsRemembered, IsFirst
<1>2. ASSUME NEW c \in Conns, NEW w \in Works, NEW j \in JobIds, RecordNotify(c, w, j)
      PROVE  RemembersFirsts'
  <2>a. PICK n : n = Len(log) + 1
    OBVIOUS
  <2>b. PICK x : DeliveryOf(x, c, w, j) /\ (KnownDigest(x) \/ NewDigest(x))
    BY <1>2, DeliveryCases
  <2>1. /\ x \in LogEntries /\ log' = Append(log, x)
        /\ x.digest \in Digests /\ x.label \in Labels
        /\ \A i \in DOMAIN log : log[i].digest \in Digests
    BY <2>b, LogTypes DEF DeliveryOf
  <2>2. /\ DOMAIN log' = DOMAIN log \cup {n}
        /\ \A i \in DOMAIN log : log'[i] = log[i]
        /\ \A i \in DOMAIN log : IsFirst(i)' <=> IsFirst(i)
        /\ log'[n] = x
        /\ IsFirst(n)' <=> \A i \in DOMAIN log : log[i].digest # x.digest
    BY <2>a, <2>1, AppendToLog
  <2>3. CASE KnownDigest(x)
    <3>1. seen[x.digest] # None /\ UNCHANGED <<seen, seenOwner>>
      BY <2>3 DEF KnownDigest
    <3>2. ~IsFirst(n)'
      BY <2>1, <2>2, <3>1 DEF RemembersFirsts
    <3>3. QED
      BY <2>1, <2>2, <3>1, <3>2 DEF RemembersFirsts, FirstIsRemembered
  <2>4. CASE NewDigest(x)
    <3>1. /\ seen[x.digest] = None
          /\ seen' = [seen EXCEPT ![x.digest] = x.label]
          /\ seenOwner' = [seenOwner EXCEPT ![x.digest] =
                             [conn |-> x.label.conn, epoch |-> x.epoch]]
      BY <2>4 DEF NewDigest
    <3>2. /\ seen'[x.digest] = x.label
          /\ seenOwner'[x.digest] = [conn |-> x.label.conn, epoch |-> x.epoch]
          /\ \A d \in Digests \ {x.digest} : seen'[d] = seen[d] /\ seenOwner'[d] = seenOwner[d]
      BY <2>1, <3>1 DEF TypeOK
    <3>3. \A i \in DOMAIN log : log[i].digest # x.digest
      BY <3>1 DEF RemembersFirsts
    <3>4. x.label # None /\ [conn |-> x.label.conn, epoch |-> x.epoch] # None
      BY <2>1 DEF LogEntries, Labels, OwnerEntries
    <3>5. \A d \in Digests : seen'[d] = None <=> seenOwner'[d] = None
      BY <3>2, <3>4 DEF RemembersFirsts
    <3>6. \A d \in Digests :
             seen'[d] # None <=> \E i \in DOMAIN log' : log'[i].digest = d /\ IsFirst(i)'
      BY <2>1, <2>2, <3>2, <3>3, <3>4 DEF RemembersFirsts
    <3>7. \A i \in DOMAIN log' : seen'[log'[i].digest] # None
      BY <2>1, <2>2, <3>2, <3>3, <3>4 DEF RemembersFirsts
    <3>8. \A i \in DOMAIN log' : IsFirst(i)' => FirstIsRemembered(i)'
      BY <2>1, <2>2, <3>2, <3>3 DEF RemembersFirsts, FirstIsRemembered
    <3>9. QED
      BY <3>5, <3>6, <3>7, <3>8 DEF RemembersFirsts
  <2>5. QED
    BY <2>b, <2>3, <2>4
<1>3. QED
  BY <1>1, <1>2 DEF Next, vars, auditVars, RecordSubscribe, RecordSetDifficulty

-----------------------------------------------------------------------------
(* DigestsAreHeld: an extranonce1, once assigned, stays, and a duplicate's *)
(* two labels share a digest.                                              *)
LEMMA EventTypes ==
    ASSUME TypeOK
    PROVE  \A i \in DOMAIN duplicateEvents :
              /\ duplicateEvents[i].got \in Labels /\ duplicateEvents[i].got.conn \in Conns
              /\ duplicateEvents[i].prior \in Labels /\ duplicateEvents[i].prior.conn \in Conns
<1>0. duplicateEvents \in Seq(DuplicateEvents)
  BY DEF TypeOK
<1>1. \A i \in DOMAIN duplicateEvents : duplicateEvents[i] \in DuplicateEvents
  BY <1>0
<1>2. QED
  BY <1>1 DEF DuplicateEvents, Labels

LEMMA RememberedIsFirst ==
    ASSUME TypeOK, RemembersFirsts, NEW d \in Digests, seen[d] # None
    PROVE  \E i \in DOMAIN log : log[i].digest = d /\ log[i].label = seen[d]
<1>1. PICK i \in DOMAIN log : log[i].digest = d /\ IsFirst(i)
  BY DEF RemembersFirsts
<1>2. seen[d] = log[i].label
  BY <1>1 DEF RemembersFirsts, FirstIsRemembered
<1>3. QED
  BY <1>1, <1>2

LEMMA RememberedIsHeld ==
    ASSUME TypeOK, RemembersFirsts, DigestsAreHeld, NEW d \in Digests, seen[d] # None
    PROVE  seen[d] \in Labels /\ seen[d].conn \in Conns /\ extranonce1[seen[d].conn] = d[1]
<1>1. PICK i \in DOMAIN log : log[i].digest = d /\ log[i].label = seen[d]
  BY RememberedIsFirst
<1>2. QED
  BY <1>1, LogTypes DEF DigestsAreHeld

LEMMA DigestsAreHeldStep ==
    ASSUME TypeOK, RemembersFirsts, DigestsAreHeld, [Next]_vars
    PROVE  DigestsAreHeld'
<1>1. CASE UNCHANGED <<log, extranonce1, duplicateEvents>>
  BY <1>1 DEF DigestsAreHeld, Subscribed
<1>2. ASSUME NEW c \in Conns, NEW e \in Extranonce1s, RecordSubscribe(c, e)
      PROVE  DigestsAreHeld'
  <2>1. /\ extranonce1[c] = None /\ log' = log /\ duplicateEvents' = duplicateEvents
        /\ \A b \in Conns \ {c} : extranonce1'[b] = extranonce1[b]
    BY <1>2 DEF RecordSubscribe, Subscribed, TypeOK
  <2>2. \A i \in DOMAIN log : log[i].label.conn \in Conns \ {c}
    BY <2>1, LogTypes DEF DigestsAreHeld
  <2>3. \A i \in DOMAIN duplicateEvents :
           /\ duplicateEvents[i].got.conn \in Conns \ {c}
           /\ duplicateEvents[i].prior.conn \in Conns \ {c}
    BY <2>1, EventTypes DEF DigestsAreHeld, Subscribed
  <2>4. QED
    BY <2>1, <2>2, <2>3 DEF DigestsAreHeld, Subscribed
<1>3. ASSUME NEW c \in Conns, NEW w \in Works, NEW j \in JobIds, RecordNotify(c, w, j)
      PROVE  DigestsAreHeld'
  <2>a. PICK n : n = Len(log) + 1
    OBVIOUS
  <2>b. PICK x : DeliveryOf(x, c, w, j) /\ (KnownDigest(x) \/ NewDigest(x))
    BY <1>3, DeliveryCases
  <2>1. /\ x \in LogEntries /\ log' = Append(log, x) /\ x.digest \in Digests
        /\ x.label \in Labels /\ x.label.conn = c /\ extranonce1[c] = x.digest[1]
    BY <2>b DEF DeliveryOf
  <2>2. /\ DOMAIN log' = DOMAIN log \cup {n}
        /\ \A i \in DOMAIN log : log'[i] = log[i]
        /\ log'[n] = x
    BY <2>a, <2>1, AppendToLog
  <2>3. extranonce1' = extranonce1 /\ extranonce1[c] # None
    BY <1>3 DEF RecordNotify, Subscribed
  <2>4. \A i \in DOMAIN log' : extranonce1'[log'[i].label.conn] = log'[i].digest[1]
    BY <2>1, <2>2, <2>3 DEF DigestsAreHeld
  <2>5. CASE duplicateEvents' = duplicateEvents
    BY <2>3, <2>4, <2>5 DEF DigestsAreHeld, Subscribed
  <2>6. CASE KnownDigest(x) /\ TallyDuplicate(x.digest, x.label)
    <3> DEFINE message == [got |-> x.label, prior |-> seen[x.digest]]
    <3>1. seen[x.digest] \in Labels /\ extranonce1[seen[x.digest].conn] = x.digest[1]
      BY <2>1, <2>6, RememberedIsHeld DEF KnownDigest
    <3>2. duplicateEvents' = Append(duplicateEvents, message)
      BY <2>6 DEF TallyDuplicate
    <3>3. message \in DuplicateEvents /\ duplicateEvents \in Seq(DuplicateEvents)
      BY <2>1, <3>1 DEF DuplicateEvents, TypeOK
    <3>4. \A i \in DOMAIN duplicateEvents' :
             \/ i \in DOMAIN duplicateEvents /\ duplicateEvents'[i] = duplicateEvents[i]
             \/ duplicateEvents'[i] = message
      BY <3>2, <3>3
    <3>5. QED
      BY <2>1, <2>3, <2>4, <3>1, <3>4 DEF DigestsAreHeld, Subscribed
  <2>7. QED
    BY <2>b, <2>5, <2>6 DEF KnownDigest, NewDigest
<1>4. QED
  BY <1>1, <1>2, <1>3 DEF Next, vars, auditVars, RecordSetDifficulty

-----------------------------------------------------------------------------
(* OwnersHold and CollisionIffShared: only a subscribe matters. *)
LEMMA OwnersStep ==
    ASSUME TypeOK, OwnersHold, CollisionIffShared, [Next]_vars
    PROVE  OwnersHold' /\ CollisionIffShared'
<1>1. CASE UNCHANGED <<extranonce1, extranonce1Owner, collisions>>
  BY <1>1 DEF OwnersHold, CollisionIffShared, Subscribed
<1>2. ASSUME NEW c \in Conns, NEW e \in Extranonce1s, RecordSubscribe(c, e)
      PROVE  OwnersHold' /\ CollisionIffShared'
  <2>1. /\ extranonce1[c] = None /\ extranonce1'[c] = e /\ e # None
        /\ \A b \in Conns \ {c} : extranonce1'[b] = extranonce1[b]
    BY <1>2 DEF RecordSubscribe, Subscribed, TypeOK
  <2>2. extranonce1Owner[e] # c
    BY <2>1 DEF OwnersHold
  <2>3. CASE Collides(c, e)
    <3>1. PICK m \in CollisionEvents : collisions' = Append(collisions, m)
      BY <1>2, <2>3 DEF RecordSubscribe, Collides, CollisionEvents, TypeOK
    <3>2. collisions' # <<>>
      BY <3>1 DEF TypeOK
    <3>3. extranonce1Owner' = extranonce1Owner
      BY <1>2, <2>3 DEF RecordSubscribe
    <3>4. /\ extranonce1Owner[e] \in Conns \ {c}
          /\ extranonce1[extranonce1Owner[e]] = e
      BY <2>2, <2>3 DEF Collides, OwnersHold, TypeOK
    <3>5. CollisionIffShared'
      BY <2>1, <3>2, <3>4 DEF CollisionIffShared, Subscribed
    <3>6. OwnersHold'
      <4>1. ASSUME NEW b \in Conns, Subscribed(b)'
            PROVE  extranonce1Owner'[extranonce1'[b]] # None
        <5>1. CASE b = c
          BY <2>1, <3>3, <3>4, <5>1
        <5>2. CASE b # c
          <6>1. extranonce1'[b] = extranonce1[b] /\ Subscribed(b)
            BY <2>1, <4>1, <5>2 DEF Subscribed
          <6>2. extranonce1[b] \in Extranonce1s /\ extranonce1Owner[extranonce1[b]] # None
            BY <6>1 DEF OwnersHold, Subscribed, TypeOK
          <6>3. QED
            BY <3>3, <6>1, <6>2
        <5>3. QED
          BY <5>1, <5>2
      <4>2. ASSUME NEW a \in Extranonce1s, extranonce1Owner'[a] # None
            PROVE  extranonce1'[extranonce1Owner'[a]] = a
        BY <2>1, <3>3, <3>4, <4>2, NoneAssumption DEF OwnersHold, TypeOK
      <4>3. QED
        BY <4>1, <4>2 DEF OwnersHold
    <3>7. QED
      BY <3>5, <3>6
  <2>4. CASE ~Collides(c, e)
    <3>1. extranonce1Owner[e] = None
      BY <2>2, <2>4 DEF Collides
    <3>2. \A b \in Conns : extranonce1[b] # e
      BY <2>1, <3>1 DEF OwnersHold, Subscribed
    <3>3. /\ extranonce1Owner'[e] = c /\ collisions' = collisions
          /\ \A a \in Extranonce1s \ {e} : extranonce1Owner'[a] = extranonce1Owner[a]
      BY <1>2, <2>4 DEF RecordSubscribe, TypeOK
    <3>4. OwnersHold'
      <4>1. ASSUME NEW b \in Conns, Subscribed(b)'
            PROVE  extranonce1Owner'[extranonce1'[b]] # None
        <5>1. CASE b = c
          BY <2>1, <3>3, <5>1
        <5>2. CASE b # c
          <6>1. extranonce1'[b] = extranonce1[b] /\ Subscribed(b)
            BY <2>1, <4>1, <5>2 DEF Subscribed
          <6>2. extranonce1[b] \in Extranonce1s /\ extranonce1Owner[extranonce1[b]] # None
            BY <6>1 DEF OwnersHold, Subscribed, TypeOK
          <6>3. QED
            BY <3>2, <3>3, <6>1, <6>2
        <5>3. QED
          BY <5>1, <5>2
      <4>2. ASSUME NEW a \in Extranonce1s, extranonce1Owner'[a] # None
            PROVE  extranonce1'[extranonce1Owner'[a]] = a
        BY <2>1, <3>2, <3>3, <4>2, NoneAssumption DEF OwnersHold, TypeOK
      <4>3. QED
        BY <4>1, <4>2 DEF OwnersHold
    <3>5. CollisionIffShared'
      BY <2>1, <3>2, <3>3 DEF CollisionIffShared, Subscribed
    <3>6. QED
      BY <3>4, <3>5
  <2>5. QED
    BY <2>3, <2>4
<1>3. QED
  BY <1>1, <1>2 DEF Next, vars, auditVars, RecordSetDifficulty, RecordNotify

-----------------------------------------------------------------------------
(* TallyIsRelabelled: a duplicate adds the new delivery to the relabelled  *)
(* ones; no other step changes them.                                       *)
LEMMA RelabelledIsFinite ==
    ASSUME TypeOK
    PROVE  IsFiniteSet(Relabelled)
<1>1. log \in Seq(LogEntries)
  BY DEF TypeOK, LogEntries
<1>2. DOMAIN log = 1 .. Len(log) /\ Len(log) \in Nat
  BY <1>1
<1>3. IsFiniteSet(1 .. Len(log))
  BY <1>2, FS_Interval
<1>4. QED
  BY <1>2, <1>3, FS_Subset DEF Relabelled

LEMMA NoDuplicateNoneRelabelled ==
    ASSUME TypeOK, AuditInv, duplicateEvents = <<>>
    PROVE  Relabelled = {}
<1>1. Cardinality(Relabelled) = 0
  BY DEF AuditInv, TallyIsRelabelled
<1>2. QED
  BY <1>1, RelabelledIsFinite, FS_EmptySet

LEMMA TallyStep ==
    ASSUME TypeOK, RemembersFirsts, TallyIsRelabelled, [Next]_vars
    PROVE  TallyIsRelabelled'
<1>1. CASE UNCHANGED <<log, seen, duplicateEvents>>
  <2>1. Relabelled' = Relabelled
    BY <1>1 DEF Relabelled
  <2>2. QED
    BY <1>1, <2>1 DEF TallyIsRelabelled
<1>2. ASSUME NEW c \in Conns, NEW w \in Works, NEW j \in JobIds, RecordNotify(c, w, j)
      PROVE  TallyIsRelabelled'
  <2>a. PICK n : n = Len(log) + 1
    OBVIOUS
  <2>b. PICK x : DeliveryOf(x, c, w, j) /\ (KnownDigest(x) \/ NewDigest(x))
    BY <1>2, DeliveryCases
  <2>1. /\ x \in LogEntries /\ log' = Append(log, x)
        /\ x.digest \in Digests /\ x.label \in Labels
        /\ \A i \in DOMAIN log : log[i].digest \in Digests /\ seen[log[i].digest] # None
    BY <2>b, LogTypes DEF DeliveryOf, RemembersFirsts
  <2>2. /\ DOMAIN log' = DOMAIN log \cup {n} /\ n \notin DOMAIN log
        /\ \A i \in DOMAIN log : log'[i] = log[i]
        /\ log'[n] = x
    BY <2>a, <2>1, AppendToLog
  <2>3. CASE KnownDigest(x) /\ seen[x.digest] # x.label /\ TallyDuplicate(x.digest, x.label)
    <3>1. Relabelled' = Relabelled \cup {n} /\ n \notin Relabelled
      BY <2>1, <2>2, <2>3 DEF Relabelled, KnownDigest
    <3>2. Cardinality(Relabelled') = Cardinality(Relabelled) + 1
      BY <3>1, RelabelledIsFinite, FS_AddElement
    <3>3. Len(duplicateEvents') = Len(duplicateEvents) + 1
      BY <2>3 DEF TallyDuplicate, TypeOK
    <3>4. QED
      BY <3>2, <3>3 DEF TallyIsRelabelled
  <2>4. CASE KnownDigest(x) /\ seen[x.digest] = x.label /\ duplicateEvents' = duplicateEvents
    <3>1. Relabelled' = Relabelled
      BY <2>1, <2>2, <2>4 DEF Relabelled, KnownDigest
    <3>2. QED
      BY <2>4, <3>1 DEF TallyIsRelabelled
  <2>5. CASE NewDigest(x)
    <3>1. /\ seen[x.digest] = None /\ seen'[x.digest] = x.label
          /\ \A d \in Digests \ {x.digest} : seen'[d] = seen[d]
      BY <2>1, <2>5 DEF NewDigest, TypeOK
    <3>2. Relabelled' = Relabelled
      BY <2>1, <2>2, <3>1 DEF Relabelled
    <3>3. QED
      BY <2>5, <3>2 DEF TallyIsRelabelled, NewDigest
  <2>6. QED
    BY <2>b, <2>3, <2>4, <2>5 DEF KnownDigest
<1>3. QED
  BY <1>1, <1>2 DEF Next, vars, auditVars, RecordSubscribe, RecordSetDifficulty

-----------------------------------------------------------------------------
(* FailureIffEvents: `failure` is set with the first event of either list. *)
LEMMA AppendEvent ==
    ASSUME NEW S, NEW s \in Seq(S), NEW m \in S
    PROVE  /\ Append(s, m) # <<>>
           /\ s = <<>> => Head(Append(s, m)) = m
           /\ s # <<>> => Head(Append(s, m)) = Head(s)
OBVIOUS

LEMMA FailureStep ==
    ASSUME TypeOK, RemembersFirsts, FailureIffEvents, [Next]_vars
    PROVE  FailureIffEvents'
<1>0. /\ duplicateEvents \in Seq(DuplicateEvents) /\ collisions \in Seq(CollisionEvents)
      /\ failure \in DuplicateEvents \cup CollisionEvents \cup {None}
  BY DEF TypeOK
<1>1. CASE UNCHANGED <<failure, duplicateEvents, collisions>>
  BY <1>1 DEF FailureIffEvents
<1>2. ASSUME NEW c \in Conns, NEW e \in Extranonce1s, RecordSubscribe(c, e)
      PROVE  FailureIffEvents'
  <2>1. CASE Collides(c, e)
    <3>1. PICK m \in CollisionEvents : /\ collisions' = Append(collisions, m)
                                       /\ failure' = FirstFailure(m)
      BY <1>2, <2>1 DEF RecordSubscribe, Collides, CollisionEvents, TypeOK
    <3>2. /\ collisions' # <<>>
          /\ collisions = <<>> => Head(collisions') = m
          /\ collisions # <<>> => Head(collisions') = Head(collisions)
      BY <1>0, <3>1, AppendEvent
    <3>3. duplicateEvents' = duplicateEvents
      BY <1>2 DEF RecordSubscribe
    <3>4. m # None
      BY <3>1
    <3>5. QED
      BY <3>1, <3>2, <3>3, <3>4 DEF FailureIffEvents, FirstFailure
  <2>2. CASE ~Collides(c, e)
    BY <1>1, <1>2, <2>2 DEF RecordSubscribe
  <2>3. QED
    BY <2>1, <2>2
<1>3. ASSUME NEW c \in Conns, NEW w \in Works, NEW j \in JobIds, RecordNotify(c, w, j)
      PROVE  FailureIffEvents'
  <2>1. PICK x : DeliveryOf(x, c, w, j) /\ (KnownDigest(x) \/ NewDigest(x))
    BY <1>3, DeliveryCases
  <2>2. collisions' = collisions
    BY <1>3 DEF RecordNotify
  <2>3. CASE TallyDuplicate(x.digest, x.label) /\ seen[x.digest] # None
    <3>1. PICK m \in DuplicateEvents : /\ duplicateEvents' = Append(duplicateEvents, m)
                                       /\ failure' = FirstFailure(m)
      BY <2>1, <2>3 DEF DeliveryOf, TallyDuplicate, DuplicateEvents, TypeOK
    <3>2. /\ duplicateEvents' # <<>>
          /\ duplicateEvents = <<>> => Head(duplicateEvents') = m
          /\ duplicateEvents # <<>> => Head(duplicateEvents') = Head(duplicateEvents)
      BY <1>0, <3>1, AppendEvent
    <3>3. m # None
      BY <3>1
    <3>4. QED
      BY <2>2, <3>1, <3>2, <3>3 DEF FailureIffEvents, FirstFailure
  <2>4. CASE UNCHANGED <<duplicateEvents, failure>>
    BY <1>1, <2>2, <2>4
  <2>5. QED
    BY <2>1, <2>3, <2>4 DEF KnownDigest, NewDigest
<1>4. QED
  BY <1>1, <1>2, <1>3 DEF Next, vars, auditVars, RecordSetDifficulty

-----------------------------------------------------------------------------
(* The invariant of the auditor: what it remembers is the first delivery   *)
(* of every digest, what it counts is the history's repeats, and its       *)
(* failure says whether anything was counted.                              *)
LEMMA InitInv == Init => AuditInv
<1> SUFFICES ASSUME Init PROVE AuditInv
  OBVIOUS
<1>1. Relabelled = {}
  BY DEF Init, Relabelled
<1>2. TallyIsRelabelled
  BY <1>1, FS_EmptySet DEF Init, TallyIsRelabelled
<1>3. RemembersFirsts /\ DigestsAreHeld /\ OwnersHold /\ CollisionIffShared /\ FailureIffEvents
  BY DEF Init, RemembersFirsts, DigestsAreHeld, OwnersHold, CollisionIffShared,
         FailureIffEvents, Subscribed
<1>4. QED
  BY <1>2, <1>3 DEF AuditInv

THEOREM AuditInvariant == Spec => [](TypeOK /\ AuditInv)
<1>1. Init => TypeOK /\ AuditInv
  BY InitType, InitInv
<1>2. TypeOK /\ AuditInv /\ [Next]_vars => (TypeOK /\ AuditInv)'
  BY StepType, RemembersFirstsStep, TallyStep, DigestsAreHeldStep, OwnersStep, FailureStep
     DEF AuditInv
<1>3. QED
  BY <1>1, <1>2, PTL DEF Spec

(* record_notify tallies exactly the deliveries whose work was first seen  *)
(* under another label.                                                    *)
LEMMA RepeatsAreRelabelled ==
    ASSUME TypeOK, RemembersFirsts
    PROVE  Repeats = Relabelled
<1>1. ASSUME NEW k \in DOMAIN log
      PROVE  (\E j \in DOMAIN log : FirstAndRepeat(j, k)) <=> log[k].label # seen[log[k].digest]
  <2>0. DOMAIN log = 1 .. Len(log) /\ Len(log) \in Nat
    BY DEF TypeOK
  <2>1. PICK i \in DOMAIN log : log[i].digest = log[k].digest /\ IsFirst(i)
    BY LogTypes DEF RemembersFirsts
  <2>2. seen[log[k].digest] = log[i].label
    BY <2>1 DEF RemembersFirsts, FirstIsRemembered
  <2>3. \A j \in DOMAIN log : log[j].digest = log[k].digest /\ IsFirst(j) => j = i
    BY <2>0, <2>1 DEF IsFirst
  <2>4. i <= k
    BY <2>0, <2>1 DEF IsFirst
  <2>5. QED
    BY <2>0, <2>1, <2>2, <2>3, <2>4 DEF FirstAndRepeat
<1>2. QED
  BY <1>1 DEF Repeats, Relabelled

THEOREM TallyCorrect == Spec => []TallyMatchesHistory
<1>1. TypeOK /\ AuditInv => TallyMatchesHistory
  BY RepeatsAreRelabelled DEF AuditInv, TallyIsRelabelled, TallyMatchesHistory
<1>2. QED
  BY <1>1, AuditInvariant, PTL

(* While no extranonce1 is shared, a duplicate is within one connection:   *)
(* the same job on several connections is never counted.                   *)
THEOREM DuplicatesStayCorrect == Spec => []DuplicatesStayWithinAConnection
<1>1. TypeOK /\ AuditInv => DuplicatesStayWithinAConnection
  <2> SUFFICES ASSUME TypeOK, AuditInv, collisions = <<>>, NEW i \in DOMAIN duplicateEvents
               PROVE  duplicateEvents[i].got.conn = duplicateEvents[i].prior.conn
    BY DEF DuplicatesStayWithinAConnection
  <2>1. /\ Subscribed(duplicateEvents[i].got.conn)
        /\ extranonce1[duplicateEvents[i].got.conn] = extranonce1[duplicateEvents[i].prior.conn]
    BY DEF AuditInv, DigestsAreHeld
  <2>2. QED
    BY <2>1, EventTypes DEF AuditInv, CollisionIffShared
<1>2. QED
  BY <1>1, AuditInvariant, PTL

(* Collisions are recorded exactly when connections share an extranonce1,  *)
(* and `failure` exactly when an event is.                                 *)
THEOREM ReportsCorrect == Spec => [](CollisionIffShared /\ FailureIffEvents)
<1>1. TypeOK /\ AuditInv => CollisionIffShared /\ FailureIffEvents
  BY DEF AuditInv
<1>2. QED
  BY <1>1, AuditInvariant, PTL

-----------------------------------------------------------------------------
(* While no extranonce1 is shared, a digest's first owner is the one       *)
(* connection that can repeat it, so the owner's retargets are the         *)
(* repeater's own, and each vardiff event is a relabelled delivery made in *)
(* a later epoch than the one remembered.                                  *)
RelabelledLater == {k \in Relabelled : seenOwner[log[k].digest].epoch < log[k].epoch}

VardiffInv == collisions = <<>> => Len(vardiffEvents) = Cardinality(RelabelledLater)

LEMMA RelabelledLaterIsFinite ==
    ASSUME TypeOK
    PROVE  IsFiniteSet(RelabelledLater)
BY RelabelledIsFinite, FS_Subset DEF RelabelledLater

LEMMA OwnerRepeats ==
    ASSUME TypeOK, AuditInv, collisions = <<>>, NEW c \in Conns, Subscribed(c),
           NEW d \in Digests, d[1] = extranonce1[c], seen[d] # None
    PROVE  seenOwner[d].conn = c
<1>1. PICK i \in DOMAIN log : log[i].digest = d /\ IsFirst(i)
  BY DEF AuditInv, RemembersFirsts
<1>2. FirstIsRemembered(i)
  BY <1>1 DEF AuditInv, RemembersFirsts
<1>3. seenOwner[d].conn = log[i].label.conn
  BY <1>1, <1>2 DEF FirstIsRemembered
<1>4. log[i].label.conn \in Conns /\ extranonce1[log[i].label.conn] = extranonce1[c]
  BY <1>1, LogTypes DEF AuditInv, DigestsAreHeld
<1>5. QED
  BY <1>3, <1>4 DEF AuditInv, CollisionIffShared, Subscribed

LEMMA VardiffStep ==
    ASSUME TypeOK, AuditInv, VardiffInv, [Next]_vars
    PROVE  VardiffInv'
<1>1. CASE UNCHANGED <<log, seen, seenOwner, vardiffEvents>> /\ (collisions' = <<>> => collisions = <<>>)
  <2>1. RelabelledLater' = RelabelledLater
    BY <1>1 DEF RelabelledLater, Relabelled
  <2>2. QED
    BY <1>1, <2>1 DEF VardiffInv
<1>2. ASSUME NEW c \in Conns, NEW e \in Extranonce1s, RecordSubscribe(c, e)
      PROVE  collisions' = <<>> => collisions = <<>>
  <2>1. collisions \in Seq(CollisionEvents)
    BY DEF TypeOK
  <2>2. CASE Collides(c, e)
    <3>1. PICK m \in CollisionEvents : collisions' = Append(collisions, m)
      BY <1>2, <2>2 DEF RecordSubscribe, Collides, CollisionEvents, TypeOK
    <3>2. QED
      BY <2>1, <3>1, AppendEvent
  <2>3. QED
    BY <1>2, <2>2 DEF RecordSubscribe
<1>3. ASSUME NEW c \in Conns, NEW w \in Works, NEW j \in JobIds, RecordNotify(c, w, j)
      PROVE  VardiffInv'
  <2> SUFFICES ASSUME collisions = <<>>
               PROVE  Len(vardiffEvents') = Cardinality(RelabelledLater')
    BY <1>3 DEF RecordNotify, VardiffInv
  <2>a. PICK n : n = Len(log) + 1
    OBVIOUS
  <2>b. PICK x : DeliveryOf(x, c, w, j) /\ (KnownDigest(x) \/ NewDigest(x))
    BY <1>3, DeliveryCases DEF AuditInv
  <2>0. Len(vardiffEvents) = Cardinality(RelabelledLater)
    BY DEF VardiffInv
  <2>1. /\ x \in LogEntries /\ log' = Append(log, x)
        /\ x.digest \in Digests /\ x.label \in Labels
        /\ \A i \in DOMAIN log : log[i].digest \in Digests /\ seen[log[i].digest] # None
    BY <2>b, LogTypes DEF DeliveryOf, AuditInv, RemembersFirsts
  <2>2. /\ DOMAIN log' = DOMAIN log \cup {n} /\ n \notin DOMAIN log
        /\ \A i \in DOMAIN log : log'[i] = log[i]
        /\ log'[n] = x
    BY <2>a, <2>1, AppendToLog
  <2>3. CASE KnownDigest(x) /\ seen[x.digest] # x.label /\ TallyDuplicate(x.digest, x.label)
    <3>1. seenOwner[x.digest].conn = c
      BY <1>3, <2>1, <2>3, <2>b, OwnerRepeats DEF RecordNotify, DeliveryOf, KnownDigest
    <3>2. AcrossRetarget(x.digest) <=> seenOwner[x.digest].epoch < x.epoch
      <4>1. seen[x.digest] # None
        BY <2>3 DEF KnownDigest
      <4>2. seenOwner[x.digest] \in OwnerEntries
        BY <2>1, <4>1 DEF AuditInv, RemembersFirsts, TypeOK
      <4>3. seenOwner[x.digest].epoch \in Nat /\ connEpoch[c] \in Nat /\ x.epoch = connEpoch[c]
        BY <2>b, <4>2 DEF OwnerEntries, TypeOK, DeliveryOf
      <4>4. QED
        BY <3>1, <4>3 DEF AcrossRetarget
    <3>3. CASE AcrossRetarget(x.digest)
      <4>1. RelabelledLater' = RelabelledLater \cup {n} /\ n \notin RelabelledLater
        BY <2>1, <2>2, <2>3, <3>2, <3>3 DEF RelabelledLater, Relabelled, KnownDigest
      <4>2. Cardinality(RelabelledLater') = Cardinality(RelabelledLater) + 1
        BY <4>1, RelabelledLaterIsFinite, FS_AddElement
      <4>3. Len(vardiffEvents') = Len(vardiffEvents) + 1
        BY <2>3, <3>3 DEF TallyDuplicate, TypeOK
      <4>4. QED
        BY <2>0, <4>2, <4>3
    <3>4. CASE ~AcrossRetarget(x.digest)
      <4>1. RelabelledLater' = RelabelledLater
        BY <2>1, <2>2, <2>3, <3>2, <3>4 DEF RelabelledLater, Relabelled, KnownDigest
      <4>2. vardiffEvents' = vardiffEvents
        BY <2>3, <3>4 DEF TallyDuplicate
      <4>3. QED
        BY <2>0, <4>1, <4>2
    <3>5. QED
      BY <3>3, <3>4
  <2>4. CASE KnownDigest(x) /\ seen[x.digest] = x.label /\ vardiffEvents' = vardiffEvents
    <3>1. RelabelledLater' = RelabelledLater
      BY <2>1, <2>2, <2>4 DEF RelabelledLater, Relabelled, KnownDigest
    <3>2. QED
      BY <2>0, <2>4, <3>1
  <2>5. CASE NewDigest(x)
    <3>1. /\ seen[x.digest] = None /\ seen'[x.digest] = x.label
          /\ \A d \in Digests \ {x.digest} : seen'[d] = seen[d] /\ seenOwner'[d] = seenOwner[d]
      BY <2>1, <2>5 DEF NewDigest, TypeOK
    <3>2. RelabelledLater' = RelabelledLater
      BY <2>1, <2>2, <3>1 DEF RelabelledLater, Relabelled
    <3>3. QED
      BY <2>0, <2>5, <3>2 DEF NewDigest
  <2>6. QED
    BY <2>b, <2>3, <2>4, <2>5 DEF KnownDigest
<1>4. QED
  BY <1>1, <1>2, <1>3 DEF Next, vars, auditVars, RecordSubscribe, RecordSetDifficulty

LEMMA RepeatsLaterAreRelabelledLater ==
    ASSUME TypeOK, RemembersFirsts
    PROVE  RepeatsAfterOwnRetarget = RelabelledLater
<1>1. ASSUME NEW k \in DOMAIN log
      PROVE  (\E j \in DOMAIN log : FirstAndRepeat(j, k) /\ log[j].epoch < log[k].epoch)
             <=> k \in RelabelledLater
  <2>0. DOMAIN log = 1 .. Len(log) /\ Len(log) \in Nat
    BY DEF TypeOK
  <2>1. PICK i \in DOMAIN log : log[i].digest = log[k].digest /\ IsFirst(i)
    BY LogTypes DEF RemembersFirsts
  <2>a. FirstIsRemembered(i)
    BY <2>1 DEF RemembersFirsts
  <2>2. seen[log[k].digest] = log[i].label /\ seenOwner[log[k].digest].epoch = log[i].epoch
    BY <2>1, <2>a DEF FirstIsRemembered
  <2>3. \A j \in DOMAIN log : log[j].digest = log[k].digest /\ IsFirst(j) => j = i
    BY <2>0, <2>1 DEF IsFirst
  <2>4. i <= k
    BY <2>0, <2>1 DEF IsFirst
  <2>5. k \in RelabelledLater <=> log[k].label # log[i].label /\ log[i].epoch < log[k].epoch
    BY <2>2 DEF RelabelledLater, Relabelled
  <2>6. QED
    BY <2>0, <2>1, <2>3, <2>4, <2>5 DEF FirstAndRepeat
<1>2. QED
  BY <1>1 DEF RepeatsAfterOwnRetarget, RelabelledLater, Relabelled

(* A duplicate is blamed on vardiff exactly when its own connection was    *)
(* retargeted between the first delivery and the repeat.                   *)
THEOREM VardiffCorrect == Spec => []VardiffMeansOwnRetarget
<1>1. Init => VardiffInv
  <2>1. Init => RelabelledLater = {}
    BY DEF Init, RelabelledLater, Relabelled
  <2>2. QED
    BY <2>1, FS_EmptySet DEF Init, VardiffInv
<1>2. TypeOK /\ AuditInv /\ VardiffInv /\ [Next]_vars => VardiffInv'
  BY VardiffStep
<1>3. TypeOK /\ AuditInv /\ VardiffInv => VardiffMeansOwnRetarget
  BY RepeatsLaterAreRelabelledLater DEF AuditInv, VardiffInv, VardiffMeansOwnRetarget
<1>4. QED
  BY <1>1, <1>2, <1>3, AuditInvariant, PTL DEF Spec

(* The INCONCLUSIVE verdict's counter moves exactly when some connection   *)
(* has been sent two different difficulties.                               *)
DifficultyInv ==
    /\ \A c \in Conns : connDifficulty[c] = None => offered[c] = {}
    /\ \A c \in Conns : connDifficulty[c] # None => connDifficulty[c] \in offered[c]
    /\ RetargetIffTwoDifficulties

LEMMA DifficultyStep ==
    ASSUME TypeOK, DifficultyInv, [Next]_vars
    PROVE  DifficultyInv'
<1>0. /\ connDifficulty \in [Conns -> Diffs \cup {None}] /\ offered \in [Conns -> SUBSET Diffs]
      /\ setDifficultyCount \in Nat
  BY DEF TypeOK
<1>1. CASE UNCHANGED <<connDifficulty, offered, setDifficultyCount>>
  BY <1>1 DEF DifficultyInv, RetargetIffTwoDifficulties
<1>2. ASSUME NEW c \in Conns, NEW d \in Diffs, RecordSetDifficulty(c, d)
      PROVE  DifficultyInv'
  <2>1. /\ connDifficulty'[c] = d /\ d # None /\ offered'[c] = offered[c] \cup {d}
        /\ \A b \in Conns \ {c} : connDifficulty'[b] = connDifficulty[b] /\ offered'[b] = offered[b]
    BY <1>0, <1>2 DEF RecordSetDifficulty
  <2>2. CASE IsRetarget(c, d)
    <3>1. connDifficulty[c] \in offered'[c] /\ d \in offered'[c] /\ connDifficulty[c] # d
      BY <2>1, <2>2 DEF IsRetarget, DifficultyInv
    <3>2. setDifficultyCount' > 0
      BY <1>0, <1>2, <2>2 DEF RecordSetDifficulty
    <3>3. QED
      BY <2>1, <3>1, <3>2 DEF DifficultyInv, RetargetIffTwoDifficulties
  <2>3. CASE ~IsRetarget(c, d)
    <3>1. setDifficultyCount' = setDifficultyCount
      BY <1>2, <2>3 DEF RecordSetDifficulty
    <3>2. (\E a, b \in offered'[c] : a # b) <=> \E a, b \in offered[c] : a # b
      BY <2>1, <2>3 DEF IsRetarget, DifficultyInv
    <3>3. (\E b \in Conns : \E a, f \in offered'[b] : a # f)
          <=> \E b \in Conns : \E a, f \in offered[b] : a # f
      BY <2>1, <3>2
    <3>4. QED
      BY <2>1, <3>1, <3>3 DEF DifficultyInv, RetargetIffTwoDifficulties
  <2>4. QED
    BY <2>2, <2>3
<1>3. QED
  BY <1>1, <1>2 DEF Next, vars, auditVars, RecordSubscribe, RecordNotify

THEOREM RetargetCorrect == Spec => []RetargetIffTwoDifficulties
<1>1. Init => DifficultyInv
  BY DEF Init, DifficultyInv, RetargetIffTwoDifficulties
<1>2. TypeOK /\ DifficultyInv /\ [Next]_vars => DifficultyInv'
  BY DifficultyStep
<1>3. DifficultyInv => RetargetIffTwoDifficulties
  BY DEF DifficultyInv
<1>4. QED
  BY <1>1, <1>2, <1>3, TypeCorrect, PTL DEF Spec

-----------------------------------------------------------------------------
(* Reports are only appended, and a first delivery is remembered for good. *)
LEMMA ExtendsItself == ASSUME NEW S, NEW s \in Seq(S) PROVE Extends(s, s)
<1>1. Len(s) \in Nat /\ SubSeq(s, 1, Len(s)) = s
  OBVIOUS
<1>2. QED
  BY <1>1 DEF Extends

LEMMA AppendExtends == ASSUME NEW S, NEW s \in Seq(S), NEW m \in S PROVE Extends(Append(s, m), s)
<1>1. Len(s) \in Nat /\ Len(Append(s, m)) = Len(s) + 1 /\ SubSeq(Append(s, m), 1, Len(s)) = s
  OBVIOUS
<1>2. QED
  BY <1>1 DEF Extends

Kept ==
    /\ Extends(duplicateEvents', duplicateEvents)
    /\ Extends(vardiffEvents', vardiffEvents)
    /\ Extends(collisions', collisions)
    /\ failure # None => failure' = failure
    /\ \A d \in Digests : seen[d] # None => seen'[d] = seen[d] /\ seenOwner'[d] = seenOwner[d]

LEMMA StepKeeps == ASSUME TypeOK, AuditInv, Next PROVE Kept
<1>0. /\ duplicateEvents \in Seq(DuplicateEvents) /\ vardiffEvents \in Seq(DuplicateEvents)
      /\ collisions \in Seq(CollisionEvents)
  BY DEF TypeOK
<1>1. /\ Extends(duplicateEvents, duplicateEvents) /\ Extends(vardiffEvents, vardiffEvents)
      /\ Extends(collisions, collisions)
  BY <1>0, ExtendsItself
<1>2. ASSUME NEW c \in Conns, NEW e \in Extranonce1s, RecordSubscribe(c, e)
      PROVE  Kept
  <2>1. CASE Collides(c, e)
    <3>1. PICK m \in CollisionEvents : collisions' = Append(collisions, m) /\ failure' = FirstFailure(m)
      BY <1>2, <2>1 DEF RecordSubscribe, Collides, CollisionEvents, TypeOK
    <3>2. Extends(collisions', collisions)
      BY <1>0, <3>1, AppendExtends
    <3>3. QED
      BY <1>1, <1>2, <3>1, <3>2 DEF RecordSubscribe, Kept, FirstFailure
  <2>2. CASE ~Collides(c, e)
    BY <1>1, <1>2, <2>2 DEF RecordSubscribe, Kept
  <2>3. QED
    BY <2>1, <2>2
<1>3. ASSUME NEW c \in Conns, NEW d \in Diffs, RecordSetDifficulty(c, d)
      PROVE  Kept
  BY <1>1, <1>3 DEF RecordSetDifficulty, Kept
<1>4. ASSUME NEW c \in Conns, NEW w \in Works, NEW j \in JobIds, RecordNotify(c, w, j)
      PROVE  Kept
  <2>1. PICK x : DeliveryOf(x, c, w, j) /\ (KnownDigest(x) \/ NewDigest(x))
    BY <1>4, DeliveryCases DEF AuditInv
  <2>2. collisions' = collisions
    BY <1>4 DEF RecordNotify
  <2>3. CASE seen[x.digest] # None /\ TallyDuplicate(x.digest, x.label)
    <3>1. PICK m \in DuplicateEvents :
              /\ duplicateEvents' = Append(duplicateEvents, m) /\ failure' = FirstFailure(m)
              /\ vardiffEvents' \in {Append(vardiffEvents, m), vardiffEvents}
      BY <2>1, <2>3 DEF DeliveryOf, TallyDuplicate, DuplicateEvents, TypeOK
    <3>2. Extends(duplicateEvents', duplicateEvents) /\ Extends(vardiffEvents', vardiffEvents)
      BY <1>0, <1>1, <3>1, AppendExtends
    <3>3. QED
      BY <1>1, <2>2, <2>3, <3>1, <3>2 DEF TallyDuplicate, Kept, FirstFailure
  <2>4. CASE KnownDigest(x) /\ UNCHANGED <<duplicateEvents, vardiffEvents, failure>>
    BY <1>1, <2>2, <2>4 DEF KnownDigest, Kept
  <2>5. CASE NewDigest(x)
    BY <1>1, <2>2, <2>5 DEF NewDigest, Kept, TypeOK
  <2>6. QED
    BY <2>1, <2>3, <2>4, <2>5 DEF KnownDigest
<1>5. QED
  BY <1>2, <1>3, <1>4 DEF Next

(* No step drops an event, replaces the first failure or re-labels a       *)
(* digest: what the AUDIT line may report only grows.                      *)
THEOREM EvidenceCorrect == Spec => EvidenceIsKept
<1>1. TypeOK /\ AuditInv /\ [Next]_vars => [Kept]_vars
  BY StepKeeps
<1>2. Spec => [][Kept]_vars
  BY <1>1, AuditInvariant, PTL DEF Spec
<1>3. QED
  BY <1>2 DEF EvidenceIsKept, Kept

-----------------------------------------------------------------------------
(* The auditor implements WorkPromise. *)
LEMMA CleanMeansNoneRelabelled ==
    ASSUME TypeOK, AuditInv, failure = None
    PROVE  \A i \in DOMAIN log : log[i].label = seen[log[i].digest]
<1>1. Relabelled = {}
  BY NoDuplicateNoneRelabelled DEF AuditInv, FailureIffEvents
<1>2. QED
  BY <1>1 DEF Relabelled

LEMMA CollidesIffHeld ==
    ASSUME TypeOK, OwnersHold, NEW c \in Conns, NEW e \in Extranonce1s, ~Subscribed(c)
    PROVE  Collides(c, e) <=> \E p \in Held : p[2] = e
<1>1. ASSUME Collides(c, e) PROVE \E p \in Held : p[2] = e
  <2>1. extranonce1Owner[e] \in Conns /\ extranonce1[extranonce1Owner[e]] = e
    BY <1>1 DEF Collides, OwnersHold, TypeOK
  <2>2. <<extranonce1Owner[e], e>> \in Held
    BY <2>1 DEF Held
  <2>3. QED
    BY <2>2
<1>2. ASSUME NEW p \in Held, p[2] = e PROVE Collides(c, e)
  <2>1. p[1] \in Conns /\ extranonce1[p[1]] = e
    BY <1>2 DEF Held
  <2>2. extranonce1Owner[e] # None
    BY <2>1 DEF OwnersHold, Subscribed
  <2>3. extranonce1Owner[e] # c
    BY <2>2 DEF OwnersHold, Subscribed
  <2>4. QED
    BY <2>2, <2>3 DEF Collides
<1>3. QED
  BY <1>1, <1>2

LEMMA SubscribeAssigns ==
    ASSUME TypeOK, AuditInv, NEW c \in Conns, NEW e \in Extranonce1s, RecordSubscribe(c, e)
    PROVE  Promise!Assign(c, e)
<1>1. ~Subscribed(c) /\ OwnersHold
  BY DEF RecordSubscribe, AuditInv
<1>2. \A p \in Held : p[1] # c
  BY <1>1 DEF Held, Subscribed
<1>3. Held' = Held \cup {<<c, e>>}
  <2>1. /\ extranonce1[c] = None /\ extranonce1'[c] = e
        /\ \A b \in Conns \ {c} : extranonce1'[b] = extranonce1[b]
    BY <1>1 DEF RecordSubscribe, Subscribed, TypeOK
  <2>2. QED
    BY <2>1 DEF Held
<1>4. Clean' <=> Clean /\ ~Collides(c, e)
  <2>1. CASE Collides(c, e)
    <3>1. PICK m \in CollisionEvents : failure' = FirstFailure(m)
      BY <2>1 DEF RecordSubscribe, Collides, CollisionEvents, TypeOK
    <3>2. QED
      BY <2>1, <3>1 DEF Clean, FirstFailure
  <2>2. CASE ~Collides(c, e)
    BY <2>2 DEF RecordSubscribe, Clean
  <2>3. QED
    BY <2>1, <2>2
<1>5. Clean' = (Clean /\ \A p \in Held : p[2] # e)
  BY <1>1, <1>4, CollidesIffHeld DEF Clean
<1>6. Handed' = Handed
  BY DEF Handed, RecordSubscribe
<1>7. QED
  BY <1>2, <1>3, <1>5, <1>6 DEF Promise!Assign

LEMMA NotifyHands ==
    ASSUME TypeOK, AuditInv, NEW c \in Conns, NEW w \in Works, NEW j \in JobIds,
           RecordNotify(c, w, j)
    PROVE  Promise!Hand(c, extranonce1[c], w, j)
<1>a. PICK n : n = Len(log) + 1
  OBVIOUS
<1>b. PICK x : DeliveryOf(x, c, w, j) /\ (KnownDigest(x) \/ NewDigest(x))
  BY DeliveryCases DEF AuditInv
<1>1. /\ x \in LogEntries /\ log' = Append(log, x) /\ x.digest \in Digests
      /\ x.digest = <<extranonce1[c], w>> /\ x.label = [conn |-> c, job |-> j]
  BY <1>b DEF DeliveryOf, Label
<1>2. /\ DOMAIN log' = DOMAIN log \cup {n}
      /\ \A i \in DOMAIN log : log'[i] = log[i]
      /\ log'[n] = x
  BY <1>a, <1>1, AppendToLog
<1>3. <<c, extranonce1[c]>> \in Held /\ Held' = Held
  BY DEF RecordNotify, Subscribed, Held, TypeOK
<1>4. Handed' = Handed \cup {<<x.digest, x.label>>}
  BY <1>2 DEF Handed
<1>5. Clean' <=> Clean /\ \A i \in DOMAIN log : log[i].digest = x.digest => log[i].label = x.label
  <2>1. CASE KnownDigest(x) /\ seen[x.digest] # x.label /\ TallyDuplicate(x.digest, x.label)
    <3>1. seen[x.digest] # None
      BY <2>1 DEF KnownDigest
    <3>2. PICK m \in DuplicateEvents : failure' = FirstFailure(m)
      BY <1>b, <2>1, <3>1 DEF DeliveryOf, TallyDuplicate, DuplicateEvents, TypeOK
    <3>3. PICK i \in DOMAIN log : log[i].digest = x.digest /\ log[i].label = seen[x.digest]
      BY <1>1, <3>1, RememberedIsFirst DEF AuditInv
    <3>4. ~Clean'
      BY <3>2 DEF Clean, FirstFailure
    <3>5. QED
      BY <2>1, <3>3, <3>4
  <2>2. CASE KnownDigest(x) /\ seen[x.digest] = x.label /\ failure' = failure
    BY <2>2, CleanMeansNoneRelabelled DEF Clean
  <2>3. CASE NewDigest(x)
    BY <2>3 DEF Clean, NewDigest, AuditInv, RemembersFirsts
  <2>4. QED
    BY <1>b, <2>1, <2>2, <2>3 DEF KnownDigest
<1>6. Clean' = (Clean /\ \A p \in Handed : p[1] = x.digest => p[2] = x.label)
  <2>1. (\A p \in Handed : p[1] = x.digest => p[2] = x.label)
          <=> \A i \in DOMAIN log : log[i].digest = x.digest => log[i].label = x.label
    <3>1. \A i \in DOMAIN log : <<log[i].digest, log[i].label>> \in Handed
      BY DEF Handed
    <3>2. \A p \in Handed : \E i \in DOMAIN log : p = <<log[i].digest, log[i].label>>
      BY DEF Handed
    <3>3. ASSUME \A p \in Handed : p[1] = x.digest => p[2] = x.label,
                 NEW i \in DOMAIN log, log[i].digest = x.digest
          PROVE  log[i].label = x.label
      <4>1. <<log[i].digest, log[i].label>>[1] = x.digest
        BY <3>3
      <4>2. QED
        BY <3>1, <3>3, <4>1
    <3>4. ASSUME \A i \in DOMAIN log : log[i].digest = x.digest => log[i].label = x.label,
                 NEW p \in Handed, p[1] = x.digest
          PROVE  p[2] = x.label
      BY <3>2, <3>4
    <3>5. QED
      BY <3>3, <3>4
  <2>2. Clean \in BOOLEAN /\ Clean' \in BOOLEAN
    BY DEF Clean
  <2>3. QED
    BY <1>5, <2>1, <2>2
<1>7. QED
  BY <1>1, <1>3, <1>4, <1>6 DEF Promise!Hand

(* The auditor's `failure` is None exactly as long as the whole history is *)
(* clean: every step is a step of WorkPromise or leaves its state alone.   *)
THEOREM Implements == Spec => KeepsPromise
<1>1. Init => Promise!Init
  BY DEF Init, Promise!Init, Held, Handed, Clean
<1>2. TypeOK /\ AuditInv /\ [Next]_vars => [Promise!Next]_(Promise!vars)
  <2> SUFFICES ASSUME TypeOK, AuditInv, [Next]_vars
               PROVE  [Promise!Next]_(Promise!vars)
    OBVIOUS
  <2>1. CASE UNCHANGED <<extranonce1, log, failure>>
    BY <2>1 DEF Promise!vars, Held, Handed, Clean
  <2>2. ASSUME NEW c \in Conns, NEW e \in Extranonce1s, RecordSubscribe(c, e)
        PROVE  Promise!Next
    BY <2>2, SubscribeAssigns DEF Promise!Next
  <2>3. ASSUME NEW c \in Conns, NEW w \in Works, NEW j \in JobIds, RecordNotify(c, w, j)
        PROVE  Promise!Next
    <3>1. extranonce1[c] \in Extranonce1s
      BY <2>3 DEF RecordNotify, Subscribed, TypeOK
    <3>2. QED
      BY <2>3, <3>1, NotifyHands DEF Promise!Next
  <2>4. QED
    BY <2>1, <2>2, <2>3 DEF Next, vars, auditVars, RecordSetDifficulty
<1>3. QED
  BY <1>1, <1>2, AuditInvariant, PTL DEF Spec, KeepsPromise, Promise!Spec

(* A run without a failure had every unit of work under one label and      *)
(* every extranonce1 on one connection, and a run with one did not.        *)
THEOREM FailureCorrect == Spec => []FailureMeansOverlap
<1>1. TypeOK /\ AuditInv => FailureMeansOverlap
  <2> SUFFICES ASSUME TypeOK, AuditInv PROVE FailureMeansOverlap
    OBVIOUS
  <2>1. ASSUME failure = None
        PROVE  /\ \A p, q \in Handed : p[1] = q[1] => p[2] = q[2]
               /\ \A p, q \in Held : p[2] = q[2] => p[1] = q[1]
    <3>1. \A p, q \in Handed : p[1] = q[1] => p[2] = q[2]
      BY <2>1, CleanMeansNoneRelabelled DEF Handed
    <3>2. collisions = <<>>
      BY <2>1 DEF AuditInv, FailureIffEvents
    <3>3. \A p, q \in Held : p[2] = q[2] => p[1] = q[1]
      BY <3>2 DEF AuditInv, CollisionIffShared, Held, Subscribed
    <3>4. QED
      BY <3>1, <3>3
  <2>2. ASSUME \A p, q \in Handed : p[1] = q[1] => p[2] = q[2],
               \A p, q \in Held : p[2] = q[2] => p[1] = q[1]
        PROVE  failure = None
    <3>1. Relabelled = {}
      <4>1. SUFFICES ASSUME NEW k \in DOMAIN log, log[k].label # seen[log[k].digest]
                     PROVE  FALSE
        BY DEF Relabelled
      <4>2. PICK i \in DOMAIN log : /\ log[i].digest = log[k].digest
                                    /\ log[i].label = seen[log[k].digest]
        <5>1. log[k].digest \in Digests /\ seen[log[k].digest] # None
          BY LogTypes DEF AuditInv, RemembersFirsts
        <5>2. QED
          BY <5>1, RememberedIsFirst DEF AuditInv
      <4>3. /\ <<log[i].digest, log[i].label>> \in Handed
            /\ <<log[k].digest, log[k].label>> \in Handed
        BY DEF Handed
      <4>4. QED
        BY <2>2, <4>1, <4>2, <4>3
    <3>2. duplicateEvents = <<>>
      BY <3>1, FS_EmptySet DEF AuditInv, TallyIsRelabelled, TypeOK
    <3>3. collisions = <<>>
      <4>1. SUFFICES ASSUME NEW c \in Conns, NEW d \in Conns, c # d, Subscribed(c),
                            extranonce1[c] = extranonce1[d]
                     PROVE  FALSE
        BY DEF AuditInv, CollisionIffShared
      <4>2. <<c, extranonce1[c]>> \in Held /\ <<d, extranonce1[d]>> \in Held
        BY <4>1 DEF Held, Subscribed, TypeOK
      <4>3. QED
        BY <2>2, <4>1, <4>2
    <3>4. QED
      BY <3>2, <3>3 DEF AuditInv, FailureIffEvents
  <2>3. QED
    BY <2>1, <2>2 DEF FailureMeansOverlap, Promise!CleanIffDisjoint, Clean
<1>2. QED
  BY <1>1, AuditInvariant, PTL
=============================================================================
