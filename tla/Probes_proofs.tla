------------------------------ MODULE Probes_proofs ------------------------------
(***************************************************************************)
(* The probes that count and time.  For any number of connections, any     *)
(* batch and any limit of the pool: the counts of the connection probes.   *)
(* For any number of rounds and whatever the pool sends: no latency is     *)
(* negative, and each is of the block it names if the pool is prompt.      *)
(***************************************************************************)
EXTENDS ConnProbes, LatencyProbe, FiniteSetTheorems, TLAPS

-----------------------------------------------------------------------------
(* ConnProbes *)

Failures == {c \in Conns : conn[c] = "failed"}

LEMMA ConnsFinite == IsFiniteSet(Conns) /\ Cardinality(Conns) = N
BY ConnBoundsAssumption, FS_Interval DEF Conns

LEMMA SubsetFinite ==
    ASSUME NEW S \in SUBSET Conns
    PROVE  IsFiniteSet(S) /\ Cardinality(S) \in 0 .. N
BY ConnsFinite, FS_Subset, FS_CardinalityType

LEMMA OneMore ==
    ASSUME NEW S \in SUBSET Conns, NEW c \in Conns \ S
    PROVE  Cardinality(S \cup {c}) = Cardinality(S) + 1
BY SubsetFinite, FS_AddElement

LEMMA NoMore ==
    ASSUME NEW T \in SUBSET Conns, NEW S \in SUBSET T
    PROVE  Cardinality(S) <= Cardinality(T)
BY SubsetFinite, FS_Subset

LEMMA DisjointSum ==
    ASSUME NEW S \in SUBSET Conns, NEW T \in SUBSET Conns, S \cap T = {}
    PROVE  Cardinality(S) + Cardinality(T) = Cardinality(S \cup T)
<1>1. IsFiniteSet(S) /\ IsFiniteSet(T) /\ Cardinality(S) \in Nat /\ Cardinality(T) \in Nat
    BY SubsetFinite
<1>2. Cardinality(S \cup T) = Cardinality(S) + Cardinality(T) - Cardinality(S \cap T)
    BY <1>1, FS_Union
<1>3. Cardinality(S \cap T) = 0
    BY FS_EmptySet
<1> QED
    BY <1>1, <1>2, <1>3

LEMMA UnionSum ==
    ASSUME NEW S \in SUBSET Conns, NEW T \in SUBSET Conns
    PROVE  Cardinality(S \cup T) <= Cardinality(S) + Cardinality(T)
<1>1. IsFiniteSet(S) /\ IsFiniteSet(T) /\ Cardinality(S) \in Nat /\ Cardinality(T) \in Nat
    BY SubsetFinite
<1>2. Cardinality(S \cup T) = Cardinality(S) + Cardinality(T) - Cardinality(S \cap T)
    BY <1>1, FS_Union
<1>3. Cardinality(S \cap T) \in Nat
    BY SubsetFinite
<1> QED
    BY <1>1, <1>2, <1>3
-----------------------------------------------------------------------------
Counts == established = Cardinality(Up) /\ failed = Cardinality(Failures)

(* conn_probe asks one connection at a time. *)
OneByOne ==
    prog = "conn_probe" =>
        /\ at \in {"open", "reply", "ended"}
        /\ at = "open" => created = established
        /\ at = "reply" => created \in Conns /\ created = established + 1 /\ conn[created] = "asked"
        /\ at \in {"open", "reply"} =>
               \A c \in Conns : /\ c > created => conn[c] = "new"
                                /\ c <= established => conn[c] = "up"

(* Only what the pool took is up, unless it was dropped. *)
UpIsTaken ==
    \A c \in Conns :
        /\ conn[c] = "new" => peer[c] = "none"
        /\ c \in replies => peer[c] = "answered" \/ c \in dropped
        /\ conn[c] = "up" => peer[c] = "answered" \/ c \in dropped
        /\ c \in dropped => peer[c] = "gone"
        /\ conn[c] \in {"failed", "closed"} => peer[c] \in {"none", "gone"}
        /\ peer[c] = "gone" => conn[c] \in {"failed", "closed"} \/ c \in dropped

WithinLimit == Cardinality(Taken) <= limit

ConnInv == ConnTypeOK /\ Counts /\ OneByOne /\ UpIsTaken /\ WithinLimit /\ OvercountIsDrops

LEMMA InitConnInv == ConnInit => ConnInv
<1> SUFFICES ASSUME ConnInit PROVE ConnInv
    OBVIOUS
<1>1. Up = {} /\ Failures = {} /\ Taken = {} /\ dropped = {}
    BY DEF ConnInit, Up, Failures, Taken
<1>2. Cardinality({}) = 0
    BY FS_EmptySet
<1>3. ConnTypeOK
    <2>1. printed \in -1 .. N
        BY ConnBoundsAssumption DEF ConnInit
    <2>2. created \in 0 .. N /\ established \in 0 .. N /\ failed \in 0 .. N
        BY ConnBoundsAssumption DEF ConnInit
    <2> QED
        BY <2>1, <2>2 DEF ConnInit, ConnTypeOK
<1>4. Counts /\ WithinLimit /\ OvercountIsDrops
    BY <1>1, <1>2, ConnBoundsAssumption DEF ConnInit, Counts, WithinLimit, OvercountIsDrops
<1>5. OneByOne /\ UpIsTaken
    BY DEF ConnInit, OneByOne, UpIsTaken, Conns
<1> QED
    BY <1>3, <1>4, <1>5 DEF ConnInv

LEMMA Numbers ==
    ASSUME ConnInv
    PROVE  limit \in Int /\ established \in Int /\ created \in Int /\ \A c \in Conns : c \in Int
<1>1. limit \in 0 .. N /\ established \in 0 .. N /\ created \in 0 .. N
    BY DEF ConnInv, ConnTypeOK
<1> QED
    BY <1>1, ConnBoundsAssumption DEF Conns

(* No connection is counted twice, so no counter passes N. *)
LEMMA CountsWithin ==
    ASSUME Counts
    PROVE  established \in 0 .. N /\ failed \in 0 .. N /\ established + failed <= N
<1>1. Up \subseteq Conns /\ Failures \subseteq Conns /\ Up \cap Failures = {}
    BY DEF Up, Failures
<1>2. Cardinality(Up) + Cardinality(Failures) = Cardinality(Up \cup Failures)
    BY <1>1, DisjointSum
<1>3. /\ Cardinality(Up) \in 0 .. N /\ Cardinality(Failures) \in 0 .. N
      /\ Cardinality(Up \cup Failures) \in 0 .. N
    BY <1>1, SubsetFinite
<1> QED
    BY <1>2, <1>3, ConnBoundsAssumption DEF Counts

LEMMA EstablishedWithin ==
    ASSUME ConnInv
    PROVE  established <= limit + Cardinality(dropped)
<1>1. Up \subseteq Taken \cup dropped /\ Taken \subseteq Conns /\ dropped \subseteq Conns
    BY DEF ConnInv, UpIsTaken, Up, Taken, ConnTypeOK
<1>2. /\ Cardinality(Up) <= Cardinality(Taken \cup dropped)
      /\ Cardinality(Taken \cup dropped) <= Cardinality(Taken) + Cardinality(dropped)
    BY <1>1, NoMore, UnionSum
<1>3. /\ Cardinality(Up) \in Int /\ Cardinality(Taken \cup dropped) \in Int
      /\ Cardinality(Taken) \in Int /\ Cardinality(dropped) \in Int
    BY <1>1, SubsetFinite DEF Up
<1>4. established = Cardinality(Up) /\ Cardinality(Taken) <= limit
    BY DEF ConnInv, Counts, WithinLimit
<1>5. limit \in Int
    <2>1. limit \in 0 .. N
        BY DEF ConnInv, ConnTypeOK
    <2> QED
        BY <2>1, ConnBoundsAssumption
<1> QED
    BY <1>2, <1>3, <1>4, <1>5

-----------------------------------------------------------------------------
(* What each action does to the two sides of a connection. *)

LEMMA OpenNextIsNew ==
    ASSUME ConnInv, OpenNext
    PROVE  created' = established + 1 /\ created' \in Conns /\ conn[created'] = "new" /\ Connect(created')
<1>1. established \in 0 .. N /\ established < N /\ created = established
    BY DEF OpenNext, ConnInv, ConnTypeOK, OneByOne
<1>2. created' \in Conns /\ created' > created
    BY <1>1, ConnBoundsAssumption DEF OpenNext, Conns
<1> QED
    BY <1>2 DEF OpenNext, ConnInv, OneByOne

LEMMA ReplyingIsAsked ==
    ASSUME ConnInv, Hold \/ NotHeld
    PROVE  created \in Conns /\ conn[created] = "asked"
BY DEF ConnInv, OneByOne, Hold, NotHeld

LEMMA Steps ==
    ASSUME ConnInv, [ConnNext]_connVars
    PROVE  \/ UNCHANGED <<conn, peer, dropped, replies, limit, countVars>>
           \/ \E c \in Conns :
                \/ /\ conn[c] = "new" /\ Connect(c)
                   /\ UNCHANGED <<replies, dropped, limit, countVars>>
                \/ /\ Reply(c)
                   /\ UNCHANGED <<failed, peer, dropped, limit>>
                \/ /\ NoReply(c) \/ (conn[c] = "new" /\ peer[c] = "none")
                   /\ Leave(c, "failed") /\ failed' = failed + 1
                   /\ ~faults' => Blameless(c)
                   /\ UNCHANGED <<established, replies, dropped, limit>>
                \/ /\ NoReply(c) /\ Leave(c, "closed")
                   /\ ~faults' => Blameless(c)
                   /\ UNCHANGED <<countVars, replies, dropped, limit>>
                \/ /\ PoolAccepts(c) \/ PoolAnswers(c) \/ PoolDrops(c)
                   /\ UNCHANGED <<conn, limit, countVars>>
<1> USE DEF peerVars, countVars
<1>1. CASE OpenNext
    BY <1>1, OpenNextIsNew DEF OpenNext
<1>2. CASE Hold
    BY <1>2, ReplyingIsAsked DEF Hold
<1>3. CASE NotHeld
    BY <1>3, ReplyingIsAsked DEF NotHeld, StopBecause
<1>4. CASE CreateBatch \/ PrintEstablished \/ Stop \/ ReachCap \/ NotOpened \/ UNCHANGED connVars
    BY <1>4 DEF CreateBatch, PrintEstablished, Stop, ReachCap, NotOpened, StopBecause, connVars
<1>5. ASSUME NEW c \in Conns, TaskConnects(c) \/ TaskEstablished(c)
      PROVE  \/ (conn[c] = "new" /\ Connect(c) /\ UNCHANGED <<replies, dropped, limit, countVars>>)
             \/ Reply(c) /\ UNCHANGED <<failed, peer, dropped, limit>>
    BY <1>5 DEF TaskConnects, TaskEstablished
<1>6. ASSUME NEW c \in Conns, TaskFails(c)
      PROVE  /\ NoReply(c) \/ (conn[c] = "new" /\ peer[c] = "none")
             /\ Leave(c, "failed") /\ failed' = failed + 1
             /\ ~faults' => Blameless(c)
             /\ UNCHANGED <<established, replies, dropped, limit>>
    BY <1>6 DEF TaskFails, ConnInv, UpIsTaken
<1>7. ASSUME NEW c \in Conns, PoolAccepts(c) \/ PoolAnswers(c) \/ PoolDrops(c)
      PROVE  UNCHANGED <<conn, limit, countVars>>
    BY <1>7 DEF PoolAccepts, PoolAnswers, PoolDrops
<1> QED
    BY <1>1, <1>2, <1>3, <1>4, <1>5, <1>6, <1>7 DEF ConnNext, ConnMain

LEMMA NextCounts == ConnInv /\ [ConnNext]_connVars => Counts'
<1> SUFFICES ASSUME ConnInv, [ConnNext]_connVars PROVE Counts'
    OBVIOUS
<1> USE DEF countVars
<1>0. conn \in [Conns -> {"new", "asked", "up", "failed", "closed"}] /\ Up \subseteq Conns /\ Failures \subseteq Conns
    BY DEF ConnInv, ConnTypeOK, Up, Failures
<1>1. ASSUME Up' = Up, Failures' = Failures, UNCHANGED countVars PROVE Counts'
    BY <1>1 DEF ConnInv, Counts
<1>2. CASE UNCHANGED <<conn, countVars>>
    BY <1>1, <1>2 DEF Up, Failures
<1>3. ASSUME NEW c \in Conns, conn[c] = "new", Connect(c), UNCHANGED countVars PROVE Counts'
    <2>1. Up' = Up /\ Failures' = Failures
        BY <1>0, <1>3 DEF Connect, Up, Failures
    <2> QED
        BY <1>1, <1>3, <2>1
<1>4. ASSUME NEW c \in Conns, Reply(c), UNCHANGED failed PROVE Counts'
    <2>1. c \notin Up /\ Up' = Up \cup {c} /\ Failures' = Failures /\ established' = established + 1
        BY <1>0, <1>4 DEF Reply, Up, Failures
    <2>2. Cardinality(Up') = Cardinality(Up) + 1
        BY <1>0, <2>1, OneMore
    <2> QED
        BY <1>4, <2>1, <2>2 DEF ConnInv, Counts
<1>5. ASSUME NEW c \in Conns, conn[c] \in {"asked", "new"}, Leave(c, "failed"), failed' = failed + 1,
             UNCHANGED established
      PROVE  Counts'
    <2>1. c \notin Failures /\ Failures' = Failures \cup {c} /\ Up' = Up
        BY <1>0, <1>5 DEF Leave, Up, Failures
    <2>2. Cardinality(Failures') = Cardinality(Failures) + 1
        BY <1>0, <2>1, OneMore
    <2> QED
        BY <1>5, <2>1, <2>2 DEF ConnInv, Counts
<1>6. ASSUME NEW c \in Conns, NoReply(c), Leave(c, "closed"), UNCHANGED countVars PROVE Counts'
    <2>1. Up' = Up /\ Failures' = Failures
        BY <1>0, <1>6 DEF NoReply, Leave, Up, Failures
    <2> QED
        BY <1>1, <1>6, <2>1
<1> QED
    BY <1>2, <1>3, <1>4, <1>5, <1>6, Steps DEF NoReply

LEMMA NextUpIsTaken == ConnInv /\ [ConnNext]_connVars => UpIsTaken'
<1> SUFFICES ASSUME ConnInv, [ConnNext]_connVars, NEW c \in Conns PROVE UpIsTaken!(c)'
    BY DEF UpIsTaken
<1> USE DEF countVars, ConnInv, ConnTypeOK, UpIsTaken
<1>1. CASE UNCHANGED <<conn, peer, dropped, replies>>
    BY <1>1
<1>2. ASSUME NEW d \in Conns, conn[d] = "new", Connect(d), UNCHANGED <<replies, dropped>>
      PROVE  UpIsTaken!(c)'
    BY <1>2 DEF Connect
<1>3. ASSUME NEW d \in Conns, Reply(d), UNCHANGED <<peer, dropped>> PROVE UpIsTaken!(c)'
    BY <1>3 DEF Reply
<1>4. ASSUME NEW d \in Conns, NEW to \in {"failed", "closed"},
             NoReply(d) \/ (conn[d] = "new" /\ peer[d] = "none"), Leave(d, to), UNCHANGED <<replies, dropped>>
      PROVE  UpIsTaken!(c)'
    BY <1>4 DEF NoReply, Leave
<1>5. ASSUME NEW d \in Conns, PoolAccepts(d) \/ PoolAnswers(d) \/ PoolDrops(d), UNCHANGED conn
      PROVE  UpIsTaken!(c)'
    BY <1>5 DEF PoolAccepts, PoolAnswers, PoolDrops
<1> QED
    BY <1>1, <1>2, <1>3, <1>4, <1>5, Steps

LEMMA NextConnTypeOK == ConnInv /\ [ConnNext]_connVars => ConnTypeOK'
<1> SUFFICES ASSUME ConnInv, [ConnNext]_connVars PROVE ConnTypeOK'
    OBVIOUS
<1> USE DEF peerVars, countVars
<1>1. /\ prog' = prog /\ limit' = limit
      /\ at' \in {"open", "wait", "reply", "hold", "ended"}
      /\ reason' \in {"none", "cap", "local", "refused", "not held"}
    BY DEF ConnInv, ConnTypeOK, ConnNext, ConnMain, connVars, CreateBatch, PrintEstablished, Stop, ReachCap, OpenNext,
           NotOpened, Hold, NotHeld, StopBecause, TaskConnects, TaskEstablished, TaskFails,
           PoolAccepts, PoolAnswers, PoolDrops
<1>2. created' \in 0 .. N
    <2>1. CASE OpenNext
        BY <2>1, OpenNextIsNew DEF Conns
    <2>2. CASE CreateBatch
        <3>1. created \in 0 .. N /\ created' = SmallerOf(created + Batch, N)
            BY <2>2 DEF CreateBatch, ConnInv, ConnTypeOK
        <3> QED
            BY <3>1, ConnBoundsAssumption DEF SmallerOf
    <2>3. CASE created' = created
        BY <2>3 DEF ConnInv, ConnTypeOK
    <2> QED
        BY <2>1, <2>2, <2>3
        DEF ConnNext, ConnMain, connVars, PrintEstablished, Stop, ReachCap, NotOpened, Hold, NotHeld,
            TaskConnects, TaskEstablished, TaskFails, PoolAccepts, PoolAnswers, PoolDrops
<1>3. established' \in 0 .. N /\ failed' \in 0 .. N
    <2>1. Up' \subseteq Conns /\ Failures' \subseteq Conns
        BY DEF Up, Failures
    <2> QED
        BY <2>1, NextCounts, SubsetFinite DEF Counts
<1>4. printed' \in -1 .. N
    <2>1. printed' = printed \/ printed' = established
        BY DEF ConnNext, ConnMain, connVars, CreateBatch, PrintEstablished, Stop, ReachCap, OpenNext,
               NotOpened, Hold, NotHeld, StopBecause, TaskConnects, TaskEstablished, TaskFails,
               PoolAccepts, PoolAnswers, PoolDrops
    <2>2. printed \in -1 .. N /\ established \in 0 .. N
        BY DEF ConnInv, ConnTypeOK
    <2> QED
        BY <2>1, <2>2, ConnBoundsAssumption
<1>5. faults' \in BOOLEAN
    <2>1. \/ faults' = faults \/ faults' = TRUE
          \/ \E c \in Conns : faults' = (faults \/ ~Blameless(c))
          \/ faults' = (faults \/ Room) \/ faults' = (faults \/ established + failed < N)
          \/ faults' = (faults \/ FALSE) \/ faults' = (faults \/ TRUE)
        BY ReplyingIsAsked DEF ConnNext, ConnMain, connVars, CreateBatch, PrintEstablished, Stop, ReachCap, OpenNext,
               NotOpened, Hold, NotHeld, StopBecause, TaskConnects, TaskEstablished, TaskFails,
               PoolAccepts, PoolAnswers, PoolDrops
    <2> QED
        BY <2>1 DEF ConnInv, ConnTypeOK
<1>6. /\ conn' \in [Conns -> {"new", "asked", "up", "failed", "closed"}]
      /\ peer' \in [Conns -> {"none", "waiting", "open", "answered", "gone"}]
      /\ replies' \subseteq Conns /\ dropped' \subseteq Conns
    BY Steps DEF ConnInv, ConnTypeOK, Connect, Reply, Leave, PoolAccepts, PoolAnswers, PoolDrops
<1> QED
    BY <1>1, <1>2, <1>3, <1>4, <1>5, <1>6 DEF ConnInv, ConnTypeOK

LEMMA NextWithinLimit == ConnInv /\ [ConnNext]_connVars => WithinLimit'
<1> SUFFICES ASSUME ConnInv, [ConnNext]_connVars PROVE WithinLimit'
    OBVIOUS
<1>1. Taken \subseteq Conns /\ limit' = limit /\ limit \in Int /\ Cardinality(Taken) \in Int
    <2>1. limit \in 0 .. N
        BY DEF ConnInv, ConnTypeOK
    <2> QED
        BY <2>1, Steps, SubsetFinite, ConnBoundsAssumption DEF Taken
<1>2. ASSUME Taken' \subseteq Taken PROVE WithinLimit'
    <2>1. Cardinality(Taken') <= Cardinality(Taken) /\ Cardinality(Taken') \in Int
        BY <1>1, <1>2, NoMore, SubsetFinite
    <2> QED
        BY <1>1, <2>1 DEF ConnInv, WithinLimit
<1>3. ASSUME NEW c \in Conns, PoolAccepts(c) PROVE WithinLimit'
    <2>1. Taken' = Taken \cup {c} /\ c \notin Taken /\ Room
        BY <1>3 DEF PoolAccepts, Taken, ConnInv, ConnTypeOK
    <2>2. Cardinality(Taken') = Cardinality(Taken) + 1
        BY <1>1, <2>1, OneMore
    <2> QED
        BY <1>1, <2>1, <2>2 DEF Room, WithinLimit
<1>4. CASE peer' = peer
    BY <1>2, <1>4 DEF Taken
<1>5. ASSUME NEW c \in Conns, conn[c] = "new", Connect(c) PROVE WithinLimit'
    BY <1>2, <1>5 DEF Connect, Taken, ConnInv, ConnTypeOK, UpIsTaken
<1>6. ASSUME NEW c \in Conns, NEW to, Leave(c, to) PROVE WithinLimit'
    BY <1>2, <1>6 DEF Leave, Taken, ConnInv, ConnTypeOK
<1>7. ASSUME NEW c \in Conns, PoolAnswers(c) \/ PoolDrops(c) PROVE WithinLimit'
    BY <1>2, <1>7 DEF PoolAnswers, PoolDrops, Taken, ConnInv, ConnTypeOK
<1> QED
    BY <1>3, <1>4, <1>5, <1>6, <1>7, Steps

LEMMA NextOneByOne == ConnInv /\ [ConnNext]_connVars => OneByOne'
<1> SUFFICES ASSUME ConnInv, [ConnNext]_connVars, prog' = "conn_probe" PROVE OneByOne'
    BY DEF OneByOne
<1> USE DEF peerVars, countVars
<1>1. CASE OpenNext
    <2>1. created' = established + 1 /\ created' \in Conns /\ Connect(created') /\ at' = "reply"
        BY <1>1, OpenNextIsNew DEF OpenNext
    <2>2. established \in 0 .. N /\ established' = established /\ created = established
        BY <1>1 DEF OpenNext, ConnInv, ConnTypeOK, OneByOne
    <2>3. conn' = [conn EXCEPT ![created'] = "asked"]
        BY <2>1 DEF Connect
    <2>4. conn'[created'] = "asked"
        BY <2>1, <2>3 DEF ConnInv, ConnTypeOK
    <2>5. ASSUME NEW c \in Conns
          PROVE  /\ c > created' => conn'[c] = "new"
                 /\ c <= established' => conn'[c] = "up"
        <3>1. c \in Int
            BY ConnBoundsAssumption DEF Conns
        <3>2. c # created' => conn'[c] = conn[c]
            BY <2>3 DEF ConnInv, ConnTypeOK
        <3>3. /\ c > created => conn[c] = "new"
              /\ c <= established => conn[c] = "up"
            BY <1>1 DEF OpenNext, ConnInv, OneByOne
        <3> QED
            BY <2>1, <2>2, <3>1, <3>2, <3>3, ConnBoundsAssumption
    <2> QED
        BY <2>1, <2>2, <2>4, <2>5 DEF OneByOne
<1>2. CASE Hold
    <2>1. /\ created \in Conns /\ created = established + 1 /\ at = "reply"
          /\ conn' = [conn EXCEPT ![created] = "up"] /\ established' = established + 1
          /\ created' = created /\ at' = "open"
        BY <1>2 DEF Hold, Reply, ConnInv, OneByOne
    <2>2. ASSUME NEW c \in Conns
          PROVE  /\ c > created' => conn'[c] = "new"
                 /\ c <= established' => conn'[c] = "up"
        <3>1. c \in Int /\ established \in Int
            BY Numbers
        <3>2. /\ c # created => conn'[c] = conn[c]
              /\ conn'[created] = "up"
            BY <2>1 DEF ConnInv, ConnTypeOK
        <3>3. /\ c > created => conn[c] = "new"
              /\ c <= established => conn[c] = "up"
            BY <2>1, <1>2 DEF Hold, ConnInv, OneByOne
        <3> QED
            BY <2>1, <3>1, <3>2, <3>3
    <2> QED
        BY <2>1, <2>2 DEF OneByOne
<1>3. CASE ReachCap \/ NotOpened \/ NotHeld
    BY <1>3 DEF ReachCap, NotOpened, NotHeld, StopBecause, OneByOne
<1>4. CASE UNCHANGED <<prog, at, created, established, conn>>
    BY <1>4 DEF ConnInv, OneByOne
<1>5. prog = "conn_probe"
    BY DEF ConnNext, ConnMain, connVars, CreateBatch, PrintEstablished, Stop, ReachCap, OpenNext,
           NotOpened, Hold, NotHeld, StopBecause, TaskConnects, TaskEstablished, TaskFails,
           PoolAccepts, PoolAnswers, PoolDrops
<1> QED
    BY <1>1, <1>2, <1>3, <1>4, <1>5
    DEF ConnNext, ConnMain, connVars, CreateBatch, PrintEstablished, Stop, TaskConnects, TaskEstablished, TaskFails,
        PoolAccepts, PoolAnswers, PoolDrops

LEMMA NextOvercount == ConnInv /\ [ConnNext]_connVars => OvercountIsDrops'
<1> SUFFICES ASSUME ConnInv, [ConnNext]_connVars PROVE OvercountIsDrops'
    OBVIOUS
<1>1. limit' = limit /\ limit \in Int /\ printed \in Int /\ established \in Int
    <2>1. limit \in 0 .. N /\ printed \in -1 .. N /\ established \in 0 .. N
        BY DEF ConnInv, ConnTypeOK
    <2> QED
        BY <2>1, Steps, ConnBoundsAssumption
<1>2. printed' = printed \/ printed' = established
    BY DEF ConnNext, ConnMain, connVars, peerVars, countVars, CreateBatch, PrintEstablished, Stop, ReachCap, OpenNext,
           NotOpened, Hold, NotHeld, StopBecause, TaskConnects, TaskEstablished, TaskFails,
           PoolAccepts, PoolAnswers, PoolDrops
<1>3. dropped \subseteq dropped' /\ dropped' \subseteq Conns
    <2>1. dropped \subseteq dropped'
        BY Steps DEF PoolAccepts, PoolAnswers, PoolDrops
    <2> QED
        BY <2>1, NextConnTypeOK DEF ConnTypeOK
<1>4. /\ Cardinality(dropped) <= Cardinality(dropped')
      /\ Cardinality(dropped) \in Int /\ Cardinality(dropped') \in Int
    BY <1>3, NoMore, SubsetFinite
<1>5. established <= limit + Cardinality(dropped) /\ printed <= limit + Cardinality(dropped)
    BY EstablishedWithin DEF ConnInv, OvercountIsDrops
<1> QED
    BY <1>1, <1>2, <1>4, <1>5 DEF OvercountIsDrops

THEOREM ProbesInvariant == ConnSpec => []ConnInv
<1>1. ConnInv /\ [ConnNext]_connVars => ConnInv'
    BY NextConnTypeOK, NextCounts, NextOneByOne, NextUpIsTaken, NextWithinLimit, NextOvercount DEF ConnInv
<1> QED
    BY <1>1, InitConnInv, PTL DEF ConnSpec

(* Every variable of the probes has its type. *)
THEOREM ConnTypeCorrect == ConnSpec => []ConnTypeOK
BY ProbesInvariant, PTL DEF ConnInv

(* Every connection is counted at most once, as established or as failed. *)
THEOREM CountedOnceCorrect == ConnSpec => []CountedOnce
<1>1. ConnInv => CountedOnce
    BY CountsWithin DEF ConnInv, Counts, CountedOnce
<1> QED
    BY <1>1, ProbesInvariant, PTL

(* The number printed exceeds the pool's limit by dropped connections only. *)
THEOREM OvercountCorrect == ConnSpec => []OvercountIsDrops
BY ProbesInvariant, PTL DEF ConnInv
-----------------------------------------------------------------------------
(* A steady pool: it has dropped nothing, and once a connection has failed *)
(* it is full and stays so.                                                *)
Steady ==
    ~faults =>
        /\ dropped = {}
        /\ (\E c \in Conns : conn[c] \in {"failed", "closed"}) => Cardinality(Taken) = limit
        /\ printed # -1 => printed = SmallerOf(limit, N)

LEMMA AllUp ==
    ASSUME ConnInv, ~faults, Steady, established = N
    PROVE  established = SmallerOf(limit, N)
<1>1. limit \in 0 .. N
    BY DEF ConnInv, ConnTypeOK
<1>2. Cardinality(dropped) = 0
    BY FS_EmptySet DEF Steady
<1>3. established <= limit
    BY <1>1, <1>2, EstablishedWithin, ConnBoundsAssumption
<1> QED
    BY <1>1, <1>3, ConnBoundsAssumption DEF SmallerOf

LEMMA FullOfUp ==
    ASSUME ConnInv, ~faults, Steady, Cardinality(Taken) = limit, Taken \subseteq Up
    PROVE  established = SmallerOf(limit, N)
<1>1. limit \in 0 .. N
    BY DEF ConnInv, ConnTypeOK
<1>2. Up = Taken
    BY DEF Steady, ConnInv, UpIsTaken, Up, Taken
<1>3. established = limit
    BY <1>2 DEF ConnInv, Counts
<1> QED
    BY <1>1, <1>3, ConnBoundsAssumption DEF SmallerOf

LEMMA FullUnlessRoom ==
    ASSUME ConnInv, ~Room
    PROVE  Cardinality(Taken) = limit
<1>1. limit \in 0 .. N
    BY DEF ConnInv, ConnTypeOK
<1>2. Cardinality(Taken) \in Int
    BY SubsetFinite DEF Taken
<1> QED
    BY <1>1, <1>2, ConnBoundsAssumption DEF Room, ConnInv, WithinLimit

(* What is printed of a steady pool is exact. *)
LEMMA PrintsExact ==
    ASSUME ConnInv, Steady, [ConnNext]_connVars, ~faults', ~faults, printed' # printed
    PROVE  printed' = SmallerOf(limit, N)
<1> USE DEF peerVars, countVars
<1>1. CASE PrintEstablished
    <2>1. ~(established + failed < N) /\ printed' = established
        BY <1>1 DEF PrintEstablished
    <2>2. established + failed = N
        BY <2>1, CountsWithin, ConnBoundsAssumption DEF ConnInv
    <2>3. Up \subseteq Conns /\ Failures \subseteq Conns /\ Up \cap Failures = {}
        BY DEF Up, Failures
    <2>4. Cardinality(Up \cup Failures) = N
        BY <2>2, <2>3, DisjointSum DEF ConnInv, Counts
    <2>5. Up \cup Failures = Conns
        BY <2>3, <2>4, ConnsFinite, FS_Subset
    <2>6. CASE Failures = {}
        <3>1. established = N
            BY <2>5, <2>6, ConnsFinite DEF ConnInv, Counts
        <3> QED
            BY <2>1, <3>1, AllUp
    <2>7. CASE Failures # {}
        <3>1. Cardinality(Taken) = limit
            BY <2>7 DEF Steady, Failures
        <3>2. Taken \subseteq Up
            BY <2>5 DEF Taken, Up, Failures, ConnInv, UpIsTaken
        <3> QED
            BY <2>1, <3>1, <3>2, FullOfUp
    <2> QED
        BY <2>6, <2>7
<1>2. CASE ReachCap
    BY <1>2, AllUp DEF ReachCap, StopBecause
<1>3. CASE NotOpened
    <2>1. ~Room /\ printed' = established
        BY <1>3 DEF NotOpened, StopBecause
    <2>2. Taken \subseteq Up
        <3>1. ASSUME NEW c \in Taken PROVE conn[c] = "up"
            <4>1. c \in Conns /\ c \in Int /\ established \in Int
                BY Numbers DEF Taken
            <4>2. conn[c] # "new"
                BY <3>1 DEF Taken, ConnInv, UpIsTaken
            <4>3. /\ created = established
                  /\ \A d \in Conns : /\ d > created => conn[d] = "new"
                                      /\ d <= established => conn[d] = "up"
                BY <1>3 DEF NotOpened, ConnInv, OneByOne
            <4> QED
                BY <4>1, <4>2, <4>3
        <3> QED
            BY <3>1 DEF Taken, Up
    <2> QED
        BY <2>1, <2>2, FullUnlessRoom, FullOfUp
<1>4. CASE NotHeld
    <2>1. Blameless(created) /\ printed' = established
        BY <1>4 DEF NotHeld, StopBecause
    <2>2. Taken \subseteq Up
        <3>1. ASSUME NEW c \in Taken PROVE conn[c] = "up"
            <4>1. c \in Conns /\ c \in Int /\ established \in Int /\ c # created
                BY <2>1, Numbers DEF Taken, Blameless
            <4>2. conn[c] # "new"
                BY <3>1 DEF Taken, ConnInv, UpIsTaken
            <4>3. /\ created = established + 1
                  /\ \A d \in Conns : /\ d > created => conn[d] = "new"
                                      /\ d <= established => conn[d] = "up"
                BY <1>4 DEF NotHeld, ConnInv, OneByOne
            <4> QED
                BY <4>1, <4>2, <4>3
        <3> QED
            BY <3>1 DEF Taken, Up
    <2> QED
        BY <2>1, <2>2, FullUnlessRoom, FullOfUp DEF Blameless
<1> QED
    BY <1>1, <1>2, <1>3, <1>4
    DEF ConnNext, ConnMain, connVars, CreateBatch, Stop, OpenNext, Hold, TaskConnects, TaskEstablished, TaskFails,
        PoolAccepts, PoolAnswers, PoolDrops

LEMMA NextSteady == ConnInv /\ Steady /\ [ConnNext]_connVars => Steady'
<1> SUFFICES ASSUME ConnInv, Steady, [ConnNext]_connVars, ~faults' PROVE Steady'
    BY DEF Steady
<1> USE DEF peerVars, countVars
<1>1. ~faults
    BY DEF ConnNext, ConnMain, connVars, CreateBatch, PrintEstablished, Stop, ReachCap, OpenNext,
           NotOpened, Hold, NotHeld, StopBecause, TaskConnects, TaskEstablished, TaskFails,
           PoolAccepts, PoolAnswers, PoolDrops
<1>2. limit' = limit
    BY Steps
<1>3. printed' # -1 => printed' = SmallerOf(limit', N)
    BY <1>1, <1>2, PrintsExact DEF Steady
<1>4. dropped' = {}
    BY <1>1, Steps DEF Steady, PoolAccepts, PoolAnswers, PoolDrops
<1>5. (\E c \in Conns : conn'[c] \in {"failed", "closed"}) => Cardinality(Taken') = limit
    <2> USE <1>1
    <2>1. CASE UNCHANGED <<conn, peer>>
        BY <2>1 DEF Steady, Taken
    <2>2. ASSUME NEW d \in Conns, conn[d] = "new", Connect(d) PROVE <1>5
        BY <2>2 DEF Connect, Steady, Taken, ConnInv, ConnTypeOK, UpIsTaken
    <2>3. ASSUME NEW d \in Conns, Reply(d), peer' = peer PROVE <1>5
        BY <2>3 DEF Reply, Steady, Taken, ConnInv, ConnTypeOK
    <2>4. ASSUME NEW d \in Conns, NEW to, Leave(d, to), Blameless(d) PROVE <1>5
        <3>1. Taken' = Taken
            BY <2>4 DEF Leave, Taken, Blameless, ConnInv, ConnTypeOK
        <3> QED
            BY <2>4, <3>1, FullUnlessRoom DEF Blameless
    <2>5. ASSUME NEW d \in Conns, PoolAccepts(d), conn' = conn PROVE <1>5
        <3>1. Cardinality(Taken) # limit
            <4>1. limit \in Int /\ Cardinality(Taken) \in Int
                <5>1. limit \in 0 .. N
                    BY DEF ConnInv, ConnTypeOK
                <5> QED
                    BY <5>1, SubsetFinite, ConnBoundsAssumption DEF Taken
            <4> QED
                BY <2>5, <4>1 DEF PoolAccepts, Room
        <3> QED
            BY <2>5, <3>1 DEF Steady
    <2>6. ASSUME NEW d \in Conns, PoolAnswers(d), conn' = conn PROVE <1>5
        BY <2>6 DEF PoolAnswers, Steady, Taken, ConnInv, ConnTypeOK
    <2>7. ASSUME NEW d \in Conns, PoolDrops(d) PROVE FALSE
        BY <2>7 DEF PoolDrops
    <2> QED
        BY <2>1, <2>2, <2>3, <2>4, <2>5, <2>6, <2>7, Steps
<1> QED
    BY <1>2, <1>3, <1>4, <1>5 DEF Steady

(* With a pool that is steady, the number printed is its limit, or all     *)
(* that was asked for.                                                     *)
THEOREM ExactForSteadyPoolsCorrect == ConnSpec => []ExactForSteadyPools
<1>1. ConnInit => Steady
    BY DEF ConnInit, Steady
<1>2. Steady => ExactForSteadyPools
    BY DEF Steady, ExactForSteadyPools
<1> QED
    BY <1>1, <1>2, NextSteady, ProbesInvariant, PTL DEF ConnSpec
-----------------------------------------------------------------------------
(* LatencyProbe *)

AnyJob == [id : Int, height : Int]

ClockType ==
    /\ clock \in Nat /\ t0 \in Nat /\ notify_ts \in Nat
    /\ new_job \in BOOLEAN
    /\ lats \in Seq([block : Int, t0 : Nat, ts : Nat, job : AnyJob \cup {None}])
    /\ round \in Int
    /\ job_id \in AnyJob \cup {None}
    /\ wire \in Seq(AnyJob)
    /\ poolJob \in AnyJob
    /\ height \in Int

(* Clearing the event and reading t0 are one step, so an event that is set *)
(* in a round was set by a job read after t0.                              *)
EventIsOfThisRound == pc \in {"rpc", "wait"} /\ new_job => notify_ts > t0

ClockInv ==
    /\ ClockType
    /\ t0 <= clock /\ notify_ts <= clock
    /\ EventIsOfThisRound
    /\ LatenciesArePositive

LEMMA InitClock == Init => ClockInv
<1> SUFFICES ASSUME Init PROVE ClockInv
  OBVIOUS
<1>1. poolJob \in AnyJob /\ wire \in Seq(AnyJob) /\ height \in Int
  BY DEF Init, AnyJob
<1>2. lats = <<>>
  BY DEF Init
<1>3. LatenciesArePositive
  BY <1>2 DEF LatenciesArePositive, SampleRange
<1>4. EventIsOfThisRound /\ new_job \in BOOLEAN
  BY Zenon DEF Init, EventIsOfThisRound
<1>5. round = 0 /\ clock = 0 /\ t0 = 0 /\ notify_ts = 0 /\ job_id = None
  BY DEF Init
<1> QED
  BY <1>1, <1>2, <1>3, <1>4, <1>5 DEF ClockInv, ClockType

LEMMA NextClock == ClockInv /\ [Next]_vars => ClockInv'
<1> SUFFICES ASSUME ClockInv, [Next]_vars PROVE ClockInv'
  OBVIOUS
<1> USE DEF ClockInv, ClockType
<1>1. ASSUME UNCHANGED lats PROVE LatenciesArePositive'
  BY <1>1 DEF LatenciesArePositive, SampleRange
<1>2. CASE GotInitialJob
  BY <1>1, <1>2 DEF GotInitialJob, AfterRound, EventIsOfThisRound, clientVars, poolVars
<1>3. CASE NoInitialJob
  BY <1>1, <1>3 DEF NoInitialJob, EventIsOfThisRound, clientVars, poolVars
<1>4. CASE StartRound
  <2>1. EventIsOfThisRound' /\ new_job' \in BOOLEAN
    BY <1>4, Zenon DEF StartRound, EventIsOfThisRound
  <2>2. /\ round' = round + 1 /\ clock' = clock + 1 /\ t0' = clock'
        /\ UNCHANGED <<lats, job_id, notify_ts, wire, height, poolJob>>
    BY <1>4 DEF StartRound, poolVars
  <2> QED
    BY <1>1, <2>1, <2>2
<1>5. CASE MineBlock
  BY <1>1, <1>5 DEF MineBlock, EventIsOfThisRound, clientVars
<1>6. CASE RpcReturns
  BY <1>1, <1>6 DEF RpcReturns, EventIsOfThisRound, clientVars, poolVars
<1>7. CASE RpcFails
  BY <1>1, <1>7 DEF RpcFails, EventIsOfThisRound, clientVars, poolVars
<1>8. CASE RecordSample
  <2> DEFINE s == [block |-> round, t0 |-> t0, ts |-> notify_ts, job |-> job_id]
  <2>1. lats' = Append(lats, s) /\ s.ts > s.t0
    BY <1>8 DEF RecordSample, EventIsOfThisRound
  <2>2. s \in [block : Int, t0 : Nat, ts : Nat, job : AnyJob \cup {None}]
    OBVIOUS
  <2>3. lats' \in Seq([block : Int, t0 : Nat, ts : Nat, job : AnyJob \cup {None}])
    BY <2>1, <2>2
  <2>4. LatenciesArePositive'
    <3> SUFFICES ASSUME NEW i \in DOMAIN lats' PROVE lats'[i].ts > lats'[i].t0
      BY DEF LatenciesArePositive, SampleRange
    <3>1. CASE i \in DOMAIN lats
      BY <2>1, <3>1 DEF LatenciesArePositive, SampleRange
    <3>2. CASE i = Len(lats) + 1
      BY <2>1, <3>2
    <3> QED
      BY <2>1, <3>1, <3>2
  <2>5. pc' \notin {"rpc", "wait"}
    BY <1>8 DEF RecordSample, AfterRound
  <2> QED
    BY <1>8, <2>3, <2>4, <2>5 DEF RecordSample, EventIsOfThisRound, clientVars, poolVars
<1>9. CASE TimeOut
  BY <1>1, <1>9 DEF TimeOut, AfterRound, EventIsOfThisRound, clientVars, poolVars
<1>10. CASE ReadNotify
  <2>1. Head(wire) \in AnyJob /\ wire' \in Seq(AnyJob)
    BY <1>10 DEF ReadNotify
  <2>2. CASE UNCHANGED <<clock, notify_ts, job_id, new_job>>
    BY <1>1, <1>10, <2>1, <2>2 DEF ReadNotify, EventIsOfThisRound, poolVars
  <2>3. CASE /\ clock' = clock + 1 /\ notify_ts' = clock'
             /\ job_id' = Head(wire) /\ new_job' = TRUE
    BY <1>1, <1>10, <2>1, <2>3 DEF ReadNotify, EventIsOfThisRound, poolVars
  <2> QED
    BY <1>10, <2>2, <2>3 DEF ReadNotify, OnNotify
<1>11. CASE EndOfStream
  BY <1>1, <1>11 DEF EndOfStream, EventIsOfThisRound, poolVars
<1>12. CASE Pool
  <2>1. ASSUME SendNewJob
        PROVE  /\ poolJob' \in AnyJob /\ wire' \in Seq(AnyJob)
               /\ UNCHANGED <<pc, round, clock, t0, lats, clientVars, height>>
    <3>1. poolJob' \in AnyJob
      BY <2>1 DEF SendNewJob, AnyJob
    <3> QED
      BY <2>1, <3>1 DEF SendNewJob
  <2>2. CASE PoolSeesBlock \/ PoolRefreshes
    BY <1>1, <2>1, <2>2 DEF PoolSeesBlock, PoolRefreshes, EventIsOfThisRound, clientVars
  <2>3. CASE PoolResends
    BY <1>1, <2>3 DEF PoolResends, EventIsOfThisRound, clientVars
  <2> QED
    BY <1>12, <2>2, <2>3 DEF Pool
<1>13. CASE UNCHANGED vars
  BY <1>1, <1>13 DEF vars, EventIsOfThisRound, clientVars, poolVars
<1> QED
  BY <1>2, <1>3, <1>4, <1>5, <1>6, <1>7, <1>8, <1>9, <1>10, <1>11, <1>12, <1>13
  DEF Next, Main

(* No latency the probe records is negative: a job of an earlier round,    *)
(* however late it comes, does not end a round before its own t0.          *)
THEOREM LatenciesCorrect == Spec => []LatenciesArePositive
<1>1. ClockInv => LatenciesArePositive
  BY DEF ClockInv
<1> QED
  BY InitClock, NextClock, <1>1, PTL DEF Spec
-----------------------------------------------------------------------------
(* Every variable has its type: a round begins only while rounds are left, *)
(* and the event is set only with a job.                                   *)
TypeInv ==
    /\ TypeOK
    /\ pc = "sleep" => round < Rounds
    /\ new_job => job_id # None

LEMMA InitTypes == Init => TypeInv
<1> SUFFICES ASSUME Init PROVE TypeInv
  OBVIOUS
<1>1. [id |-> 0, height |-> 0] \in Jobs
  BY RoundsAssumption DEF Jobs, Heights
<1>2. poolJob \in Jobs /\ wire \in Seq(Jobs)
  BY <1>1 DEF Init
<1>3. new_job = FALSE /\ new_job \in BOOLEAN /\ reading \in BOOLEAN /\ skipped \in BOOLEAN
  BY Zenon DEF Init
<1>4. /\ round \in Heights /\ height \in Heights /\ lats \in Seq(Samples)
      /\ clock \in Nat /\ t0 \in Nat /\ notify_ts \in Nat /\ pc = "initial"
      /\ refreshes \in 0 .. MaxRefreshes /\ resends \in 0 .. MaxResends
  BY RoundsAssumption, BoundsAssumption DEF Init, Heights
<1>5. job_id = None
  BY DEF Init
<1> QED
  BY <1>2, <1>3, <1>4, <1>5 DEF TypeInv, TypeOK

LEMMA NextTypes == TypeInv /\ [Next]_vars => TypeInv'
<1> SUFFICES ASSUME TypeInv, [Next]_vars PROVE TypeInv'
  OBVIOUS
<1> USE RoundsAssumption, BoundsAssumption DEF TypeInv, TypeOK, Heights, clientVars, poolVars
<1>1. CASE GotInitialJob
  BY <1>1 DEF GotInitialJob, AfterRound
<1>2. CASE NoInitialJob
  BY <1>2 DEF NoInitialJob
<1>3. CASE StartRound
  <2>1. new_job' = FALSE /\ new_job' \in BOOLEAN
    BY <1>3, Zenon DEF StartRound
  <2> QED
    BY <1>3, <2>1 DEF StartRound
<1>4. CASE MineBlock
  BY <1>4 DEF MineBlock
<1>5. CASE RpcReturns
  BY <1>5 DEF RpcReturns
<1>6. CASE RpcFails
  BY <1>6 DEF RpcFails
<1>7. CASE RecordSample
  <2> DEFINE s == [block |-> round, t0 |-> t0, ts |-> notify_ts, job |-> job_id]
  <2>1. s \in Samples
    BY <1>7 DEF RecordSample, Samples
  <2>2. lats' \in Seq(Samples)
    BY <1>7, <2>1 DEF RecordSample
  <2> QED
    BY <1>7, <2>2 DEF RecordSample, AfterRound
<1>8. CASE TimeOut
  <2>1. skipped' \in BOOLEAN
    BY <1>8, Zenon DEF TimeOut
  <2> QED
    BY <1>8, <2>1 DEF TimeOut, AfterRound
<1>9. CASE ReadNotify
  <2>1. Head(wire) \in Jobs /\ wire' \in Seq(Jobs) /\ Head(wire) # None
    BY <1>9, NoneAssumption DEF ReadNotify
  <2>2. CASE UNCHANGED <<clock, notify_ts, job_id, new_job>>
    BY <1>9, <2>1, <2>2 DEF ReadNotify
  <2>3. CASE /\ clock' = clock + 1 /\ notify_ts' = clock'
             /\ job_id' = Head(wire) /\ new_job' = TRUE
    BY <1>9, <2>1, <2>3 DEF ReadNotify
  <2> QED
    BY <1>9, <2>2, <2>3 DEF ReadNotify, OnNotify
<1>10. CASE EndOfStream
  <2>1. reading' \in BOOLEAN
    BY <1>10, Zenon DEF EndOfStream
  <2> QED
    BY <1>10, <2>1 DEF EndOfStream
<1>11. CASE Pool
  <2>1. ASSUME SendNewJob PROVE poolJob' \in Jobs /\ wire' \in Seq(Jobs)
    <3>1. poolJob' \in Jobs
      BY <2>1 DEF SendNewJob, Jobs
    <3> QED
      BY <2>1, <3>1 DEF SendNewJob
  <2>2. CASE PoolSeesBlock
    BY <2>1, <2>2 DEF PoolSeesBlock, SendNewJob
  <2>3. CASE PoolRefreshes
    BY <2>1, <2>3 DEF PoolRefreshes, SendNewJob
  <2>4. CASE PoolResends
    BY <2>4 DEF PoolResends
  <2> QED
    BY <1>11, <2>2, <2>3, <2>4 DEF Pool
<1>12. CASE UNCHANGED vars
  BY <1>12 DEF vars
<1> QED
  BY <1>1, <1>2, <1>3, <1>4, <1>5, <1>6, <1>7, <1>8, <1>9, <1>10, <1>11, <1>12
  DEF Next, Main

(* Every variable of the probe has its type. *)
THEOREM TypeCorrect == Spec => []TypeOK
<1>1. TypeInv => TypeOK
  BY DEF TypeInv
<1> QED
  BY InitTypes, NextTypes, <1>1, PTL DEF Spec

-----------------------------------------------------------------------------
(* A pool that sends one new job per block, in time: its job's id is the   *)
(* block's height, and the jobs on the wire lie between the one that was   *)
(* read last and the pool's own.                                           *)
Prompt == refreshes = 0 /\ ~skipped

LastRead == IF job_id = None THEN 0 ELSE job_id.height

PoolIsInStep ==
    /\ poolJob.id = poolJob.height
    /\ poolJob.height <= height /\ height <= poolJob.height + 1
    /\ LastRead <= poolJob.height
    /\ job_id # None => job_id.id = job_id.height
    /\ new_job => job_id # None

WireIsInStep ==
    /\ \A i \in 1 .. Len(wire) :
          wire[i].id = wire[i].height /\ LastRead <= wire[i].height /\ wire[i].height <= poolJob.height
    /\ \A i, j \in 1 .. Len(wire) : i <= j => wire[i].height <= wire[j].height

(* Main's view: between rounds the last job is the last block's; in a      *)
(* round it is the last block's until the event is set.                    *)
MainIsInStep ==
    /\ pc = "initial" => round = 0 /\ height = 0
    /\ pc = "sleep" => height = round /\ job_id # None /\ job_id.height = round
    /\ pc \in {"rpc", "wait"} =>
          /\ height \in {round - 1, round}
          /\ job_id # None
          /\ job_id.height = IF new_job THEN round ELSE round - 1
    /\ pc = "wait" => height = round

SamplesAreExact == \A i \in 1 .. Len(lats) : lats[i].job.height = lats[i].block

StepInv == PoolIsInStep /\ WireIsInStep /\ MainIsInStep /\ SamplesAreExact

PromptInv == refreshes \in Nat /\ (Prompt => StepInv)

LEMMA JobsAreTheirFields ==
    \A a, b \in Jobs : a.id = b.id /\ a.height = b.height => a = b
BY DEF Jobs

LEMMA JobIsNotNone == \A j \in Jobs : j # None
BY NoneAssumption

LEMMA InitPrompt == Init => PromptInv
<1> SUFFICES ASSUME Init PROVE PromptInv
  OBVIOUS
<1>1. /\ poolJob.id = 0 /\ poolJob.height = 0 /\ height = 0 /\ job_id = None /\ round = 0
      /\ wire = <<poolJob>> /\ lats = <<>> /\ pc = "initial" /\ refreshes = 0
  BY DEF Init
<1>2. new_job = FALSE
  BY Zenon DEF Init
<1>3. PoolIsInStep
  BY <1>1, <1>2 DEF PoolIsInStep, LastRead
<1>4. WireIsInStep
  BY <1>1 DEF WireIsInStep, LastRead
<1>5. MainIsInStep /\ SamplesAreExact
  BY <1>1 DEF MainIsInStep, SamplesAreExact
<1> QED
  BY <1>1, <1>3, <1>4, <1>5 DEF PromptInv, StepInv

(* The read task, by the order of the jobs on the wire. *)
LEMMA ReadIsInStep ==
    ASSUME TypeInv, StepInv, ReadNotify
    PROVE  StepInv'
<1> DEFINE n == Head(wire)
<1>1. /\ wire \in Seq(Jobs) /\ wire # <<>> /\ wire' = Tail(wire)
      /\ UNCHANGED <<pc, round, lats, height, poolJob>> /\ ~Ended
  BY DEF ReadNotify, TypeInv, TypeOK, poolVars
<1>2. /\ n = wire[1] /\ n \in Jobs /\ Len(wire) \in Nat /\ 1 \in 1 .. Len(wire)
      /\ Len(wire') = Len(wire) - 1
      /\ \A i \in 1 .. Len(wire') : i + 1 \in 1 .. Len(wire) /\ wire'[i] = wire[i + 1]
  BY <1>1
<1>3. /\ n.id \in Int /\ n.height \in Int /\ poolJob.height \in Int /\ poolJob.id \in Int
      /\ \A i \in 1 .. Len(wire) : wire[i].height \in Int /\ wire[i].id \in Int
      /\ round \in Int /\ height \in Int
  <2>1. \A j \in Jobs : j.id \in Int /\ j.height \in Int
    BY RoundsAssumption DEF Jobs, Heights
  <2>2. poolJob \in Jobs /\ n \in Jobs /\ \A i \in 1 .. Len(wire) : wire[i] \in Jobs
    BY <1>1, <1>2 DEF TypeInv, TypeOK
  <2> QED
    BY <2>1, <2>2, RoundsAssumption DEF TypeInv, TypeOK, Heights
<1>4. n.id = n.height /\ LastRead <= n.height /\ n.height <= poolJob.height
  BY <1>2 DEF StepInv, WireIsInStep
<1>5. \A i \in 1 .. Len(wire') : n.height <= wire'[i].height
  BY <1>2 DEF StepInv, WireIsInStep
<1>6. SamplesAreExact'
  BY <1>1 DEF StepInv, SamplesAreExact
<1>7. \A i, j \in 1 .. Len(wire') : i <= j => wire'[i].height <= wire'[j].height
  <2> SUFFICES ASSUME NEW i \in 1 .. Len(wire'), NEW j \in 1 .. Len(wire'), i <= j
               PROVE  wire'[i].height <= wire'[j].height
    OBVIOUS
  <2>1. i + 1 \in 1 .. Len(wire) /\ j + 1 \in 1 .. Len(wire) /\ i + 1 <= j + 1
    BY <1>2
  <2> QED
    BY <1>2, <2>1 DEF StepInv, WireIsInStep
<1>8. CASE n = job_id /\ UNCHANGED <<job_id, new_job>>
  <2>1. PoolIsInStep' /\ MainIsInStep'
    BY <1>1, <1>8 DEF StepInv, PoolIsInStep, MainIsInStep, LastRead
  <2>2. WireIsInStep'
    BY <1>1, <1>2, <1>7, <1>8 DEF StepInv, WireIsInStep, LastRead
  <2> QED
    BY <1>6, <2>1, <2>2 DEF StepInv
<1>9. CASE n # job_id /\ job_id' = n /\ new_job' = TRUE
  <2>1. LastRead' = n.height \/ n = None
    BY <1>9 DEF LastRead
  <2>2. job_id # None => job_id \in Jobs /\ job_id.height < n.height
    <3> SUFFICES ASSUME job_id # None PROVE job_id \in Jobs /\ job_id.height < n.height
      OBVIOUS
    <3>1. job_id \in Jobs /\ job_id.id = job_id.height /\ LastRead = job_id.height
      BY DEF TypeInv, TypeOK, StepInv, PoolIsInStep, LastRead
    <3>2. job_id.height # n.height
      BY <1>2, <1>4, <1>9, <3>1, JobsAreTheirFields
    <3>3. job_id.height \in Int
      BY <3>1, RoundsAssumption DEF Jobs, Heights
    <3> QED
      BY <1>3, <1>4, <3>1, <3>2, <3>3
  <2>3. n.height <= height
    BY <1>3, <1>4 DEF StepInv, PoolIsInStep
  <2>4. pc # "sleep"
    BY <1>3, <2>2, <2>3 DEF StepInv, MainIsInStep
  <2>5. pc \in {"rpc", "wait"} => ~new_job /\ n.height = round
    BY <1>3, <2>2, <2>3 DEF StepInv, MainIsInStep
  <2>6. n # None
    BY <1>2, JobIsNotNone
  <2>7. MainIsInStep'
    BY <1>1, <1>9, <2>4, <2>5, <2>6 DEF StepInv, MainIsInStep
  <2>8. PoolIsInStep'
    BY <1>1, <1>3, <1>4, <1>9, <2>1, <2>6 DEF StepInv, PoolIsInStep
  <2>9. WireIsInStep'
    BY <1>1, <1>2, <1>5, <1>7, <2>1, <2>6 DEF StepInv, WireIsInStep
  <2> QED
    BY <1>6, <2>7, <2>8, <2>9 DEF StepInv
<1> QED
  BY <1>8, <1>9 DEF ReadNotify, OnNotify

(* The pool appends its own job, the newest one. *)
LEMMA PoolIsInStepStep ==
    ASSUME TypeInv, StepInv, PoolSeesBlock \/ PoolResends
    PROVE  StepInv'
<1>1. /\ wire \in Seq(Jobs) /\ wire' = Append(wire, poolJob')
      /\ UNCHANGED <<pc, round, lats, clientVars, height>>
      /\ \/ poolJob' = poolJob
         \/ poolJob' = [id |-> poolJob.id + 1, height |-> height] /\ poolJob.height < height
  <2>1. wire \in Seq(Jobs)
    BY DEF TypeInv, TypeOK
  <2>2. CASE PoolSeesBlock
    BY <2>1, <2>2 DEF PoolSeesBlock, SendNewJob
  <2>3. CASE PoolResends
    <3>1. poolJob' = poolJob /\ wire' = Append(wire, poolJob)
      BY <2>3 DEF PoolResends
    <3>2. wire' = Append(wire, poolJob')
      BY <3>1
    <3>3. UNCHANGED <<pc, round, lats, clientVars, height>>
      BY <2>3 DEF PoolResends
    <3> QED
      BY <2>1, <3>1, <3>2, <3>3
  <2> QED
    BY <2>2, <2>3
<1>2. /\ height \in Int /\ round \in Int /\ poolJob.height \in Int /\ poolJob.id \in Int
      /\ \A i \in 1 .. Len(wire) : wire[i].height \in Int
  <2>1. \A j \in Jobs : j.id \in Int /\ j.height \in Int
    BY RoundsAssumption DEF Jobs, Heights
  <2>2. poolJob \in Jobs /\ \A i \in 1 .. Len(wire) : wire[i] \in Jobs
    BY <1>1 DEF TypeInv, TypeOK
  <2> QED
    BY <2>1, <2>2, RoundsAssumption DEF TypeInv, TypeOK, Heights
<1>3. /\ poolJob'.id = poolJob'.height /\ poolJob'.height \in Int
      /\ poolJob.height <= poolJob'.height /\ poolJob'.height <= height
      /\ height <= poolJob'.height + 1
  BY <1>1, <1>2 DEF StepInv, PoolIsInStep
<1>4. LastRead' = LastRead /\ LastRead \in Int
  <2>1. job_id # None => job_id \in Jobs
    BY DEF TypeInv, TypeOK
  <2> QED
    BY <1>1, <2>1, RoundsAssumption DEF LastRead, clientVars, Jobs, Heights
<1>5. PoolIsInStep'
  BY <1>1, <1>2, <1>3, <1>4 DEF StepInv, PoolIsInStep, clientVars
<1>6. WireIsInStep'
  <2>1. /\ Len(wire) \in Nat /\ Len(wire') = Len(wire) + 1
        /\ \A i \in 1 .. Len(wire) : wire'[i] = wire[i]
        /\ wire'[Len(wire) + 1] = poolJob'
        /\ \A i \in 1 .. Len(wire') : i \in 1 .. Len(wire) \/ i = Len(wire) + 1
    BY <1>1
  <2>2. \A i \in 1 .. Len(wire') :
            /\ wire'[i].id = wire'[i].height /\ LastRead <= wire'[i].height
            /\ wire'[i].height <= poolJob'.height
    <3> SUFFICES ASSUME NEW i \in 1 .. Len(wire')
                 PROVE  /\ wire'[i].id = wire'[i].height /\ LastRead <= wire'[i].height
                        /\ wire'[i].height <= poolJob'.height
      OBVIOUS
    <3>1. CASE i \in 1 .. Len(wire)
      <4>1. /\ wire[i].id = wire[i].height /\ LastRead <= wire[i].height
            /\ wire[i].height <= poolJob.height /\ wire[i].height \in Int
        BY <1>2, <3>1 DEF StepInv, WireIsInStep
      <4> QED
        BY <1>2, <1>3, <1>4, <2>1, <3>1, <4>1
    <3>2. CASE i = Len(wire) + 1
      BY <1>2, <1>3, <1>4, <2>1, <3>2 DEF StepInv, PoolIsInStep
    <3> QED
      BY <2>1, <3>1, <3>2
  <2>3. \A i, j \in 1 .. Len(wire') : i <= j => wire'[i].height <= wire'[j].height
    <3> SUFFICES ASSUME NEW i \in 1 .. Len(wire'), NEW j \in 1 .. Len(wire'), i <= j
                 PROVE  wire'[i].height <= wire'[j].height
      OBVIOUS
    <3>1. CASE j \in 1 .. Len(wire)
      <4>1. i \in 1 .. Len(wire)
        BY <2>1, <3>1
      <4> QED
        BY <2>1, <3>1, <4>1 DEF StepInv, WireIsInStep
    <3>2. CASE j = Len(wire) + 1
      BY <2>1, <2>2, <3>2
    <3> QED
      BY <2>1, <3>1, <3>2
  <2> QED
    BY <1>4, <2>2, <2>3 DEF WireIsInStep
<1>7. MainIsInStep' /\ SamplesAreExact'
  BY <1>1 DEF StepInv, MainIsInStep, SamplesAreExact, clientVars
<1> QED
  BY <1>5, <1>6, <1>7 DEF StepInv

(* Main and bitcoind, which move on only with the job of the block. *)
LEMMA MainStaysInStep ==
    ASSUME TypeInv, StepInv,
           \/ GotInitialJob \/ NoInitialJob \/ StartRound \/ MineBlock \/ RpcReturns
           \/ RpcFails \/ RecordSample
    PROVE  StepInv'
<1> USE DEF clientVars, poolVars
<1>1. UNCHANGED <<wire, job_id, poolJob>>
  BY DEF GotInitialJob, NoInitialJob, StartRound, MineBlock, RpcReturns, RpcFails, RecordSample
<1>2. WireIsInStep'
  BY <1>1 DEF StepInv, WireIsInStep, LastRead
<1>3. /\ height \in Int /\ round \in Int /\ poolJob.height \in Int /\ height >= 0
      /\ (job_id # None => job_id.height \in Int /\ job_id.height >= 0)
  <2>1. \A j \in Jobs : j.height \in Int /\ j.height >= 0
    BY RoundsAssumption DEF Jobs, Heights
  <2>2. poolJob \in Jobs /\ height \in Heights /\ round \in Heights /\ (job_id # None => job_id \in Jobs)
    BY DEF TypeInv, TypeOK
  <2> QED
    BY <2>1, <2>2, RoundsAssumption DEF Heights
<1>4. CASE GotInitialJob
  <2>1. /\ pc = "initial" /\ new_job /\ pc' \in {"sleep", "reported"}
        /\ UNCHANGED <<round, lats, clientVars, poolVars>>
    BY <1>4 DEF GotInitialJob, AfterRound
  <2>2. job_id # None /\ job_id.height = 0 /\ height = 0 /\ round = 0
    BY <1>3, <2>1 DEF StepInv, MainIsInStep, PoolIsInStep, LastRead
  <2>3. PoolIsInStep' /\ MainIsInStep' /\ SamplesAreExact'
    BY <2>1, <2>2 DEF StepInv, PoolIsInStep, MainIsInStep, SamplesAreExact, LastRead
  <2> QED
    BY <1>2, <2>3 DEF StepInv
<1>5. CASE NoInitialJob \/ RpcFails
  <2>1. pc' \in {"noJob", "crashed"} /\ UNCHANGED <<round, lats, clientVars, poolVars>>
    BY <1>5 DEF NoInitialJob, RpcFails
  <2>2. PoolIsInStep' /\ MainIsInStep' /\ SamplesAreExact'
    BY <2>1 DEF StepInv, PoolIsInStep, MainIsInStep, SamplesAreExact, LastRead
  <2> QED
    BY <1>2, <2>2 DEF StepInv
<1>6. CASE StartRound
  <2>1. /\ pc = "sleep" /\ pc' = "rpc" /\ round' = round + 1 /\ ~new_job'
        /\ UNCHANGED <<lats, job_id, poolVars>>
    BY <1>6 DEF StartRound
  <2>2. job_id # None /\ job_id.height = round /\ height = round
    BY <2>1 DEF StepInv, MainIsInStep
  <2>3. PoolIsInStep' /\ MainIsInStep' /\ SamplesAreExact'
    BY <1>3, <2>1, <2>2 DEF StepInv, PoolIsInStep, MainIsInStep, SamplesAreExact, LastRead
  <2> QED
    BY <1>2, <2>3 DEF StepInv
<1>7. CASE MineBlock
  <2>1. /\ pc = "rpc" /\ pc' = pc /\ height < round /\ height' = round
        /\ UNCHANGED <<round, lats, clientVars, poolJob>>
    BY <1>7 DEF MineBlock
  <2>2. job_id # None /\ job_id.height >= round - 1 /\ job_id.height = LastRead /\ height = round - 1
    BY <1>3, <2>1 DEF StepInv, MainIsInStep, LastRead
  <2>3. PoolIsInStep' /\ MainIsInStep' /\ SamplesAreExact'
    BY <1>3, <2>1, <2>2 DEF StepInv, PoolIsInStep, MainIsInStep, SamplesAreExact, LastRead
  <2> QED
    BY <1>2, <2>3 DEF StepInv
<1>8. CASE RpcReturns
  <2>1. /\ pc = "rpc" /\ pc' = "wait" /\ height = round
        /\ UNCHANGED <<round, lats, clientVars, poolVars>>
    BY <1>8 DEF RpcReturns
  <2>2. PoolIsInStep' /\ MainIsInStep' /\ SamplesAreExact'
    BY <2>1 DEF StepInv, PoolIsInStep, MainIsInStep, SamplesAreExact, LastRead
  <2> QED
    BY <1>2, <2>2 DEF StepInv
<1>9. CASE RecordSample
  <2> DEFINE s == [block |-> round, t0 |-> t0, ts |-> notify_ts, job |-> job_id]
  <2>1. /\ pc = "wait" /\ new_job /\ pc' \in {"sleep", "reported"} /\ lats' = Append(lats, s)
        /\ UNCHANGED <<round, clientVars, poolVars>> /\ lats \in Seq(Samples)
    BY <1>9 DEF RecordSample, AfterRound, TypeInv, TypeOK
  <2>2. job_id # None /\ job_id.height = round /\ height = round
    BY <2>1 DEF StepInv, MainIsInStep
  <2>3. SamplesAreExact'
    <3>1. /\ Len(lats) \in Nat /\ Len(lats') = Len(lats) + 1
          /\ \A i \in 1 .. Len(lats) : lats'[i] = lats[i]
          /\ lats'[Len(lats) + 1] = s
          /\ \A i \in 1 .. Len(lats') : i \in 1 .. Len(lats) \/ i = Len(lats) + 1
      BY <2>1
    <3>2. s.job.height = s.block
      BY <2>2
    <3> QED
      BY <3>1, <3>2 DEF StepInv, SamplesAreExact
  <2>4. PoolIsInStep' /\ MainIsInStep'
    BY <2>1, <2>2 DEF StepInv, PoolIsInStep, MainIsInStep, LastRead
  <2> QED
    BY <1>2, <2>3, <2>4 DEF StepInv
<1> QED
  BY <1>4, <1>5, <1>6, <1>7, <1>8, <1>9

LEMMA NextPrompt == TypeInv /\ PromptInv /\ [Next]_vars => PromptInv'
<1> SUFFICES ASSUME TypeInv, PromptInv, [Next]_vars PROVE PromptInv'
  OBVIOUS
<1>0. refreshes \in Nat
  BY DEF PromptInv
<1>1. CASE GotInitialJob \/ NoInitialJob \/ StartRound \/ MineBlock \/ RpcReturns \/ RpcFails \/ RecordSample
  <2>1. UNCHANGED <<refreshes, skipped>>
    BY <1>1 DEF GotInitialJob, NoInitialJob, StartRound, MineBlock, RpcReturns, RpcFails, RecordSample, poolVars
  <2> QED
    BY <1>1, <2>1, MainStaysInStep DEF PromptInv, Prompt
<1>2. CASE ReadNotify
  <2>1. UNCHANGED <<refreshes, skipped>>
    BY <1>2 DEF ReadNotify, poolVars
  <2> QED
    BY <1>2, <2>1, ReadIsInStep DEF PromptInv, Prompt
<1>3. CASE PoolSeesBlock \/ PoolResends
  <2>1. UNCHANGED <<refreshes, skipped>>
    BY <1>3 DEF PoolSeesBlock, PoolResends, SendNewJob
  <2> QED
    BY <1>3, <2>1, PoolIsInStepStep DEF PromptInv, Prompt
<1>4. CASE TimeOut
  <2>1. ~Prompt' /\ refreshes' = refreshes
    BY <1>4 DEF TimeOut, Prompt, poolVars
  <2> QED
    BY <1>0, <2>1 DEF PromptInv
<1>5. CASE PoolRefreshes
  <2>1. refreshes' \in Nat /\ refreshes' # 0
    BY <1>0, <1>5 DEF PoolRefreshes
  <2> QED
    BY <2>1 DEF PromptInv, Prompt
<1>6. CASE EndOfStream \/ UNCHANGED vars
  <2>1. UNCHANGED <<pc, round, lats, job_id, new_job, wire, height, poolJob, refreshes, skipped>>
    BY <1>6 DEF EndOfStream, vars, clientVars, poolVars
  <2> QED
    BY <2>1 DEF PromptInv, Prompt, StepInv, PoolIsInStep, WireIsInStep, MainIsInStep,
                SamplesAreExact, LastRead
<1> QED
  BY <1>1, <1>2, <1>3, <1>4, <1>5, <1>6 DEF Next, Main, Pool

(* Against a pool that announces every block once and in time, a sample is *)
(* the delay of its own block, for any number of rounds and repeats.       *)
THEOREM ExactCorrect == Spec => []ExactForPromptPools
<1>1. TypeInv /\ PromptInv => ExactForPromptPools
  BY DEF TypeInv, TypeOK, PromptInv, Prompt, StepInv, SamplesAreExact, ExactForPromptPools, SampleRange
<1> QED
  BY InitTypes, NextTypes, InitPrompt, NextPrompt, <1>1, PTL DEF Spec
==================================================================================
