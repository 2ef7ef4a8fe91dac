----------------------------- MODULE LoadGen_proofs -----------------------------
(***************************************************************************)
(* The slots, the counts and the result line of the load generator, for    *)
(* any number of connections, processes, slots and submits.                *)
(***************************************************************************)
EXTENDS LoadGen, FiniteSetTheorems, WellFoundedInduction, TLAPS

(* What the slots depend on: the ids in flight are ids in use, so that a   *)
(* new submit's id is not among them.                                      *)
SlotsType ==
    /\ free \in [Clients -> Nat]
    /\ sent \in [Clients -> Nat]
    /\ pending \in [Clients -> SUBSET Nat]

PendingInUse ==
    \A c \in Clients : IsFiniteSet(pending[c]) /\ \A id \in pending[c] : id <= sent[c]

SlotsInv == SlotsType /\ PendingInUse /\ SlotsConserved

slotVars == <<free, pending, sent>>

(* One more submit in flight takes one slot. *)
LEMMA SubmitKeepsSlots ==
    ASSUME SlotsInv, NEW c \in Clients, Submit(c)
    PROVE  SlotsInv'
<1> USE DEF SlotsInv, SlotsType
<1>1. /\ free' = [free EXCEPT ![c] = @ - 1]
      /\ sent' = [sent EXCEPT ![c] = @ + 1]
      /\ pending' = [pending EXCEPT ![c] = @ \cup {sent'[c]}]
      /\ free[c] > 0
  BY DEF Submit
<1>2. sent'[c] = sent[c] + 1 /\ sent'[c] \in Nat
  BY <1>1
<1>3. SlotsType'
  BY <1>1, <1>2
<1>4. sent'[c] \notin pending[c]
  BY <1>2 DEF PendingInUse
<1>5. /\ IsFiniteSet(pending'[c])
      /\ Cardinality(pending'[c]) = Cardinality(pending[c]) + 1
  <2>1. IsFiniteSet(pending[c])
    BY DEF PendingInUse
  <2>2. pending'[c] = pending[c] \cup {sent'[c]}
    BY <1>1
  <2> HIDE DEF SlotsInv, SlotsType
  <2>3. /\ IsFiniteSet(pending[c] \cup {sent'[c]})
        /\ Cardinality(pending[c] \cup {sent'[c]}) = Cardinality(pending[c]) + 1
    BY <2>1, <1>4, FS_AddElement
  <2> QED
    BY <2>2, <2>3
<1>6. PendingInUse'
  <2>1. ASSUME NEW d \in Clients PROVE IsFiniteSet(pending'[d])
    BY <1>1, <1>5, <2>1 DEF PendingInUse
  <2>2. ASSUME NEW d \in Clients, NEW id \in pending'[d] PROVE id <= sent'[d]
    BY <1>1, <1>2, <2>2 DEF PendingInUse
  <2> QED
    BY <2>1, <2>2 DEF PendingInUse
<1>7. SlotsConserved'
  <2> SUFFICES ASSUME NEW d \in Clients
               PROVE  free'[d] + Cardinality(pending'[d]) = Pipeline
    BY DEF SlotsConserved
  <2>1. Cardinality(pending[d]) \in Nat
    BY FS_CardinalityType DEF PendingInUse
  <2>2. free[d] + Cardinality(pending[d]) = Pipeline
    BY DEF SlotsConserved
  <2>3. CASE d = c
    BY <1>1, <1>5, <2>1, <2>2, <2>3
  <2>4. CASE d # c
    BY <1>1, <2>2, <2>4
  <2> QED
    BY <2>3, <2>4
<1> QED
  BY <1>3, <1>6, <1>7

(* A first answer gives a slot back, a second one nothing. *)
LEMMA AnswerKeepsSlots ==
    ASSUME SlotsInv, NEW c \in Clients, NEW id, OnAnswer(c, id), UNCHANGED sent
    PROVE  SlotsInv'
<1> USE DEF SlotsInv, SlotsType
<1>1. CASE id \notin pending[c] /\ UNCHANGED <<pending, free>>
  BY <1>1 DEF PendingInUse, SlotsConserved
<1>2. CASE /\ id \in pending[c]
           /\ pending' = [pending EXCEPT ![c] = @ \ {id}]
           /\ free' = [free EXCEPT ![c] = @ + 1]
  <2>1. SlotsType'
    BY <1>2
  <2>2. IsFiniteSet(pending[c])
    BY DEF PendingInUse
  <2>3. /\ IsFiniteSet(pending'[c])
        /\ Cardinality(pending'[c]) = Cardinality(pending[c]) - 1
    <3>1. pending'[c] = pending[c] \ {id}
      BY <1>2
    <3> QED
      BY <3>1, <1>2, <2>2, FS_RemoveElement
  <2>4. PendingInUse'
    <3>1. ASSUME NEW d \in Clients
          PROVE  IsFiniteSet(pending'[d]) /\ \A i \in pending'[d] : i <= sent'[d]
      BY <1>2, <2>3, <3>1 DEF PendingInUse
    <3> QED
      BY <3>1 DEF PendingInUse
  <2>5. SlotsConserved'
    <3> SUFFICES ASSUME NEW d \in Clients
                 PROVE  free'[d] + Cardinality(pending'[d]) = Pipeline
      BY DEF SlotsConserved
    <3>1. Cardinality(pending[d]) \in Nat
      BY FS_CardinalityType DEF PendingInUse
    <3>2. free[d] + Cardinality(pending[d]) = Pipeline
      BY DEF SlotsConserved
    <3>3. CASE d = c
      BY <1>2, <2>3, <3>1, <3>2, <3>3
    <3>4. CASE d # c
      BY <1>2, <3>2, <3>4
    <3> QED
      BY <3>3, <3>4
  <2> QED
    BY <2>1, <2>4, <2>5
<1> QED
  BY <1>1, <1>2 DEF OnAnswer

(* The other steps of a connection leave the slots alone. *)
LEMMA OtherTasksKeepSlots ==
    ASSUME NEW c \in Clients,
           Connect(c) \/ Drained(c) \/ WriteFails(c) \/ FloodStops(c) \/ EndOfStream(c)
    PROVE  UNCHANGED slotVars
<1>1. CASE Connect(c)
  BY <1>1 DEF Connect, slotVars
<1>2. CASE Drained(c)
  BY <1>2 DEF Drained, slotVars
<1>3. CASE WriteFails(c)
  BY <1>3 DEF WriteFails, slotVars
<1>4. CASE FloodStops(c)
  BY <1>4 DEF FloodStops, slotVars
<1>5. CASE EndOfStream(c)
  BY <1>5 DEF EndOfStream, slotVars
<1> QED
  BY <1>1, <1>2, <1>3, <1>4, <1>5

(* So do the processes and the main program. *)
LEMMA ControlKeepsSlots ==
    ASSUME Main \/ \E p \in Active : Controller(p)
    PROVE  UNCHANGED slotVars
<1>1. CASE Main
  BY <1>1 DEF Main, BarrierReleases, BarrierBreaks, Emit, taskVars, slotVars
<1>2. ASSUME NEW p \in Active, Controller(p)
      PROVE  UNCHANGED slotVars
  <2>1. CASE ArriveAtBarrier(p)
    BY <2>1 DEF ArriveAtBarrier, taskVars, slotVars
  <2>2. CASE StartFloods(p)
    BY <2>2 DEF StartFloods, slotVars
  <2>3. CASE ConnectFails(p)
    BY <2>3 DEF ConnectFails, taskVars, slotVars
  <2>4. CASE Reset(p)
    BY <2>4 DEF Reset, slotVars
  <2>5. CASE CloseWindow(p)
    BY <2>5 DEF CloseWindow, taskVars, slotVars
  <2>6. CASE Finish(p)
    BY <2>6 DEF Finish, slotVars
  <2> QED
    BY <1>2, <2>1, <2>2, <2>3, <2>4, <2>5, <2>6 DEF Controller
<1> QED
  BY <1>1, <1>2

LEMMA InitSlots == Init => SlotsInv
<1> SUFFICES ASSUME Init PROVE SlotsInv
  OBVIOUS
<1>1. SlotsType
  BY PipelineAssumption DEF Init, SlotsType
<1>2. ASSUME NEW c \in Clients
      PROVE  pending[c] = {} /\ free[c] = Pipeline
  BY DEF Init
<1>3. IsFiniteSet({}) /\ Cardinality({}) = 0
  BY FS_EmptySet
<1>4. PendingInUse
  BY <1>2, <1>3 DEF PendingInUse
<1>5. SlotsConserved
  BY <1>2, <1>3, PipelineAssumption DEF SlotsConserved
<1> QED
  BY <1>1, <1>4, <1>5 DEF SlotsInv

LEMMA NextSlots == SlotsInv /\ [Next]_vars => SlotsInv'
<1> SUFFICES ASSUME SlotsInv, [Next]_vars PROVE SlotsInv'
  OBVIOUS
<1>1. ASSUME UNCHANGED slotVars PROVE SlotsInv'
  BY <1>1 DEF SlotsInv, SlotsType, PendingInUse, SlotsConserved, slotVars
<1>2. CASE Main \/ \E p \in Active : Controller(p)
  BY <1>1, <1>2, ControlKeepsSlots
<1>3. ASSUME NEW c \in Clients, Task(c)
      PROVE  SlotsInv'
  <2>1. CASE Submit(c)
    BY <2>1, SubmitKeepsSlots
  <2>2. ASSUME NEW id \in 1 .. sent[c], ReadAnswer(c, id)
        PROVE  SlotsInv'
    <3>1. OnAnswer(c, id) /\ UNCHANGED sent
      BY <2>2 DEF ReadAnswer
    <3> QED
      BY <3>1, AnswerKeepsSlots
  <2>3. CASE Connect(c) \/ Drained(c) \/ WriteFails(c) \/ FloodStops(c) \/ EndOfStream(c)
    BY <1>1, <2>3, OtherTasksKeepSlots
  <2> QED
    BY <1>3, <2>1, <2>2, <2>3 DEF Task
<1>4. CASE UNCHANGED vars
  BY <1>1, <1>4 DEF vars, taskVars, slotVars
<1> QED
  BY <1>2, <1>3, <1>4 DEF Next

(* The slots of a connection and its submits in flight always add up to    *)
(* --pipeline, whatever the pool answers, repeats or leaves unanswered.    *)
THEOREM SlotsCorrect == Spec => []SlotsConserved
<1>1. SlotsInv => SlotsConserved
  BY DEF SlotsInv
<1> QED
  BY InitSlots, NextSlots, <1>1, PTL DEF Spec
-----------------------------------------------------------------------------
(* divmod deals every connection to exactly one process. *)
LEMMA MinOfTwo ==
    ASSUME NEW a \in Int, NEW b \in Int
    PROVE  Min({a, b}) = IF a <= b THEN a ELSE b
<1>1. \E x \in {a, b} : \A y \in {a, b} : x <= y
  OBVIOUS
<1>2. Min({a, b}) \in {a, b} /\ \A y \in {a, b} : Min({a, b}) <= y
  BY <1>1 DEF Min
<1> QED
  BY <1>2

LEMMA QuotientAndRest ==
    ASSUME NEW n \in Nat, NEW w \in 1 .. n
    PROVE  /\ n \div w \in Nat \ {0} /\ n % w \in 0 .. w - 1
           /\ n = (n \div w) * w + (n % w)
BY SMTT(10)

LEMMA AmongTheLonger ==
    ASSUME NEW q \in Nat \ {0}, NEW w \in Nat \ {0}, NEW r \in 0 .. w - 1,
           NEW c \in 0 .. (q * w + r) - 1, c < r * (q + 1), NEW p, p = c \div (q + 1)
    PROVE  p \in 0 .. w - 1 /\ p < r /\ p * q + p <= c /\ c < p * q + p + q + 1
BY SMTT(30)

LEMMA AmongTheShorter ==
    ASSUME NEW q \in Nat \ {0}, NEW w \in Nat \ {0}, NEW r \in 0 .. w - 1,
           NEW c \in 0 .. (q * w + r) - 1, c >= r * (q + 1), NEW p, p = (c - r) \div q
    PROVE  p \in 0 .. w - 1 /\ p >= r /\ p * q + r <= c /\ c < p * q + r + q
BY SMTT(30)

LEMMA EarlierEndsFirst ==
    ASSUME NEW a \in Nat, NEW b \in Nat, NEW q \in Nat, a < b
    PROVE  a * q + q <= b * q
OBVIOUS

(* Where the connections of a process begin and end. *)
LEMMA Deal ==
    ASSUME workers \in 1 .. MaxWorkers, NEW q, q = Connections \div workers,
           NEW r, r = Connections % workers
    PROVE  /\ q \in Nat \ {0} /\ workers \in Nat \ {0} /\ r \in 0 .. workers - 1
           /\ Connections = q * workers + r
           /\ \A p \in Active :
                  /\ p \in Nat /\ p * q \in Nat /\ p < workers
                  /\ Load(p) = q + (IF p < r THEN 1 ELSE 0)
                  /\ p < r => ClientsOf(p) = p * q + p .. p * q + p + q
                  /\ p >= r => ClientsOf(p) = p * q + r .. p * q + r + q - 1
<1>1. /\ q \in Nat \ {0} /\ workers \in Nat \ {0} /\ r \in 0 .. workers - 1
      /\ Connections = q * workers + r
  <2>1. Connections \in Nat /\ workers \in 1 .. Connections
    BY ConnectionsAssumption, MaxWorkersAssumption
  <2>2. /\ Connections \div workers \in Nat \ {0} /\ Connections % workers \in 0 .. workers - 1
        /\ Connections = (Connections \div workers) * workers + (Connections % workers)
    BY <2>1, QuotientAndRest
  <2> QED
    BY <2>1, <2>2
<1>2. \A p \in Active :
          /\ First(p) = p * q + (IF p < r THEN p ELSE r)
          /\ Load(p) = q + (IF p < r THEN 1 ELSE 0)
  <2> SUFFICES ASSUME NEW p \in Active
               PROVE  /\ First(p) = p * q + (IF p < r THEN p ELSE r)
                      /\ Load(p) = q + (IF p < r THEN 1 ELSE 0)
    OBVIOUS
  <2>1. p \in Nat
    BY <1>1 DEF Active
  <2>2. Min({p, r}) = IF p <= r THEN p ELSE r
    BY <1>1, <2>1, MinOfTwo
  <2>3. Min({p, r}) = IF p < r THEN p ELSE r
    BY <1>1, <2>1, <2>2
  <2> QED
    BY <2>3 DEF First, Load
<1>3. ASSUME NEW p \in Active
      PROVE  /\ p \in Nat /\ p * q \in Nat /\ p < workers
             /\ p < r => ClientsOf(p) = p * q + p .. p * q + p + q
             /\ p >= r => ClientsOf(p) = p * q + r .. p * q + r + q - 1
  <2>1. p \in Nat /\ p * q \in Nat /\ p < workers
    BY <1>1 DEF Active
  <2>2. p < r => First(p) = p * q + p /\ First(p) + Load(p) - 1 = p * q + p + q
    BY <1>1, <1>2, <2>1
  <2>3. p >= r => First(p) = p * q + r /\ First(p) + Load(p) - 1 = p * q + r + q - 1
    BY <1>1, <1>2, <2>1
  <2> QED
    BY <2>1, <2>2, <2>3 DEF ClientsOf
<1> QED
  BY <1>1, <1>2, <1>3

LEMMA DealtOnce ==
    ASSUME workers \in 1 .. MaxWorkers
    PROVE  /\ \A c \in Clients : \E p \in Active : c \in ClientsOf(p)
           /\ \A c, p1, p2 : p1 \in Active /\ p2 \in Active
                                /\ c \in ClientsOf(p1) /\ c \in ClientsOf(p2) => p1 = p2
<1>0. PICK q, r : q = Connections \div workers /\ r = Connections % workers
  OBVIOUS
<1>1. /\ q \in Nat \ {0} /\ workers \in Nat \ {0} /\ r \in 0 .. workers - 1
      /\ Connections = q * workers + r
  BY <1>0, Deal
<1>3. ASSUME NEW p \in Active
      PROVE  /\ p \in Nat /\ p * q \in Nat
             /\ p < r => ClientsOf(p) = p * q + p .. p * q + p + q
             /\ p >= r => ClientsOf(p) = p * q + r .. p * q + r + q - 1
  BY <1>0, Deal
<1>4. ASSUME NEW c \in Clients
      PROVE  \E p \in Active : c \in ClientsOf(p)
  <2>1. c \in 0 .. (q * workers + r) - 1
    BY <1>1 DEF Clients
  <2>2. CASE c < r * (q + 1)
    <3>1. PICK p : p = c \div (q + 1)
      OBVIOUS
    <3>2. p \in 0 .. workers - 1 /\ p < r /\ p * q + p <= c /\ c < p * q + p + q + 1
      BY <1>1, <2>1, <2>2, <3>1, AmongTheLonger
    <3>3. p \in Active /\ c \in Int
      BY <2>1, <3>2 DEF Active
    <3>4. c \in p * q + p .. p * q + p + q
      BY <1>1, <1>3, <3>2, <3>3
    <3> QED
      BY <1>3, <3>2, <3>3, <3>4
  <2>3. CASE ~(c < r * (q + 1))
    <3>1. PICK p : p = (c - r) \div q
      OBVIOUS
    <3>2. c >= r * (q + 1)
      BY <1>1, <2>1, <2>3
    <3>3. p \in 0 .. workers - 1 /\ p >= r /\ p * q + r <= c /\ c < p * q + r + q
      BY <1>1, <2>1, <3>1, <3>2, AmongTheShorter
    <3>4. p \in Active /\ c \in Int
      BY <2>1, <3>3 DEF Active
    <3>5. c \in p * q + r .. p * q + r + q - 1
      BY <1>1, <1>3, <3>3, <3>4
    <3> QED
      BY <1>3, <3>3, <3>4, <3>5
  <2> QED
    BY <2>2, <2>3
<1>5. ASSUME NEW a \in Active, NEW b \in Active, NEW c, c \in ClientsOf(a), c \in ClientsOf(b), a < b
      PROVE  FALSE
  <2>1. a \in Nat /\ b \in Nat /\ a * q \in Nat /\ b * q \in Nat /\ a * q + q <= b * q
    BY <1>1, <1>3, <1>5, EarlierEndsFirst
  <2>2. a < r => c <= a * q + a + q
    BY <1>1, <1>3, <1>5, <2>1
  <2>3. a >= r => c <= a * q + r + q - 1
    BY <1>1, <1>3, <1>5, <2>1
  <2>4. b < r => c \in Int /\ c >= b * q + b
    BY <1>1, <1>3, <1>5, <2>1
  <2>5. b >= r => c \in Int /\ c >= b * q + r
    BY <1>1, <1>3, <1>5, <2>1
  <2> QED
    BY <1>1, <1>5, <2>1, <2>2, <2>3, <2>4, <2>5
<1>6. \A a, b \in Active : a < b \/ b < a \/ a = b
  BY <1>3
<1> QED
  BY <1>4, <1>5, <1>6

(* No process is dealt a connection there is not, and none goes without. *)
LEMMA DealtWithin ==
    ASSUME workers \in 1 .. MaxWorkers
    PROVE  \A p \in Active : ClientsOf(p) \subseteq Clients /\ Load(p) \in Nat \ {0}
<1>0. PICK q, r : q = Connections \div workers /\ r = Connections % workers
  OBVIOUS
<1>1. /\ q \in Nat \ {0} /\ workers \in Nat \ {0} /\ r \in 0 .. workers - 1
      /\ Connections = q * workers + r
  BY <1>0, Deal
<1>2. ASSUME NEW p \in Active
      PROVE  /\ p \in Nat /\ p * q \in Nat
             /\ p < r => ClientsOf(p) = p * q + p .. p * q + p + q
             /\ p >= r => ClientsOf(p) = p * q + r .. p * q + r + q - 1
  BY <1>0, Deal
<1>3. ASSUME NEW p \in Active
      PROVE  p < workers /\ Load(p) = q + (IF p < r THEN 1 ELSE 0)
  BY <1>0, Deal
<1> SUFFICES ASSUME NEW p \in Active
             PROVE  ClientsOf(p) \subseteq Clients /\ Load(p) \in Nat \ {0}
  OBVIOUS
<1>4. PICK e, s : e = q * workers /\ s = p * q
  OBVIOUS
<1>5. s + q <= e /\ e \in Nat /\ s \in Nat
  <2>1. p * q + q <= workers * q
    BY <1>1, <1>2, <1>3, EarlierEndsFirst
  <2>2. workers * q = q * workers /\ q * workers \in Nat
    BY <1>1
  <2> QED
    BY <1>2, <1>4, <2>1, <2>2
<1>6. Clients = 0 .. e + r - 1
  BY <1>1, <1>4 DEF Clients
<1>7. CASE p < r
  <2>1. ClientsOf(p) = s + p .. s + p + q
    BY <1>2, <1>4, <1>7
  <2> QED
    BY <1>1, <1>2, <1>3, <1>5, <1>6, <1>7, <2>1
<1>8. CASE p >= r
  <2>1. ClientsOf(p) = s + r .. s + r + q - 1
    BY <1>2, <1>4, <1>8
  <2> QED
    BY <1>1, <1>2, <1>3, <1>5, <1>6, <1>8, <2>1
<1>9. p < r \/ p >= r
  BY <1>1, <1>2
<1> QED
  BY <1>7, <1>8, <1>9

LEMMA OneProcess ==
    ASSUME workers \in 1 .. MaxWorkers, NEW c \in Clients
    PROVE  /\ ProcOf(c) \in Active /\ ProcOf(c) \in Procs
           /\ \A p \in Active : c \in ClientsOf(p) <=> p = ProcOf(c)
<1>1. \E p \in Active : c \in ClientsOf(p)
  BY DealtOnce
<1>2. ProcOf(c) \in Active /\ c \in ClientsOf(ProcOf(c))
  BY <1>1 DEF ProcOf
<1>3. Active \subseteq Procs
  BY MaxWorkersAssumption, ConnectionsAssumption DEF Active, Procs
<1> QED
  BY <1>2, <1>3, DealtOnce

LEMMA SameDeal ==
    ASSUME workers' = workers
    PROVE  /\ Active' = Active /\ \A p : ClientsOf(p)' = ClientsOf(p)
           /\ \A c : ProcOf(c)' = ProcOf(c)
BY DEF Active, ClientsOf, First, Load, ProcOf
-----------------------------------------------------------------------------
(* An answer counts once: what was counted is no longer in flight. *)
BeforeWindow == {"connect", "failed", "barrier", "warmup"}
FromWindow == {"window", "closing", "done"}

OnceType ==
    /\ workers \in 1 .. MaxWorkers
    /\ procPc \in [Procs -> BeforeWindow \cup FromWindow]
    /\ submits \in [Clients -> Nat]
    /\ counted \in [Clients -> SUBSET Nat]

CountedIsAnswered ==
    \A c \in Clients : IsFiniteSet(counted[c])
                       /\ \A id \in counted[c] : id \notin pending[c] /\ id <= sent[c]

NoneBeforeWindow == \A c \in Clients : procPc[ProcOf(c)] \in BeforeWindow => counted[c] = {}

OnceInv == OnceType /\ CountedIsAnswered /\ NoneBeforeWindow /\ CountedPerConnection

onceVars == <<workers, procPc, submits, counted, pending, sent>>

LEMMA InitOnce == Init => OnceInv
<1> SUFFICES ASSUME Init PROVE OnceInv
  OBVIOUS
<1>1. workers \in 1 .. MaxWorkers /\ procPc = [p \in Procs |-> "connect"]
      /\ counted = [c \in Clients |-> {}] /\ submits = [c \in Clients |-> 0]
  BY DEF Init
<1>2. OnceType
  BY <1>1 DEF OnceType, BeforeWindow
<1>3. CountedIsAnswered /\ NoneBeforeWindow
  BY <1>1, FS_EmptySet DEF CountedIsAnswered, NoneBeforeWindow
<1>4. CountedPerConnection
  <2>1. \A c \in Clients : procPc[ProcOf(c)] = "connect"
    BY <1>1, OneProcess
  <2> QED
    BY <2>1 DEF CountedPerConnection, Measuring
<1> QED
  BY <1>2, <1>3, <1>4 DEF OnceInv

LEMMA OnceStays == ASSUME OnceInv, UNCHANGED onceVars PROVE OnceInv'
<1>1. \A c : ProcOf(c)' = ProcOf(c)
  BY SameDeal DEF onceVars
<1> QED
  BY <1>1 DEF onceVars, OnceInv, OnceType, CountedIsAnswered, NoneBeforeWindow,
              CountedPerConnection, Measuring

(* A process moves on; only Reset touches the counts, which are then zero. *)
LEMMA ControlCountsOnce ==
    ASSUME OnceInv, NEW p \in Active, Controller(p)
    PROVE  OnceInv'
<1>0. workers \in 1 .. MaxWorkers /\ procPc \in [Procs -> BeforeWindow \cup FromWindow]
      /\ p \in Procs
  BY MaxWorkersAssumption, ConnectionsAssumption DEF OnceInv, OnceType, Active, Procs
<1>1. UNCHANGED <<workers, counted, pending, sent>>
  BY DEF Controller, ArriveAtBarrier, StartFloods, ConnectFails, Reset, CloseWindow, Finish, taskVars
<1>2. \A c : ProcOf(c)' = ProcOf(c)
  BY <1>1, SameDeal
<1>3. \A c \in Clients : /\ ProcOf(c) \in Procs
                         /\ c \in ClientsOf(p) <=> p = ProcOf(c)
  BY <1>0, OneProcess
<1>4. CountedIsAnswered'
  BY <1>1 DEF OnceInv, CountedIsAnswered
<1>5. ASSUME NEW at \in BeforeWindow \cup FromWindow, procPc' = [procPc EXCEPT ![p] = at],
             submits' = submits,
             at \in BeforeWindow => procPc[p] \in BeforeWindow,
             at \in FromWindow => procPc[p] \in FromWindow
      PROVE  OnceInv'
  <2>1. OnceType'
    BY <1>0, <1>1, <1>5 DEF OnceInv, OnceType
  <2>2. \A c \in Clients :
            /\ procPc[ProcOf(c)] \in BeforeWindow <=> procPc'[ProcOf(c)] \in BeforeWindow
            /\ procPc[ProcOf(c)] \in FromWindow <=> procPc'[ProcOf(c)] \in FromWindow
    BY <1>0, <1>3, <1>5 DEF BeforeWindow, FromWindow
  <2>3. NoneBeforeWindow'
    BY <1>1, <1>2, <2>2 DEF OnceInv, NoneBeforeWindow
  <2>4. CountedPerConnection'
    BY <1>1, <1>2, <1>5, <2>2 DEF OnceInv, CountedPerConnection, Measuring, FromWindow
  <2> QED
    BY <1>4, <2>1, <2>3, <2>4 DEF OnceInv
<1>6. CASE ArriveAtBarrier(p)
  BY <1>5, <1>6 DEF ArriveAtBarrier, taskVars, BeforeWindow, FromWindow
<1>7. CASE StartFloods(p)
  BY <1>5, <1>7 DEF StartFloods, BeforeWindow, FromWindow
<1>8. CASE ConnectFails(p)
  BY <1>5, <1>8 DEF ConnectFails, taskVars, BeforeWindow, FromWindow
<1>9. CASE CloseWindow(p)
  BY <1>5, <1>9 DEF CloseWindow, taskVars, BeforeWindow, FromWindow
<1>10. CASE Finish(p)
  BY <1>5, <1>10 DEF Finish, BeforeWindow, FromWindow
<1>11. CASE Reset(p)
  <2>1. /\ procPc[p] = "warmup" /\ procPc' = [procPc EXCEPT ![p] = "window"]
        /\ submits' = [c \in Clients |-> IF c \in ClientsOf(p) THEN 0 ELSE submits[c]]
    BY <1>11 DEF Reset
  <2>2. OnceType'
    BY <1>0, <1>1, <2>1 DEF OnceInv, OnceType, FromWindow
  <2>3. ASSUME NEW c \in Clients
        PROVE  /\ procPc'[ProcOf(c)] \in BeforeWindow => counted[c] = {}
               /\ procPc'[ProcOf(c)] \in FromWindow => submits'[c] = Cardinality(counted[c])
    <3>1. CASE ProcOf(c) = p
      <4>1. counted[c] = {} /\ submits'[c] = 0
        BY <1>3, <2>1, <3>1 DEF OnceInv, NoneBeforeWindow, BeforeWindow
      <4> QED
        BY <4>1, FS_EmptySet
    <3>2. CASE ProcOf(c) # p
      <4>1. procPc'[ProcOf(c)] = procPc[ProcOf(c)] /\ submits'[c] = submits[c]
        BY <1>0, <1>3, <2>1, <3>2
      <4> QED
        BY <4>1 DEF OnceInv, NoneBeforeWindow, CountedPerConnection, Measuring, FromWindow
    <3> QED
      BY <3>1, <3>2
  <2>4. NoneBeforeWindow' /\ CountedPerConnection'
    BY <1>1, <1>2, <2>3 DEF NoneBeforeWindow, CountedPerConnection, Measuring, FromWindow
  <2> QED
    BY <1>4, <2>2, <2>4 DEF OnceInv
<1> QED
  BY <1>6, <1>7, <1>8, <1>9, <1>10, <1>11 DEF Controller

(* A new submit's id was not counted before. *)
LEMMA SubmitCountsOnce ==
    ASSUME SlotsInv, OnceInv, NEW c \in Clients, Submit(c)
    PROVE  OnceInv'
<1>1. /\ UNCHANGED <<workers, procPc, submits, counted>>
      /\ sent' = [sent EXCEPT ![c] = @ + 1] /\ pending' = [pending EXCEPT ![c] = @ \cup {sent'[c]}]
  BY DEF Submit, loopVars
<1>2. /\ sent \in [Clients -> Nat] /\ pending \in [Clients -> SUBSET Nat]
      /\ counted \in [Clients -> SUBSET Nat]
  BY DEF SlotsInv, SlotsType, OnceInv, OnceType
<1>3. ASSUME NEW d \in Clients, NEW id \in counted[d]
      PROVE  id \notin pending'[d] /\ id <= sent'[d]
  <2>1. id \in Nat /\ id \notin pending[d] /\ id <= sent[d] /\ sent[d] \in Nat
    BY <1>2, <1>3 DEF OnceInv, CountedIsAnswered
  <2>2. CASE d = c
    BY <1>1, <1>2, <2>1, <2>2
  <2>3. CASE d # c
    BY <1>1, <1>2, <2>1, <2>3
  <2> QED
    BY <2>2, <2>3
<1>4. CountedIsAnswered'
  BY <1>1, <1>3 DEF OnceInv, CountedIsAnswered
<1>5. \A d : ProcOf(d)' = ProcOf(d)
  BY <1>1, SameDeal
<1>6. OnceType' /\ NoneBeforeWindow' /\ CountedPerConnection'
  BY <1>1, <1>5 DEF OnceInv, OnceType, NoneBeforeWindow, CountedPerConnection, Measuring
<1> QED
  BY <1>4, <1>6 DEF OnceInv

(* An answer in the window adds its id and one; any other adds neither. *)
LEMMA AnswerCountsOnce ==
    ASSUME SlotsInv, OnceInv, NEW c \in Clients, NEW id, OnAnswer(c, id),
           UNCHANGED <<workers, procPc, sent>>
    PROVE  OnceInv'
<1>0. /\ sent \in [Clients -> Nat] /\ pending \in [Clients -> SUBSET Nat]
      /\ counted \in [Clients -> SUBSET Nat] /\ submits \in [Clients -> Nat]
  BY DEF SlotsInv, SlotsType, OnceInv, OnceType
<1>1. \A d : ProcOf(d)' = ProcOf(d)
  BY SameDeal
<1>2. CASE UNCHANGED <<pending, submits, counted>>
  BY <1>2, OnceStays DEF onceVars
<1>3. CASE /\ id \in pending[c] /\ pending' = [pending EXCEPT ![c] = @ \ {id}]
           /\ UNCHANGED <<submits, counted>>
  <2>1. CountedIsAnswered'
    BY <1>0, <1>3 DEF OnceInv, CountedIsAnswered
  <2>2. OnceType' /\ NoneBeforeWindow' /\ CountedPerConnection'
    BY <1>1, <1>3 DEF OnceInv, OnceType, NoneBeforeWindow, CountedPerConnection, Measuring
  <2> QED
    BY <2>1, <2>2 DEF OnceInv
<1>4. CASE /\ id \in pending[c] /\ pending' = [pending EXCEPT ![c] = @ \ {id}]
           /\ Measuring(c) /\ CountAnswer(c, id)
  <2>1. /\ submits' = [submits EXCEPT ![c] = @ + 1]
        /\ counted' = [counted EXCEPT ![c] = @ \cup {id}]
    BY <1>4 DEF CountAnswer
  <2>2. id \in Nat /\ id <= sent[c] /\ id \notin counted[c] /\ IsFiniteSet(counted[c])
    BY <1>0, <1>4 DEF SlotsInv, PendingInUse, OnceInv, CountedIsAnswered
  <2>3. /\ counted'[c] = counted[c] \cup {id} /\ IsFiniteSet(counted'[c])
        /\ Cardinality(counted'[c]) = Cardinality(counted[c]) + 1
    <3>1. counted'[c] = counted[c] \cup {id}
      BY <1>0, <2>1
    <3> QED
      BY <2>2, <3>1, FS_AddElement
  <2>4. OnceType'
    BY <1>0, <2>1, <2>2 DEF OnceInv, OnceType
  <2>5. CountedIsAnswered'
    <3> SUFFICES ASSUME NEW d \in Clients
                 PROVE  /\ IsFiniteSet(counted'[d])
                        /\ \A i \in counted'[d] : i \notin pending'[d] /\ i <= sent'[d]
      BY DEF CountedIsAnswered
    <3>1. CASE d = c
      BY <1>0, <1>4, <2>2, <2>3, <3>1 DEF OnceInv, CountedIsAnswered
    <3>2. CASE d # c
      BY <1>0, <1>4, <2>1, <3>2 DEF OnceInv, CountedIsAnswered
    <3> QED
      BY <3>1, <3>2
  <2>6. procPc[ProcOf(c)] = "window"
    BY <1>4 DEF Measuring
  <2>7. NoneBeforeWindow'
    BY <1>0, <1>1, <2>1, <2>6 DEF OnceInv, NoneBeforeWindow, BeforeWindow
  <2>8. CountedPerConnection'
    <3> SUFFICES ASSUME NEW d \in Clients, procPc[ProcOf(d)] \in FromWindow
                 PROVE  submits'[d] = Cardinality(counted'[d])
      BY <1>1 DEF CountedPerConnection, Measuring, FromWindow
    <3>1. submits[d] = Cardinality(counted[d])
      BY DEF OnceInv, CountedPerConnection, Measuring, FromWindow
    <3>2. CASE d = c
      BY <1>0, <2>1, <2>3, <3>1, <3>2
    <3>3. CASE d # c
      BY <1>0, <2>1, <3>1, <3>3
    <3> QED
      BY <3>2, <3>3
  <2> QED
    BY <2>4, <2>5, <2>7, <2>8 DEF OnceInv
<1> QED
  BY <1>2, <1>3, <1>4 DEF OnAnswer

LEMMA NextOnce == SlotsInv /\ OnceInv /\ [Next]_vars => OnceInv'
<1> SUFFICES ASSUME SlotsInv, OnceInv, [Next]_vars PROVE OnceInv'
  OBVIOUS
<1>1. CASE Main
  <2>1. UNCHANGED onceVars
    BY <1>1 DEF Main, BarrierReleases, BarrierBreaks, Emit, loopVars, taskVars, onceVars
  <2> QED
    BY <2>1, OnceStays
<1>2. ASSUME NEW c \in Clients, Task(c)
      PROVE  OnceInv'
  <2>1. CASE Connect(c) \/ Drained(c) \/ WriteFails(c) \/ FloodStops(c) \/ EndOfStream(c)
    <3>1. UNCHANGED onceVars
      BY <2>1 DEF Connect, Drained, WriteFails, FloodStops, EndOfStream, loopVars, onceVars
    <3> QED
      BY <3>1, OnceStays
  <2>2. ASSUME NEW id \in 1 .. sent[c], ReadAnswer(c, id)
        PROVE  OnceInv'
    <3>1. OnAnswer(c, id) /\ UNCHANGED <<workers, procPc, sent>>
      BY <2>2 DEF ReadAnswer, loopVars
    <3> QED
      BY <3>1, AnswerCountsOnce
  <2> QED
    BY <1>2, <2>1, <2>2, SubmitCountsOnce DEF Task
<1>3. CASE UNCHANGED vars
  BY <1>3, OnceStays DEF vars, loopVars, taskVars, onceVars
<1> QED
  BY <1>1, <1>2, <1>3, ControlCountsOnce DEF Next

(* On every connection a share counts once, and only if its answer came in *)
(* the window, however the connections are dealt to the processes, and     *)
(* whatever the pool answers twice, late or never.                         *)
THEOREM CountedCorrect == Spec => []CountedPerConnection
<1>1. OnceInv => CountedPerConnection
  BY DEF OnceInv
<1> QED
  BY InitSlots, NextSlots, InitOnce, NextOnce, <1>1, PTL DEF Spec
-----------------------------------------------------------------------------
(* sum(): what the total of finitely many counts is, in whatever order the *)
(* fold takes them.                                                        *)
Pick(s) == CHOOSE x \in s : TRUE

(* h gives the sum of every subset, whichever element is taken first. *)
Adds(h, f, S) ==
    /\ h = [s \in SUBSET S |-> h[s]]
    /\ h[{}] = 0
    /\ \A s \in SUBSET S : \A x \in s : h[s] = f[x] + h[s \ {x}]

(* Such a function is the fold. *)
LEMMA FoldIs ==
    ASSUME NEW S, IsFiniteSet(S), NEW f, NEW h, Adds(h, f, S)
    PROVE  Total(f, S) = h[S]
<1>0. /\ h = [s \in SUBSET S |-> h[s]] /\ h[{}] = 0
      /\ \A s \in SUBSET S : \A x \in s : h[s] = f[x] + h[s \ {x}]
  BY DEF Adds
<1> DEFINE Obeys(g) == g = [s \in SUBSET S |-> IF s = {} THEN 0 ELSE f[Pick(s)] + g[s \ {Pick(s)}]]
           fold == CHOOSE g : Obeys(g)
<1>1. Total(f, S) = fold[S]
  BY DEF Total, MapThenSumSet, MapThenFoldSet, Pick
<1>2. \A s \in SUBSET S : s # {} => Pick(s) \in s
  BY DEF Pick
<1>3. Obeys(h)
  <2>1. \A s \in SUBSET S : h[s] = IF s = {} THEN 0 ELSE f[Pick(s)] + h[s \ {Pick(s)}]
    BY <1>0, <1>2
  <2> QED
    BY <1>0, <2>1
<1>4. Obeys(fold)
  BY <1>3
<1> HIDE DEF fold
<1>5. ASSUME NEW s \in SUBSET S
      PROVE  fold[s] = IF s = {} THEN 0 ELSE f[Pick(s)] + fold[s \ {Pick(s)}]
  BY <1>4
<1> HIDE DEF Obeys
<1>6. \A s \in SUBSET S : fold[s] = h[s]
  <2> DEFINE Differ == {s \in SUBSET S : fold[s] # h[s]}
  <2> SUFFICES ASSUME Differ # {} PROVE FALSE
    OBVIOUS
  <2>1. Differ \subseteq FiniteSubsetsOf(S)
    BY FS_Subset DEF FiniteSubsetsOf
  <2>2. PICK s \in Differ : \A t \in Differ : <<t, s>> \notin StrictSubsetOrdering(S)
    <3> HIDE DEF Differ
    <3> QED
      BY <2>1, FS_StrictSubsetOrderingWellFounded, WFMin
  <2>3. s \in SUBSET S /\ s # {}
    BY <1>0, <1>5
  <2>4. Pick(s) \in s /\ s \ {Pick(s)} \in SUBSET S
    BY <1>2, <2>3
  <2>5. <<s \ {Pick(s)}, s>> \in StrictSubsetOrdering(S)
    BY <2>3, <2>4 DEF StrictSubsetOrdering
  <2>6. fold[s \ {Pick(s)}] = h[s \ {Pick(s)}]
    BY <2>2, <2>4, <2>5
  <2> QED
    BY <1>0, <1>5, <2>2, <2>3, <2>4, <2>6
<1> QED
  BY <1>1, <1>6

(* f[x] units for every x: the total counts them. *)
Units(f, s) == UNION {{x} \X (1 .. f[x]) : x \in s}

LEMMA UpTo == \A n \in Nat : IsFiniteSet(1 .. n) /\ Cardinality(1 .. n) = n
<1> SUFFICES ASSUME NEW n \in Nat PROVE IsFiniteSet(1 .. n) /\ Cardinality(1 .. n) = n
  OBVIOUS
<1>1. IsFiniteSet(1 .. n) /\ Cardinality(1 .. n) = IF 1 > n THEN 0 ELSE n - 1 + 1
  BY FS_Interval
<1> QED
  BY <1>1

LEMMA UnitsAreFinite ==
    ASSUME NEW S, IsFiniteSet(S), NEW f, \A x \in S : f[x] \in Nat
    PROVE  IsFiniteSet(Units(f, S)) /\ Cardinality(Units(f, S)) \in Nat
<1> DEFINE block == [x \in S |-> {x} \X (1 .. f[x])]
           blocks == {{x} \X (1 .. f[x]) : x \in S}
<1>1. block \in Surjection(S, blocks)
  BY DEF Surjection
<1>2. IsFiniteSet(blocks)
  <2> HIDE DEF block, blocks
  <2> QED
    BY <1>1, FS_Surjection
<1>3. ASSUME NEW x \in S PROVE IsFiniteSet({x} \X (1 .. f[x]))
  <2>1. IsFiniteSet({x}) /\ IsFiniteSet(1 .. f[x])
    BY <1>3, FS_Singleton, UpTo
  <2> QED
    BY <2>1, FS_Product
<1>4. \A b \in blocks : IsFiniteSet(b)
  BY <1>3
<1>5. IsFiniteSet(UNION blocks)
  <2> HIDE DEF block, blocks
  <2> QED
    BY <1>2, <1>4, FS_UNION
<1> QED
  BY <1>5, FS_CardinalityType DEF Units

LEMMA UnitsOfOneMore ==
    ASSUME NEW S, IsFiniteSet(S), NEW f, \A y \in S : f[y] \in Nat, NEW x \in S
    PROVE  Cardinality(Units(f, S)) = f[x] + Cardinality(Units(f, S \ {x}))
<1> DEFINE block == {x} \X (1 .. f[x])
           rest == Units(f, S \ {x})
<1>1. IsFiniteSet(block) /\ Cardinality(block) = f[x]
  <2>1. /\ IsFiniteSet({x}) /\ Cardinality({x}) = 1
        /\ IsFiniteSet(1 .. f[x]) /\ Cardinality(1 .. f[x]) = f[x] /\ f[x] \in Nat
    BY FS_Singleton, UpTo
  <2>2. IsFiniteSet(block) /\ Cardinality(block) = 1 * f[x]
    BY <2>1, FS_Product
  <2> QED
    BY <2>1, <2>2
<1>2. IsFiniteSet(rest) /\ Cardinality(rest) \in Nat
  <2>1. IsFiniteSet(S \ {x})
    BY FS_RemoveElement
  <2> QED
    BY <2>1, UnitsAreFinite
<1>3. Units(f, S) = rest \cup block /\ rest \cap block = {}
  BY DEF Units
<1> HIDE DEF block, rest
<1>4. Cardinality(rest \cup block) = Cardinality(rest) + Cardinality(block) - Cardinality({})
  BY <1>1, <1>2, <1>3, FS_Union
<1> QED
  BY <1>1, <1>2, <1>3, <1>4, FS_EmptySet DEF rest

LEMMA TotalIsUnits ==
    ASSUME NEW S, IsFiniteSet(S), NEW f, \A x \in S : f[x] \in Nat
    PROVE  Total(f, S) = Cardinality(Units(f, S))
<1> DEFINE h == [s \in SUBSET S |-> Cardinality(Units(f, s))]
<1>1. h[{}] = 0
  <2>1. Units(f, {}) = {}
    BY DEF Units
  <2> QED
    BY <2>1, FS_EmptySet
<1>2. ASSUME NEW s \in SUBSET S, NEW x \in s
      PROVE  h[s] = f[x] + h[s \ {x}]
  <2>1. IsFiniteSet(s) /\ \A y \in s : f[y] \in Nat
    BY FS_Subset
  <2> QED
    BY <2>1, UnitsOfOneMore
<1>3. h = [s \in SUBSET S |-> h[s]]
  OBVIOUS
<1>4. h[S] = Cardinality(Units(f, S))
  OBVIOUS
<1>5. \A s \in SUBSET S : \A x \in s : h[s] = f[x] + h[s \ {x}]
  BY <1>2
<1> HIDE DEF h
<1>6. Adds(h, f, S)
  BY <1>1, <1>3, <1>5 DEF Adds
<1>7. Total(f, S) = h[S]
  BY <1>6, FoldIs
<1> QED
  BY <1>4, <1>7

(* The same terms have the same total, which is zero only if they all are. *)
LEMMA TotalOfCounts ==
    ASSUME NEW S, IsFiniteSet(S), NEW f, \A x \in S : f[x] \in Nat
    PROVE  /\ Total(f, S) \in Nat
           /\ Total(f, S) = 0 <=> \A x \in S : f[x] = 0
<1>1. Total(f, S) = Cardinality(Units(f, S)) /\ IsFiniteSet(Units(f, S))
      /\ Cardinality(Units(f, S)) \in Nat
  BY TotalIsUnits, UnitsAreFinite
<1>2. Total(f, S) = 0 <=> Units(f, S) = {}
  BY <1>1, FS_EmptySet
<1>3. Units(f, S) = {} <=> \A x \in S : f[x] = 0
  <2>1. ASSUME NEW x \in S, f[x] # 0 PROVE <<x, 1>> \in Units(f, S)
    <3>1. <<x, 1>> \in {x} \X (1 .. f[x])
      BY <2>1
    <3> QED
      BY <3>1 DEF Units
  <2>2. ASSUME \A x \in S : f[x] = 0, NEW u \in Units(f, S) PROVE FALSE
    BY <2>2 DEF Units
  <2> QED
    BY <2>1, <2>2
<1> QED
  BY <1>1, <1>2, <1>3

LEMMA SameTotal ==
    ASSUME NEW S, IsFiniteSet(S), NEW f, NEW g, \A x \in S : f[x] \in Nat /\ f[x] = g[x]
    PROVE  Total(f, S) = Total(g, S)
<1>1. Units(f, S) = Units(g, S)
  BY DEF Units
<1>2. \A x \in S : f[x] \in Nat /\ g[x] \in Nat
  OBVIOUS
<1> QED
  BY <1>1, <1>2, TotalIsUnits

(* The totals of the parts add up to the total of the whole. *)
LEMMA TotalOfParts ==
    ASSUME NEW A, IsFiniteSet(A), NEW S, IsFiniteSet(S), NEW part,
           UNION {part[p] : p \in A} = S,
           \A p, q \in A : p # q => part[p] \cap part[q] = {},
           NEW f, \A x \in S : f[x] \in Nat,
           NEW sums, \A p \in A : sums[p] = Total(f, part[p])
    PROVE  Total(sums, A) = Total(f, S)
<1> DEFINE whole(s) == UNION {part[p] : p \in s}
           h == [s \in SUBSET A |-> Cardinality(Units(f, whole(s)))]
<1>1. h[{}] = 0
  <2>1. Units(f, whole({})) = {}
    BY DEF Units
  <2> QED
    BY <2>1, FS_EmptySet
<1>2. ASSUME NEW s \in SUBSET A, NEW p \in s
      PROVE  h[s] = sums[p] + h[s \ {p}]
  <2> DEFINE mine == Units(f, part[p])
             rest == Units(f, whole(s \ {p}))
  <2>1. whole(s) \subseteq S /\ whole(s \ {p}) \subseteq S /\ part[p] \subseteq S
    OBVIOUS
  <2>2. /\ whole(s) = whole(s \ {p}) \cup part[p]
        /\ whole(s \ {p}) \cap part[p] = {}
    <3>1. whole(s) = whole(s \ {p}) \cup part[p]
      OBVIOUS
    <3>2. \A q \in s \ {p} : part[q] \cap part[p] = {}
      OBVIOUS
    <3>3. whole(s \ {p}) \cap part[p] = {}
      BY <3>2
    <3> QED
      BY <3>1, <3>3
  <2>3. /\ IsFiniteSet(part[p]) /\ IsFiniteSet(whole(s \ {p}))
        /\ \A x \in part[p] : f[x] \in Nat
        /\ \A x \in whole(s \ {p}) : f[x] \in Nat
    BY <2>1, FS_Subset
  <2> HIDE DEF whole
  <2>4. /\ Units(f, whole(s)) = rest \cup mine
        /\ rest \cap mine = {}
    <3>1. rest \cup mine = Units(f, whole(s))
      BY <2>2 DEF Units
    <3>2. ASSUME NEW u, u \in rest, u \in mine PROVE FALSE
      <4>1. PICK x \in whole(s \ {p}) : u \in {x} \X (1 .. f[x])
        BY <3>2 DEF Units
      <4>2. PICK y \in part[p] : u \in {y} \X (1 .. f[y])
        BY <3>2 DEF Units
      <4>3. x = y
        BY <4>1, <4>2
      <4> QED
        BY <2>2, <4>3
    <3> HIDE DEF rest, mine
    <3> QED
      BY <3>1, <3>2
  <2>5. /\ IsFiniteSet(mine) /\ IsFiniteSet(rest)
        /\ Cardinality(mine) \in Nat /\ Cardinality(rest) \in Nat
        /\ sums[p] = Cardinality(mine)
    BY <2>3, UnitsAreFinite, TotalIsUnits
  <2>6. h[s] = Cardinality(rest \cup mine) /\ h[s \ {p}] = Cardinality(rest)
    BY <2>4
  <2> HIDE DEF mine, rest, h
  <2>7. Cardinality(rest \cup mine) = Cardinality(rest) + Cardinality(mine) - Cardinality({})
    BY <2>4, <2>5, FS_Union
  <2> QED
    BY <2>5, <2>6, <2>7, FS_EmptySet
<1>3. h = [s \in SUBSET A |-> h[s]] /\ h[A] = Cardinality(Units(f, S))
  OBVIOUS
<1> HIDE DEF h
<1>4. Adds(h, sums, A)
  BY <1>1, <1>2, <1>3 DEF Adds
<1>5. Total(sums, A) = h[A]
  BY <1>4, FoldIs
<1> QED
  BY <1>3, <1>5, TotalIsUnits
-----------------------------------------------------------------------------
(* What is on the queue and in the result line.  A flood runs only while   *)
(* its process runs, so that the counts of a process that has put its      *)
(* result on the queue are final.                                          *)
FloodsRun ==
    \A c \in Clients :
        floodPc[c] \in {"acquire", "drain"} =>
            procPc[ProcOf(c)] \in {"warmup", "window", "closing"}

CutShortHasError ==
    cutShort \subseteq Active
    /\ \A p \in cutShort : \E c \in ClientsOf(p) : errors[c] > 0

Summed(p) == [submits |-> Total(submits, ClientsOf(p)), errors |-> Total(errors, ClientsOf(p))]

ReportsAreFinal ==
    \A p \in Active : results[p] # None =>
        \/ procPc[p] = "done" /\ results[p] = Summed(p)
        \/ procPc[p] = "failed" /\ results[p] = [submits |-> 0, errors |-> Load(p)]

(* A process that cannot connect reports it, unless it is the only one. *)
FailuresReport ==
    \A p \in Active : procPc[p] = "failed" => mainPc = "crashed" \/ results[p] # None

MergedIsTheSum ==
    mainPc = "emitted" =>
        /\ \A p \in Active : results[p] # None
        /\ merged = [submits |-> Total([p \in Active |-> results[p].submits], Active),
                     errors |-> Total([p \in Active |-> results[p].errors], Active)]

ResultInv ==
    TypeOK /\ FloodsRun /\ CutShortHasError /\ ReportsAreFinal /\ FailuresReport /\ MergedIsTheSum

(* The types. *)
LEMMA ActiveProcs ==
    ASSUME workers \in 1 .. MaxWorkers
    PROVE  Active \subseteq Procs /\ IsFiniteSet(Active)
<1>1. MaxWorkers \in Nat
  BY MaxWorkersAssumption, ConnectionsAssumption
<1>2. workers - 1 \in Int /\ 0 \in Int /\ Active = 0 .. workers - 1
  BY <1>1 DEF Active
<1>3. IsFiniteSet(Active)
  BY <1>2, FS_Interval
<1> QED
  BY <1>1, <1>3 DEF Active, Procs

LEMMA ClientsFinite ==
    ASSUME workers \in 1 .. MaxWorkers
    PROVE  IsFiniteSet(Clients) /\ \A p \in Active : IsFiniteSet(ClientsOf(p))
<1>1. IsFiniteSet(Clients)
  <2>1. 0 \in Int /\ Connections - 1 \in Int
    BY ConnectionsAssumption
  <2> QED
    BY <2>1, FS_Interval DEF Clients
<1> QED
  BY <1>1, DealtWithin, FS_Subset

(* The sums of a process, and of the run, are counts. *)
LEMMA SumsAreCounts ==
    ASSUME TypeOK, NEW p \in Active
    PROVE  Summed(p) \in Reports
<1>1. /\ workers \in 1 .. MaxWorkers
      /\ submits \in [Clients -> Nat] /\ errors \in [Clients -> Nat]
  BY DEF TypeOK
<1>2. IsFiniteSet(ClientsOf(p)) /\ \A c \in ClientsOf(p) : submits[c] \in Nat /\ errors[c] \in Nat
  BY <1>1, ClientsFinite, DealtWithin
<1>3. Total(submits, ClientsOf(p)) \in Nat /\ Total(errors, ClientsOf(p)) \in Nat
  BY <1>2, TotalOfCounts
<1> QED
  BY <1>3 DEF Summed, Reports

LEMMA InitType == Init => TypeOK
<1> SUFFICES ASSUME Init PROVE TypeOK
  OBVIOUS
<1>1. 0 \in 0 .. MaxSubmits /\ Pipeline \in Nat
  BY MaxSubmitsAssumption, PipelineAssumption
<1> QED
  BY <1>1 DEF Init, TypeOK

LEMMA ControlType ==
    ASSUME TypeOK, NEW p \in Active, Controller(p)
    PROVE  TypeOK'
<1> USE DEF TypeOK
<1>0. p \in Procs
  BY ActiveProcs
<1>1. CASE ArriveAtBarrier(p)
  BY <1>0, <1>1 DEF ArriveAtBarrier, taskVars, mainVars
<1>2. CASE StartFloods(p)
  BY <1>0, <1>2 DEF StartFloods, mainVars
<1>3. CASE ConnectFails(p)
  <2>1. [submits |-> 0, errors |-> Load(p)] \in Reports
    BY DealtWithin DEF Reports
  <2>2. results' \in [Procs -> Reports \cup {None}]
    <3> HIDE DEF TypeOK
    <3>1. results \in [Procs -> Reports \cup {None}]
      BY DEF TypeOK
    <3> QED
      BY <1>0, <1>3, <2>1, <3>1 DEF ConnectFails
  <2> QED
    BY <1>0, <1>3, <2>2 DEF ConnectFails, taskVars
<1>4. CASE Reset(p)
  BY <1>0, <1>4 DEF Reset, mainVars
<1>5. CASE CloseWindow(p)
  BY <1>0, <1>5 DEF CloseWindow, taskVars, mainVars
<1>6. CASE Finish(p)
  <2>1. results' \in [Procs -> Reports \cup {None}]
    <3> HIDE DEF TypeOK
    <3>1. results \in [Procs -> Reports \cup {None}]
      BY DEF TypeOK
    <3>2. results' = [results EXCEPT ![p] = Summed(p)]
      BY <1>6 DEF Finish, Summed
    <3> QED
      BY <1>0, <3>1, <3>2, SumsAreCounts
  <2> QED
    BY <1>0, <1>6, <2>1 DEF Finish
<1> QED
  BY <1>1, <1>2, <1>3, <1>4, <1>5, <1>6 DEF Controller

LEMMA TaskType ==
    ASSUME TypeOK, NEW c \in Clients, Task(c)
    PROVE  TypeOK'
<1> USE DEF TypeOK
<1>0. ProcOf(c) \in Procs
  BY OneProcess
<1>1. CASE Connect(c)
  BY <1>1 DEF Connect, loopVars, mainVars
<1>2. CASE Submit(c)
  <2>1. sent[c] + 1 \in 0 .. MaxSubmits /\ sent[c] + 1 \in 1 .. MaxSubmits /\ free[c] - 1 \in Nat
    BY <1>2, MaxSubmitsAssumption DEF Submit
  <2>2. /\ free' = [free EXCEPT ![c] = @ - 1]
        /\ sent' = [sent EXCEPT ![c] = @ + 1]
        /\ pending' = [pending EXCEPT ![c] = @ \cup {sent'[c]}]
    BY <1>2 DEF Submit
  <2>3. /\ sent' \in [Clients -> 0 .. MaxSubmits] /\ free' \in [Clients -> Nat]
        /\ pending' \in [Clients -> SUBSET (1 .. MaxSubmits)]
    BY <2>1, <2>2
  <2> QED
    BY <1>2, <2>3 DEF Submit, loopVars, mainVars
<1>3. CASE Drained(c)
  BY <1>3 DEF Drained, loopVars, mainVars
<1>4. CASE WriteFails(c)
  BY <1>0, <1>4 DEF WriteFails, mainVars
<1>5. CASE FloodStops(c)
  BY <1>5 DEF FloodStops, loopVars, mainVars
<1>6. CASE EndOfStream(c)
  BY <1>6 DEF EndOfStream, loopVars, mainVars
<1>7. ASSUME NEW id \in 1 .. sent[c], ReadAnswer(c, id)
      PROVE  TypeOK'
  <2>1. OnAnswer(c, id) /\ readerAlive' = [readerAlive EXCEPT ![c] = ~Stopped(c)]
        /\ UNCHANGED <<workers, loopVars, connected, floodPc, sent, errors, mainVars, cutShort>>
    BY <1>7 DEF ReadAnswer
  <2>2. pending' \in [Clients -> SUBSET (1 .. MaxSubmits)] /\ free' \in [Clients -> Nat]
    BY <2>1 DEF OnAnswer
  <2>3. submits' \in [Clients -> Nat] /\ counted' \in [Clients -> SUBSET (1 .. MaxSubmits)]
    BY <2>1 DEF OnAnswer, CountAnswer
  <2>4. readerAlive' \in [Clients -> BOOLEAN]
    <3>1. Stopped(c) \in BOOLEAN
      BY <1>0 DEF Stopped
    <3> QED
      BY <2>1, <3>1
  <2> QED
    BY <2>1, <2>2, <2>3, <2>4 DEF loopVars, mainVars
<1> QED
  BY <1>1, <1>2, <1>3, <1>4, <1>5, <1>6, <1>7 DEF Task

LEMMA MainType ==
    ASSUME TypeOK, Main
    PROVE  TypeOK'
<1> USE DEF TypeOK
<1>1. CASE BarrierReleases \/ BarrierBreaks
  BY <1>1 DEF BarrierReleases, BarrierBreaks, taskVars, mainVars
<1>2. CASE Emit
  <2>1. \A p \in Active : results[p] \in Reports
    BY <1>2, ActiveProcs DEF Emit
  <2>2. \A p \in Active : results[p].submits \in Nat /\ results[p].errors \in Nat
    BY <2>1 DEF Reports
  <2>3. /\ Total([p \in Active |-> results[p].submits], Active) \in Nat
        /\ Total([p \in Active |-> results[p].errors], Active) \in Nat
    <3> DEFINE s == [p \in Active |-> results[p].submits]
               e == [p \in Active |-> results[p].errors]
    <3>1. \A p \in Active : s[p] \in Nat /\ e[p] \in Nat
      BY <2>2
    <3>2. IsFiniteSet(Active)
      BY ActiveProcs
    <3> HIDE DEF s, e
    <3>3. Total(s, Active) \in Nat /\ Total(e, Active) \in Nat
      BY <3>1, <3>2, TotalOfCounts
    <3> QED
      BY <3>3 DEF s, e
  <2>4. merged' \in Reports
    BY <1>2, <2>3 DEF Emit, Reports
  <2> QED
    BY <1>2, <2>4 DEF Emit, loopVars, taskVars
<1> QED
  BY <1>1, <1>2 DEF Main

LEMMA NextType == TypeOK /\ [Next]_vars => TypeOK'
<1>1. ASSUME TypeOK, UNCHANGED vars PROVE TypeOK'
  BY <1>1 DEF TypeOK, vars, loopVars, taskVars, mainVars
<1> QED
  BY <1>1, ControlType, TaskType, MainType DEF Next

(* Every variable has its type, for any number of connections, processes,  *)
(* slots and submits.                                                      *)
THEOREM TypeCorrect == Spec => []TypeOK
BY InitType, NextType, PTL DEF Spec
-----------------------------------------------------------------------------
(* The results. *)
LEMMA InitResults == Init => ResultInv
<1> SUFFICES ASSUME Init PROVE ResultInv
  OBVIOUS
<1>1. /\ floodPc = [c \in Clients |-> "idle"] /\ cutShort = {} /\ mainPc = "collect"
      /\ results = [p \in Procs |-> None] /\ procPc = [p \in Procs |-> "connect"]
      /\ workers \in 1 .. MaxWorkers
  BY DEF Init
<1>2. \A p \in Active : results[p] = None /\ procPc[p] = "connect"
  BY <1>1, ActiveProcs
<1> QED
  BY <1>1, <1>2, InitType DEF ResultInv, FloodsRun, CutShortHasError, ReportsAreFinal,
                              FailuresReport, MergedIsTheSum

(* A process with a result has stopped, and with a result line all have. *)
LEMMA ReportedHasStopped ==
    ASSUME ResultInv, NEW p \in Active, results[p] # None \/ mainPc = "emitted"
    PROVE  results[p] # None /\ procPc[p] \in {"done", "failed"}
BY DEF ResultInv, ReportsAreFinal, MergedIsTheSum

(* What is summed up does not change under a result. *)
LEMMA ReportsStay ==
    ASSUME ResultInv, UNCHANGED workers,
           NEW p \in Active, results'[p] = results[p], results[p] # None,
           procPc'[p] = procPc[p],
           \A c \in ClientsOf(p) : submits'[c] = submits[c] /\ errors'[c] = errors[c]
    PROVE  \/ procPc'[p] = "done" /\ results'[p] = Summed(p)'
           \/ procPc'[p] = "failed" /\ results'[p] = [submits |-> 0, errors |-> Load(p)']
<1>1. ClientsOf(p)' = ClientsOf(p) /\ Load(p)' = Load(p)
  BY SameDeal DEF Load
<1>2. workers \in 1 .. MaxWorkers /\ submits \in [Clients -> Nat] /\ errors \in [Clients -> Nat]
  BY DEF ResultInv, TypeOK
<1>3. /\ IsFiniteSet(ClientsOf(p))
      /\ \A c \in ClientsOf(p) : /\ submits[c] \in Nat /\ submits[c] = submits'[c]
                                 /\ errors[c] \in Nat /\ errors[c] = errors'[c]
  BY <1>2, ClientsFinite, DealtWithin
<1>4. Total(submits, ClientsOf(p)) = Total(submits', ClientsOf(p))
  BY <1>3, SameTotal
<1>5. Total(errors, ClientsOf(p)) = Total(errors', ClientsOf(p))
  BY <1>3, SameTotal
<1>6. Summed(p)' = Summed(p)
  BY <1>1, <1>4, <1>5 DEF Summed
<1> QED
  BY <1>1, <1>6 DEF ResultInv, ReportsAreFinal

MergedVars == <<workers, results, merged, mainPc>>

LEMMA MergedStays ==
    ASSUME ResultInv, UNCHANGED MergedVars
    PROVE  MergedIsTheSum'
<1>1. Active' = Active
  BY SameDeal DEF MergedVars
<1> QED
  BY <1>1 DEF ResultInv, MergedIsTheSum, MergedVars

(* A step that touches nothing the results depend on. *)
LEMMA ResultsStay ==
    ASSUME ResultInv, TypeOK',
           UNCHANGED <<MergedVars, procPc, floodPc, submits, errors, cutShort>>
    PROVE  ResultInv'
<1>1. /\ Active' = Active /\ \A p : ClientsOf(p)' = ClientsOf(p)
      /\ \A c : ProcOf(c)' = ProcOf(c)
  BY SameDeal DEF MergedVars
<1>2. ReportsAreFinal'
  BY <1>1, ReportsStay DEF ReportsAreFinal, MergedVars
<1>3. FloodsRun' /\ CutShortHasError' /\ FailuresReport'
  BY <1>1 DEF ResultInv, FloodsRun, CutShortHasError, FailuresReport, MergedVars
<1> QED
  BY <1>2, <1>3, MergedStays DEF ResultInv, MergedVars

(* A connection whose loop runs has a process without a result: what it    *)
(* counts is not summed up yet.                                            *)
LEMMA TaskResults ==
    ASSUME ResultInv, TypeOK', NEW c \in Clients, UNCHANGED <<MergedVars, procPc>>,
           procPc[ProcOf(c)] \notin {"done", "failed"},
           \A d \in Clients : d # c => submits'[d] = submits[d] /\ errors'[d] = errors[d],
           errors'[c] >= errors[c],
           cutShort' \ cutShort \subseteq IF errors'[c] > 0 THEN {ProcOf(c)} ELSE {},
           \A d \in Clients : floodPc'[d] \in {"acquire", "drain"} =>
                                  floodPc[d] \in {"acquire", "drain"}
    PROVE  ResultInv'
<1>0. /\ Active' = Active /\ \A p : ClientsOf(p)' = ClientsOf(p)
      /\ \A d : ProcOf(d)' = ProcOf(d)
  BY SameDeal DEF MergedVars
<1>1. workers \in 1 .. MaxWorkers /\ errors \in [Clients -> Nat] /\ errors' \in [Clients -> Nat]
  BY DEF ResultInv, TypeOK
<1>2. ReportsAreFinal'
  <2> SUFFICES ASSUME NEW p \in Active, results'[p] # None
               PROVE  \/ procPc'[p] = "done" /\ results'[p] = Summed(p)'
                      \/ procPc'[p] = "failed" /\ results'[p] = [submits |-> 0, errors |-> Load(p)']
    BY <1>0 DEF ReportsAreFinal
  <2>1. results'[p] = results[p] /\ procPc'[p] = procPc[p] /\ results[p] # None
    BY DEF MergedVars
  <2>2. p # ProcOf(c)
    BY <2>1, ReportedHasStopped
  <2>3. c \notin ClientsOf(p) /\ ClientsOf(p) \subseteq Clients
    BY <1>1, <2>2, OneProcess, DealtWithin
  <2>4. \A d \in ClientsOf(p) : submits'[d] = submits[d] /\ errors'[d] = errors[d]
    BY <2>3
  <2>5. workers' = workers
    BY DEF MergedVars
  <2> QED
    BY <2>1, <2>4, <2>5, ReportsStay
<1>3. FloodsRun'
  BY <1>0 DEF ResultInv, FloodsRun
<1>4. CutShortHasError'
  <2>1. ProcOf(c) \in Active /\ c \in ClientsOf(ProcOf(c))
    BY <1>1, OneProcess
  <2>2. cutShort' \subseteq Active
    BY <2>1 DEF ResultInv, CutShortHasError
  <2>3. ASSUME NEW p \in cutShort' PROVE \E d \in ClientsOf(p) : errors'[d] > 0
    <3>1. CASE p \notin cutShort
      BY <2>1, <2>3, <3>1
    <3>2. CASE p \in cutShort
      <4>1. PICK d \in ClientsOf(p) : errors[d] > 0
        BY <3>2 DEF ResultInv, CutShortHasError
      <4>2. d \in Clients
        BY <1>1, <2>2, <2>3, DealtWithin
      <4>3. errors[d] \in Nat /\ errors'[d] \in Nat /\ errors'[d] >= errors[d]
        BY <1>1, <4>2
      <4> QED
        BY <4>1, <4>3
    <3> QED
      BY <3>1, <3>2
  <2> QED
    BY <1>0, <2>2, <2>3 DEF CutShortHasError
<1>5. FailuresReport'
  BY <1>0 DEF ResultInv, FailuresReport, MergedVars
<1> QED
  BY <1>2, <1>3, <1>4, <1>5, MergedStays DEF ResultInv

LEMMA TaskKeepsResults ==
    ASSUME ResultInv, TypeOK', NEW c \in Clients, Task(c)
    PROVE  ResultInv'
<1>0. /\ workers \in 1 .. MaxWorkers /\ submits \in [Clients -> Nat] /\ errors \in [Clients -> Nat]
      /\ floodPc \in [Clients -> {"idle", "acquire", "drain", "done"}]
      /\ errors' \in [Clients -> Nat]
  BY DEF ResultInv, TypeOK
<1>1. floodPc[c] \in {"acquire", "drain"} => procPc[ProcOf(c)] \notin {"done", "failed"}
  BY DEF ResultInv, FloodsRun
<1>2. CASE Connect(c) \/ EndOfStream(c)
  BY <1>2, ResultsStay DEF Connect, EndOfStream, MergedVars, loopVars, mainVars
<1>3. CASE Submit(c) \/ Drained(c) \/ FloodStops(c)
  <2>1. /\ UNCHANGED <<MergedVars, procPc, submits, errors, cutShort>>
        /\ floodPc[c] \in {"acquire", "drain"}
        /\ \A d \in Clients : d # c => floodPc'[d] = floodPc[d]
    BY <1>0, <1>3 DEF Submit, Drained, FloodStops, MergedVars, loopVars, mainVars
  <2>2. \A d \in Clients : floodPc'[d] \in {"acquire", "drain"} =>
                               floodPc[d] \in {"acquire", "drain"}
    BY <2>1
  <2>3. errors'[c] >= errors[c]
    BY <1>0, <2>1
  <2> QED
    BY <1>1, <2>1, <2>2, <2>3, TaskResults
<1>4. CASE WriteFails(c)
  <2>1. /\ floodPc[c] = "drain" /\ errors' = [errors EXCEPT ![c] = @ + 1]
        /\ cutShort' = cutShort \cup IF Stopped(c) THEN {} ELSE {ProcOf(c)}
        /\ floodPc' = [floodPc EXCEPT ![c] = "done"]
        /\ UNCHANGED <<MergedVars, procPc, submits>>
    BY <1>4 DEF WriteFails, MergedVars, mainVars
  <2>2. errors'[c] = errors[c] + 1 /\ errors[c] \in Nat
    BY <1>0, <2>1
  <2>3. errors'[c] >= errors[c] /\ errors'[c] > 0
    BY <2>2
  <2>4. \A d \in Clients : /\ d # c => submits'[d] = submits[d] /\ errors'[d] = errors[d]
                           /\ floodPc'[d] \in {"acquire", "drain"} =>
                                  floodPc[d] \in {"acquire", "drain"}
    BY <1>0, <2>1
  <2>5. cutShort' \ cutShort \subseteq IF errors'[c] > 0 THEN {ProcOf(c)} ELSE {}
    BY <2>1, <2>3
  <2>6. procPc[ProcOf(c)] \notin {"done", "failed"}
    BY <1>1, <2>1
  <2> QED
    BY <2>1, <2>3, <2>4, <2>5, <2>6, TaskResults
<1>5. ASSUME NEW id \in 1 .. sent[c], ReadAnswer(c, id)
      PROVE  ResultInv'
  <2>1. /\ OnAnswer(c, id) /\ LoopRuns(c)
        /\ UNCHANGED <<MergedVars, procPc, floodPc, errors, cutShort>>
    BY <1>5 DEF ReadAnswer, MergedVars, loopVars, mainVars
  <2>2. procPc[ProcOf(c)] \notin {"done", "failed"}
    BY <2>1 DEF LoopRuns
  <2>3. \A d \in Clients : d # c => submits'[d] = submits[d]
    BY <1>0, <2>1 DEF OnAnswer, CountAnswer
  <2>4. errors'[c] >= errors[c]
    BY <1>0, <2>1
  <2> QED
    BY <2>1, <2>2, <2>3, <2>4, TaskResults
<1> QED
  BY <1>2, <1>3, <1>4, <1>5 DEF Task

(* A process that has no result moves on. *)
LEMMA ControlKeepsResults ==
    ASSUME ResultInv, TypeOK', NEW p \in Active, Controller(p)
    PROVE  ResultInv'
<1>0. /\ workers \in 1 .. MaxWorkers /\ submits \in [Clients -> Nat]
      /\ procPc \in [Procs -> {"connect", "failed", "barrier", "warmup", "window", "closing",
                               "done"}]
      /\ floodPc \in [Clients -> {"idle", "acquire", "drain", "done"}]
      /\ results \in [Procs -> Reports \cup {None}]
      /\ p \in Procs /\ Active \subseteq Procs
  BY ActiveProcs DEF ResultInv, TypeOK
<1>1. UNCHANGED <<workers, errors, merged, cutShort>>
  BY DEF Controller, ArriveAtBarrier, StartFloods, ConnectFails, Reset, CloseWindow, Finish,
         taskVars, mainVars
<1>2. /\ Active' = Active /\ \A q : ClientsOf(q)' = ClientsOf(q)
      /\ \A c : ProcOf(c)' = ProcOf(c)
  BY <1>1, SameDeal
<1>3. procPc[p] \notin {"done", "failed"}
  BY DEF Controller, ArriveAtBarrier, StartFloods, ConnectFails, Reset, CloseWindow, Finish
<1>4. results[p] = None /\ mainPc # "emitted"
  BY <1>3, ReportedHasStopped
<1>5. \A c \in Clients : /\ ProcOf(c) \in Active
                         /\ c \in ClientsOf(p) <=> p = ProcOf(c)
  BY <1>0, OneProcess
<1>6. CutShortHasError'
  BY <1>1, <1>2 DEF ResultInv, CutShortHasError
(* The other processes' results stay. *)
<1>7. ASSUME NEW q \in Active, q # p, results'[q] # None,
             procPc'[q] = procPc[q], results'[q] = results[q],
             \A c \in Clients : c \notin ClientsOf(p) => submits'[c] = submits[c]
      PROVE  \/ procPc'[q] = "done" /\ results'[q] = Summed(q)'
             \/ procPc'[q] = "failed" /\ results'[q] = [submits |-> 0, errors |-> Load(q)']
  <2>1. \A c \in ClientsOf(q) : c \in Clients /\ c \notin ClientsOf(p)
    BY <1>0, <1>7, DealtWithin, DealtOnce
  <2>2. \A c \in ClientsOf(q) : submits'[c] = submits[c] /\ errors'[c] = errors[c]
    BY <1>1, <1>7, <2>1
  <2> QED
    BY <1>1, <1>7, <2>2, ReportsStay
(* A move without a result. *)
<1>8. ASSUME NEW at \in {"barrier", "warmup", "window", "closing"},
             procPc' = [procPc EXCEPT ![p] = at], UNCHANGED <<results, mainPc>>,
             \A c \in Clients : c \notin ClientsOf(p) =>
                 submits'[c] = submits[c] /\ floodPc'[c] = floodPc[c],
             at = "barrier" =>
                 UNCHANGED floodPc /\ procPc[p] \notin {"warmup", "window", "closing"}
      PROVE  ResultInv'
  <2>1. ReportsAreFinal'
    <3> SUFFICES ASSUME NEW q \in Active, results'[q] # None
                 PROVE  \/ procPc'[q] = "done" /\ results'[q] = Summed(q)'
                        \/ procPc'[q] = "failed" /\ results'[q] = [submits |-> 0, errors |-> Load(q)']
      BY <1>2 DEF ReportsAreFinal
    <3>1. q # p /\ procPc'[q] = procPc[q] /\ results'[q] = results[q]
      BY <1>0, <1>4, <1>8
    <3> QED
      BY <1>7, <1>8, <3>1
  <2>2. FloodsRun'
    <3> SUFFICES ASSUME NEW c \in Clients, floodPc'[c] \in {"acquire", "drain"}
                 PROVE  procPc'[ProcOf(c)] \in {"warmup", "window", "closing"}
      BY <1>2 DEF FloodsRun
    <3>1. CASE ProcOf(c) = p
      <4>1. CASE at = "barrier"
        BY <1>8, <3>1, <4>1 DEF ResultInv, FloodsRun
      <4>2. CASE at # "barrier"
        BY <1>0, <1>8, <3>1, <4>2
      <4> QED
        BY <4>1, <4>2
    <3>2. CASE ProcOf(c) # p
      <4>1. floodPc'[c] = floodPc[c] /\ procPc'[ProcOf(c)] = procPc[ProcOf(c)]
        BY <1>0, <1>5, <1>8, <3>2
      <4> QED
        BY <4>1 DEF ResultInv, FloodsRun
    <3> QED
      BY <3>1, <3>2
  <2>3. FailuresReport'
    BY <1>0, <1>2, <1>8 DEF ResultInv, FailuresReport
  <2>4. MergedIsTheSum'
    BY <1>4, <1>8 DEF MergedIsTheSum
  <2> QED
    BY <1>6, <2>1, <2>2, <2>3, <2>4 DEF ResultInv
<1>9. CASE ArriveAtBarrier(p)
  BY <1>8, <1>9 DEF ArriveAtBarrier, taskVars, mainVars
<1>10. CASE StartFloods(p)
  <2>1. \A c \in Clients : c \notin ClientsOf(p) => floodPc'[c] = floodPc[c]
    BY <1>10 DEF StartFloods
  <2> QED
    BY <1>8, <1>10, <2>1 DEF StartFloods, mainVars
<1>11. CASE Reset(p)
  <2>1. \A c \in Clients : c \notin ClientsOf(p) => submits'[c] = submits[c]
    BY <1>11 DEF Reset
  <2> QED
    BY <1>8, <1>11, <2>1 DEF Reset, mainVars
<1>12. CASE CloseWindow(p)
  BY <1>8, <1>12 DEF CloseWindow, taskVars, mainVars
(* The move that puts the result on the queue. *)
<1>13. ASSUME NEW at \in {"failed", "done"}, procPc' = [procPc EXCEPT ![p] = at],
              UNCHANGED submits,
              \A c \in Clients : floodPc'[c] \in {"acquire", "drain"} =>
                  floodPc[c] \in {"acquire", "drain"} /\ c \notin ClientsOf(p),
              \A q \in Active : q # p => results'[q] = results[q],
              mainPc' # "emitted", mainPc = "crashed" => mainPc' = "crashed",
              \/ at = "done" /\ results'[p] = Summed(p)
              \/ at = "failed" /\ results'[p] = [submits |-> 0, errors |-> Load(p)]
              \/ at = "failed" /\ results'[p] = None /\ mainPc' = "crashed",
              results'[p] = None => mainPc' = "crashed"
       PROVE  ResultInv'
  <2>1. ReportsAreFinal'
    <3> SUFFICES ASSUME NEW q \in Active, results'[q] # None
                 PROVE  \/ procPc'[q] = "done" /\ results'[q] = Summed(q)'
                        \/ procPc'[q] = "failed" /\ results'[q] = [submits |-> 0, errors |-> Load(q)']
      BY <1>2 DEF ReportsAreFinal
    <3>1. CASE q = p
      <4>1. Summed(p)' = Summed(p) /\ Load(p)' = Load(p)
        BY <1>1, <1>2, <1>13 DEF Summed, Load
      <4> QED
        BY <1>0, <1>13, <3>1, <4>1
    <3>2. CASE q # p
      BY <1>0, <1>7, <1>13, <3>2
    <3> QED
      BY <3>1, <3>2
  <2>2. FloodsRun'
    <3> SUFFICES ASSUME NEW c \in Clients, floodPc'[c] \in {"acquire", "drain"}
                 PROVE  procPc'[ProcOf(c)] \in {"warmup", "window", "closing"}
      BY <1>2 DEF FloodsRun
    <3>1. ProcOf(c) # p
      BY <1>5, <1>13
    <3>2. procPc'[ProcOf(c)] = procPc[ProcOf(c)]
      BY <1>0, <1>5, <1>13, <3>1
    <3> QED
      BY <1>13, <3>2 DEF ResultInv, FloodsRun
  <2>3. FailuresReport'
    <3> SUFFICES ASSUME NEW q \in Active, procPc'[q] = "failed"
                 PROVE  mainPc' = "crashed" \/ results'[q] # None
      BY <1>2 DEF FailuresReport
    <3>1. CASE q = p
      BY <1>13, <3>1
    <3>2. CASE q # p
      <4>1. procPc[q] = "failed" /\ results'[q] = results[q]
        BY <1>0, <1>13, <3>2
      <4> QED
        BY <1>13, <4>1 DEF ResultInv, FailuresReport
    <3> QED
      BY <3>1, <3>2
  <2>4. MergedIsTheSum'
    BY <1>13 DEF MergedIsTheSum
  <2> QED
    BY <1>6, <2>1, <2>2, <2>3, <2>4 DEF ResultInv
<1>14. CASE ConnectFails(p)
  <2>1. /\ procPc[p] = "connect" /\ procPc' = [procPc EXCEPT ![p] = "failed"]
        /\ UNCHANGED <<submits, floodPc>>
    BY <1>14 DEF ConnectFails, taskVars
  <2>2. \A c \in Clients : floodPc'[c] \in {"acquire", "drain"} =>
            floodPc[c] \in {"acquire", "drain"} /\ c \notin ClientsOf(p)
    BY <1>5, <2>1 DEF ResultInv, FloodsRun
  <2>3. CASE workers > 1 /\ UNCHANGED mainPc
             /\ results' = [results EXCEPT ![p] = [submits |-> 0, errors |-> Load(p)]]
    <3>1. [submits |-> 0, errors |-> Load(p)] \in Reports
      BY <1>0, DealtWithin DEF Reports
    <3>2. results'[p] = [submits |-> 0, errors |-> Load(p)] /\ results'[p] # None
      BY <1>0, <2>3, <3>1, NoneAssumption
    <3>3. \A q \in Active : q # p => results'[q] = results[q]
      BY <1>0, <2>3
    <3> QED
      BY <1>4, <1>13, <2>1, <2>2, <2>3, <3>2, <3>3
  <2>4. CASE mainPc' = "crashed" /\ UNCHANGED results
    BY <1>4, <1>13, <2>1, <2>2, <2>4
  <2> QED
    BY <1>14, <2>3, <2>4 DEF ConnectFails
<1>15. CASE Finish(p)
  <2>1. /\ procPc' = [procPc EXCEPT ![p] = "done"] /\ UNCHANGED <<submits, mainPc>>
        /\ floodPc' = [c \in Clients |-> IF c \in ClientsOf(p) THEN "done" ELSE floodPc[c]]
        /\ results' = [results EXCEPT ![p] = Summed(p)]
    BY <1>15 DEF Finish, Summed
  <2>2. \A c \in Clients : floodPc'[c] \in {"acquire", "drain"} =>
            floodPc[c] \in {"acquire", "drain"} /\ c \notin ClientsOf(p)
    BY <2>1
  <2>3. results'[p] = Summed(p) /\ results'[p] # None
    <3>1. Summed(p) \in Reports
      BY SumsAreCounts DEF ResultInv
    <3> QED
      BY <1>0, <2>1, <3>1, NoneAssumption
  <2>4. \A q \in Active : q # p => results'[q] = results[q]
    BY <1>0, <2>1
  <2> QED
    BY <1>4, <1>13, <2>1, <2>2, <2>3, <2>4
<1> QED
  BY <1>9, <1>10, <1>11, <1>12, <1>14, <1>15 DEF Controller

LEMMA NextResults == ResultInv /\ [Next]_vars => ResultInv'
<1> SUFFICES ASSUME ResultInv, [Next]_vars PROVE ResultInv'
  OBVIOUS
<1>1. TypeOK'
  BY NextType DEF ResultInv
<1>2. CASE BarrierReleases \/ BarrierBreaks \/ UNCHANGED vars
  BY <1>1, <1>2, ResultsStay
     DEF BarrierReleases, BarrierBreaks, MergedVars, vars, loopVars, taskVars, mainVars
<1>3. CASE Emit
  <2>1. /\ \A p \in Active : results[p] # None
        /\ merged' = [submits |-> Total([p \in Active |-> results[p].submits], Active),
                      errors |-> Total([p \in Active |-> results[p].errors], Active)]
        /\ UNCHANGED <<workers, procPc, floodPc, submits, errors, results, cutShort>>
    BY <1>3 DEF Emit, loopVars, taskVars
  <2>2. /\ Active' = Active /\ \A p : ClientsOf(p)' = ClientsOf(p)
        /\ \A c : ProcOf(c)' = ProcOf(c)
    BY <2>1, SameDeal
  <2>3. ReportsAreFinal'
    BY <2>1, <2>2, ReportsStay DEF ReportsAreFinal
  <2>4. FloodsRun' /\ CutShortHasError'
    BY <2>1, <2>2 DEF ResultInv, FloodsRun, CutShortHasError
  <2>5. FailuresReport'
    BY <2>1, <2>2 DEF FailuresReport
  <2>6. MergedIsTheSum'
    BY <2>1, <2>2 DEF MergedIsTheSum
  <2> QED
    BY <1>1, <2>3, <2>4, <2>5, <2>6 DEF ResultInv
<1> QED
  BY <1>1, <1>2, <1>3, TaskKeepsResults, ControlKeepsResults DEF Next, Main

(* What a process reports is what was counted on its connections. *)
LEMMA ReportedIsCounted ==
    ASSUME ResultInv, OnceInv, NEW p \in Active, results[p] # None
    PROVE  results[p].submits = Total([c \in Clients |-> Cardinality(counted[c])], ClientsOf(p))
<1> DEFINE counts == [c \in Clients |-> Cardinality(counted[c])]
<1>0. /\ IsFiniteSet(ClientsOf(p)) /\ ClientsOf(p) \subseteq Clients
      /\ workers \in 1 .. MaxWorkers
  BY ClientsFinite, DealtWithin DEF ResultInv, TypeOK
<1>1. \A c \in ClientsOf(p) : ProcOf(c) = p
  BY <1>0, OneProcess
<1>2. \A c \in ClientsOf(p) : counts[c] \in Nat
  BY <1>0, FS_CardinalityType DEF OnceInv, CountedIsAnswered
<1>3. CASE procPc[p] = "done" /\ results[p] = Summed(p)
  <2>1. \A c \in ClientsOf(p) : counts[c] = submits[c]
    BY <1>0, <1>1, <1>3 DEF OnceInv, CountedPerConnection
  <2> HIDE DEF counts
  <2>2. Total(counts, ClientsOf(p)) = Total(submits, ClientsOf(p))
    BY <1>0, <1>2, <2>1, SameTotal
  <2> QED
    BY <1>3, <2>2 DEF Summed, counts
<1>4. CASE procPc[p] = "failed" /\ results[p] = [submits |-> 0, errors |-> Load(p)]
  <2>1. \A c \in ClientsOf(p) : counts[c] = 0
    BY <1>0, <1>1, <1>4, FS_EmptySet DEF OnceInv, NoneBeforeWindow, BeforeWindow
  <2> HIDE DEF counts
  <2>2. Total(counts, ClientsOf(p)) = 0
    BY <1>0, <1>2, <2>1, TotalOfCounts
  <2> QED
    BY <1>4, <2>2 DEF counts
<1> QED
  BY <1>3, <1>4 DEF ResultInv, ReportsAreFinal

(* The processes' shares of the connections add up to all of them. *)
LEMMA LineIsCounted ==
    ASSUME ResultInv, OnceInv, mainPc = "emitted"
    PROVE  merged.submits = Total([c \in Clients |-> Cardinality(counted[c])], Clients)
<1> DEFINE counts == [c \in Clients |-> Cardinality(counted[c])]
           share == [p \in Active |-> ClientsOf(p)]
           reported == [p \in Active |-> results[p].submits]
<1>0. /\ workers \in 1 .. MaxWorkers /\ IsFiniteSet(Active) /\ IsFiniteSet(Clients)
  BY ActiveProcs, ClientsFinite DEF ResultInv, TypeOK
<1>1. merged.submits = Total(reported, Active) /\ \A p \in Active : results[p] # None
  BY DEF ResultInv, MergedIsTheSum
<1>2. UNION {share[p] : p \in Active} = Clients
  <2>1. \A p \in Active : share[p] \subseteq Clients
    BY <1>0, DealtWithin
  <2>2. \A c \in Clients : \E p \in Active : c \in share[p]
    BY <1>0, DealtOnce
  <2> HIDE DEF share
  <2> QED
    BY <2>1, <2>2
<1>3. \A p, q \in Active : p # q => share[p] \cap share[q] = {}
  BY <1>0, DealtOnce
<1>4. \A c \in Clients : counts[c] \in Nat
  BY FS_CardinalityType DEF OnceInv, CountedIsAnswered
<1>5. \A p \in Active : reported[p] = Total(counts, share[p])
  <2> SUFFICES ASSUME NEW p \in Active
               PROVE  results[p].submits = Total(counts, ClientsOf(p))
    OBVIOUS
  <2> QED
    BY <1>1, ReportedIsCounted
<1> HIDE DEF counts, share, reported
<1>6. Total(reported, Active) = Total(counts, Clients)
  BY <1>0, <1>2, <1>3, <1>4, <1>5, TotalOfParts
<1> QED
  BY <1>1, <1>6 DEF counts

(* A share counts once, and only if its answer came in the window, and the *)
(* result line adds up exactly those of all connections, whichever         *)
(* processes drove them and whichever of these could not connect.          *)
THEOREM SharesCountedOnceCorrect == Spec => []SharesCountedOnce
<1>1. ResultInv /\ OnceInv => SharesCountedOnce
  BY LineIsCounted DEF OnceInv, SharesCountedOnce
<1> QED
  BY InitSlots, NextSlots, InitOnce, NextOnce, InitResults, NextResults, <1>1, PTL DEF Spec

LEMMA NoErrorsNoFailures == ResultInv => ErrorsAreReported
<1> SUFFICES ASSUME ResultInv, mainPc = "emitted", merged.errors = 0
             PROVE  cutShort = {} /\ \A p \in Active : procPc[p] # "failed"
  BY DEF ErrorsAreReported
<1> DEFINE reported == [p \in Active |-> results[p].errors]
<1>0. /\ workers \in 1 .. MaxWorkers /\ IsFiniteSet(Active) /\ Active \subseteq Procs
      /\ results \in [Procs -> Reports \cup {None}] /\ errors \in [Clients -> Nat]
  BY ActiveProcs DEF ResultInv, TypeOK
<1>1. Total(reported, Active) = 0 /\ \A p \in Active : results[p] # None
  BY DEF ResultInv, MergedIsTheSum
<1>2. \A p \in Active : reported[p] \in Nat
  <2>1. \A p \in Active : results[p] \in Reports
    BY <1>0, <1>1
  <2> QED
    BY <2>1 DEF Reports
<1>3. \A p \in Active : reported[p] = 0
  <2> HIDE DEF reported
  <2> QED
    BY <1>0, <1>1, <1>2, TotalOfCounts
<1>4. ASSUME NEW p \in Active
      PROVE  procPc[p] # "failed" /\ \A c \in ClientsOf(p) : errors[c] = 0
  <2>1. results[p].errors = 0 /\ results[p] # None
    BY <1>1, <1>3
  <2>2. results[p] # [submits |-> 0, errors |-> Load(p)]
    BY <1>0, <2>1, DealtWithin
  <2>3. procPc[p] = "done" /\ results[p] = Summed(p)
    BY <2>1, <2>2 DEF ResultInv, ReportsAreFinal
  <2>4. Total(errors, ClientsOf(p)) = 0
    BY <2>1, <2>3 DEF Summed
  <2>5. IsFiniteSet(ClientsOf(p)) /\ \A c \in ClientsOf(p) : errors[c] \in Nat
    BY <1>0, ClientsFinite, DealtWithin
  <2>6. \A c \in ClientsOf(p) : errors[c] = 0
    BY <2>4, <2>5, TotalOfCounts
  <2> QED
    BY <2>3, <2>6
<1>5. cutShort = {}
  <2> SUFFICES ASSUME NEW p \in cutShort PROVE FALSE
    OBVIOUS
  <2>1. p \in Active /\ \E c \in ClientsOf(p) : errors[c] > 0
    BY DEF ResultInv, CutShortHasError
  <2> QED
    BY <1>4, <2>1
<1> QED
  BY <1>4, <1>5

(* A result line without errors comes from processes that all connected    *)
(* and whose floods ran until their windows closed, for any number of      *)
(* processes and connections.                                              *)
THEOREM ErrorsAreReportedCorrect == Spec => []ErrorsAreReported
BY InitResults, NextResults, NoErrorsNoFailures, PTL DEF Spec
================================================================================
