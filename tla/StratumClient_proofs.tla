--------------------------- MODULE StratumClient_proofs ---------------------------
(***************************************************************************)
(* The handshake reports success only for a session that the pool granted, *)
(* or that a response without an id stood in for, and no job is published  *)
(* without one, whatever order the two threads and the pool run in and     *)
(* however many messages are sent.                                         *)
(***************************************************************************)
EXTENDS StratumClient, FiniteSetTheorems, SequenceTheorems, TLAPS

Ids == 1 .. Len(requests)

(* The stored ids are of the requests they are named for. *)
IdsAreRight ==
    /\ \A m \in Methods : idOf[m] # None => idOf[m] \in Ids /\ requests[idOf[m]] = m
    /\ phase \in Methods /\ step = "store" => Len(requests) \in Ids /\ requests[Len(requests)] = phase

(* They are stored in the order of the requests. *)
StoredInTurn ==
    /\ phase \in Methods /\ step = "wait" => idOf[phase] # None
    /\ phase \in {"authorize", "suggest_difficulty"} => idOf["subscribe"] # None
    /\ phase = "suggest_difficulty" => idOf["authorize"] # None
    /\ idOf["authorize"] # None => idOf["subscribe"] # None
    /\ idOf["suggest_difficulty"] # None => idOf["subscribe"] # None /\ idOf["authorize"] # None

(* Whatever has an id, on the wire or handled, answers a request. *)
Known(message) ==
    /\ message.id # None => message.id \in Ids
    /\ message.method = None => message.result \in Results

ClientIsKnown == \A i \in 1 .. Len(toClient) : Known(toClient[i])

WireIsKnown ==
    /\ \A i \in 1 .. Len(toServer) : toServer[i] \in Ids
    /\ ClientIsKnown
    /\ \A p \in handled : p[1] \in Ids

(* The events stand for what the pool granted, or for a stand-in. *)
EventsAreGrants ==
    /\ event["subscribe"] => session /\ (Granted("subscribe") \/ StoodIn("subscribe"))
    /\ event["authorize"] => Granted("authorize") \/ StoodIn("authorize")

PhasesFollow ==
    /\ phase = "connect" => step = "send"
    /\ phase = "authorize" => event["subscribe"]
    /\ phase \in {"suggest_difficulty", "running"} => event["subscribe"] /\ event["authorize"]
    /\ published > 0 => event["subscribe"]

IInv == TypeOK /\ IdsAreRight /\ StoredInTurn /\ WireIsKnown /\ EventsAreGrants /\ PhasesFollow

LEMMA InitIInv == Init => IInv
<1> SUFFICES ASSUME Init PROVE IInv
    OBVIOUS
<1>1. TypeOK
    <2>1. requests \in Seq(Methods \cup {"submit"}) /\ toServer \in Seq(Nat)
          /\ toClient \in Seq(Messages) /\ unasked \in Seq([result : Results, stored : SUBSET Methods])
        BY EmptySeq DEF Init
    <2>2. idOf \in [Methods -> Nat \cup {None}] /\ event \in [Awaited -> BOOLEAN]
        BY DEF Init
    <2> QED
        BY <2>1, <2>2 DEF Init, TypeOK
<1>2. IdsAreRight /\ StoredInTurn
    BY DEF Init, IdsAreRight, StoredInTurn, Methods
<1>3. WireIsKnown /\ EventsAreGrants /\ PhasesFollow
    BY DEF Init, WireIsKnown, ClientIsKnown, EventsAreGrants, PhasesFollow, Awaited
<1> QED
    BY <1>1, <1>2, <1>3 DEF IInv
-----------------------------------------------------------------------------
(* One message more on a sequence, and one message less. *)

LEMMA AppendFacts ==
    ASSUME NEW S, NEW s \in Seq(S), NEW e \in S
    PROVE  /\ Append(s, e) \in Seq(S)
           /\ Len(Append(s, e)) = Len(s) + 1 /\ Len(s) \in Nat
           /\ \A i \in 1 .. Len(s) : Append(s, e)[i] = s[i]
           /\ Append(s, e)[Len(s) + 1] = e
BY AppendProperties, LenProperties

LEMMA TailFacts ==
    ASSUME NEW S, NEW s \in Seq(S), s # <<>>
    PROVE  /\ Head(s) = s[1] /\ Head(s) \in S /\ Tail(s) \in Seq(S)
           /\ Len(s) \in Nat /\ Len(s) >= 1 /\ Len(Tail(s)) = Len(s) - 1
           /\ \A i \in 1 .. Len(Tail(s)) : i + 1 \in 1 .. Len(s) /\ Tail(s)[i] = s[i + 1]
BY HeadTailProperties, EmptySeq, LenProperties

(* The message that is dispatched. *)
LEMMA DispatchedMessage ==
    ASSUME IInv, Dispatch
    PROVE  Head(toClient) \in Messages /\ Known(Head(toClient))
<1>1. toClient \in Seq(Messages) /\ toClient # <<>>
    BY DEF IInv, TypeOK, Dispatch
<1>2. /\ Head(toClient) = toClient[1] /\ Head(toClient) \in Messages
      /\ Len(toClient) \in Nat /\ Len(toClient) >= 1
    BY <1>1, TailFacts
<1>3. 1 \in 1 .. Len(toClient)
    BY <1>2
<1> QED
    BY <1>2, <1>3 DEF IInv, WireIsKnown, ClientIsKnown

(* What the history keeps of a response. *)
LEMMA Remembers ==
    ASSUME IInv, NEW id \in Ids \cup {None}, NEW result \in Results, Remember(id, result)
    PROVE  /\ handled \subseteq handled' /\ handled' \subseteq Nat \X Results
           /\ \A p \in handled' : p[1] \in Ids
           /\ unasked' \in Seq([result : Results, stored : SUBSET Methods])
           /\ DOMAIN unasked \subseteq DOMAIN unasked' /\ \A i \in DOMAIN unasked : unasked'[i] = unasked[i]
           /\ id # None => handled' = handled \cup {<<id, result>>} /\ unasked' = unasked
           /\ id = None =>
                 /\ handled' = handled /\ Len(unasked) \in Nat
                 /\ Len(unasked) + 1 \notin DOMAIN unasked
                 /\ DOMAIN unasked' = DOMAIN unasked \cup {Len(unasked) + 1}
                 /\ unasked'[Len(unasked) + 1] = [result |-> result, stored |-> Stored]
<1> DEFINE Entries == [result : Results, stored : SUBSET Methods]
<1>1. handled \subseteq Nat \X Results /\ unasked \in Seq(Entries)
    BY DEF IInv, TypeOK
<1>2. CASE id # None
    BY <1>1, <1>2 DEF Remember, IInv, WireIsKnown, Ids
<1>3. CASE id = None
    <2>1. handled' = handled /\ unasked' = Append(unasked, [result |-> result, stored |-> Stored])
        BY <1>3 DEF Remember
    <2>2. [result |-> result, stored |-> Stored] \in Entries
        BY DEF Stored
    <2>3. /\ unasked' \in Seq(Entries) /\ Len(unasked') = Len(unasked) + 1 /\ Len(unasked) \in Nat
          /\ \A i \in 1 .. Len(unasked) : unasked'[i] = unasked[i]
          /\ unasked'[Len(unasked) + 1] = [result |-> result, stored |-> Stored]
        BY <1>1, <2>1, <2>2, AppendFacts
    <2>4. DOMAIN unasked = 1 .. Len(unasked) /\ DOMAIN unasked' = 1 .. Len(unasked')
        BY <1>1, <2>3
    <2> QED
        BY <1>1, <1>3, <2>1, <2>3, <2>4 DEF IInv, WireIsKnown
<1> QED
    BY <1>2, <1>3

(* The readings of a response, and what can be taken for whose answer. *)
AnswersOrStandsIn(m, id) ==
    \/ id \in Ids /\ requests[id] = m
    \/ id = None /\ Stored = IF m = "subscribe" THEN {} ELSE {"subscribe"}

LEMMA ResponseIsOneOf ==
    ASSUME IInv, NEW id \in Ids \cup {None}, NEW result, HandleResponse(id, result)
    PROVE  /\ Remember(id, result) /\ published' = published
           /\ \/ AnswersOrStandsIn("subscribe", id) /\ OnSubscribeResult(result)
              \/ AnswersOrStandsIn("authorize", id) /\ OnAuthorizeResult(result)
              \/ id # None /\ requests[id] = "suggest_difficulty" /\ OnSuggestResult
              \/ (id = None => Awaited \subseteq Stored) /\ OnShareResult(result)
<1>0. "subscribe" \in Methods /\ "authorize" \in Methods /\ "suggest_difficulty" \in Methods
    BY DEF Methods
<1>1. \A m \in Methods : id # None /\ id = idOf[m] => id \in Ids /\ requests[id] = m
    BY DEF IInv, IdsAreRight
<1>2. CASE id = idOf["subscribe"]
    <2>1. OnSubscribeResult(result)
        BY <1>2 DEF HandleResponse
    <2>2. id = None => Stored = {}
        BY <1>2 DEF IInv, StoredInTurn, Stored, Methods
    <2> QED
        BY <1>0, <1>1, <1>2, <2>1, <2>2 DEF HandleResponse, AnswersOrStandsIn
<1>3. CASE id # idOf["subscribe"] /\ id = idOf["authorize"]
    <2>1. OnAuthorizeResult(result)
        BY <1>3 DEF HandleResponse
    <2>2. id = None => Stored = {"subscribe"}
        BY <1>3 DEF IInv, StoredInTurn, Stored, Methods
    <2> QED
        BY <1>0, <1>1, <1>3, <2>1, <2>2 DEF HandleResponse, AnswersOrStandsIn
<1>4. CASE /\ id \notin {idOf["subscribe"], idOf["authorize"]}
           /\ id = idOf["suggest_difficulty"] /\ idOf["suggest_difficulty"] # None
    <2>1. OnSuggestResult
        BY <1>4 DEF HandleResponse
    <2> QED
        BY <1>0, <1>1, <1>4, <2>1 DEF HandleResponse
<1>5. CASE /\ id \notin {idOf["subscribe"], idOf["authorize"]}
           /\ ~(id = idOf["suggest_difficulty"] /\ idOf["suggest_difficulty"] # None)
    <2>1. OnShareResult(result)
        BY <1>5 DEF HandleResponse
    <2>2. id = None => Awaited \subseteq Stored
        BY <1>5 DEF Stored, Awaited, Methods
    <2> QED
        BY <1>5, <2>1, <2>2 DEF HandleResponse
<1> QED
    BY <1>2, <1>3, <1>4, <1>5

-----------------------------------------------------------------------------
(* A step that sends nothing, or one request more. *)
LEMMA Sends ==
    ASSUME IInv, NEW m \in Methods \cup {"submit"}, Send(m)
    PROVE  /\ requests' \in Seq(Methods \cup {"submit"}) /\ Len(requests) \in Nat
           /\ Len(requests') = Len(requests) + 1 /\ Ids \subseteq Ids'
           /\ \A i \in Ids : requests'[i] = requests[i]
           /\ requests'[Len(requests')] = m
           /\ toServer' \in Seq(Nat) /\ \A i \in 1 .. Len(toServer') : toServer'[i] \in Ids'
           /\ UNCHANGED <<toClient, open, notifies>>
<1>1. requests \in Seq(Methods \cup {"submit"}) /\ toServer \in Seq(Nat)
    BY DEF IInv, TypeOK
<1>2. /\ requests' \in Seq(Methods \cup {"submit"}) /\ Len(requests) \in Nat
      /\ Len(requests') = Len(requests) + 1
      /\ \A i \in Ids : requests'[i] = requests[i]
      /\ requests'[Len(requests) + 1] = m
    BY <1>1, AppendFacts DEF Send, Ids
<1>3. Ids \subseteq Ids' /\ Len(requests) + 1 \in Ids' /\ Len(requests) + 1 \in Nat
    BY <1>2 DEF Ids
<1>4. toServer' \in Seq(Nat) /\ \A i \in 1 .. Len(toServer') : toServer'[i] \in Ids'
    <2>1. CASE toServer' = toServer
        BY <1>1, <1>3, <2>1 DEF IInv, WireIsKnown
    <2>2. CASE toServer' = Append(toServer, Len(requests) + 1)
        <3>1. /\ toServer' \in Seq(Nat) /\ Len(toServer') = Len(toServer) + 1 /\ Len(toServer) \in Nat
              /\ \A i \in 1 .. Len(toServer) : toServer'[i] = toServer[i]
              /\ toServer'[Len(toServer) + 1] = Len(requests) + 1
            BY <1>1, <1>3, <2>2, AppendFacts
        <3>2. ASSUME NEW i \in 1 .. Len(toServer') PROVE i \in 1 .. Len(toServer) \/ i = Len(toServer) + 1
            BY <3>1
        <3> QED
            BY <1>3, <3>1, <3>2 DEF IInv, WireIsKnown
    <2> QED
        BY <2>1, <2>2 DEF Send
<1> QED
    BY <1>2, <1>3, <1>4 DEF Send

(* What was granted stays granted: requests are only appended. *)
LEMMA GrantsStay ==
    ASSUME IInv, \A i \in Ids : requests'[i] = requests[i], handled \subseteq handled', NEW m
    PROVE  Granted(m) => Granted(m)'
BY DEF IInv, WireIsKnown, Granted

(* So does what a response without an id has stood in for. *)
LEMMA StandInsStay ==
    ASSUME DOMAIN unasked \subseteq DOMAIN unasked', \A i \in DOMAIN unasked : unasked'[i] = unasked[i], NEW m
    PROVE  StoodIn(m) => StoodIn(m)'
BY DEF StoodIn

(* The reader's side: what a message may change. *)
Dispatched ==
    /\ event' \in [Awaited -> BOOLEAN] /\ session' \in BOOLEAN /\ readerAlive' \in BOOLEAN
    /\ published' \in Nat /\ accepted' \in Nat /\ rejected' \in Nat
    /\ handled' \subseteq Nat \X Results /\ handled \subseteq handled'
    /\ \A p \in handled' : p[1] \in Ids
    /\ unasked' \in Seq([result : Results, stored : SUBSET Methods])
    /\ \A e \in Awaited : event[e] => event'[e]
    /\ EventsAreGrants'
    /\ published' > 0 => event'["subscribe"]

LEMMA Dispatches == ASSUME IInv, Dispatch PROVE Dispatched
<1> USE DEF Awaited
<1>0. /\ event \in [Awaited -> BOOLEAN] /\ session \in BOOLEAN /\ readerAlive \in BOOLEAN
      /\ published \in Nat /\ accepted \in Nat /\ rejected \in Nat
    BY DEF IInv, TypeOK
<1>1. requests' = requests
    BY DEF Dispatch
<1>2. CASE OnNotify
    <2>0. handled \subseteq Nat \X Results /\ unasked \in Seq([result : Results, stored : SUBSET Methods])
        BY DEF IInv, TypeOK
    <2>1. \A m : Granted(m) => Granted(m)'
        BY <1>1, <1>2, GrantsStay DEF OnNotify
    <2>2. \A m : StoodIn(m) => StoodIn(m)'
        BY <1>2, StandInsStay DEF OnNotify
    <2> QED
        BY <1>0, <1>2, <2>0, <2>1, <2>2 DEF OnNotify, IInv, WireIsKnown, EventsAreGrants, PhasesFollow, Dispatched
<1>3. ASSUME NEW id \in Ids \cup {None}, NEW result \in Results, HandleResponse(id, result)
      PROVE  Dispatched
    <2>1. Remember(id, result) /\ published' = published
        BY <1>3, ResponseIsOneOf
    <2>2. /\ handled' \subseteq Nat \X Results /\ handled \subseteq handled' /\ \A p \in handled' : p[1] \in Ids
          /\ unasked' \in Seq([result : Results, stored : SUBSET Methods])
        BY <2>1, Remembers
    <2>3. \A m : (Granted(m) => Granted(m)') /\ (StoodIn(m) => StoodIn(m)')
        <3>1. \A m : StoodIn(m) => StoodIn(m)'
            BY <2>1, Remembers, StandInsStay
        <3> QED
            BY <1>1, <2>2, <3>1, GrantsStay
    <2>4. ASSUME NEW m, AnswersOrStandsIn(m, id), result = Yes[m] PROVE Granted(m)' \/ StoodIn(m)'
        <3>1. CASE id \in Ids /\ requests[id] = m
            <4>1. id # None
                BY <3>1, NoneAssumption DEF Ids
            <4>2. handled' = handled \cup {<<id, result>>}
                BY <2>1, <4>1, Remembers
            <4>3. <<id, result>> \in handled' /\ requests'[<<id, result>>[1]] = m /\ <<id, result>>[2] = Yes[m]
                BY <1>1, <2>4, <3>1, <4>2
            <4> QED
                BY <4>3 DEF Granted, Yes
        <3>2. CASE id = None /\ Stored = IF m = "subscribe" THEN {} ELSE {"subscribe"}
            <4>1. /\ Len(unasked) + 1 \in DOMAIN unasked'
                  /\ unasked'[Len(unasked) + 1] = [result |-> result, stored |-> Stored]
                BY <2>1, <3>2, Remembers
            <4>2. /\ unasked'[Len(unasked) + 1].result = Yes[m]
                  /\ unasked'[Len(unasked) + 1].stored = IF m = "subscribe" THEN {} ELSE {"subscribe"}
                BY <2>4, <3>2, <4>1
            <4>3. Yes' = Yes
                BY DEF Yes
            <4> QED
                BY <4>1, <4>2, <4>3 DEF StoodIn
        <3> QED
            BY <2>4, <3>1, <3>2 DEF AnswersOrStandsIn
    <2>5. CASE AnswersOrStandsIn("subscribe", id) /\ OnSubscribeResult(result)
        <3>1. /\ event'["authorize"] = event["authorize"] /\ event' \in [Awaited -> BOOLEAN]
              /\ event["subscribe"] => event'["subscribe"]
              /\ session => session'
            <4>1. event' = event \/ event' = [event EXCEPT !["subscribe"] = TRUE]
                BY <2>5 DEF OnSubscribeResult
            <4>2. session' = TRUE \/ session' = session
                BY <2>5 DEF OnSubscribeResult
            <4> QED
                BY <1>0, <4>1, <4>2
        <3>2. session' \in BOOLEAN /\ readerAlive' \in BOOLEAN /\ accepted' \in Nat /\ rejected' \in Nat
            BY <1>0, <2>5 DEF OnSubscribeResult
        <3>3. event'["subscribe"] => session' /\ (Granted("subscribe")' \/ StoodIn("subscribe")')
            <4>1. CASE result = "session"
                <5>1. session' /\ result = Yes["subscribe"]
                    BY <2>5, <4>1 DEF OnSubscribeResult, Yes
                <5> QED
                    BY <2>4, <2>5, <5>1
            <4>2. CASE result # "session"
                <5>1. event' = event /\ session' = session
                    BY <2>5, <4>2 DEF OnSubscribeResult
                <5> QED
                    BY <2>3, <5>1 DEF IInv, EventsAreGrants
            <4> QED
                BY <4>1, <4>2
        <3>4. event'["authorize"] => Granted("authorize")' \/ StoodIn("authorize")'
            BY <2>3, <3>1 DEF IInv, EventsAreGrants
        <3>5. published' > 0 => event'["subscribe"]
            BY <2>1, <3>1 DEF IInv, PhasesFollow
        <3> QED
            BY <1>0, <2>1, <2>2, <3>1, <3>2, <3>3, <3>4, <3>5 DEF Dispatched, EventsAreGrants
    <2>6. CASE AnswersOrStandsIn("authorize", id) /\ OnAuthorizeResult(result)
        <3>1. /\ event'["subscribe"] = event["subscribe"]
              /\ event'["authorize"] = (event["authorize"] \/ result = "true")
              /\ event' \in [Awaited -> BOOLEAN]
            BY <1>0, <2>6 DEF OnAuthorizeResult
        <3>2. session' = session /\ readerAlive' = readerAlive /\ accepted' = accepted
              /\ rejected' = rejected
            BY <2>6 DEF OnAuthorizeResult
        <3>3. event'["subscribe"] => session' /\ (Granted("subscribe")' \/ StoodIn("subscribe")')
            BY <2>3, <3>1, <3>2 DEF IInv, EventsAreGrants
        <3>4. event'["authorize"] => Granted("authorize")' \/ StoodIn("authorize")'
            <4>1. result = "true" => result = Yes["authorize"]
                BY DEF Yes
            <4> QED
                BY <2>3, <2>4, <2>6, <3>1, <4>1 DEF IInv, EventsAreGrants
        <3>5. published' > 0 => event'["subscribe"]
            BY <2>1, <3>1 DEF IInv, PhasesFollow
        <3> QED
            BY <1>0, <2>1, <2>2, <3>1, <3>2, <3>3, <3>4, <3>5 DEF Dispatched, EventsAreGrants
    <2>7. CASE OnSuggestResult \/ OnShareResult(result)
        BY <1>0, <2>1, <2>2, <2>3, <2>7
        DEF OnSuggestResult, OnShareResult, Dispatched, EventsAreGrants, PhasesFollow, IInv
    <2> QED
        BY <1>3, <2>5, <2>6, <2>7, ResponseIsOneOf
<1>4. OnNotify \/ (Head(toClient).method = None /\ HandleResponse(Head(toClient).id, Head(toClient).result))
    BY DEF Dispatch
<1>5. Head(toClient).id \in Ids \cup {None} /\ (Head(toClient).method = None => Head(toClient).result \in Results)
    BY DispatchedMessage DEF Known
<1> QED
    BY <1>2, <1>3, <1>4, <1>5
-----------------------------------------------------------------------------
(* A message of the pool joins what is on its way to the reader. *)
LEMMA PoolSends ==
    ASSUME IInv, NEW message \in Messages, Known(message), toClient' = Append(toClient, message),
           requests' = requests
    PROVE  toClient' \in Seq(Messages) /\ ClientIsKnown'
<1>1. toClient \in Seq(Messages)
    BY DEF IInv, TypeOK
<1>2. /\ toClient' \in Seq(Messages) /\ Len(toClient') = Len(toClient) + 1 /\ Len(toClient) \in Nat
      /\ \A i \in 1 .. Len(toClient) : toClient'[i] = toClient[i]
      /\ toClient'[Len(toClient) + 1] = message
    BY <1>1, AppendFacts
<1>3. \A i \in 1 .. Len(toClient') : i \in 1 .. Len(toClient) \/ i = Len(toClient) + 1
    BY <1>2
<1>4. \A i \in 1 .. Len(toClient') :
          /\ toClient'[i].id # None => toClient'[i].id \in Ids
          /\ toClient'[i].method = None => toClient'[i].result \in Results
    BY <1>2, <1>3 DEF IInv, WireIsKnown, ClientIsKnown, Known
<1> QED
    BY <1>2, <1>4 DEF ClientIsKnown, Known, Ids

LEMMA MethodsAreNoEnds == \A m \in Methods : m \notin {"connect", "running"} \cup Over
BY DEF Methods, Over

LEMMA NextIInv == IInv /\ [Next]_vars => IInv'
<1> SUFFICES ASSUME IInv, [Next]_vars PROVE IInv'
    OBVIOUS
<1> USE DEF mainVars, readerVars, wireVars
<1>1. CASE SendRequest
    <2>1. Send(phase) /\ phase \in Methods /\ phase' = phase /\ step' = "store"
          /\ UNCHANGED <<idOf, readerVars>>
        BY <1>1 DEF SendRequest
    <2>2. /\ requests' \in Seq(Methods \cup {"submit"}) /\ Len(requests) \in Nat
          /\ Len(requests') = Len(requests) + 1 /\ Ids \subseteq Ids'
          /\ \A i \in Ids : requests'[i] = requests[i]
          /\ requests'[Len(requests')] = phase
          /\ toServer' \in Seq(Nat) /\ \A i \in 1 .. Len(toServer') : toServer'[i] \in Ids'
          /\ UNCHANGED <<toClient, open, notifies>>
        BY <2>1, Sends
    <2>3. TypeOK'
        BY <2>1, <2>2 DEF IInv, TypeOK
    <2>4. WireIsKnown'
        BY <2>1, <2>2 DEF IInv, WireIsKnown, ClientIsKnown, Known
    <2>7. StoredInTurn'
        BY <2>1 DEF IInv, StoredInTurn
    <2>5. EventsAreGrants' /\ PhasesFollow'
        BY <2>1, <2>2, GrantsStay, MethodsAreNoEnds DEF IInv, EventsAreGrants, PhasesFollow, StoodIn
    <2>6. IdsAreRight'
        <3>1. Len(requests') \in Ids'
            BY <2>2 DEF Ids
        <3>2. \A m \in Methods : idOf'[m] # None => idOf'[m] \in Ids' /\ requests'[idOf'[m]] = m
            BY <2>1, <2>2 DEF IInv, IdsAreRight
        <3> QED
            BY <2>1, <2>2, <3>1, <3>2 DEF IdsAreRight
    <2> QED
        BY <2>3, <2>4, <2>5, <2>6, <2>7 DEF IInv
<1>2. CASE Submit
    <2>1. Send("submit") /\ phase = "running" /\ UNCHANGED <<mainVars, readerVars>>
        BY <1>2 DEF Submit
    <2>2. /\ requests' \in Seq(Methods \cup {"submit"}) /\ Len(requests) \in Nat
          /\ Len(requests') = Len(requests) + 1 /\ Ids \subseteq Ids'
          /\ \A i \in Ids : requests'[i] = requests[i]
          /\ toServer' \in Seq(Nat) /\ \A i \in 1 .. Len(toServer') : toServer'[i] \in Ids'
          /\ UNCHANGED <<toClient, open, notifies>>
        BY <2>1, Sends
    <2>3. TypeOK' /\ IdsAreRight' /\ StoredInTurn'
        BY <2>1, <2>2 DEF IInv, TypeOK, IdsAreRight, StoredInTurn, Methods
    <2>4. WireIsKnown'
        BY <2>1, <2>2 DEF IInv, WireIsKnown, ClientIsKnown, Known
    <2>5. EventsAreGrants' /\ PhasesFollow'
        BY <2>1, <2>2, GrantsStay DEF IInv, EventsAreGrants, PhasesFollow, StoodIn
    <2> QED
        BY <2>3, <2>4, <2>5 DEF IInv
<1>3. ASSUME UNCHANGED <<readerVars, wireVars>> PROVE WireIsKnown' /\ EventsAreGrants'
    BY <1>3 DEF IInv, WireIsKnown, ClientIsKnown, Known, EventsAreGrants, Granted, StoodIn, Ids
<1>4. CASE StoreId
    <2>1. TypeOK' /\ IdsAreRight' /\ PhasesFollow'
        BY <1>4 DEF StoreId, IInv, TypeOK, IdsAreRight, PhasesFollow, Ids
    <2>2. StoredInTurn'
        <3>1. idOf'[phase] # None /\ \A m \in Methods : idOf[m] # None => idOf'[m] # None
            BY <1>4, NoneAssumption DEF StoreId, IInv, TypeOK, IdsAreRight, Ids
        <3>2. \A m \in Methods : m # phase => idOf'[m] = idOf[m]
            BY <1>4 DEF StoreId, IInv, TypeOK
        <3> QED
            BY <1>4, <3>1, <3>2 DEF StoreId, IInv, StoredInTurn, Methods
    <2> QED
        BY <1>3, <1>4, <2>1, <2>2 DEF StoreId, IInv
<1>5. CASE Proceed
    <2>1. phase' = PhaseAfter(phase) /\ step' = "send" /\ phase \in Methods
          /\ (phase \in Awaited => event[phase]) /\ UNCHANGED <<idOf, readerVars, wireVars>>
        BY <1>5 DEF Proceed
    <2>2. /\ phase = "subscribe" => phase' = "authorize"
          /\ phase = "authorize" => phase' \in {"suggest_difficulty", "running"}
          /\ phase = "suggest_difficulty" => phase' = "running"
        BY <2>1 DEF PhaseAfter
    <2>3. TypeOK' /\ IdsAreRight' /\ PhasesFollow'
        BY <2>1, <2>2 DEF IInv, TypeOK, IdsAreRight, PhasesFollow, Ids, Methods, Awaited
    <2>4. StoredInTurn'
        BY <1>5, <2>1, <2>2 DEF Proceed, IInv, StoredInTurn, Methods
    <2> QED
        BY <1>3, <2>1, <2>3, <2>4 DEF IInv
<1>6. CASE TimeOut \/ Raises
    <2>1. phase' \in Over /\ UNCHANGED <<step, idOf, readerVars, wireVars>>
        BY <1>6 DEF TimeOut, Raises, Over
    <2>2. TypeOK' /\ IdsAreRight' /\ StoredInTurn' /\ PhasesFollow'
        BY <2>1 DEF IInv, TypeOK, IdsAreRight, StoredInTurn, PhasesFollow, Ids, Methods, Over
    <2> QED
        BY <1>3, <2>1, <2>2 DEF IInv
<1>7. CASE Connect
    <2>1. TypeOK' /\ PhasesFollow'
        BY <1>7 DEF Connect, IInv, TypeOK, PhasesFollow, Methods
    <2>3. IdsAreRight' /\ StoredInTurn'
        BY <1>7 DEF Connect, IInv, PhasesFollow, IdsAreRight, StoredInTurn, Ids
    <2>2. WireIsKnown' /\ EventsAreGrants'
        BY <1>7 DEF Connect, IInv, WireIsKnown, ClientIsKnown, Known, EventsAreGrants, Granted, StoodIn, Ids
    <2> QED
        BY <2>1, <2>2, <2>3 DEF IInv
<1>8. CASE Dispatch
    <2>1. Dispatched /\ UNCHANGED <<mainVars, requests, toServer, open, notifies>> /\ toClient' = Tail(toClient)
          /\ toClient # <<>>
        BY <1>8, Dispatches DEF Dispatch
    <2>2. /\ toClient' \in Seq(Messages)
          /\ \A i \in 1 .. Len(toClient') : i + 1 \in 1 .. Len(toClient) /\ toClient'[i] = toClient[i + 1]
        <3>1. toClient \in Seq(Messages)
            BY DEF IInv, TypeOK
        <3> QED
            BY <2>1, <3>1, TailFacts
    <2>3. TypeOK' /\ IdsAreRight' /\ StoredInTurn'
        BY <2>1, <2>2 DEF IInv, TypeOK, IdsAreRight, StoredInTurn, Ids, Dispatched
    <2>4. WireIsKnown'
        BY <2>1, <2>2 DEF IInv, WireIsKnown, ClientIsKnown, Known, Ids, Dispatched
    <2>5. PhasesFollow' /\ EventsAreGrants'
        BY <2>1 DEF IInv, PhasesFollow, Dispatched, Awaited
    <2> QED
        BY <2>3, <2>4, <2>5 DEF IInv
<1>9. CASE EndOfStream
    <2>1. TypeOK' /\ IdsAreRight' /\ StoredInTurn' /\ PhasesFollow'
        BY <1>9 DEF EndOfStream, IInv, TypeOK, IdsAreRight, StoredInTurn, PhasesFollow, Ids
    <2>2. WireIsKnown' /\ EventsAreGrants'
        BY <1>9 DEF EndOfStream, IInv, WireIsKnown, ClientIsKnown, Known, EventsAreGrants, Granted, StoodIn, Ids
    <2> QED
        BY <2>1, <2>2 DEF IInv
<1>10. ASSUME UNCHANGED <<mainVars, readerVars, requests>>, TypeOK', WireIsKnown' PROVE IInv'
    BY <1>10 DEF IInv, IdsAreRight, StoredInTurn, EventsAreGrants, PhasesFollow, Granted, StoodIn, Ids
<1>11. CASE PoolIgnoresSuggestion \/ PoolAnswers
    <2>1. /\ toServer' = Tail(toServer) /\ toServer # <<>>
          /\ UNCHANGED <<mainVars, readerVars, requests, open, notifies>>
        BY <1>11 DEF PoolIgnoresSuggestion, PoolAnswers
    <2>2. /\ toServer' \in Seq(Nat) /\ Head(toServer) \in Ids
          /\ \A i \in 1 .. Len(toServer') : i + 1 \in 1 .. Len(toServer) /\ toServer'[i] = toServer[i + 1]
        <3>1. toServer \in Seq(Nat)
            BY DEF IInv, TypeOK
        <3>2. Head(toServer) = toServer[1] /\ Len(toServer) \in Nat /\ Len(toServer) >= 1
            BY <2>1, <3>1, TailFacts
        <3>3. 1 \in 1 .. Len(toServer)
            BY <3>2
        <3> QED
            BY <2>1, <3>1, <3>2, <3>3, TailFacts DEF IInv, WireIsKnown
    <2>3. toClient' \in Seq(Messages) /\ ClientIsKnown'
        <3>1. CASE toClient' = toClient
            BY <2>1, <3>1 DEF IInv, TypeOK, WireIsKnown, ClientIsKnown, Known, Ids
        <3>2. CASE PoolAnswers
            <4>1. PICK result \in Answers(requests[Head(toServer)]) :
                      toClient' = Append(toClient, Response(Head(toServer), result))
                BY <3>2 DEF PoolAnswers
            <4>2. result \in Results /\ Head(toServer) \in Nat
                BY <2>2 DEF Answers, Results, Ids
            <4>3. Response(Head(toServer), result) \in Messages /\ Known(Response(Head(toServer), result))
                BY <2>2, <4>2 DEF Response, Messages, Known
            <4> QED
                BY <2>1, <4>1, <4>3, PoolSends
        <3> QED
            BY <1>11, <3>1, <3>2 DEF PoolIgnoresSuggestion
    <2>4. TypeOK'
        BY <2>1, <2>2, <2>3 DEF IInv, TypeOK
    <2>5. WireIsKnown'
        BY <2>1, <2>2, <2>3 DEF IInv, WireIsKnown, Ids
    <2> QED
        BY <1>10, <2>1, <2>4, <2>5
<1>12. CASE PoolNotifies \/ PoolSpeaksUnasked
    <2>1. UNCHANGED <<mainVars, readerVars, requests, toServer, open>> /\ notifies' \in Nat
        BY <1>12 DEF PoolNotifies, PoolSpeaksUnasked, IInv, TypeOK
    <2>2. PICK message \in Messages : Known(message) /\ toClient' = Append(toClient, message)
        <3>1. CASE PoolNotifies
            <4>1. Notification \in Messages /\ Known(Notification)
                BY NoneAssumption DEF Notification, Messages, Known
            <4> QED
                BY <3>1, <4>1 DEF PoolNotifies
        <3>2. CASE PoolSpeaksUnasked
            <4>1. PICK result \in Results : toClient' = Append(toClient, Response(None, result))
                BY <3>2 DEF PoolSpeaksUnasked
            <4>2. Response(None, result) \in Messages /\ Known(Response(None, result))
                BY DEF Response, Messages, Known
            <4> QED
                BY <4>1, <4>2
        <3> QED
            BY <1>12, <3>1, <3>2
    <2>3. toClient' \in Seq(Messages) /\ ClientIsKnown'
        BY <2>1, <2>2, PoolSends
    <2>4. TypeOK'
        BY <2>1, <2>3 DEF IInv, TypeOK
    <2>5. WireIsKnown'
        BY <2>1, <2>3 DEF IInv, WireIsKnown, Ids
    <2> QED
        BY <1>10, <2>1, <2>4, <2>5
<1>13. CASE PoolCloses \/ UNCHANGED vars
    <2>1. TypeOK' /\ WireIsKnown' /\ UNCHANGED <<mainVars, readerVars, requests>>
        BY <1>13 DEF PoolCloses, vars, IInv, TypeOK, WireIsKnown, ClientIsKnown, Known, Ids
    <2> QED
        BY <1>10, <2>1
<1> QED
    BY <1>1, <1>2, <1>4, <1>5, <1>6, <1>7, <1>8, <1>9, <1>11, <1>12, <1>13 DEF Next, Main, Reader, Pool

(* The inductive invariant of a connection. *)
THEOREM ClientInvariant == Spec => []IInv
BY InitIInv, NextIInv, PTL DEF Spec

(* Every variable of a connection has its type. *)
THEOREM TypeCorrect == Spec => []TypeOK
BY ClientInvariant, PTL DEF IInv

(* start() succeeds only on a connection with a session, whose subscribe   *)
(* and authorize the pool granted, or whose grant a response without an id *)
(* stood in for before the request's id was stored.  No pool that gives    *)
(* its responses the ids of their requests is reported as running without  *)
(* both grants; one that does not can be, in that window only.             *)
THEOREM RunningMeansGrantedCorrect == Spec => []RunningMeansGranted
<1>1. IInv => RunningMeansGranted
    BY DEF IInv, PhasesFollow, EventsAreGrants, RunningMeansGranted, Awaited
<1> QED
    BY <1>1, ClientInvariant, PTL

(* No job is published before the session. *)
THEOREM JobsNeedASessionCorrect == Spec => []JobsNeedASession
<1>1. IInv => JobsNeedASession
    BY DEF IInv, PhasesFollow, EventsAreGrants, JobsNeedASession
<1> QED
    BY <1>1, ClientInvariant, PTL
-----------------------------------------------------------------------------
(* Shares are counted once.  No request is answered twice ... *)
AnswersAreFresh ==
    /\ \A i, j \in 1 .. Len(toServer) : toServer[i] = toServer[j] => i = j
    /\ \A i, j \in 1 .. Len(toClient) :
          toClient[i].id # None /\ toClient[i].id = toClient[j].id => i = j
    /\ \A i \in 1 .. Len(toServer), j \in 1 .. Len(toClient) : toServer[i] # toClient[j].id
    /\ \A p \in handled :
          /\ \A i \in 1 .. Len(toServer) : toServer[i] # p[1]
          /\ \A i \in 1 .. Len(toClient) : toClient[i].id # p[1]

Unsent(m) == \A i \in Ids : requests[i] # m

(* ... each request of the handshake is sent once, in its turn ... *)
SentOnce ==
    /\ \A i, j \in Ids : requests[i] = requests[j] /\ requests[i] \in Methods => i = j
    /\ phase = "connect" => \A m \in Methods : Unsent(m)
    /\ phase = "subscribe" => Unsent("authorize") /\ Unsent("suggest_difficulty")
    /\ phase = "authorize" => Unsent("suggest_difficulty")
    /\ phase \in Methods /\ step = "send" => Unsent(phase)

(* ... and only an answer that set no event can have been counted for one. *)
Early(m) == IF Answered(m) /\ ~(m \in Awaited /\ event[m] /\ ~StoodIn(m)) THEN 1 ELSE 0

Due == Cardinality(ShareResponses) + Cardinality(Strays)

CountInv ==
    /\ IsFiniteSet(handled)
    /\ accepted + rejected >= Due
    /\ accepted + rejected <= Due + Early("subscribe") + Early("authorize") + Early("suggest_difficulty")

ShareInv == AnswersAreFresh /\ SentOnce /\ CountInv

LEMMA InitShareInv == Init => ShareInv
<1> SUFFICES ASSUME Init PROVE ShareInv
    OBVIOUS
<1>1. AnswersAreFresh /\ SentOnce
    BY DEF Init, AnswersAreFresh, SentOnce, Unsent, Ids, Methods
<1>2. ShareResponses = {} /\ Strays = {} /\ Cardinality({}) = 0 /\ IsFiniteSet({})
    BY FS_EmptySet DEF Init, ShareResponses, Strays
<1>3. \A m : Early(m) = 0
    BY DEF Init, Early, Answered
<1> QED
    BY <1>1, <1>2, <1>3 DEF Init, CountInv, Due, ShareInv

(* Both sets that are counted are finite. *)
LEMMA CountedSets ==
    ASSUME IInv, CountInv
    PROVE  /\ IsFiniteSet(ShareResponses) /\ Cardinality(ShareResponses) \in Nat
           /\ IsFiniteSet(Strays) /\ Cardinality(Strays) \in Nat
<1>1. IsFiniteSet(ShareResponses)
    BY FS_Subset DEF CountInv, ShareResponses
<1>2. IsFiniteSet(Strays)
    <2>1. unasked \in Seq([result : Results, stored : SUBSET Methods])
        BY DEF IInv, TypeOK
    <2>2. DOMAIN unasked = 1 .. Len(unasked) /\ Len(unasked) \in Nat
        BY <2>1
    <2>3. IsFiniteSet(1 .. Len(unasked))
        BY <2>2, FS_Interval
    <2> QED
        BY <2>2, <2>3, FS_Subset DEF Strays
<1> QED
    BY <1>1, <1>2, FS_CardinalityType

(* Nothing was handled: the counts are what they were. *)
LEMMA CountStays ==
    ASSUME IInv, CountInv, UNCHANGED <<handled, unasked, event, accepted, rejected>>,
           \A i \in Ids : requests'[i] = requests[i]
    PROVE  CountInv'
<1>1. \A p \in handled : requests'[p[1]] = requests[p[1]]
    BY DEF IInv, WireIsKnown
<1>2. ShareResponses' = ShareResponses /\ Strays' = Strays
    BY <1>1 DEF ShareResponses, Strays
<1>3. \A m : Answered(m)' = Answered(m) /\ StoodIn(m)' = StoodIn(m)
    BY <1>1 DEF Answered, StoodIn
<1>4. Early("subscribe")' = Early("subscribe") /\ Early("authorize")' = Early("authorize")
      /\ Early("suggest_difficulty")' = Early("suggest_difficulty")
    BY <1>3 DEF Early
<1> QED
    BY <1>2, <1>4 DEF CountInv, Due

(* A response without an id sets an event it stands in for, or it counts. *)
LEMMA UnaskedCounts ==
    ASSUME IInv, CountInv, NEW result \in Results, HandleResponse(None, result), requests' = requests
    PROVE  CountInv'
<1>0. /\ accepted \in Nat /\ rejected \in Nat /\ event \in [Awaited -> BOOLEAN]
    BY DEF IInv, TypeOK
<1>1. Remember(None, result)
    BY ResponseIsOneOf
<1>2. /\ handled' = handled /\ Len(unasked) \in Nat
      /\ DOMAIN unasked \subseteq DOMAIN unasked' /\ \A i \in DOMAIN unasked : unasked'[i] = unasked[i]
      /\ Len(unasked) + 1 \notin DOMAIN unasked
      /\ DOMAIN unasked' = DOMAIN unasked \cup {Len(unasked) + 1}
      /\ unasked'[Len(unasked) + 1] = [result |-> result, stored |-> Stored]
    BY <1>1, Remembers
<1>3. \A m : (Answered(m)' <=> Answered(m)) /\ (StoodIn(m) => StoodIn(m)')
    BY <1>2, StandInsStay DEF Answered
<1>4. ShareResponses' = ShareResponses
    BY <1>2 DEF ShareResponses
<1>5. Strays' = IF Awaited \subseteq Stored THEN Strays \cup {Len(unasked) + 1} ELSE Strays
    BY <1>2 DEF Strays
<1>6. Cardinality(Strays') = Cardinality(Strays) + IF Awaited \subseteq Stored THEN 1 ELSE 0
    <2>1. Len(unasked) + 1 \notin Strays /\ IsFiniteSet(Strays) /\ Cardinality(Strays) \in Nat
        BY <1>2, CountedSets DEF Strays
    <2>2. Cardinality(Strays \cup {Len(unasked) + 1}) = Cardinality(Strays) + 1
        BY <2>1, FS_AddElement
    <2> QED
        BY <1>5, <2>1, <2>2
<1>7. \A m : Early(m) \in {0, 1} /\ Early(m)' \in {0, 1}
    BY DEF Early
<1>8. ASSUME NEW m \in Methods, m \in Awaited => event'[m] = event[m] \/ StoodIn(m)' PROVE Early(m)' >= Early(m)
    BY <1>3, <1>8 DEF Early
<1>9. ASSUME \A m \in Awaited : event'[m] = event[m] \/ StoodIn(m)'
      PROVE  /\ Early("subscribe")' >= Early("subscribe") /\ Early("authorize")' >= Early("authorize")
             /\ Early("suggest_difficulty")' >= Early("suggest_difficulty")
    BY <1>8, <1>9 DEF Methods
<1>10. ASSUME NEW m, Stored = IF m = "subscribe" THEN {} ELSE {"subscribe"}, result = Yes[m] PROVE StoodIn(m)'
    <2>1. /\ Len(unasked) + 1 \in DOMAIN unasked'
          /\ unasked'[Len(unasked) + 1].result = Yes[m]
          /\ unasked'[Len(unasked) + 1].stored = IF m = "subscribe" THEN {} ELSE {"subscribe"}
        BY <1>2, <1>10
    <2>2. Yes' = Yes
        BY DEF Yes
    <2> QED
        BY <2>1, <2>2 DEF StoodIn
<1>11. CASE Awaited \subseteq Stored /\ OnShareResult(result)
    <2>1. accepted' + rejected' = accepted + rejected + 1 /\ event' = event
        BY <1>0, <1>11 DEF OnShareResult
    <2>2. Cardinality(Strays') = Cardinality(Strays) + 1
        BY <1>6, <1>11
    <2>3. /\ Early("subscribe")' >= Early("subscribe") /\ Early("authorize")' >= Early("authorize")
          /\ Early("suggest_difficulty")' >= Early("suggest_difficulty")
        BY <1>9, <2>1
    <2>4. Due' = Due + 1 /\ Due \in Nat
        BY <1>4, <2>2, CountedSets DEF Due
    <2> QED
        BY <1>0, <1>2, <1>7, <2>1, <2>3, <2>4 DEF CountInv
<1>12. CASE ~(Awaited \subseteq Stored) /\ accepted' + rejected' = accepted + rejected
            /\ \A m \in Awaited : event'[m] = event[m] \/ StoodIn(m)'
    <2>1. Cardinality(Strays') = Cardinality(Strays)
        BY <1>6, <1>12, CountedSets
    <2>2. Due' = Due /\ Due \in Nat
        BY <1>4, <2>1, CountedSets DEF Due
    <2> QED
        BY <1>0, <1>2, <1>7, <1>9, <1>12, <2>2 DEF CountInv
<1>13. CASE AnswersOrStandsIn("subscribe", None) /\ OnSubscribeResult(result)
    <2>1. Stored = {}
        BY <1>13, NoneAssumption DEF AnswersOrStandsIn, Ids
    <2>2. event'["authorize"] = event["authorize"] /\ UNCHANGED <<accepted, rejected>>
          /\ (event'["subscribe"] = event["subscribe"] \/ result = "session")
        BY <1>0, <1>13 DEF OnSubscribeResult, Awaited
    <2>3. result = "session" => StoodIn("subscribe")'
        BY <1>10, <2>1 DEF Yes
    <2> QED
        BY <1>12, <2>1, <2>2, <2>3 DEF Awaited
<1>14. CASE AnswersOrStandsIn("authorize", None) /\ OnAuthorizeResult(result)
    <2>1. Stored = {"subscribe"}
        BY <1>14, NoneAssumption DEF AnswersOrStandsIn, Ids
    <2>2. event'["subscribe"] = event["subscribe"] /\ UNCHANGED <<accepted, rejected>>
          /\ (event'["authorize"] = event["authorize"] \/ result = "true")
        BY <1>0, <1>14 DEF OnAuthorizeResult, Awaited
    <2>3. result = "true" => StoodIn("authorize")'
        BY <1>10, <2>1 DEF Yes
    <2> QED
        BY <1>12, <2>1, <2>2, <2>3 DEF Awaited
<1> QED
    BY <1>11, <1>13, <1>14, ResponseIsOneOf

(* A response that is dispatched is the first to its request. *)
LEMMA ResponseCounts ==
    ASSUME IInv, SentOnce, CountInv, NEW id \in Ids, NEW result \in Results,
           HandleResponse(id, result), \A p \in handled : p[1] # id, requests' = requests
    PROVE  CountInv'
<1> DEFINE r == <<id, result>>
<1>a. id # None
    BY NoneAssumption DEF Ids
<1>0. /\ accepted \in Nat /\ rejected \in Nat /\ event \in [Awaited -> BOOLEAN]
      /\ requests \in Seq(Methods \cup {"submit"})
    BY DEF IInv, TypeOK
<1>1. handled' = handled \cup {r} /\ r \notin handled /\ r[1] = id /\ unasked' = unasked
    BY <1>a, ResponseIsOneOf, Remembers
<1>b. Strays' = Strays /\ \A m : StoodIn(m)' <=> StoodIn(m)
    BY <1>1 DEF Strays, StoodIn
<1>2. IsFiniteSet(handled') /\ IsFiniteSet(ShareResponses)
    <2>1. IsFiniteSet(handled')
        BY <1>1, FS_AddElement DEF CountInv
    <2>2. IsFiniteSet(ShareResponses)
        BY FS_Subset DEF CountInv, ShareResponses
    <2> QED
        BY <2>1, <2>2
<1>3. Cardinality(ShareResponses) \in Nat /\ Cardinality(Strays) \in Nat
    BY CountedSets
<1>4. \A m : Answered(m)' <=> Answered(m) \/ requests[id] = m
    BY <1>1 DEF Answered
<1>5. id # None /\ requests[id] \in Methods \cup {"submit"}
    BY <1>0, <1>a DEF Ids
<1>6. \A m \in Methods : requests[id] = m => ~Answered(m)
    BY DEF SentOnce, Answered, IInv, WireIsKnown
<1>7. \A m \in Awaited : event[m] => Answered(m) \/ StoodIn(m)
    BY DEF IInv, EventsAreGrants, Granted, Answered, Awaited
<1>8. \A m : Early(m) \in {0, 1}
    BY DEF Early
<1>9. \A m \in Methods : idOf[m] # None => idOf[m] \in Ids /\ requests[idOf[m]] = m
    BY DEF IInv, IdsAreRight
<1>10. \A m \in Methods : id = idOf[m] => requests[id] = m
    BY <1>5, <1>9
<1>11. CASE requests[id] = "submit"
    <2>1. OnShareResult(result)
        BY <1>10, <1>11 DEF HandleResponse, Methods
    <2>2. accepted' + rejected' = accepted + rejected + 1 /\ event' = event
        BY <1>0, <2>1 DEF OnShareResult
    <2>3. ShareResponses' = ShareResponses \cup {r}
        BY <1>1, <1>11 DEF ShareResponses
    <2>4. Cardinality(ShareResponses') = Cardinality(ShareResponses) + 1
        <3>1. r \notin ShareResponses
            BY <1>1 DEF ShareResponses
        <3> QED
            BY <1>2, <2>3, <3>1, FS_AddElement
    <2>5. \A m \in Methods : Answered(m)' <=> Answered(m)
        BY <1>4, <1>11 DEF Methods
    <2>6. \A m \in Methods : Early(m)' = Early(m)
        BY <1>b, <2>2, <2>5 DEF Early
    <2>7. Early("subscribe")' = Early("subscribe") /\ Early("authorize")' = Early("authorize")
          /\ Early("suggest_difficulty")' = Early("suggest_difficulty")
        BY <2>6 DEF Methods
    <2> QED
        BY <1>0, <1>2, <1>3, <1>8, <1>b, <2>2, <2>4, <2>7 DEF CountInv, Due
<1>12. ASSUME NEW m \in Methods, requests[id] = m PROVE CountInv'
    <2>1. ShareResponses' = ShareResponses
        BY <1>1, <1>12 DEF ShareResponses, Methods
    <2>2. ~Answered(m) /\ Answered(m)' /\ (m \in Awaited => ~event[m] \/ StoodIn(m)') /\ Early(m) = 0
        BY <1>4, <1>6, <1>7, <1>12, <1>b DEF Early
    <2>3. \A n \in Methods \ {m} : (Answered(n)' <=> Answered(n)) /\ (n \in Awaited => event'[n] = event[n])
        <3>1. \A n \in Methods \ {m} : Answered(n)' <=> Answered(n)
            BY <1>4, <1>12
        <3>2. CASE event' = event
            BY <3>1, <3>2
        <3>3. CASE AnswersOrStandsIn("subscribe", id) /\ OnSubscribeResult(result)
            <4>1. \A n \in Awaited \ {"subscribe"} : event'[n] = event[n]
                BY <1>0, <3>3 DEF OnSubscribeResult, Awaited
            <4> QED
                BY <1>a, <1>12, <3>1, <3>3, <4>1 DEF AnswersOrStandsIn
        <3>4. CASE AnswersOrStandsIn("authorize", id) /\ OnAuthorizeResult(result)
            <4>1. \A n \in Awaited \ {"authorize"} : event'[n] = event[n]
                BY <1>0, <3>4 DEF OnAuthorizeResult, Awaited
            <4> QED
                BY <1>a, <1>12, <3>1, <3>4, <4>1 DEF AnswersOrStandsIn
        <3> QED
            BY <3>2, <3>3, <3>4, ResponseIsOneOf DEF OnSuggestResult, OnShareResult
    <2>4. \A n \in Methods \ {m} : Early(n)' = Early(n)
        BY <1>b, <2>3 DEF Early
    <2>5. \/ accepted' + rejected' = accepted + rejected
          \/ accepted' + rejected' = accepted + rejected + 1 /\ event' = event
        <3>1. CASE OnShareResult(result)
            BY <1>0, <3>1 DEF OnShareResult
        <3> QED
            BY <3>1, ResponseIsOneOf DEF OnSubscribeResult, OnAuthorizeResult, OnSuggestResult
    <2>6. CASE accepted' + rejected' = accepted + rejected
        <3>1. \A n \in Methods : Early(n)' \in {0, 1} /\ Early(n)' >= Early(n)
            <4>1. \A n \in Methods : Early(n)' \in {0, 1}
                BY DEF Early
            <4> QED
                BY <1>8, <2>2, <2>4, <4>1
        <3>2. /\ Early("subscribe")' \in {0, 1} /\ Early("subscribe")' >= Early("subscribe")
              /\ Early("authorize")' \in {0, 1} /\ Early("authorize")' >= Early("authorize")
              /\ Early("suggest_difficulty")' \in {0, 1}
              /\ Early("suggest_difficulty")' >= Early("suggest_difficulty")
            BY <3>1 DEF Methods
        <3> QED
            BY <1>0, <1>2, <1>3, <1>8, <1>b, <2>1, <2>6, <3>2 DEF CountInv, Due
    <2>7. CASE accepted' + rejected' = accepted + rejected + 1 /\ event' = event
        <3>1. Early(m)' = 1
            BY <1>b, <2>2, <2>7 DEF Early
        <3>2. CASE m = "subscribe"
            <4>1. Early("authorize")' = Early("authorize")
                  /\ Early("suggest_difficulty")' = Early("suggest_difficulty")
                BY <2>4, <3>2 DEF Methods
            <4> QED
                BY <1>0, <1>2, <1>3, <1>8, <1>b, <2>1, <2>2, <2>7, <3>1, <3>2, <4>1 DEF CountInv, Due
        <3>3. CASE m = "authorize"
            <4>1. Early("subscribe")' = Early("subscribe")
                  /\ Early("suggest_difficulty")' = Early("suggest_difficulty")
                BY <2>4, <3>3 DEF Methods
            <4> QED
                BY <1>0, <1>2, <1>3, <1>8, <1>b, <2>1, <2>2, <2>7, <3>1, <3>3, <4>1 DEF CountInv, Due
        <3>4. CASE m = "suggest_difficulty"
            <4>1. Early("authorize")' = Early("authorize") /\ Early("subscribe")' = Early("subscribe")
                BY <2>4, <3>4 DEF Methods
            <4> QED
                BY <1>0, <1>2, <1>3, <1>8, <1>b, <2>1, <2>2, <2>7, <3>1, <3>4, <4>1 DEF CountInv, Due
        <3> QED
            BY <3>2, <3>3, <3>4 DEF Methods
    <2> QED
        BY <2>5, <2>6, <2>7
<1> QED
    BY <1>5, <1>11, <1>12

(* A request that is sent takes an id that is nowhere on the wire. *)
LEMMA SendKeepsFresh ==
    ASSUME IInv, AnswersAreFresh, NEW m \in Methods \cup {"submit"}, Send(m), handled' = handled
    PROVE  AnswersAreFresh'
<1> DEFINE n == Len(requests) + 1
<1>1. /\ Len(requests) \in Nat /\ n \notin Ids /\ n \in Nat
      /\ requests \in Seq(Methods \cup {"submit"}) /\ toServer \in Seq(Nat)
    <2>1. requests \in Seq(Methods \cup {"submit"}) /\ toServer \in Seq(Nat)
        BY DEF IInv, TypeOK
    <2> QED
        BY <2>1, LenProperties DEF Ids
<1>2. n # None
    BY <1>1, NoneAssumption
<1>3. /\ \A i \in 1 .. Len(toServer) : toServer[i] # n
      /\ \A i \in 1 .. Len(toClient) : toClient[i].id # n
      /\ \A p \in handled : p[1] # n
    BY <1>1, <1>2 DEF IInv, WireIsKnown, ClientIsKnown, Known
<1>4. toClient' = toClient
    BY DEF Send
<1>5. CASE toServer' = toServer
    BY <1>4, <1>5 DEF AnswersAreFresh
<1>6. CASE toServer' = Append(toServer, n)
    <2>1. /\ Len(toServer') = Len(toServer) + 1 /\ Len(toServer) \in Nat
          /\ \A i \in 1 .. Len(toServer) : toServer'[i] = toServer[i]
          /\ toServer'[Len(toServer) + 1] = n
        BY <1>1, <1>6, AppendFacts
    <2>2. \A i \in 1 .. Len(toServer') : i \in 1 .. Len(toServer) \/ i = Len(toServer) + 1
        BY <2>1
    <2>3. \A i, j \in 1 .. Len(toServer') : toServer'[i] = toServer'[j] => i = j
        BY <1>3, <2>1, <2>2 DEF AnswersAreFresh
    <2>4. \A i \in 1 .. Len(toServer'), j \in 1 .. Len(toClient) : toServer'[i] # toClient[j].id
        BY <1>3, <2>1, <2>2 DEF AnswersAreFresh
    <2>5. \A p \in handled : \A i \in 1 .. Len(toServer') : toServer'[i] # p[1]
        BY <1>3, <2>1, <2>2 DEF AnswersAreFresh
    <2> QED
        BY <1>4, <2>3, <2>4, <2>5 DEF AnswersAreFresh
<1> QED
    BY <1>5, <1>6 DEF Send

(* The pool takes the first request off the wire, and may answer it. *)
LEMMA AnswerKeepsFresh ==
    ASSUME IInv, AnswersAreFresh, PoolAnswers \/ PoolIgnoresSuggestion
    PROVE  AnswersAreFresh'
<1>1. /\ toServer \in Seq(Nat) /\ toServer # <<>> /\ toServer' = Tail(toServer)
      /\ toClient \in Seq(Messages) /\ handled' = handled
    BY DEF IInv, TypeOK, PoolAnswers, PoolIgnoresSuggestion, readerVars
<1>2. /\ Head(toServer) = toServer[1] /\ Head(toServer) \in Nat /\ 1 \in 1 .. Len(toServer)
      /\ \A i \in 1 .. Len(toServer') :
            i + 1 \in 1 .. Len(toServer) /\ i + 1 # 1 /\ toServer'[i] = toServer[i + 1]
    <2>1. /\ Head(toServer) = toServer[1] /\ Head(toServer) \in Nat
          /\ Len(toServer) \in Nat /\ Len(toServer) >= 1
          /\ \A i \in 1 .. Len(toServer') : i + 1 \in 1 .. Len(toServer) /\ toServer'[i] = toServer[i + 1]
        BY <1>1, TailFacts
    <2> QED
        BY <2>1
<1>3. \A i, j \in 1 .. Len(toServer') : toServer'[i] = toServer'[j] => i = j
    <2> SUFFICES ASSUME NEW i \in 1 .. Len(toServer'), NEW j \in 1 .. Len(toServer'),
                        toServer'[i] = toServer'[j]
                 PROVE  i = j
        OBVIOUS
    <2>1. i + 1 = j + 1
        BY <1>2 DEF AnswersAreFresh
    <2> QED
        BY <2>1
<1>4. \A i \in 1 .. Len(toServer') : toServer'[i] # Head(toServer)
    BY <1>2 DEF AnswersAreFresh
<1>5. CASE toClient' = toClient
    BY <1>1, <1>2, <1>3, <1>5 DEF AnswersAreFresh
<1>6. CASE PoolAnswers
    <2>1. PICK result \in Answers(requests[Head(toServer)]) :
              toClient' = Append(toClient, Response(Head(toServer), result))
        BY <1>6 DEF PoolAnswers
    <2>2. Response(Head(toServer), result) \in Messages
        BY <1>2, <2>1 DEF Answers, Results, Response, Messages
    <2>3. /\ Len(toClient') = Len(toClient) + 1 /\ Len(toClient) \in Nat
          /\ \A i \in 1 .. Len(toClient) : toClient'[i] = toClient[i]
          /\ toClient'[Len(toClient) + 1] = Response(Head(toServer), result)
        BY <1>1, <2>1, <2>2, AppendFacts
    <2>4. toClient'[Len(toClient) + 1].id = Head(toServer)
        BY <2>3 DEF Response
    <2>5. \A i \in 1 .. Len(toClient') : i \in 1 .. Len(toClient) \/ i = Len(toClient) + 1
        BY <2>3
    <2>6. \A i \in 1 .. Len(toClient) : toClient[i].id # Head(toServer)
        BY <1>2 DEF AnswersAreFresh
    <2>7. \A i, j \in 1 .. Len(toClient') :
              toClient'[i].id # None /\ toClient'[i].id = toClient'[j].id => i = j
        BY <2>3, <2>4, <2>5, <2>6 DEF AnswersAreFresh
    <2>8. ASSUME NEW i \in 1 .. Len(toServer'), NEW j \in 1 .. Len(toClient')
          PROVE  toServer'[i] # toClient'[j].id
        <3>1. CASE j \in 1 .. Len(toClient)
            BY <1>2, <2>3, <3>1 DEF AnswersAreFresh
        <3>2. CASE j = Len(toClient) + 1
            BY <1>4, <2>4, <3>2
        <3> QED
            BY <2>5, <3>1, <3>2
    <2>9. \A p \in handled : \A i \in 1 .. Len(toServer') : toServer'[i] # p[1]
        BY <1>2 DEF AnswersAreFresh
    <2>10. \A p \in handled : \A i \in 1 .. Len(toClient') : toClient'[i].id # p[1]
        BY <1>2, <2>3, <2>4, <2>5 DEF AnswersAreFresh
    <2> QED
        BY <1>1, <1>3, <2>7, <2>8, <2>9, <2>10 DEF AnswersAreFresh
<1> QED
    BY <1>5, <1>6 DEF PoolIgnoresSuggestion

(* A message without an id disturbs nothing. *)
LEMMA NotifyKeepsFresh ==
    ASSUME IInv, AnswersAreFresh, PoolNotifies \/ PoolSpeaksUnasked
    PROVE  AnswersAreFresh'
<1>1. PICK message \in Messages : message.id = None /\ toClient' = Append(toClient, message)
    <2>1. Notification \in Messages /\ Notification.id = None
        BY DEF Notification, Messages
    <2>2. \A result \in Results : Response(None, result) \in Messages /\ Response(None, result).id = None
        BY DEF Response, Messages
    <2> QED
        BY <2>1, <2>2 DEF PoolNotifies, PoolSpeaksUnasked
<1>2. /\ Len(toClient') = Len(toClient) + 1 /\ Len(toClient) \in Nat
      /\ \A i \in 1 .. Len(toClient) : toClient'[i] = toClient[i]
      /\ toClient'[Len(toClient) + 1].id = None
    <2>1. toClient \in Seq(Messages)
        BY DEF IInv, TypeOK
    <2> QED
        BY <1>1, <2>1, AppendFacts
<1>3. \A i \in 1 .. Len(toClient') : i \in 1 .. Len(toClient) \/ i = Len(toClient) + 1
    BY <1>2
<1>4. toServer' = toServer /\ handled' = handled
    BY DEF PoolNotifies, PoolSpeaksUnasked, readerVars
<1>5. (\A i \in 1 .. Len(toServer) : toServer[i] # None) /\ \A p \in handled : p[1] # None
    BY NoneAssumption DEF IInv, WireIsKnown, Ids
<1>6. \A i, j \in 1 .. Len(toClient') :
          toClient'[i].id # None /\ toClient'[i].id = toClient'[j].id => i = j
    BY <1>2, <1>3 DEF AnswersAreFresh
<1>7. \A i \in 1 .. Len(toServer), j \in 1 .. Len(toClient') : toServer[i] # toClient'[j].id
    BY <1>2, <1>3, <1>5 DEF AnswersAreFresh
<1>8. \A p \in handled : \A i \in 1 .. Len(toClient') : toClient'[i].id # p[1]
    BY <1>2, <1>3, <1>5 DEF AnswersAreFresh
<1> QED
    BY <1>4, <1>6, <1>7, <1>8 DEF AnswersAreFresh

(* The reader takes the first message off the wire. *)
LEMMA DispatchKeepsFresh ==
    ASSUME IInv, AnswersAreFresh, Dispatch
    PROVE  /\ AnswersAreFresh'
           /\ Head(toClient).id # None => \A p \in handled : p[1] # Head(toClient).id
<1>1. /\ toClient \in Seq(Messages) /\ toClient # <<>>
      /\ toClient' = Tail(toClient) /\ toServer' = toServer
    BY DEF IInv, TypeOK, Dispatch
<1>2. /\ Head(toClient) = toClient[1] /\ 1 \in 1 .. Len(toClient)
      /\ \A i \in 1 .. Len(toClient') :
            i + 1 \in 1 .. Len(toClient) /\ i + 1 # 1 /\ toClient'[i] = toClient[i + 1]
    <2>1. /\ Head(toClient) = toClient[1] /\ Len(toClient) \in Nat /\ Len(toClient) >= 1
          /\ \A i \in 1 .. Len(toClient') : i + 1 \in 1 .. Len(toClient) /\ toClient'[i] = toClient[i + 1]
        BY <1>1, TailFacts
    <2> QED
        BY <2>1
<1>3. \A p \in handled : p[1] # Head(toClient).id
    BY <1>2 DEF AnswersAreFresh
<1>4. \A p \in handled' : p \in handled \/ (Head(toClient).id # None /\ p[1] = Head(toClient).id)
    <2>1. CASE handled' = handled
        BY <2>1
    <2>2. ASSUME NEW id, id = Head(toClient).id, id # None,
                 NEW result, handled' = handled \cup {<<id, result>>}
          PROVE  \A p \in handled' : p \in handled \/ (Head(toClient).id # None /\ p[1] = Head(toClient).id)
        BY <2>2
    <2>3. OnNotify => handled' = handled
        BY DEF OnNotify
    <2>4. \A id, result : HandleResponse(id, result) =>
              handled' = handled \/ (id # None /\ handled' = handled \cup {<<id, result>>})
        BY DEF HandleResponse, Remember
    <2> QED
        BY <2>1, <2>2, <2>3, <2>4 DEF Dispatch
<1>5. \A i, j \in 1 .. Len(toClient') :
          toClient'[i].id # None /\ toClient'[i].id = toClient'[j].id => i = j
    <2> SUFFICES ASSUME NEW i \in 1 .. Len(toClient'), NEW j \in 1 .. Len(toClient'),
                        toClient'[i].id # None, toClient'[i].id = toClient'[j].id
                 PROVE  i = j
        OBVIOUS
    <2>1. i + 1 = j + 1
        BY <1>2 DEF AnswersAreFresh
    <2> QED
        BY <2>1
<1>6. \A i \in 1 .. Len(toServer), j \in 1 .. Len(toClient') : toServer[i] # toClient'[j].id
    BY <1>2 DEF AnswersAreFresh
<1>7. Head(toClient).id # None =>
          /\ \A i \in 1 .. Len(toServer) : toServer[i] # Head(toClient).id
          /\ \A i \in 1 .. Len(toClient') : toClient'[i].id # Head(toClient).id
    BY <1>2 DEF AnswersAreFresh
<1>8. \A p \in handled' :
          /\ \A i \in 1 .. Len(toServer) : toServer[i] # p[1]
          /\ \A i \in 1 .. Len(toClient') : toClient'[i].id # p[1]
    BY <1>2, <1>4, <1>7 DEF AnswersAreFresh
<1> QED
    BY <1>1, <1>3, <1>5, <1>6, <1>8 DEF AnswersAreFresh

(* A request of the handshake is sent in its turn, and only then. *)
LEMMA SendsOnce ==
    ASSUME IInv, SentOnce, NEW m \in Methods \cup {"submit"}, Send(m), phase' = phase,
           m \in Methods => m = phase /\ step = "send" /\ step' = "store",
           m = "submit" => phase = "running"
    PROVE  SentOnce'
<1>1. /\ Len(requests) \in Nat /\ Len(requests') = Len(requests) + 1
      /\ \A i \in Ids : requests'[i] = requests[i]
      /\ requests'[Len(requests')] = m
    BY Sends
<1>2. \A i \in Ids' : i \in Ids \/ i = Len(requests')
    BY <1>1 DEF Ids
<1>3. \A n \in Methods : Unsent(n) /\ n # m => Unsent(n)'
    BY <1>1, <1>2 DEF Unsent
<1>4. m \in Methods => Unsent(m)
    BY DEF SentOnce
<1>5. \A i, j \in Ids' : requests'[i] = requests'[j] /\ requests'[i] \in Methods => i = j
    <2>1. \A i \in Ids : m \in Methods => requests[i] # m
        BY <1>4 DEF Unsent
    <2> QED
        BY <1>1, <1>2, <2>1 DEF SentOnce
<1> QED
    BY <1>3, <1>5 DEF SentOnce, Methods

LEMMA NextShareInv == IInv /\ ShareInv /\ [Next]_vars => ShareInv'
<1> SUFFICES ASSUME IInv, ShareInv, [Next]_vars PROVE ShareInv'
    OBVIOUS
<1> USE DEF mainVars, readerVars, wireVars
<1>1. ASSUME UNCHANGED <<readerVars, requests>> PROVE CountInv'
    BY <1>1, CountStays DEF ShareInv
<1>2. ASSUME UNCHANGED <<toServer, toClient, handled>> PROVE AnswersAreFresh'
    BY <1>2 DEF ShareInv, AnswersAreFresh
<1>3. ASSUME UNCHANGED <<phase, step, requests>> PROVE SentOnce'
    BY <1>3 DEF ShareInv, SentOnce, Unsent, Ids
<1>4. ASSUME NEW m \in Methods \cup {"submit"}, Send(m), UNCHANGED readerVars PROVE CountInv' /\ AnswersAreFresh'
    BY <1>4, Sends, CountStays, SendKeepsFresh DEF ShareInv
<1>5. CASE SendRequest
    <2>1. SentOnce'
        BY <1>5, SendsOnce DEF SendRequest, ShareInv, Methods
    <2> QED
        BY <1>4, <1>5, <2>1 DEF SendRequest, ShareInv
<1>6. CASE Submit
    <2>1. SentOnce'
        BY <1>6, SendsOnce DEF Submit, ShareInv, Methods
    <2> QED
        BY <1>4, <1>6, <2>1 DEF Submit, ShareInv
<1>7. ASSUME UNCHANGED <<readerVars, requests, toServer, toClient>>, SentOnce' PROVE ShareInv'
    BY <1>1, <1>2, <1>7 DEF ShareInv
<1>8. CASE StoreId \/ Raises \/ TimeOut \/ Connect
    <2>1. SentOnce'
        BY <1>8 DEF StoreId, Raises, TimeOut, Connect, ShareInv, SentOnce, Unsent, Ids, Methods, Over,
                    IInv, PhasesFollow
    <2>2. CASE Connect
        <3>1. CountInv'
            BY <2>2, CountStays DEF Connect, ShareInv
        <3> QED
            BY <1>2, <2>1, <2>2, <3>1 DEF Connect, ShareInv
    <2> QED
        BY <1>7, <1>8, <2>1, <2>2 DEF StoreId, Raises, TimeOut
<1>9. CASE Proceed
    <2>1. /\ phase' = PhaseAfter(phase) /\ step' = "send" /\ phase \in Methods
          /\ UNCHANGED <<readerVars, wireVars>>
        BY <1>9 DEF Proceed
    <2>2. /\ phase = "subscribe" => phase' = "authorize"
          /\ phase = "authorize" => phase' \in {"suggest_difficulty", "running"}
          /\ phase = "suggest_difficulty" => phase' = "running"
        BY <2>1 DEF PhaseAfter
    <2>3. SentOnce'
        BY <2>1, <2>2 DEF ShareInv, SentOnce, Unsent, Ids, Methods
    <2> QED
        BY <1>7, <2>1, <2>3
<1>10. CASE Dispatch
    <2>1. AnswersAreFresh' /\ SentOnce'
        BY <1>3, <1>10, DispatchKeepsFresh DEF Dispatch, ShareInv
    <2>2. CountInv'
        <3>1. CASE OnNotify
            BY <1>10, <3>1, CountStays DEF Dispatch, OnNotify, ShareInv
        <3>2. CASE /\ Head(toClient).method = None
                   /\ HandleResponse(Head(toClient).id, Head(toClient).result)
            <4>1. /\ Head(toClient).id # None => Head(toClient).id \in Ids
                  /\ Head(toClient).result \in Results
                  /\ Head(toClient).id # None => \A p \in handled : p[1] # Head(toClient).id
                  /\ requests' = requests
                BY <1>10, <3>2, DispatchedMessage, DispatchKeepsFresh DEF Dispatch, ShareInv, Known
            <4>2. CASE Head(toClient).id # None
                BY <3>2, <4>1, <4>2, ResponseCounts DEF ShareInv
            <4>3. CASE Head(toClient).id = None
                BY <3>2, <4>1, <4>3, UnaskedCounts DEF ShareInv
            <4> QED
                BY <4>2, <4>3
        <3> QED
            BY <1>10, <3>1, <3>2 DEF Dispatch
    <2> QED
        BY <2>1, <2>2 DEF ShareInv
<1>11. CASE EndOfStream
    <2>1. CountInv'
        BY <1>11, CountStays DEF EndOfStream, ShareInv
    <2> QED
        BY <1>2, <1>3, <1>11, <2>1 DEF EndOfStream, ShareInv
<1>12. CASE PoolAnswers \/ PoolIgnoresSuggestion \/ PoolNotifies \/ PoolSpeaksUnasked
    <2>1. CountInv' /\ SentOnce'
        BY <1>1, <1>3, <1>12 DEF PoolAnswers, PoolIgnoresSuggestion, PoolNotifies, PoolSpeaksUnasked
    <2>2. AnswersAreFresh'
        BY <1>12, AnswerKeepsFresh, NotifyKeepsFresh DEF ShareInv
    <2> QED
        BY <2>1, <2>2 DEF ShareInv
<1>13. CASE PoolCloses \/ UNCHANGED vars
    BY <1>3, <1>7, <1>13 DEF PoolCloses, vars
<1> QED
    BY <1>5, <1>6, <1>8, <1>9, <1>10, <1>11, <1>12, <1>13 DEF Next, Main, Reader, Pool

(* On a connection that runs, the share counts are those of the share      *)
(* responses, of the responses without an id that met only stored ids, and *)
(* of at most one early answer to each request that start() did not need   *)
(* the answer of, however many shares are submitted.                       *)
THEOREM SharesAreSharesCorrect == Spec => []SharesAreShares
<1>1. IInv /\ ShareInv => SharesAreShares
    <2> SUFFICES ASSUME IInv, ShareInv, phase = "running" PROVE SharesAreShares
        BY DEF SharesAreShares
    <2>1. event["subscribe"] /\ event["authorize"]
        BY DEF IInv, PhasesFollow
    <2>2. \A m \in Methods : Early(m) = MaybeEarly(m)
        BY <2>1 DEF Early, MaybeEarly, Awaited
    <2>3. /\ Early("subscribe") = MaybeEarly("subscribe") /\ Early("authorize") = MaybeEarly("authorize")
          /\ Early("suggest_difficulty") = MaybeEarly("suggest_difficulty")
        BY <2>2 DEF Methods
    <2>4. Cardinality(ShareResponses) \in Nat /\ Cardinality(Strays) \in Nat
        BY CountedSets DEF ShareInv
    <2> QED
        BY <2>3, <2>4 DEF ShareInv, CountInv, Due, SharesAreShares
<1> QED
    BY <1>1, ClientInvariant, InitShareInv, NextShareInv, PTL DEF Spec
===================================================================================
