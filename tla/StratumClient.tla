---------------------------- MODULE StratumClient ----------------------------
(***************************************************************************)
(* One connection's handshake and share accounting: the main thread in     *)
(* _Connection.start and drain_and_submit, the reader thread in            *)
(* StratumClient.read_forever, and the pool at the other end of the socket *)
(* (miner/openbench_miner.py; the pool is external).                       *)
(*                                                                         *)
(* The reader runs before the first request is sent, and it tells          *)
(* responses apart by the message ids the main thread stores once _send    *)
(* has returned.  A response may therefore be dispatched after its request *)
(* is on the wire and before its id is stored.  And a response without an  *)
(* id equals every stored id that is still None: before subscribe() or     *)
(* authorize() has stored its own, such a response is taken for the answer *)
(* (`case self._subscribe_id`, `case self._authorize_id`).                 *)
(*                                                                         *)
(* Jobs and difficulties are JobBoard's and WorkAudit's: a notify here is  *)
(* either published or dropped.                                            *)
(***************************************************************************)
EXTENDS Integers, Sequences, FiniteSets

CONSTANTS
    SuggestsDifficulty,  \* --suggest-diff > 0
    None,                \* Python's None
    MaxSubmits,          \* bound: shares submitted
    MaxNotifies,         \* bound: notifies the pool sends
    MaxUnasked           \* bound: responses without an id the pool sends

ASSUME SuggestAssumption == SuggestsDifficulty \in BOOLEAN
ASSUME BoundsAssumption == MaxSubmits \in Nat /\ MaxNotifies \in Nat /\ MaxUnasked \in Nat

Methods == {"subscribe", "authorize", "suggest_difficulty"}
Awaited == {"subscribe", "authorize"}
Results == {"session", "true", "error"}
Over == {"failed", "crashed"}

ASSUME NoneAssumption == None \notin Nat \cup {"mining.notify"}

(* A line of the pool (_StratumMessage): a notification has a method, a    *)
(* response has none; an id that is missing, or null, is None.             *)
Messages == [method : {None, "mining.notify"}, id : Nat \cup {None}, result : Results \cup {None}]
Response(id, result) == [method |-> None, id |-> id, result |-> result]
Notification == [method |-> "mining.notify", id |-> None, result |-> None]
IsUnasked(message) == message.method = None /\ message.id = None

VARIABLES
    phase,        \* the request start() is at, or how it ended
    step,         \* "send", "store" (the id of what was sent) or "wait"
    idOf,         \* _subscribe_id, _authorize_id, _suggest_diff_id
    event,        \* the Events `subscribed` and `authorized`
    session,      \* extranonce1 and extranonce2_size were received
    published,    \* notifies published to the workers
    accepted,     \* StratumClient.accepted
    rejected,     \* StratumClient.rejected
    readerAlive,  \* the reader thread runs
    requests,     \* the method sent under each message id; _next_id is one more
    toServer,     \* ids on their way to the pool
    toClient,     \* messages on their way to the reader
    open,         \* the pool has not closed the connection
    notifies,     \* notifies the pool sent
    handled,      \* history: <<id, result>> of every response with an id dispatched
    unasked       \* history: the responses without an id dispatched, and the
                  \* methods whose ids were stored by then

mainVars == <<phase, step, idOf>>
readerVars == <<event, session, published, accepted, rejected, readerAlive, handled,
                unasked>>
wireVars == <<requests, toServer, toClient, open, notifies>>
vars == <<mainVars, readerVars, wireVars>>

Init ==
    /\ phase = "connect"
    /\ step = "send"
    /\ idOf = [m \in Methods |-> None]
    /\ event = [m \in Awaited |-> FALSE]
    /\ session = FALSE
    /\ published = 0
    /\ accepted = 0
    /\ rejected = 0
    /\ readerAlive = FALSE
    /\ requests = <<>>
    /\ toServer = <<>>
    /\ toClient = <<>>
    /\ open = FALSE
    /\ notifies = 0
    /\ handled = {}
    /\ unasked = <<>>

-----------------------------------------------------------------------------
(* The main thread. *)

(* connect() and reader.start(). *)
Connect ==
    /\ phase = "connect"
    /\ open' = TRUE
    /\ readerAlive' = TRUE
    /\ phase' = "subscribe"
    /\ UNCHANGED <<step, idOf, event, session, published, accepted, rejected, handled,
                   unasked, requests, toServer, toClient, notifies>>

(* An OSError of the socket leaves start() or drain_and_submit() uncaught. *)
Raises ==
    /\ \/ phase = "connect"
       \/ phase \in Methods /\ step = "send" /\ ~open
       \/ phase = "running" /\ ~open
    /\ phase' = "crashed"
    /\ UNCHANGED <<step, idOf, readerVars, wireVars>>

(* _send: the next id and the line on the wire.  On a connection the pool  *)
(* has closed the kernel may still take the line, which is then lost.      *)
Send(method) ==
    /\ requests' = Append(requests, method)
    /\ toServer' = IF open THEN Append(toServer, Len(requests) + 1) ELSE toServer
    /\ UNCHANGED <<toClient, open, notifies>>

SendRequest ==
    /\ phase \in Methods
    /\ step = "send"
    /\ Send(phase)
    /\ step' = "store"
    /\ UNCHANGED <<phase, idOf, readerVars>>

(* `self._subscribe_id = self._send(...)`, after _send has returned. *)
StoreId ==
    /\ phase \in Methods
    /\ step = "store"
    /\ idOf' = [idOf EXCEPT ![phase] = Len(requests)]
    /\ step' = "wait"
    /\ UNCHANGED <<phase, readerVars, wireVars>>

PhaseAfter(m) ==
    CASE m = "subscribe" -> "authorize"
      [] m = "authorize" -> IF SuggestsDifficulty THEN "suggest_difficulty" ELSE "running"
      [] m = "suggest_difficulty" -> "running"

(* The event is set; suggest_difficulty awaits nothing. *)
Proceed ==
    /\ phase \in Methods
    /\ step = "wait"
    /\ phase \in Awaited => event[phase]
    /\ phase' = PhaseAfter(phase)
    /\ step' = "send"
    /\ UNCHANGED <<idOf, readerVars, wireVars>>

(* Faulty waits: the returned False is ignored; or there is no timeout. *)
TimeOutIgnored ==
    /\ phase \in Awaited
    /\ step = "wait"
    /\ ~event[phase]
    /\ phase' = PhaseAfter(phase)
    /\ step' = "send"
    /\ UNCHANGED <<idOf, readerVars, wireVars>>

NoTimeOut == FALSE

(* `wait(timeout=30)` returns False: start() does too. *)
TimeOut ==
    /\ phase \in Awaited
    /\ step = "wait"
    /\ ~event[phase]
    /\ phase' = "failed"
    /\ UNCHANGED <<step, idOf, readerVars, wireVars>>

(* drain_and_submit: a share of a published job. *)
Submit ==
    /\ phase = "running"
    /\ published > 0
    /\ Cardinality({i \in DOMAIN requests : requests[i] = "submit"}) < MaxSubmits
    /\ Send("submit")
    /\ UNCHANGED <<mainVars, readerVars>>

Main == Connect \/ Raises \/ SendRequest \/ StoreId \/ Proceed \/ TimeOut \/ Submit
-----------------------------------------------------------------------------
(* The reader thread: one message at a time (_dispatch). *)

(* The result is [.., extranonce1, extranonce2_size]; anything else raises *)
(* a TypeError that read_forever does not catch: the thread dies.          *)
OnSubscribeResult(result) ==
    /\ \/ /\ result = "session"
          /\ session' = TRUE
          /\ event' = [event EXCEPT !["subscribe"] = TRUE]
          /\ UNCHANGED readerAlive
       \/ /\ result # "session"
          /\ readerAlive' = FALSE
          /\ UNCHANGED <<session, event>>
    /\ UNCHANGED <<accepted, rejected>>

(* A faulty handler that takes any answer for a yes. *)
OnAuthorizeResultAny(result) ==
    /\ event' = [event EXCEPT !["authorize"] = TRUE]
    /\ UNCHANGED <<session, readerAlive, accepted, rejected>>

OnAuthorizeResult(result) ==
    /\ event' = [event EXCEPT !["authorize"] = @ \/ result = "true"]
    /\ UNCHANGED <<session, readerAlive, accepted, rejected>>

OnSuggestResult == UNCHANGED <<session, event, readerAlive, accepted, rejected>>

(* Every other response is a share's. *)
OnShareResult(result) ==
    /\ \/ result = "true" /\ accepted' = accepted + 1 /\ UNCHANGED rejected
       \/ result # "true" /\ rejected' = rejected + 1 /\ UNCHANGED accepted
    /\ UNCHANGED <<session, event, readerAlive>>

Stored == {m \in Methods : idOf[m] # None}

Remember(id, result) ==
    \/ /\ id # None
       /\ handled' = handled \cup {<<id, result>>}
       /\ UNCHANGED unasked
    \/ /\ id = None
       /\ unasked' = Append(unasked, [result |-> result, stored |-> Stored])
       /\ UNCHANGED handled

(* `match message_id`: the first of the stored ids that equals the         *)
(* response's, be it None; the suggestion's has a guard against None.      *)
HandleResponse(id, result) ==
    /\ CASE id = idOf["subscribe"] -> OnSubscribeResult(result)
         [] id # idOf["subscribe"] /\ id = idOf["authorize"] -> OnAuthorizeResult(result)
         [] /\ id \notin {idOf["subscribe"], idOf["authorize"]}
            /\ id = idOf["suggest_difficulty"] /\ idOf["suggest_difficulty"] # None -> OnSuggestResult
         [] OTHER -> OnShareResult(result)
    /\ Remember(id, result)
    /\ UNCHANGED published

(* A faulty _on_notify that does not wait for the session. *)
OnNotifyUnguarded ==
    /\ published' = published + 1
    /\ UNCHANGED <<event, session, accepted, rejected, readerAlive, handled, unasked>>

(* mining.notify: dropped while the subscribe result is outstanding. *)
OnNotify ==
    /\ published' = IF event["subscribe"] THEN published + 1 ELSE published
    /\ UNCHANGED <<event, session, accepted, rejected, readerAlive, handled, unasked>>

Dispatch ==
    /\ readerAlive
    /\ toClient # <<>>
    /\ LET message == Head(toClient)
       IN  \/ message.method # None /\ OnNotify
           \/ message.method = None /\ HandleResponse(message.id, message.result)
    /\ toClient' = Tail(toClient)
    /\ UNCHANGED <<mainVars, requests, toServer, open, notifies>>

(* recv returns no bytes: the pool closed the connection. *)
EndOfStream ==
    /\ readerAlive
    /\ ~open
    /\ toClient = <<>>
    /\ readerAlive' = FALSE
    /\ UNCHANGED <<mainVars, event, session, published, accepted, rejected, handled, unasked,
                   wireVars>>

Reader == Dispatch \/ EndOfStream
-----------------------------------------------------------------------------
(* The pool (external): answers in order, notifies when it likes, may send *)
(* a response without an id, as JSON-RPC does for a line that could not be *)
(* parsed, and may close the connection at any time.  Some pools leave     *)
(* mining.suggest_difficulty unanswered.                                   *)
Answers(method) ==
    CASE method = "subscribe" -> {"session", "error"}
      [] OTHER -> {"true", "error"}

PoolAnswers ==
    /\ open
    /\ toServer # <<>>
    /\ \E result \in Answers(requests[Head(toServer)]) :
            toClient' = Append(toClient, Response(Head(toServer), result))
    /\ toServer' = Tail(toServer)
    /\ UNCHANGED <<mainVars, readerVars, requests, open, notifies>>

PoolIgnoresSuggestion ==
    /\ open
    /\ toServer # <<>>
    /\ requests[Head(toServer)] = "suggest_difficulty"
    /\ toServer' = Tail(toServer)
    /\ UNCHANGED <<mainVars, readerVars, requests, toClient, open, notifies>>

PoolNotifies ==
    /\ open
    /\ notifies < MaxNotifies
    /\ notifies' = notifies + 1
    /\ toClient' = Append(toClient, Notification)
    /\ UNCHANGED <<mainVars, readerVars, requests, toServer, open>>

PoolSpeaksUnasked ==
    /\ open
    /\ Len(unasked) + Len(SelectSeq(toClient, IsUnasked)) < MaxUnasked
    /\ \E result \in Results : toClient' = Append(toClient, Response(None, result))
    /\ UNCHANGED <<mainVars, readerVars, requests, toServer, open, notifies>>

PoolCloses ==
    /\ open
    /\ open' = FALSE
    /\ UNCHANGED <<mainVars, readerVars, requests, toServer, toClient, notifies>>

Pool == PoolAnswers \/ PoolIgnoresSuggestion \/ PoolNotifies \/ PoolSpeaksUnasked \/ PoolCloses

Next == Main \/ Reader \/ Pool

(* Both threads are scheduled, and a wait with a timeout ends.  The pool   *)
(* owes nothing.                                                           *)
Spec == Init /\ [][Next]_vars /\ WF_vars(Main) /\ WF_vars(Reader)

-----------------------------------------------------------------------------
(* Every variable has its type. *)
TypeOK ==
    /\ phase \in Methods \cup Over \cup {"connect", "running"}
    /\ step \in {"send", "store", "wait"}
    /\ idOf \in [Methods -> Nat \cup {None}]
    /\ event \in [Awaited -> BOOLEAN]
    /\ session \in BOOLEAN
    /\ published \in Nat
    /\ accepted \in Nat
    /\ rejected \in Nat
    /\ readerAlive \in BOOLEAN
    /\ requests \in Seq(Methods \cup {"submit"})
    /\ toServer \in Seq(Nat)
    /\ toClient \in Seq(Messages)
    /\ open \in BOOLEAN
    /\ notifies \in Nat
    /\ handled \in SUBSET (Nat \X Results)
    /\ unasked \in Seq([result : Results, stored : SUBSET Methods])

Yes == [subscribe |-> "session", authorize |-> "true"]

Answered(m) == \E p \in handled : requests[p[1]] = m
Granted(m) == \E p \in handled : requests[p[1]] = m /\ p[2] = Yes[m]

(* A response without an id was taken for the yes to m.  It can be only    *)
(* while m's id is not stored, and authorize's turn comes when subscribe's *)
(* is.                                                                     *)
StoodIn(m) ==
    \E i \in DOMAIN unasked :
        /\ unasked[i].result = Yes[m]
        /\ unasked[i].stored = IF m = "subscribe" THEN {} ELSE {"subscribe"}

(* start() succeeds only on a connection with a session, and only if the   *)
(* pool granted each request, or a response without an id stood in for the *)
(* grant before the request's id was stored (_dispatch tells responses by  *)
(* their missing method; `match message_id` takes None for an id that is   *)
(* still None): once the ids are stored, nothing but the answer to a       *)
(* request can grant it, whatever order the threads ran in.                *)
RunningMeansGranted ==
    phase \in {"suggest_difficulty", "running"} =>
        session /\ \A m \in Awaited : Granted(m) \/ StoodIn(m)

(* No job is published with an empty extranonce1, even if the pool         *)
(* notifies before it answers the subscribe.                               *)
JobsNeedASession == published > 0 => session

ShareResponses == {p \in handled : requests[p[1]] = "submit"}

(* Responses without an id that came when no awaited id was None any more. *)
Strays == {i \in DOMAIN unasked : Awaited \subseteq unasked[i].stored}

(* The answer to m may have come before its id was stored: nobody waits    *)
(* for the one to mining.suggest_difficulty, and start() goes on without   *)
(* the others when a response without an id has stood in for them.         *)
MaybeEarly(m) == IF Answered(m) /\ (m \in Awaited => StoodIn(m)) THEN 1 ELSE 0

(* On a connection that runs, the share counts are those of the share      *)
(* responses and of the responses without an id that met only stored ids,  *)
(* but for at most one answer to each request of the handshake that came   *)
(* before its id was stored.                                               *)
SharesAreShares ==
    phase = "running" =>
        LET due == Cardinality(ShareResponses) + Cardinality(Strays)
        IN  /\ accepted + rejected >= due
            /\ accepted + rejected <=
                 due + MaybeEarly("subscribe") + MaybeEarly("authorize")
                     + MaybeEarly("suggest_difficulty")

(* "False on failure" (start), reported as "no subscribe response from     *)
(* pool" or "not authorized": a request the pool has granted, and whose    *)
(* response the reader has handled, does not time out.                     *)
GrantedRequestsDoNotTimeOut ==
    [][TimeOut => ~Granted(phase)]_vars

(* start() comes to an end, even if the pool never answers. *)
StartReturns == <>(phase \in Over \cup {"running"})

=============================================================================
