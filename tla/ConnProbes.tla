------------------------------- MODULE ConnProbes -------------------------------
(***************************************************************************)
(* The connection probes: connscale.py opens N connections at once, one    *)
(* task each, and prints how many were established; conn_probe.py opens    *)
(* them one by one, holding each, until one is not held.  Both face a pool *)
(* with a limit on its connections that may also refuse, ignore or drop    *)
(* one with room to spare.  A connection that the kernel took waits for    *)
(* the pool's accept.  Replies are told apart from nothing at all only: a  *)
(* refused authorization is a reply too.                                   *)
(***************************************************************************)
EXTENDS Integers, FiniteSets

CONSTANTS
    N,      \* --connections, and conn_probe's safety cap
    Batch   \* connections connscale opens at a time

ASSUME ConnBoundsAssumption == N \in Nat \ {0} /\ Batch \in 1 .. N

Conns == 1 .. N

VARIABLES
    prog,       \* "connscale" or "conn_probe"
    limit,      \* the pool's limit
    at,         \* the main program
    created,    \* connections begun: tasks created, or sockets opened
    conn,       \* the probe's side: "new", "asked", "up", "failed" or "closed"
    peer,       \* the pool's side: "none", "waiting", "open", "answered" or "gone"
    replies,    \* connections whose reply is not read yet
    established, failed,    \* the counters; conn_probe's len(conns) is `established`
    printed,    \* the number in the line, -1 before it
    reason,     \* conn_probe's stopped_because
    dropped,    \* history: connections the pool dropped after it had answered
    faults      \* history: it failed one it had room for, or the probe gave up early

peerVars == <<limit, peer, dropped>>
countVars == <<established, failed>>
connVars == <<prog, at, created, conn, replies, printed, reason, faults, peerVars, countVars>>

ConnInit ==
    /\ prog \in {"connscale", "conn_probe"}
    /\ limit \in 0 .. N
    /\ at = "open" /\ created = 0
    /\ conn = [c \in Conns |-> "new"] /\ peer = [c \in Conns |-> "none"]
    /\ replies = {} /\ established = 0 /\ failed = 0
    /\ printed = -1 /\ reason = "none"
    /\ dropped = {} /\ faults = FALSE

(* The connections the pool has taken. *)
Taken == {c \in Conns : peer[c] \in {"open", "answered"}}

Room == Cardinality(Taken) < limit

(* The pool had no room for it, or had not taken it. *)
Blameless(c) == ~Room /\ c \notin Taken

SmallerOf(a, b) == IF a < b THEN a ELSE b
-----------------------------------------------------------------------------
(* A connection of either probe. *)

Connect(c) ==
    /\ conn' = [conn EXCEPT ![c] = "asked"]
    /\ peer' = [peer EXCEPT ![c] = "waiting"]

Reply(c) ==
    /\ c \in replies /\ conn[c] = "asked"
    /\ replies' = replies \ {c}
    /\ conn' = [conn EXCEPT ![c] = "up"]
    /\ established' = established + 1

(* End of file, or nothing to read until the timeout. *)
NoReply(c) == conn[c] = "asked" /\ c \notin replies

Leave(c, to) ==
    /\ conn' = [conn EXCEPT ![c] = to]
    /\ peer' = IF peer[c] = "none" THEN peer ELSE [peer EXCEPT ![c] = "gone"]
-----------------------------------------------------------------------------
(* connscale *)

CreateBatch ==
    /\ prog = "connscale" /\ at = "open"
    /\ created' = SmallerOf(created + Batch, N)
    /\ at' = IF created' = N THEN "wait" ELSE "open"
    /\ UNCHANGED <<prog, conn, replies, printed, reason, faults, peerVars, countVars>>

TaskConnects(c) ==
    /\ prog = "connscale" /\ c <= created /\ conn[c] = "new"
    /\ Connect(c)
    /\ UNCHANGED <<prog, at, created, replies, printed, reason, faults, limit, dropped, countVars>>

TaskEstablishedOnConnect(c) ==   \* faulty: counts what the kernel took
    /\ prog = "connscale" /\ conn[c] = "asked"
    /\ conn' = [conn EXCEPT ![c] = "up"]
    /\ established' = established + 1
    /\ UNCHANGED <<prog, at, created, replies, printed, reason, faults, peerVars, failed>>

TaskEstablished(c) ==
    /\ prog = "connscale"
    /\ Reply(c)
    /\ UNCHANGED <<prog, at, created, printed, reason, faults, peerVars, failed>>

TaskFailsAlways(c) ==   \* faulty: an established connection that ends is a failed one too
    /\ prog = "connscale" /\ c <= created
    /\ NoReply(c) \/ conn[c] = "new" \/ (conn[c] = "up" /\ peer[c] = "gone")
    /\ failed' = failed + 1
    /\ faults' = (faults \/ ~Blameless(c))
    /\ Leave(c, "failed")
    /\ UNCHANGED <<prog, at, created, replies, printed, reason, limit, dropped, established>>

TaskFails(c) ==
    /\ prog = "connscale" /\ c <= created
    /\ NoReply(c) \/ conn[c] = "new"
    /\ failed' = failed + 1
    /\ faults' = (faults \/ ~Blameless(c))
    /\ Leave(c, "failed")
    /\ UNCHANGED <<prog, at, created, replies, printed, reason, limit, dropped, established>>

(* Every connection is counted, or 90 s have passed since the last batch.  *)
PrintEstablished ==
    /\ prog = "connscale" /\ at = "wait"
    /\ at' = "hold" /\ printed' = established
    /\ faults' = (faults \/ established + failed < N)
    /\ UNCHANGED <<prog, created, conn, replies, reason, peerVars, countVars>>

(* After --hold the tasks are stopped and the program returns; meanwhile   *)
(* they go on.                                                             *)
Stop ==
    /\ prog = "connscale" /\ at = "hold"
    /\ at' = "ended"
    /\ UNCHANGED <<prog, created, conn, replies, printed, reason, faults, peerVars, countVars>>
-----------------------------------------------------------------------------
(* conn_probe *)

StopBecause(why, blame) ==
    /\ at' = "ended"
    /\ reason' = why /\ printed' = established
    /\ faults' = (faults \/ blame)
    /\ UNCHANGED <<prog, replies, limit, dropped, countVars>>

ReachCap ==
    /\ prog = "conn_probe" /\ at = "open" /\ established = N
    /\ StopBecause("cap", FALSE)
    /\ UNCHANGED <<created, conn, peer>>

OpenNext ==
    /\ prog = "conn_probe" /\ at = "open" /\ established < N
    /\ at' = "reply" /\ created' = established + 1
    /\ Connect(created')
    /\ UNCHANGED <<prog, replies, printed, reason, faults, limit, dropped, countVars>>

(* No file descriptor or port is left, or the pool refuses. *)
NotOpened ==
    /\ prog = "conn_probe" /\ at = "open" /\ established < N
    /\ \/ StopBecause("local", TRUE)
       \/ StopBecause("refused", Room)
    /\ UNCHANGED <<created, conn, peer>>

HoldUnasked ==   \* faulty: does not wait for the pool's reply
    /\ prog = "conn_probe" /\ at = "reply"
    /\ at' = "open"
    /\ conn' = [conn EXCEPT ![created] = "up"]
    /\ established' = established + 1
    /\ UNCHANGED <<prog, created, replies, printed, reason, faults, peerVars, failed>>

Hold ==
    /\ prog = "conn_probe" /\ at = "reply"
    /\ at' = "open"
    /\ Reply(created)
    /\ UNCHANGED <<prog, created, printed, reason, faults, peerVars, failed>>

NotHeld ==
    /\ prog = "conn_probe" /\ at = "reply" /\ NoReply(created)
    /\ StopBecause("not held", ~Blameless(created))
    /\ Leave(created, "closed")
    /\ UNCHANGED created
-----------------------------------------------------------------------------
(* The pool. *)

PoolAccepts(c) ==
    /\ peer[c] = "waiting" /\ Room
    /\ peer' = [peer EXCEPT ![c] = "open"]
    /\ UNCHANGED <<prog, at, created, conn, replies, printed, reason, faults, limit, dropped, countVars>>

PoolAnswers(c) ==
    /\ peer[c] = "open"
    /\ peer' = [peer EXCEPT ![c] = "answered"]
    /\ replies' = replies \cup {c}
    /\ UNCHANGED <<prog, at, created, conn, printed, reason, faults, limit, dropped, countVars>>

(* An answered connection may be dropped, read or not. *)
PoolDrops(c) ==
    /\ peer[c] = "answered" /\ at # "ended"
    /\ peer' = [peer EXCEPT ![c] = "gone"]
    /\ dropped' = dropped \cup {c} /\ faults' = TRUE
    /\ UNCHANGED <<prog, at, created, conn, replies, printed, reason, limit, countVars>>

ConnMain == CreateBatch \/ PrintEstablished \/ Stop \/ ReachCap \/ OpenNext \/ NotOpened \/ Hold \/ NotHeld

ConnNext ==
    \/ ConnMain
    \/ \E c \in Conns : \/ TaskConnects(c) \/ TaskEstablished(c) \/ TaskFails(c)
                        \/ PoolAccepts(c) \/ PoolAnswers(c) \/ PoolDrops(c)

ConnSpec == ConnInit /\ [][ConnNext]_connVars

-----------------------------------------------------------------------------
(* Every variable has its type. *)
ConnTypeOK ==
    /\ prog \in {"connscale", "conn_probe"} /\ limit \in 0 .. N
    /\ at \in {"open", "wait", "reply", "hold", "ended"}
    /\ created \in 0 .. N
    /\ conn \in [Conns -> {"new", "asked", "up", "failed", "closed"}]
    /\ peer \in [Conns -> {"none", "waiting", "open", "answered", "gone"}]
    /\ replies \subseteq Conns /\ dropped \subseteq Conns
    /\ established \in 0 .. N /\ failed \in 0 .. N
    /\ printed \in -1 .. N
    /\ reason \in {"none", "cap", "local", "refused", "not held"}
    /\ faults \in BOOLEAN

Up == {c \in Conns : conn[c] = "up"}

(* Every connection is counted at most once, as established or as failed,  *)
(* so that connscale's wait for all of them does not end early.            *)
CountedOnce ==
    /\ established = Cardinality(Up)
    /\ established + failed <= N

(* ESTABLISHED and held= are never lowered when the pool drops a           *)
(* connection; they exceed what the pool can hold by no more than that.    *)
OvercountIsDrops ==
    printed <= limit + Cardinality(dropped)

(* With a pool that answers while it has room and drops nothing, the       *)
(* number printed is the pool's limit, or all that was asked for.          *)
ExactForSteadyPools ==
    printed # -1 /\ ~faults => printed = SmallerOf(limit, N)
=============================================================================
