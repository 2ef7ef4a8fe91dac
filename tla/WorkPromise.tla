----------------------------- MODULE WorkPromise -----------------------------
(***************************************************************************)
(* What the work auditor promises, with the whole history at hand: the run *)
(* is clean as long as no two connections hold one extranonce1 and no unit *)
(* of work was handed out under two labels (connection and job id).        *)
(***************************************************************************)
CONSTANTS Conns, Extranonce1s, Works, JobIds

VARIABLES
    held,     \* <<connection, extranonce1>> of the subscribed connections
    handed,   \* <<digest, label>> of every job handed to a connection
    clean     \* no problem so far

vars == <<held, handed, clean>>

Init == held = {} /\ handed = {} /\ clean = TRUE

(* The pool assigns extranonce1 e to connection c, once. *)
Assign(c, e) ==
    /\ \A p \in held : p[1] # c
    /\ held' = held \cup {<<c, e>>}
    /\ clean' = (clean /\ \A p \in held : p[2] # e)
    /\ UNCHANGED handed

(* The pool hands connection c, which holds e, the work w as job j. *)
Hand(c, e, w, j) ==
    LET digest == <<e, w>>
        label == [conn |-> c, job |-> j]
    IN  /\ <<c, e>> \in held
        /\ handed' = handed \cup {<<digest, label>>}
        /\ clean' = (clean /\ \A p \in handed : p[1] = digest => p[2] = label)
        /\ UNCHANGED held

Next ==
    \E c \in Conns, e \in Extranonce1s :
        \/ Assign(c, e)
        \/ \E w \in Works, j \in JobIds : Hand(c, e, w, j)

Spec == Init /\ [][Next]_vars

(* `clean` says it all: every unit of work was handed out under one label, *)
(* and every extranonce1 is held by one connection.                        *)
CleanIffDisjoint ==
    clean <=> /\ \A p, q \in handed : p[1] = q[1] => p[2] = q[2]
              /\ \A p, q \in held : p[2] = q[2] => p[1] = q[1]
=============================================================================
