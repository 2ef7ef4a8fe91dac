------------------------------- MODULE ResultStore -------------------------------
(***************************************************************************)
(* The directory of run files (openbench/results.py): commands that end    *)
(* write one each, with no lock, and `report`, which needs no Docker and   *)
(* may run beside them, reads them all.  A name is the kind, label and     *)
(* second of the run, and a suffix if that is taken.  A writer may be      *)
(* killed, or the disk be full, between any two steps.                     *)
(***************************************************************************)
EXTENDS Integers, FiniteSets

CONSTANTS
    Writers,    \* runs to be stored, each by a process of its own
    Bases,      \* kind__label__stamp
    None        \* no file

ASSUME WritersAssumption == IsFiniteSet(Writers)

Numbers == 1 .. Cardinality(Writers) + 1   \* one more than the runs there are
Names == Bases \X Numbers

(* What a file holds: a whole run, or bytes that do not decode. *)
Runs == [run : Writers, whole : BOOLEAN]
Contents == Runs \cup {None}

ASSUME NoneAssumption == None \notin Runs

VARIABLES
    files,      \* the directory
    writer,     \* of a writer: "begin", "probe", "open", "write", "done" or "killed"
    base,       \* of its name
    suffix,     \* of its name
    earlier,    \* history: the writers that were done when it began
    reader,     \* the report: "idle", "reading" or "done"
    todo,       \* names it has still to read
    found,      \* runs it has read
    due         \* history: the writers that were done when it began

storeVars == <<files, writer, base, suffix, earlier>>
reportVars == <<reader, todo, found, due>>
resultVars == <<storeVars, reportVars>>

Done == {w \in Writers : writer[w] = "done"}
path(w) == <<base[w], suffix[w]>>

StoreInit ==
    /\ files = [n \in Names |-> None]
    /\ writer = [w \in Writers |-> "begin"]
    /\ base \in [Writers -> Bases] /\ suffix = [w \in Writers |-> 1]
    /\ earlier = [w \in Writers |-> {}]
    /\ reader = "idle" /\ todo = {} /\ found = {} /\ due = {}
-----------------------------------------------------------------------------
(* write_run *)

Step(w, from, to) == writer[w] = from /\ writer' = [writer EXCEPT ![w] = to]

Begin(w) ==
    /\ Step(w, "begin", "probe")
    /\ earlier' = [earlier EXCEPT ![w] = Done]
    /\ UNCHANGED <<files, base, suffix, reportVars>>

(* while path.exists(): the bound on numbers is not reached. *)
NameTaken(w) ==
    /\ writer[w] = "probe" /\ files[path(w)] # None
    /\ suffix[w] + 1 \in Numbers
    /\ suffix' = [suffix EXCEPT ![w] = @ + 1]
    /\ UNCHANGED <<files, writer, base, earlier, reportVars>>

NameAnyway(w) ==   \* faulty: takes the first name
    /\ Step(w, "probe", "open")
    /\ UNCHANGED <<files, base, suffix, earlier, reportVars>>

NameFree(w) ==
    /\ Step(w, "probe", "open") /\ files[path(w)] = None
    /\ UNCHANGED <<files, base, suffix, earlier, reportVars>>

(* write_bytes creates or truncates the file, and then writes it. *)
Open(w) ==
    /\ Step(w, "open", "write")
    /\ files' = [files EXCEPT ![path(w)] = [run |-> w, whole |-> FALSE]]
    /\ UNCHANGED <<base, suffix, earlier, reportVars>>

(* Over another's bytes, of which some may be left. *)
Write(w) ==
    /\ Step(w, "write", "done")
    /\ \E whole \in BOOLEAN :
          /\ ~whole => files[path(w)].run # w
          /\ files' = [files EXCEPT ![path(w)] = [run |-> w, whole |-> whole]]
    /\ UNCHANGED <<base, suffix, earlier, reportVars>>

Killed(w) ==
    /\ writer[w] \notin {"done", "killed"}
    /\ writer' = [writer EXCEPT ![w] = "killed"]
    /\ UNCHANGED <<files, base, suffix, earlier, reportVars>>
-----------------------------------------------------------------------------
(* load_runs and write_report *)

BeginReport ==
    /\ reader = "idle"
    /\ reader' = "reading"
    /\ todo' = {n \in Names : files[n] # None} /\ found' = {}
    /\ due' = Done
    /\ UNCHANGED storeVars

ReadUntilBroken ==   \* faulty: a file that does not decode ends the loop
    /\ reader = "reading"
    /\ \E n \in todo :
          IF files[n].whole THEN todo' = todo \ {n} /\ found' = found \cup {files[n].run}
          ELSE todo' = {} /\ UNCHANGED found
    /\ UNCHANGED <<reader, due, storeVars>>

(* A file that does not decode is skipped. *)
ReadFile ==
    /\ reader = "reading"
    /\ \E n \in todo :
          /\ todo' = todo \ {n}
          /\ found' = IF files[n].whole THEN found \cup {files[n].run} ELSE found
    /\ UNCHANGED <<reader, due, storeVars>>

Render ==
    /\ reader = "reading" /\ todo = {}
    /\ reader' = "done"
    /\ UNCHANGED <<todo, found, due, storeVars>>

StoreNext ==
    \/ \E w \in Writers : Begin(w) \/ NameTaken(w) \/ NameFree(w) \/ Open(w) \/ Write(w) \/ Killed(w)
    \/ BeginReport \/ ReadFile \/ Render

StoreSpec == StoreInit /\ [][StoreNext]_resultVars

-----------------------------------------------------------------------------
(* Every variable has its type. *)
StoreTypeOK ==
    /\ files \in [Names -> Contents]
    /\ writer \in [Writers -> {"begin", "probe", "open", "write", "done", "killed"}]
    /\ base \in [Writers -> Bases] /\ suffix \in [Writers -> Numbers]
    /\ earlier \in [Writers -> SUBSET Writers]
    /\ reader \in {"idle", "reading", "done"}
    /\ todo \subseteq Names /\ found \subseteq Writers /\ due \subseteq Writers

Stands(w) == files[path(w)] = [run |-> w, whole |-> TRUE]

(* Neither had ended when the other began. *)
Overlap(u, w) == u \notin earlier[w] /\ w \notin earlier[u]

Rivals(w) == {u \in Writers \ {w} : path(u) = path(w) /\ Overlap(u, w)}

Overwritten(w) == \E u \in Rivals(w) : writer[u] \in {"write", "done", "killed"}

(* A stored run is lost only to a process that was storing one of the same *)
(* kind, label and second at the same time: never to a later one, nor to   *)
(* what a killed one left.                                                 *)
LostOnlyToARival == \A w \in Done : Stands(w) \/ Overwritten(w)

(* The report has every run that was stored before it began, whatever      *)
(* broken files lie beside it and whoever writes meanwhile; and no run     *)
(* that was never stored.                                                  *)
ReportHasWhatWasStored ==
    reader = "done" =>
        /\ \A w \in due : w \in found \/ Overwritten(w)
        /\ found \subseteq Done
=============================================================================
