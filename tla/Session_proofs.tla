----------------------------- MODULE Session_proofs -----------------------------
(***************************************************************************)
(* What is kept of a session.  For any number of writers and names: what a *)
(* stored run can be lost to, and what a report has.  For any number of    *)
(* units and of probes in each: whose samples a row has, and what may have *)
(* disturbed it.                                                           *)
(***************************************************************************)
EXTENDS ResultStore, PoolUnit, FiniteSetTheorems, SequenceTheorems, TLAPS

-----------------------------------------------------------------------------
(* ResultStore *)

(* A writer that was done before another began has its file where it left  *)
(* it, so that the other found the name taken.                             *)
EarlierAreDone == \A u, w \in Writers : w \in earlier[u] => writer[w] = "done"

(* The files on the report's list exist: none is ever removed. *)
ListedExist == \A n \in todo : files[n] # None

WrittenExist == \A w \in Writers : writer[w] \in {"write", "done"} => files[path(w)] # None

NamesApart ==
    \A u, w \in Writers :
        w \in earlier[u] /\ writer[u] \in {"open", "write", "done"} => path(u) # path(w)

OwnBytes ==
    \A w \in Writers :
        /\ writer[w] = "write" => files[path(w)].run = w \/ Overwritten(w)
        /\ writer[w] = "done" => Stands(w) \/ Overwritten(w)

StoreInv == StoreTypeOK /\ ListedExist /\ EarlierAreDone /\ WrittenExist /\ NamesApart /\ OwnBytes

(* Both readings of a rival. *)
LEMMA RivalIff ==
    ASSUME NEW u, NEW w
    PROVE  u \in Rivals(w) <=> /\ u \in Writers /\ u # w /\ path(u) = path(w)
                               /\ u \notin earlier[w] /\ w \notin earlier[u]
BY DEF Rivals, Overlap

LEMMA PathType == ASSUME StoreTypeOK, NEW w \in Writers PROVE path(w) \in Names
BY DEF StoreTypeOK, path, Names

LEMMA InitStoreInv == StoreInit => StoreInv
<1> SUFFICES ASSUME StoreInit PROVE StoreInv
    OBVIOUS
<1>1. 1 \in Numbers
    BY WritersAssumption, FS_CardinalityType DEF Numbers
<1>2. StoreTypeOK
    BY <1>1 DEF StoreInit, StoreTypeOK, Contents
<1>3. ListedExist /\ EarlierAreDone /\ WrittenExist /\ NamesApart /\ OwnBytes
    BY DEF StoreInit, ListedExist, EarlierAreDone, WrittenExist, NamesApart, OwnBytes
<1> QED
    BY <1>2, <1>3 DEF StoreInv

(* Every variable keeps its type. *)
LEMMA NextStoreTypeOK == StoreTypeOK /\ ListedExist /\ [StoreNext]_resultVars => StoreTypeOK'
<1> SUFFICES ASSUME StoreTypeOK, ListedExist, [StoreNext]_resultVars PROVE StoreTypeOK'
    OBVIOUS
<1> USE DEF storeVars, reportVars
<1>1. ASSUME NEW w \in Writers, Begin(w) PROVE StoreTypeOK'
    BY <1>1 DEF Begin, Step, Done, StoreTypeOK
<1>2. ASSUME NEW w \in Writers, NameTaken(w) PROVE StoreTypeOK'
    BY <1>2 DEF NameTaken, StoreTypeOK
<1>3. ASSUME NEW w \in Writers, NameFree(w) PROVE StoreTypeOK'
    BY <1>3 DEF NameFree, Step, StoreTypeOK
<1>4. ASSUME NEW w \in Writers, Open(w) PROVE StoreTypeOK'
    <2>1. [run |-> w, whole |-> FALSE] \in Contents
        BY DEF Contents, Runs
    <2> QED
        BY <1>4, <2>1 DEF Open, Step, StoreTypeOK
<1>5. ASSUME NEW w \in Writers, Write(w) PROVE StoreTypeOK'
    <2>1. PICK whole \in BOOLEAN : files' = [files EXCEPT ![path(w)] = [run |-> w, whole |-> whole]]
        BY <1>5 DEF Write
    <2>2. [run |-> w, whole |-> whole] \in Contents
        BY DEF Contents, Runs
    <2> QED
        BY <1>5, <2>1, <2>2 DEF Write, Step, StoreTypeOK
<1>6. ASSUME NEW w \in Writers, Killed(w) PROVE StoreTypeOK'
    BY <1>6 DEF Killed, StoreTypeOK
<1>7. CASE BeginReport
    BY <1>7 DEF BeginReport, Done, StoreTypeOK
<1>8. CASE ReadFile
    <2>1. PICK n \in todo : /\ todo' = todo \ {n}
                            /\ found' = IF files[n].whole THEN found \cup {files[n].run} ELSE found
        BY <1>8 DEF ReadFile
    <2>2. files[n] \in Runs
        BY <2>1 DEF StoreTypeOK, Contents, ListedExist
    <2>3. files[n].run \in Writers
        BY <2>2 DEF Runs
    <2> QED
        BY <1>8, <2>1, <2>3 DEF ReadFile, StoreTypeOK
<1>9. CASE Render
    BY <1>9 DEF Render, StoreTypeOK
<1>10. CASE UNCHANGED resultVars
    BY <1>10 DEF resultVars, StoreTypeOK
<1> QED
    BY <1>1, <1>2, <1>3, <1>4, <1>5, <1>6, <1>7, <1>8, <1>9, <1>10 DEF StoreNext
-----------------------------------------------------------------------------
(* What each step does to the five parts about the files. *)

LEMMA NextListedExist == StoreInv /\ [StoreNext]_resultVars => ListedExist'
<1> SUFFICES ASSUME StoreInv, [StoreNext]_resultVars PROVE ListedExist'
    OBVIOUS
<1> USE DEF storeVars, reportVars, StoreInv, StoreTypeOK, ListedExist
<1>1. ASSUME NEW w \in Writers, Open(w) \/ Write(w) PROVE ListedExist'
    <2>1. PICK r \in Runs : files' = [files EXCEPT ![path(w)] = r]
        BY <1>1 DEF Open, Write, Runs
    <2> QED
        BY <1>1, <2>1, NoneAssumption DEF Open, Write
<1>2. CASE BeginReport
    BY <1>2 DEF BeginReport
<1>3. CASE ReadFile
    BY <1>3 DEF ReadFile
<1>4. CASE UNCHANGED <<files, todo>>
    BY <1>4
<1> QED
    BY <1>1, <1>2, <1>3, <1>4
    DEF StoreNext, Begin, NameTaken, NameFree, Killed, Render, resultVars

LEMMA NextEarlierAreDone == StoreInv /\ [StoreNext]_resultVars => EarlierAreDone'
<1> SUFFICES ASSUME StoreInv, [StoreNext]_resultVars PROVE EarlierAreDone'
    OBVIOUS
<1> USE DEF storeVars, reportVars, StoreInv, StoreTypeOK, EarlierAreDone, Step
<1>1. ASSUME NEW w \in Writers, Begin(w) PROVE EarlierAreDone'
    BY <1>1 DEF Begin, Done
<1>2. ASSUME NEW w \in Writers, NameFree(w) \/ Open(w) \/ Write(w) \/ Killed(w) PROVE EarlierAreDone'
    BY <1>2 DEF NameFree, Open, Write, Killed
<1>3. CASE UNCHANGED <<writer, earlier>>
    BY <1>3
<1> QED
    BY <1>1, <1>2, <1>3 DEF StoreNext, NameTaken, BeginReport, ReadFile, Render, resultVars

LEMMA NextWrittenExist == StoreInv /\ [StoreNext]_resultVars => WrittenExist'
<1> SUFFICES ASSUME StoreInv, [StoreNext]_resultVars PROVE WrittenExist'
    OBVIOUS
<1> USE DEF storeVars, reportVars, StoreInv, StoreTypeOK, WrittenExist, Step, path
<1>1. ASSUME NEW w \in Writers, Begin(w) \/ NameFree(w) \/ Killed(w) PROVE WrittenExist'
    BY <1>1 DEF Begin, NameFree, Killed
<1>2. ASSUME NEW w \in Writers, NameTaken(w) PROVE WrittenExist'
    BY <1>2 DEF NameTaken
<1>3. ASSUME NEW w \in Writers, Open(w) \/ Write(w) PROVE WrittenExist'
    <2>1. PICK r \in Runs : files' = [files EXCEPT ![path(w)] = r]
        BY <1>3 DEF Open, Write, Runs
    <2>2. path(w) \in Names
        BY PathType
    <2> QED
        BY <1>3, <2>1, <2>2, NoneAssumption DEF Open, Write
<1>4. CASE UNCHANGED storeVars
    BY <1>4
<1> QED
    BY <1>1, <1>2, <1>3, <1>4 DEF StoreNext, BeginReport, ReadFile, Render, resultVars

LEMMA NextNamesApart == StoreInv /\ [StoreNext]_resultVars => NamesApart'
<1> SUFFICES ASSUME StoreInv, [StoreNext]_resultVars PROVE NamesApart'
    OBVIOUS
<1> USE DEF storeVars, reportVars, StoreInv, StoreTypeOK, NamesApart, Step, path
<1>1. ASSUME NEW w \in Writers, Begin(w) PROVE NamesApart'
    BY <1>1 DEF Begin
<1>2. ASSUME NEW w \in Writers, NameTaken(w) PROVE NamesApart'
    BY <1>2 DEF NameTaken, EarlierAreDone
<1>3. ASSUME NEW w \in Writers, NameFree(w) PROVE NamesApart'
    BY <1>3 DEF NameFree, EarlierAreDone, WrittenExist
<1>4. ASSUME NEW w \in Writers, Open(w) \/ Write(w) \/ Killed(w) PROVE NamesApart'
    BY <1>4 DEF Open, Write, Killed
<1>5. CASE UNCHANGED storeVars
    BY <1>5
<1> QED
    BY <1>1, <1>2, <1>3, <1>4, <1>5 DEF StoreNext, BeginReport, ReadFile, Render, resultVars

(* A step that touches no file and takes nobody's rival away. *)
LEMMA QuietStep ==
    ASSUME StoreInv, UNCHANGED files,
           \A w \in Writers : writer[w] \in {"write", "done"} => path(w)' = path(w) /\ earlier'[w] = earlier[w],
           \A w \in Writers : writer'[w] \in {"write", "done"} => writer[w] = writer'[w],
           \A w \in Writers : writer[w] \in {"write", "done", "killed"} =>
               /\ writer'[w] \in {"write", "done", "killed"}
               /\ path(w)' = path(w) /\ earlier'[w] = earlier[w]
    PROVE  OwnBytes'
<1>1. ASSUME NEW w \in Writers, writer[w] \in {"write", "done"}, Overwritten(w) PROVE Overwritten(w)'
    BY <1>1, RivalIff DEF Overwritten, Rivals, Overlap
<1> QED
    BY <1>1 DEF StoreInv, OwnBytes, Stands

(* Whoever writes over another run's file is its rival. *)
LEMMA WritersAreRivals ==
    ASSUME StoreInv, NEW w \in Writers, NEW u \in Writers, u # w, path(u) = path(w),
           writer[u] \in {"open", "write"}, writer[w] \in {"write", "done"}
    PROVE  u \in Rivals(w)
BY RivalIff DEF StoreInv, EarlierAreDone, NamesApart

LEMMA NextOwnBytes == StoreInv /\ [StoreNext]_resultVars => OwnBytes'
<1> SUFFICES ASSUME StoreInv, [StoreNext]_resultVars PROVE OwnBytes'
    OBVIOUS
<1> USE DEF storeVars, reportVars, Step
<1>1. ASSUME NEW u \in Writers, Begin(u) PROVE OwnBytes'
    BY <1>1, QuietStep DEF Begin, StoreInv, StoreTypeOK, path
<1>2. ASSUME NEW u \in Writers, NameTaken(u) PROVE OwnBytes'
    BY <1>2, QuietStep DEF NameTaken, StoreInv, StoreTypeOK, path
<1>3. ASSUME NEW u \in Writers, NameFree(u) PROVE OwnBytes'
    BY <1>3, QuietStep DEF NameFree, StoreInv, StoreTypeOK, path
<1>4. ASSUME NEW u \in Writers, Killed(u) PROVE OwnBytes'
    BY <1>4, QuietStep DEF Killed, StoreInv, StoreTypeOK, path
<1>5. CASE UNCHANGED storeVars
    BY <1>5, QuietStep DEF path
<1>6. ASSUME NEW u \in Writers, Open(u) \/ Write(u) PROVE OwnBytes'
    <2>1. /\ UNCHANGED <<base, suffix, earlier>>
          /\ writer[u] \in {"open", "write"} /\ writer'[u] \in {"write", "done"}
          /\ \A w \in Writers \ {u} : writer'[w] = writer[w]
        BY <1>6 DEF Open, Write, StoreInv, StoreTypeOK
    <2>2. PICK r \in Runs : files' = [files EXCEPT ![path(u)] = r]
        BY <1>6 DEF Open, Write, Runs
    <2>3. \A w \in Writers : path(w)' = path(w) /\ path(w) \in Names /\ Rivals(w)' = Rivals(w)
        BY <2>1, PathType DEF StoreInv, path, Rivals, Overlap
    <2>4. ASSUME NEW w \in Writers, Overwritten(w) PROVE Overwritten(w)'
        BY <2>1, <2>3, <2>4, RivalIff DEF Overwritten
    <2>5. ASSUME NEW w \in Writers \ {u}, writer[w] \in {"write", "done"}, path(w) = path(u)
          PROVE  Overwritten(w)'
        BY <2>1, <2>3, <2>5, WritersAreRivals DEF Overwritten
    <2>6. ASSUME NEW w \in Writers \ {u}, path(w) # path(u) PROVE files'[path(w)] = files[path(w)]
        BY <2>2, <2>3, <2>6
    <2>7. ASSUME NEW w \in Writers \ {u}
          PROVE  /\ writer'[w] = "write" => (files[path(w)].run = w)' \/ Overwritten(w)'
                 /\ writer'[w] = "done" => Stands(w)' \/ Overwritten(w)'
        BY <2>1, <2>3, <2>4, <2>5, <2>6 DEF StoreInv, OwnBytes, Stands
    <2>8. CASE Open(u)
        <3>1. writer'[u] = "write" /\ files'[path(u)].run = u
            BY <2>3, <2>8 DEF Open, StoreInv, StoreTypeOK
        <3> QED
            BY <2>3, <2>7, <3>1 DEF OwnBytes
    <2>9. CASE Write(u)
        <3>1. PICK whole \in BOOLEAN :
                  /\ ~whole => files[path(u)].run # u
                  /\ files' = [files EXCEPT ![path(u)] = [run |-> u, whole |-> whole]]
            BY <2>9 DEF Write
        <3>2. writer[u] = "write" /\ writer'[u] = "done"
            BY <2>9 DEF Write, StoreInv, StoreTypeOK
        <3>3. CASE whole = TRUE
            BY <2>3, <2>7, <3>1, <3>2, <3>3 DEF OwnBytes, Stands, StoreInv, StoreTypeOK
        <3>4. CASE whole = FALSE
            BY <2>4, <2>7, <3>1, <3>2, <3>4 DEF OwnBytes, StoreInv
        <3> QED
            BY <3>3, <3>4
    <2> QED
        BY <1>6, <2>8, <2>9
<1> QED
    BY <1>1, <1>2, <1>3, <1>4, <1>5, <1>6 DEF StoreNext, BeginReport, ReadFile, Render, resultVars
-----------------------------------------------------------------------------
(* The inductive invariant: a stored run stands, or a rival has written. *)
THEOREM StoreInvariant == StoreSpec => []StoreInv
<1>1. StoreInv /\ [StoreNext]_resultVars => StoreInv'
    BY NextStoreTypeOK, NextListedExist, NextEarlierAreDone, NextWrittenExist, NextNamesApart, NextOwnBytes
    DEF StoreInv
<1> QED
    BY <1>1, InitStoreInv, PTL DEF StoreSpec

(* Every variable of the store has its type. *)
THEOREM StoreTypeCorrect == StoreSpec => []StoreTypeOK
BY StoreInvariant, PTL DEF StoreInv

(* A stored run is lost to nobody but a process that was storing one of    *)
(* the same name at the same time (write_run's test for a free name).      *)
THEOREM LostOnlyToARivalCorrect == StoreSpec => []LostOnlyToARival
<1>1. StoreInv => LostOnlyToARival
    BY DEF StoreInv, OwnBytes, LostOnlyToARival, Done
<1> QED
    BY <1>1, StoreInvariant, PTL

-----------------------------------------------------------------------------
(* The report: only whole files of writers that are done are decoded, and  *)
(* a run that was due is still listed, or read, or overwritten.            *)
WholeAreDone == \A n \in Names : files[n] # None /\ files[n].whole => writer[files[n].run] = "done"

DueAreDone == due \subseteq Done /\ found \subseteq Done

DueAreListed ==
    reader # "idle" => \A w \in due : w \in found \/ path(w) \in todo \/ Overwritten(w)

ReportInv ==
    /\ WholeAreDone /\ DueAreDone /\ DueAreListed
    /\ reader = "done" => todo = {}

LEMMA DoneStays ==
    ASSUME StoreInv, [StoreNext]_resultVars, NEW w \in Writers
    PROVE  /\ writer[w] = "done" => writer'[w] = "done" /\ path(w)' = path(w) /\ earlier'[w] = earlier[w]
           /\ writer[w] \in {"write", "done", "killed"} =>
                  /\ writer'[w] \in {"write", "done", "killed"}
                  /\ path(w)' = path(w) /\ earlier'[w] = earlier[w]
<1> USE DEF storeVars, reportVars, StoreInv, StoreTypeOK, Step, path
<1>1. ASSUME NEW u \in Writers, Begin(u) \/ NameTaken(u) \/ NameFree(u)
      PROVE  /\ \A x \in Writers \ {u} : path(x)' = path(x) /\ UNCHANGED <<writer[x], earlier[x]>>
             /\ writer[u] \in {"begin", "probe"}
    BY <1>1 DEF Begin, NameTaken, NameFree
<1>2. ASSUME NEW u \in Writers, Open(u) \/ Write(u) \/ Killed(u)
      PROVE  /\ UNCHANGED <<base, suffix, earlier>>
             /\ \A x \in Writers \ {u} : writer'[x] = writer[x]
             /\ writer[u] # "done" /\ (writer[u] \in {"write", "killed"} => writer'[u] \in {"done", "killed"})
    BY <1>2 DEF Open, Write, Killed
<1>3. CASE UNCHANGED storeVars
    BY <1>3
<1> QED
    BY <1>1, <1>2, <1>3 DEF StoreNext, BeginReport, ReadFile, Render, resultVars

LEMMA OverwrittenStays ==
    ASSUME StoreInv, [StoreNext]_resultVars, NEW w \in Writers, writer[w] = "done", Overwritten(w)
    PROVE  Overwritten(w)'
<1>1. PICK u \in Rivals(w) : writer[u] \in {"write", "done", "killed"}
    BY DEF Overwritten
<1>2. u \in Rivals(w)' /\ writer'[u] \in {"write", "done", "killed"}
    BY <1>1, RivalIff, DoneStays DEF Rivals, Overlap
<1> QED
    BY <1>2 DEF Overwritten

LEMMA NextWholeAreDone == StoreInv /\ ReportInv /\ [StoreNext]_resultVars => WholeAreDone'
<1> SUFFICES ASSUME StoreInv, ReportInv, [StoreNext]_resultVars PROVE WholeAreDone'
    OBVIOUS
<1> USE DEF storeVars, reportVars
<1>1. ASSUME NEW n \in Names, files[n] # None, files[n].whole PROVE writer'[files[n].run] = "done"
    <2>1. files[n].run \in Writers
        BY <1>1 DEF StoreInv, StoreTypeOK, Contents, Runs
    <2> QED
        BY <1>1, <2>1, DoneStays DEF ReportInv, WholeAreDone
<1>2. CASE UNCHANGED files
    BY <1>1, <1>2 DEF WholeAreDone
<1>3. ASSUME NEW u \in Writers, Open(u) PROVE WholeAreDone'
    <2>1. files' = [files EXCEPT ![path(u)] = [run |-> u, whole |-> FALSE]]
        BY <1>3 DEF Open
    <2>2. ASSUME NEW n \in Names, files'[n] # None, files'[n].whole PROVE n # path(u)
        BY <2>1, <2>2, PathType DEF StoreInv, StoreTypeOK
    <2>3. ASSUME NEW n \in Names, n # path(u) PROVE files'[n] = files[n]
        BY <2>1, <2>3 DEF StoreInv, StoreTypeOK
    <2> QED
        BY <1>1, <2>2, <2>3 DEF WholeAreDone
<1>4. ASSUME NEW u \in Writers, Write(u) PROVE WholeAreDone'
    <2>1. PICK whole \in BOOLEAN : files' = [files EXCEPT ![path(u)] = [run |-> u, whole |-> whole]]
        BY <1>4 DEF Write
    <2>2. writer'[u] = "done" /\ files'[path(u)].run = u
        BY <1>4, <2>1, PathType DEF Write, Step, StoreInv, StoreTypeOK
    <2>3. ASSUME NEW n \in Names, n # path(u) PROVE files'[n] = files[n]
        BY <2>1, <2>3 DEF StoreInv, StoreTypeOK
    <2> QED
        BY <1>1, <2>2, <2>3 DEF WholeAreDone
<1> QED
    BY <1>2, <1>3, <1>4
    DEF StoreNext, Begin, NameTaken, NameFree, Killed, BeginReport, ReadFile, Render, resultVars

LEMMA NextDueAreListed == StoreInv /\ ReportInv /\ [StoreNext]_resultVars => (DueAreDone /\ DueAreListed)'
<1> SUFFICES ASSUME StoreInv, ReportInv, [StoreNext]_resultVars PROVE (DueAreDone /\ DueAreListed)'
    OBVIOUS
<1> USE DEF storeVars, reportVars
<1>1. \A w \in Writers : writer[w] = "done" => writer'[w] = "done" /\ path(w)' = path(w)
    BY DoneStays
<1>2. Done \subseteq Done'
    BY <1>1 DEF Done
<1>3. \A w \in Done : Overwritten(w) => Overwritten(w)'
    BY OverwrittenStays DEF Done
<1>4. \A w \in Done : path(w)' = path(w)
    BY <1>1 DEF Done
<1>5. CASE UNCHANGED <<todo, found, due>> /\ (reader' # "idle" => reader # "idle")
    BY <1>2, <1>3, <1>4, <1>5 DEF ReportInv, DueAreDone, DueAreListed
<1>6. CASE BeginReport
    <2>1. \A w \in Done : path(w) \in Names /\ files[path(w)] # None
        BY PathType DEF StoreInv, WrittenExist, Done
    <2> QED
        BY <1>2, <1>4, <1>6, <2>1 DEF BeginReport, DueAreDone, DueAreListed
<1>7. CASE ReadFile
    <2>1. PICK n \in todo : /\ todo' = todo \ {n}
                            /\ found' = IF files[n].whole THEN found \cup {files[n].run} ELSE found
        BY <1>7 DEF ReadFile
    <2>2. n \in Names /\ files[n] # None
        BY <2>1 DEF StoreInv, StoreTypeOK, ListedExist
    <2>3. files[n].run \in Writers
        BY <2>2 DEF StoreInv, StoreTypeOK, Contents, Runs
    <2>4. files[n].whole => files[n].run \in Done
        BY <2>2, <2>3 DEF ReportInv, WholeAreDone, Done
    <2>5. found \subseteq found' /\ due' = due /\ found' \subseteq Done /\ reader # "idle"
        BY <1>7, <2>1, <2>4 DEF ReadFile, ReportInv, DueAreDone
    <2>6. ASSUME NEW w \in due, path(w) = n, ~Overwritten(w) PROVE w \in found'
        <3>1. files[n] = [run |-> w, whole |-> TRUE]
            BY <2>6 DEF ReportInv, DueAreDone, Done, StoreInv, OwnBytes, Stands
        <3> QED
            BY <2>1, <3>1
    <2>7. \A w \in due : w \in found' \/ path(w) \in todo' \/ Overwritten(w)
        BY <2>1, <2>5, <2>6 DEF ReportInv, DueAreListed
    <2> QED
        BY <1>2, <1>3, <1>4, <2>5, <2>7 DEF ReportInv, DueAreDone, DueAreListed
<1> QED
    BY <1>5, <1>6, <1>7
    DEF StoreNext, Begin, NameTaken, NameFree, Open, Write, Killed, Render, resultVars

(* A report has every run stored before it began that was not lost to a    *)
(* rival, and none that was not stored (load_runs, write_report).          *)
THEOREM ReportCorrect == StoreSpec => []ReportHasWhatWasStored
<1>1. StoreInit => ReportInv
    BY DEF StoreInit, ReportInv, WholeAreDone, DueAreDone, DueAreListed
<1>2. StoreInv /\ ReportInv /\ [StoreNext]_resultVars => ReportInv'
    <2>1. ReportInv /\ [StoreNext]_resultVars => (reader' = "done" => todo' = {})
        BY DEF ReportInv, StoreNext, Begin, NameTaken, NameFree, Open, Write, Killed, BeginReport, ReadFile,
               Render, resultVars, storeVars, reportVars
    <2> QED
        BY <2>1, NextWholeAreDone, NextDueAreListed DEF ReportInv
<1>3. ReportInv => ReportHasWhatWasStored
    BY DEF ReportInv, DueAreDone, DueAreListed, ReportHasWhatWasStored
<1> QED
    BY <1>1, <1>2, <1>3, StoreInvariant, PTL DEF StoreSpec

-----------------------------------------------------------------------------
(* PoolUnit *)

(* Probes that have been started, in the order they are. *)
Started(s) == s[1] < unit \/ (s[1] = unit /\ s[2] <= point)

(* Only the unit that is at work has a container, which is ready from the  *)
(* moment it is seen ready until the unit ends.                            *)
ContainerInv ==
    /\ box \in {0, unit}
    /\ pc \in {"await", "measure", "probe", "join"} => box = unit
    /\ pc \in {"measure", "probe", "join"} \/ pool = "serving" => logged
    /\ pc \in {"probe", "join", "joinFailed"} => point > 0
    /\ pc = "build" => source # "absent"

(* A sampler has samples only of its unit and of those that came after. *)
SamplerInv ==
    \A s \in Probes :
        /\ ~Started(s) => thread[s] = "off" /\ lines[s] = {}
        /\ \A u \in lines[s] : s[1] <= u /\ u <= unit

(* A unit that is over and failed, and one that will be once it is over. *)
OverAndFailed(u) == HasFailed(u) /\ (u < unit \/ (u = unit /\ pc = "ended"))

Doomed(u) == OverAndFailed(u) \/ (u = unit /\ pc \in {"joinFailed", "failed"})

(* A one-shot that runs is the one waited for, or its unit is doomed. *)
OneshotInv ==
    \A o \in oneshots :
        \/ Doomed(o[1])
        \/ pc = "await" /\ kind = "net" /\ o = <<unit, 0>>
        \/ pc = "probe" /\ o = <<unit, point>>

(* A unit that left half a clone behind is doomed. *)
SourceInv ==
    /\ source = "partial" => \E u \in 1 .. unit : Doomed(u)
    /\ image = "partial" => \E u \in 1 .. unit : OverAndFailed(u)

UnitInv == TypeOK /\ ContainerInv /\ SamplerInv /\ OneshotInv /\ SourceInv /\ SamplesAreOwn

LEMMA UnitTypes ==
    ASSUME UnitInv
    PROVE  /\ unit \in Nat /\ Units \in Nat /\ point \in Nat /\ Points \in Nat
           /\ pc \in {"probe", "join", "joinFailed"} => <<unit, point>> \in Probes
BY BoundsAssumption DEF UnitInv, TypeOK, ContainerInv, Probes

LEMMA InitUnitInv == Init => UnitInv
<1> SUFFICES ASSUME Init PROVE UnitInv
    OBVIOUS
<1>1. TypeOK
    <2>1. rows \in Seq([unit : 1 .. Units, outcome : Outcomes, samples : SUBSET (1 .. Units)])
        BY DEF Init
    <2>2. thread \in [Probes -> {"off", "ask", "stats", "ended"}] /\ lines \in [Probes -> SUBSET (1 .. Units)]
        BY DEF Init
    <2>3. unit \in 1 .. Units /\ point \in 0 .. Points /\ box \in 0 .. Units
        BY BoundsAssumption DEF Init
    <2> QED
        BY <2>1, <2>2, <2>3 DEF Init, TypeOK
<1>2. ContainerInv /\ SourceInv /\ OneshotInv /\ SamplesAreOwn
    BY DEF Init, ContainerInv, SourceInv, OneshotInv, SamplesAreOwn
<1>3. SamplerInv
    BY DEF Init, SamplerInv
<1> QED
    BY <1>1, <1>2, <1>3 DEF UnitInv

(* What a step of another than the orchestrator leaves alone. *)
LEMMA Bystanders ==
    ASSUME \/ OrphanEnds \/ Serve \/ Die
           \/ \E s \in Probes : Ask(s) \/ SamplerDies(s) \/ Sample(s)
    PROVE  UNCHANGED <<sourceVars, pc, unit, point, box, stop, rows>>
BY DEF OrphanEnds, Serve, Die, Ask, SamplerDies, Sample, poolVars, samplerVars

(* A row says FAILED, or it is of samples of the probe that has just ended. *)
LEMMA RowType ==
    ASSUME UnitInv, NEW outcome \in Outcomes, outcome = "ok" => pc \in {"probe", "join", "joinFailed"}
    PROVE  Row(outcome) \in [unit : 1 .. Units, outcome : Outcomes, samples : SUBSET (1 .. Units)]
<1>1. outcome = "ok" => lines[<<unit, point>>] \in SUBSET (1 .. Units)
    BY UnitTypes DEF UnitInv, TypeOK
<1> QED
    BY <1>1 DEF Row, UnitInv, TypeOK

(* The rows: nothing is taken back. *)
LEMMA NextRows ==
    ASSUME UnitInv, [Next]_vars
    PROVE  \/ UNCHANGED rows
           \/ pc = "join" /\ UNCHANGED <<unit, point, lines>> /\ rows' = Append(rows, Row("ok"))
           \/ pc = "failed" /\ UnitEnds /\ rows' = Append(rows, Row("FAILED"))
<1>1. CASE Main
    BY <1>1 DEF Main, RemoveOld, Clone, KeepSource, Build, StartPool, SeenReady, NotReady, StartProbe,
       ProbeTimesOut, Joined, UnitEnds, Goto, samplerVars
<1>2. CASE CheckEnds \/ ProbeReturns
    BY <1>2 DEF CheckEnds, ProbeReturns
<1> QED
    BY <1>1, <1>2, Bystanders DEF Next, vars

LEMMA FailedStays ==
    ASSUME UnitInv, [Next]_vars, NEW u, HasFailed(u)
    PROVE  HasFailed(u)'
<1>1. PICK i \in DOMAIN rows : rows[i].unit = u /\ rows[i].outcome = "FAILED"
    BY DEF HasFailed
<1>2. \A outcome \in Outcomes :
          LET more == Append(rows, Row(outcome)) IN i \in DOMAIN more /\ more[i] = rows[i]
    BY DEF UnitInv, TypeOK
<1>3. i \in DOMAIN rows' /\ rows'[i] = rows[i]
    BY <1>2, NextRows DEF Outcomes
<1> QED
    BY <1>1, <1>3 DEF HasFailed

(* The unit of a row that says FAILED. *)
LEMMA FailedNow ==
    ASSUME UnitInv, rows' = Append(rows, Row("FAILED")), NEW u, u = unit
    PROVE  HasFailed(u)'
<1>1. DOMAIN rows' = 1 .. Len(rows) + 1 /\ rows'[Len(rows) + 1] = Row("FAILED") /\ Len(rows) \in Nat
    BY DEF UnitInv, TypeOK
<1>2. Row("FAILED").unit = unit /\ Row("FAILED").outcome = "FAILED"
    BY DEF Row
<1> QED
    BY <1>1, <1>2 DEF HasFailed

(* Units come one after the other, and one that has failed ends. *)
LEMMA Onwards ==
    ASSUME UnitInv, [Next]_vars
    PROVE  /\ pc = "ended" => pc' = "ended" /\ unit' = unit
           /\ unit' = unit \/ (UnitEnds /\ unit' = unit + 1)
           /\ pc \in {"joinFailed", "failed"} /\ ~UnitEnds => pc' \in {"joinFailed", "failed"}
<1>1. CASE UnitEnds
    BY <1>1 DEF UnitEnds
<1>2. CASE Main /\ ~UnitEnds
    BY <1>2 DEF Main, RemoveOld, Clone, KeepSource, Build, StartPool, SeenReady, NotReady, StartProbe,
       ProbeTimesOut, Joined, Goto
<1>3. CASE CheckEnds \/ ProbeReturns
    BY <1>3 DEF CheckEnds, ProbeReturns, Goto
<1> QED
    BY <1>1, <1>2, <1>3, Bystanders DEF Next, vars

LEMMA OverAndFailedStays ==
    ASSUME UnitInv, [Next]_vars, NEW u \in 1 .. unit, OverAndFailed(u)
    PROVE  OverAndFailed(u)' /\ u \in 1 .. unit'
BY FailedStays, Onwards, UnitTypes DEF OverAndFailed

LEMMA DoomedStays ==
    ASSUME UnitInv, [Next]_vars, NEW u \in 1 .. unit, Doomed(u)
    PROVE  Doomed(u)' /\ u \in 1 .. unit'
<1>1. CASE OverAndFailed(u)
    BY <1>1, OverAndFailedStays DEF Doomed
<1>2. CASE UnitEnds /\ ~OverAndFailed(u)
    <2>1. u = unit /\ pc = "failed" /\ rows' = Append(rows, Row("FAILED"))
        BY <1>2 DEF Doomed, UnitEnds
    <2>2. HasFailed(u)'
        BY <2>1, FailedNow
    <2>3. pc' = "ended" \/ unit' = unit + 1
        BY <1>2 DEF UnitEnds
    <2>4. unit' = unit \/ unit' = unit + 1
        BY <1>2 DEF UnitEnds
    <2> QED
        BY <2>1, <2>2, <2>3, <2>4, UnitTypes DEF Doomed, OverAndFailed
<1>3. CASE ~UnitEnds /\ ~OverAndFailed(u)
    BY <1>3, Onwards DEF Doomed
<1> QED
    BY <1>1, <1>2, <1>3

LEMMA NextSamplesAreOwn == UnitInv /\ [Next]_vars => SamplesAreOwn'
<1> SUFFICES ASSUME UnitInv, [Next]_vars PROVE SamplesAreOwn'
    OBVIOUS
<1>1. ASSUME NEW outcome \in Outcomes, rows' = Append(rows, Row(outcome)),
             Row(outcome).samples \subseteq {unit}
      PROVE  SamplesAreOwn'
    <2>1. \A i \in DOMAIN rows' : (i \in DOMAIN rows /\ rows'[i] = rows[i]) \/ rows'[i] = Row(outcome)
        BY <1>1 DEF UnitInv, TypeOK
    <2>2. Row(outcome).unit = unit
        BY DEF Row
    <2> QED
        BY <1>1, <2>1, <2>2 DEF SamplesAreOwn, UnitInv
<1>2. pc = "join" => lines[<<unit, point>>] \subseteq {unit}
    <2>1. ASSUME pc = "join", NEW u \in lines[<<unit, point>>] PROVE u = unit
        <3>1. u \in 1 .. Units /\ unit <= u /\ u <= unit
            BY <2>1, UnitTypes DEF UnitInv, SamplerInv, TypeOK
        <3> QED
            BY <3>1, UnitTypes
    <2> QED
        BY <2>1
<1>3. Row("FAILED").samples = {} /\ Row("ok").samples = lines[<<unit, point>>]
    BY DEF Row
<1> QED
    BY <1>1, <1>2, <1>3, NextRows DEF Outcomes, SamplesAreOwn, UnitInv

LEMMA NextSamplerInv == UnitInv /\ [Next]_vars => SamplerInv'
<1> SUFFICES ASSUME UnitInv, [Next]_vars, NEW s \in Probes
             PROVE  /\ ~Started(s)' => thread'[s] = "off" /\ lines'[s] = {}
                    /\ \A u \in lines'[s] : s[1] <= u /\ u <= unit'
    BY DEF SamplerInv
<1> USE DEF UnitInv, TypeOK
<1>1. s[1] \in Nat /\ s[2] \in Nat
    BY DEF Probes
<1>2. /\ ~Started(s) => thread[s] = "off" /\ lines[s] = {}
      /\ \A u \in lines[s] : u \in Nat /\ s[1] <= u /\ u <= unit
    BY DEF SamplerInv
<1>3. CASE UNCHANGED <<thread, lines, unit, point>>
    BY <1>2, <1>3 DEF Started
<1>4. CASE UnitEnds
    BY <1>1, <1>2, <1>4, UnitTypes DEF UnitEnds, Started, samplerVars
<1>5. CASE StartProbe
    <2>1. point' = point + 1 /\ UNCHANGED <<unit, lines>> /\ point' \in 1 .. Points
          /\ thread' = [thread EXCEPT ![<<unit, point'>>] = "ask"]
        BY <1>5, UnitTypes DEF StartProbe
    <2>2. ~Started(s)' => ~Started(s) /\ s # <<unit, point'>>
        BY <1>1, <2>1, UnitTypes DEF Started
    <2>3. s # <<unit, point'>> => thread'[s] = thread[s]
        BY <2>1
    <2> QED
        BY <1>2, <2>1, <2>2, <2>3
<1>6. ASSUME NEW r \in Probes, Ask(r) \/ SamplerDies(r) \/ Sample(r),
             UNCHANGED <<unit, point>>
      PROVE  /\ ~Started(s)' => thread'[s] = "off" /\ lines'[s] = {}
             /\ \A u \in lines'[s] : s[1] <= u /\ u <= unit'
    <2>1. thread[r] # "off" /\ (s # r => thread'[s] = thread[s])
        BY <1>6 DEF Ask, SamplerDies, Sample
    <2>2. lines'[s] = lines[s] \/ (s = r /\ lines'[s] = lines[s] \cup {box} /\ box # 0)
        BY <1>6 DEF Ask, SamplerDies, Sample
    <2>3. r = s => Started(s) /\ s[1] <= unit
        BY <1>1, <1>2, <2>1, UnitTypes DEF Started
    <2>4. box # 0 => box = unit
        BY DEF ContainerInv
    <2> QED
        BY <1>2, <1>6, <2>1, <2>2, <2>3, <2>4, UnitTypes DEF Started
<1>7. CASE Main
    BY <1>3, <1>4, <1>5, <1>7 DEF Main, RemoveOld, Clone, KeepSource, Build, StartPool, SeenReady, NotReady,
       ProbeTimesOut, Joined, samplerVars
<1>8. CASE CheckEnds \/ ProbeReturns \/ OrphanEnds \/ Serve \/ Die
    BY <1>3, <1>8 DEF CheckEnds, ProbeReturns, OrphanEnds, Serve, Die, samplerVars
<1> QED
    BY <1>3, <1>6, <1>7, <1>8, Bystanders DEF Next, vars, samplerVars

LEMMA NextContainerInv == UnitInv /\ [Next]_vars => ContainerInv'
<1> SUFFICES ASSUME UnitInv, [Next]_vars PROVE ContainerInv'
    OBVIOUS
<1> USE DEF UnitInv, ContainerInv, Goto, poolVars, sourceVars
<1>1. CASE RemoveOld \/ Clone \/ KeepSource \/ Build \/ StartPool \/ SeenReady \/ NotReady
    BY <1>1 DEF RemoveOld, Clone, KeepSource, Build, StartPool, SeenReady, NotReady
<1>2. CASE StartProbe \/ ProbeTimesOut \/ Joined
    BY <1>2, UnitTypes DEF StartProbe, ProbeTimesOut, Joined
<1>3. CASE UnitEnds
    BY <1>3 DEF UnitEnds
<1>4. CASE CheckEnds \/ ProbeReturns
    BY <1>4 DEF CheckEnds, ProbeReturns
<1>5. CASE Serve \/ Die
    BY <1>5 DEF Serve, Die, Running
<1>6. CASE UNCHANGED <<poolVars, sourceVars, pc, unit, point>>
    BY <1>6
<1> QED
    BY <1>1, <1>2, <1>3, <1>4, <1>5, <1>6 DEF Next, Main, OrphanEnds, Ask, SamplerDies, Sample, vars

LEMMA NextSourceInv == UnitInv /\ [Next]_vars => SourceInv'
<1> SUFFICES ASSUME UnitInv, [Next]_vars PROVE SourceInv'
    OBVIOUS
<1>1. \A u \in 1 .. unit : Doomed(u) => Doomed(u)' /\ u \in 1 .. unit'
    BY DoomedStays
<1>2. \A u \in 1 .. unit : OverAndFailed(u) => OverAndFailed(u)' /\ u \in 1 .. unit'
    BY OverAndFailedStays
<1>3. CASE UNCHANGED <<source, image>>
    BY <1>1, <1>2, <1>3 DEF UnitInv, SourceInv
<1>4. CASE Clone
    <2>1. source = "absent" /\ UNCHANGED <<image, unit>> /\ (source' = "partial" => pc' = "failed")
        BY <1>4 DEF Clone, Goto
    <2>2. unit \in 1 .. unit
        BY UnitTypes DEF UnitInv, TypeOK
    <2>3. pc' = "failed" => Doomed(unit)'
        BY DEF Doomed
    <2> QED
        BY <1>2, <2>1, <2>2, <2>3 DEF UnitInv, SourceInv
<1>5. CASE Build
    <2>1. pc = "build" /\ UNCHANGED <<source, unit>> /\ (image' = source \/ image' = image)
        BY <1>5 DEF Build, Goto
    <2>2. \A u : Doomed(u) => OverAndFailed(u)
        BY <2>1 DEF Doomed
    <2> QED
        BY <1>1, <1>2, <2>1, <2>2 DEF UnitInv, SourceInv
<1>6. CASE Main
    BY <1>3, <1>4, <1>5, <1>6 DEF Main, RemoveOld, KeepSource, StartPool, SeenReady, NotReady, StartProbe,
       ProbeTimesOut, Joined, UnitEnds, sourceVars
<1>7. CASE CheckEnds \/ ProbeReturns
    BY <1>3, <1>7 DEF CheckEnds, ProbeReturns, sourceVars
<1> QED
    BY <1>3, <1>6, <1>7, Bystanders DEF Next, vars, sourceVars

LEMMA NextOneshotInv == UnitInv /\ [Next]_vars => OneshotInv'
<1> SUFFICES ASSUME UnitInv, [Next]_vars, NEW o \in oneshots'
             PROVE  \/ Doomed(o[1])'
                    \/ (pc = "await" /\ kind = "net" /\ o = <<unit, 0>>)'
                    \/ (pc = "probe" /\ o = <<unit, point>>)'
    BY DEF OneshotInv
<1>1. ASSUME o \in oneshots, Doomed(o[1]) PROVE Doomed(o[1])'
    <2>1. o[1] \in 1 .. Units /\ o[1] <= unit
        BY <1>1, UnitTypes DEF UnitInv, TypeOK, Oneshots, Doomed, OverAndFailed
    <2>2. o[1] \in 1 .. unit
        BY <2>1, UnitTypes
    <2> QED
        BY <1>1, <2>2, DoomedStays
<1>2. UNCHANGED kind
    BY DEF Next, Main, RemoveOld, Clone, KeepSource, Build, StartPool, SeenReady, NotReady, StartProbe,
       ProbeTimesOut, Joined, UnitEnds, CheckEnds, ProbeReturns, OrphanEnds, Serve, Die, Ask, SamplerDies,
       Sample, vars, sourceVars
<1>3. o \in oneshots => \/ Doomed(o[1])
                        \/ pc = "await" /\ kind = "net" /\ o = <<unit, 0>>
                        \/ pc = "probe" /\ o = <<unit, point>>
    BY DEF UnitInv, OneshotInv
<1>4. CASE o \in oneshots /\ ~Doomed(o[1]) /\ UNCHANGED <<pc, unit, point>>
    BY <1>2, <1>3, <1>4
<1>5. ASSUME UNCHANGED unit, pc' \in {"joinFailed", "failed"}, o[1] = unit PROVE Doomed(o[1])'
    BY <1>5 DEF Doomed
<1>6. CASE StartPool
    <2>1. o \in oneshots \/ (kind = "net" /\ o = <<unit, 0>> /\ pc' = "await")
        BY <1>6 DEF StartPool, Checks, Goto
    <2>2. pc = "start" /\ UNCHANGED unit
        BY <1>6 DEF StartPool, Goto
    <2> QED
        BY <1>1, <1>2, <1>3, <2>1, <2>2
<1>7. CASE StartProbe
    BY <1>1, <1>3, <1>7 DEF StartProbe, Goto
<1>8. CASE NotReady \/ ProbeTimesOut
    BY <1>1, <1>3, <1>5, <1>8 DEF NotReady, ProbeTimesOut, Goto
<1>9. CASE CheckEnds \/ ProbeReturns
    BY <1>1, <1>3, <1>9 DEF CheckEnds, ProbeReturns, Goto
<1>10. CASE RemoveOld \/ Clone \/ KeepSource \/ Build \/ Joined \/ UnitEnds
    BY <1>1, <1>3, <1>10 DEF RemoveOld, Clone, KeepSource, Build, Joined, UnitEnds, Goto
<1>11. CASE SeenReady
    BY <1>1, <1>3, <1>11 DEF SeenReady, Goto
<1>12. CASE UNCHANGED <<pc, unit, point>> /\ oneshots' \subseteq oneshots
    BY <1>1, <1>4, <1>12
<1> QED
    BY <1>6, <1>7, <1>8, <1>9, <1>10, <1>11, <1>12
    DEF Next, Main, OrphanEnds, Serve, Die, Ask, SamplerDies, Sample, vars

LEMMA NextUnitTypeOK == UnitInv /\ [Next]_vars => TypeOK'
<1> SUFFICES ASSUME UnitInv, [Next]_vars PROVE TypeOK'
    OBVIOUS
<1> USE DEF UnitInv, TypeOK
<1>1. rows' \in Seq([unit : 1 .. Units, outcome : Outcomes, samples : SUBSET (1 .. Units)])
    <2> DEFINE RowSet == [unit : 1 .. Units, outcome : Outcomes, samples : SUBSET (1 .. Units)]
    <2>0. rows \in Seq(RowSet)
        OBVIOUS
    <2>1. pc = "join" => Row("ok") \in [unit : 1 .. Units, outcome : Outcomes, samples : SUBSET (1 .. Units)]
        BY RowType DEF Outcomes
    <2>2. Row("FAILED") \in [unit : 1 .. Units, outcome : Outcomes, samples : SUBSET (1 .. Units)]
        BY RowType DEF Outcomes
    <2>3. \A r \in RowSet : Append(rows, r) \in Seq(RowSet)
        <3> HIDE DEF RowSet
        <3> QED
            BY <2>0
    <2> QED
        BY <2>0, <2>1, <2>2, <2>3, NextRows
<1>2. CASE RemoveOld \/ Clone \/ KeepSource \/ Build
    <2>1. CASE RemoveOld
        <3>1. box' \in 0 .. Units
            BY <2>1, UnitTypes DEF RemoveOld
        <3> QED
            BY <1>1, <2>1, <3>1 DEF RemoveOld, Goto, sourceVars, samplerVars
    <2>2. CASE Clone \/ KeepSource
        BY <1>1, <2>2 DEF Clone, KeepSource, Goto, sourceVars, poolVars, samplerVars
    <2>3. CASE Build
        <3>1. image' \in {"none", "partial", "whole"}
            BY <2>3 DEF Build, Goto, ContainerInv
        <3> QED
            BY <1>1, <2>3, <3>1 DEF Build, Goto, poolVars, samplerVars
    <2> QED
        BY <1>2, <2>1, <2>2, <2>3
<1>3. CASE StartPool
    <2>1. oneshots' \subseteq Oneshots
        BY <1>3, UnitTypes DEF StartPool, Checks, Oneshots
    <2>2. box' \in 0 .. Units
        BY <1>3, UnitTypes DEF StartPool
    <2> QED
        BY <1>1, <1>3, <2>1, <2>2 DEF StartPool, Goto, sourceVars, samplerVars
<1>4. CASE SeenReady \/ NotReady \/ CheckEnds \/ OrphanEnds \/ Serve \/ Die
    BY <1>1, <1>4 DEF SeenReady, NotReady, CheckEnds, OrphanEnds, Serve, Die, Goto, sourceVars, poolVars,
       samplerVars
<1>5. CASE StartProbe
    <2>1. point' \in 0 .. Points /\ <<unit, point'>> \in Probes /\ <<unit, point'>> \in Oneshots
        BY <1>5, UnitTypes DEF StartProbe, Probes, Oneshots
    <2>2. oneshots' \subseteq Oneshots /\ thread' \in [Probes -> {"off", "ask", "stats", "ended"}]
        BY <1>5, <2>1 DEF StartProbe
    <2> QED
        BY <1>1, <1>5, <2>1, <2>2 DEF StartProbe, Goto, sourceVars, poolVars
<1>6. CASE ProbeReturns \/ ProbeTimesOut
    <2>1. stop' \subseteq Probes /\ oneshots' \subseteq Oneshots
        BY <1>6, UnitTypes DEF ProbeReturns, ProbeTimesOut, Goto
    <2> QED
        BY <1>1, <1>6, <2>1 DEF ProbeReturns, ProbeTimesOut, Goto, sourceVars, poolVars
<1>7. CASE Joined
    BY <1>1, <1>7 DEF Joined, Goto, sourceVars, poolVars, samplerVars
<1>8. CASE UnitEnds
    <2>1. unit' \in 1 .. Units /\ point' \in 0 .. Points /\ pc' \in {"remove", "ended"}
        BY <1>8, UnitTypes DEF UnitEnds
    <2>2. box' \in 0 .. Units /\ pool' = "dead" /\ logged' = FALSE
        BY <1>8, UnitTypes DEF UnitEnds
    <2> QED
        BY <1>1, <1>8, <2>1, <2>2 DEF UnitEnds, sourceVars, samplerVars
<1>9. ASSUME NEW r \in Probes, Ask(r) \/ SamplerDies(r) \/ Sample(r) PROVE TypeOK'
    <2>1. thread' \in [Probes -> {"off", "ask", "stats", "ended"}]
        BY <1>9 DEF Ask, SamplerDies, Sample
    <2>2. lines' \in [Probes -> SUBSET (1 .. Units)]
        BY <1>9 DEF Ask, SamplerDies, Sample
    <2> QED
        BY <1>1, <1>9, <2>1, <2>2 DEF Ask, SamplerDies, Sample, sourceVars, poolVars
<1>10. CASE UNCHANGED vars
    BY <1>10 DEF vars, sourceVars, poolVars, samplerVars
<1> QED
    BY <1>2, <1>3, <1>4, <1>5, <1>6, <1>7, <1>8, <1>9, <1>10 DEF Next, Main

(* The inductive invariant of a session's units: whose container it is,    *)
(* what each sampler can have seen, and which units are doomed by what     *)
(* they left behind.                                                       *)
THEOREM UnitInvariant == Spec => []UnitInv
<1>1. UnitInv /\ [Next]_vars => UnitInv'
    BY NextUnitTypeOK, NextContainerInv, NextSamplerInv, NextOneshotInv, NextSourceInv, NextSamplesAreOwn
    DEF UnitInv
<1> QED
    BY <1>1, InitUnitInv, PTL DEF Spec

(* Every variable of the units has its type. *)
THEOREM TypeCorrect == Spec => []TypeOK
BY UnitInvariant, PTL DEF UnitInv

(* A row's CPU and memory are of the pool it names, though StatsSampler    *)
(* threads of earlier units may still run (_run_bench_probe joins them for *)
(* five seconds only) and the containers of all pools have one name.       *)
THEOREM SamplesAreOwnCorrect == Spec => []SamplesAreOwn
BY UnitInvariant, PTL DEF UnitInv

(* A pool is measured only if the container this unit started has served.  *)
THEOREM MeasuredWasReadyCorrect == Spec => []MeasuredWasReady
<1>1. UnitInv => MeasuredWasReady
    BY DEF UnitInv, ContainerInv, MeasuredWasReady
<1> QED
    BY <1>1, UnitInvariant, PTL

(* A one-shot that outlived its timeout, or half a clone, disturbs a       *)
(* measurement only after the unit that left it has a FAILED row.          *)
THEOREM DisturbancesCorrect == Spec => []DisturbancesAreAnnounced
<1>1. UnitInv => DisturbancesAreAnnounced
    <2> SUFFICES ASSUME UnitInv, pc = "probe"
                 PROVE  /\ \A o \in oneshots \ {<<unit, point>>} : HasFailed(o[1]) /\ o[1] < unit
                        /\ image = "partial" => \E u \in 1 .. unit - 1 : HasFailed(u)
        BY DEF DisturbancesAreAnnounced
    <2>1. \A u : Doomed(u) => HasFailed(u) /\ u < unit
        BY DEF Doomed, OverAndFailed
    <2>2. \A o \in oneshots \ {<<unit, point>>} : Doomed(o[1])
        BY DEF UnitInv, OneshotInv
    <2>3. ASSUME NEW u \in 1 .. unit, OverAndFailed(u) PROVE u \in 1 .. unit - 1
        BY <2>3, UnitTypes DEF OverAndFailed
    <2> QED
        BY <2>1, <2>2, <2>3 DEF UnitInv, SourceInv, OverAndFailed
<1> QED
    BY <1>1, UnitInvariant, PTL
=================================================================================
