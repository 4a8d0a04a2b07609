----------------------------- MODULE MeasurementDB -----------------------------
(***************************************************************************)
(* The Result and Measurement records of src/unnamed/part_003 (package     *)
(* database): each method changes the in-memory struct and then writes the *)
(* WHOLE struct to its row with Update, which may fail.  AddToResult also  *)
(* moves the report file into the result's measurement directory.          *)
(*                                                                         *)
(* The process may stop at any point and later reload its structs from the *)
(* rows; files on disk survive.  Several measurements of a multi-input     *)
(* report share one report file.                                           *)
(***************************************************************************)
EXTENDS Naturals, FiniteSets

CONSTANTS
    Measurements,  \* measurement rows of one result
    Temps,         \* report files as written by the experiment
    TempOf,        \* TempOf[m]: the report file name of measurement m
    StatCanFail    \* os.Stat may fail with an error other than not-exist

ASSUME TempOf \in [Measurements -> Temps] /\ StatCanFail \in BOOLEAN

\* A path: the report's file name and how many times the result's
\* MeasurementDir prefixes it (0 for the experiment's temporary place).
Path(t)  == [dirs |-> 0, name |-> t]
Paths    == [dirs : {0, 1}, name : Temps]

\* (mutant) filepath.Base is forgotten: the whole path is joined.
FinalPath_noBase(p) == [p EXCEPT !.dirs = @ + 1]

\* filepath.Join(result.MeasurementDir, filepath.Base(m.ReportFilePath))
FinalPath(p) == [dirs |-> 1, name |-> p.name]

\* Result.Runtime and Measurement.Runtime: 0 or what time.Now().Sub gave.
Runtimes == {"zero", "positive"}

RStruct == [isDone : BOOLEAN, runtime : Runtimes]
MStruct == [isDone : BOOLEAN, isFailed : BOOLEAN, isUploaded : BOOLEAN,
            added : BOOLEAN, path : Paths]

-----------------------------------------------------------------------------

VARIABLES
    rMem,     \* the in-memory Result
    rRow,     \* its row in the results table
    mMem,     \* mMem[m]: the in-memory Measurement
    mRow,     \* mRow[m]: its row in the measurements table
    files,    \* the report files on disk
    refused   \* Finished returned "Result is already finished"

vars == <<rMem, rRow, mMem, mRow, files, refused>>

TypeOK ==
    /\ rMem \in RStruct /\ rRow \in RStruct
    /\ mMem \in [Measurements -> MStruct] /\ mRow \in [Measurements -> MStruct]
    /\ files \subseteq Paths
    /\ refused \in BOOLEAN

\* Fresh rows, written when the result and measurements were created, and
\* each report file in its temporary place.
Init ==
    /\ rMem = [isDone |-> FALSE, runtime |-> "zero"]
    /\ rRow = rMem
    /\ mMem = [m \in Measurements |->
                 [isDone |-> FALSE, isFailed |-> FALSE, isUploaded |-> FALSE,
                  added |-> FALSE,
                  path |-> Path(TempOf[m])]]
    /\ mRow = mMem
    /\ files = {Path(TempOf[m]) : m \in Measurements}
    /\ refused = FALSE

\* sess.Collection("measurements").Find("measurement_id", m.ID).Update(m)
\* after the struct was changed to s: the row gets all of s, or nothing.
UpdateM(m, s, ok) ==
    /\ mMem' = [mMem EXCEPT ![m] = s]
    /\ mRow' = IF ok THEN [mRow EXCEPT ![m] = s] ELSE mRow

-----------------------------------------------------------------------------
(* Result                                                                  *)

\* Result.Finished: refused once IsDone or Runtime is set; otherwise both
\* are set in memory and the row is updated.
Finished(ok) ==
    \/ /\ rMem.isDone \/ rMem.runtime # "zero"
       /\ refused' = TRUE
       /\ UNCHANGED <<rMem, rRow>>
    \/ /\ ~rMem.isDone /\ rMem.runtime = "zero"
       /\ \E rt \in Runtimes :
             /\ rMem' = [isDone |-> TRUE, runtime |-> rt]
             /\ rRow' = IF ok THEN rMem' ELSE rRow
       /\ refused' = FALSE

-----------------------------------------------------------------------------
(* Measurement                                                             *)

\* Measurement.Failed: FailureMsg and IsFailed, then Update.
Failed(m, ok) == UpdateM(m, [mMem[m] EXCEPT !.isFailed = TRUE], ok)

\* Measurement.Done: Runtime and IsDone, then Update.
Done(m, ok) == UpdateM(m, [mMem[m] EXCEPT !.isDone = TRUE], ok)

\* Measurement.UploadFailed: UploadFailureMsg (a message, not kept) set,
\* IsUploaded cleared.
UploadFailed(m, ok) == UpdateM(m, [mMem[m] EXCEPT !.isUploaded = FALSE], ok)

\* Measurement.UploadSucceeded: IsUploaded, then Update.
UploadSucceeded(m, ok) == UpdateM(m, [mMem[m] EXCEPT !.isUploaded = TRUE], ok)

\* What os.Stat(finalPath) may report.
StatOutcomes(fp) ==
    (IF fp \in files THEN {"exists"} ELSE {"notExist"})
        \cup (IF StatCanFail THEN {"otherErr"} ELSE {})

\* (mutant) m.ReportFilePath = finalPath is done before the rename.
AddToResult_pathFirst(m, ok) ==
    LET src == mMem[m].path
        fp  == FinalPath(src)
        moved == [mMem[m] EXCEPT !.added = TRUE, !.path = fp]
    IN  \E st \in StatOutcomes(fp) :
          \/ /\ st = "notExist"
             /\ \E renamed \in BOOLEAN :
                  IF renamed /\ src \in files
                    THEN /\ files' = (files \ {src}) \cup {fp}
                         /\ UpdateM(m, moved, ok)
                    ELSE /\ mMem' = [mMem EXCEPT ![m] = moved]
                         /\ UNCHANGED <<mRow, files>>
          \/ /\ st # "notExist"
             /\ UpdateM(m, moved, ok)
             /\ UNCHANGED files

\* Measurement.AddToResult: m.ResultID is set; if os.Stat says finalPath
\* does not exist the report file is renamed there, which fails when the
\* source is gone or the file system refuses; then ReportFilePath becomes
\* finalPath and the row is updated.  Any other Stat outcome skips the
\* rename.
AddToResult(m, ok) ==
    LET src == mMem[m].path
        fp  == FinalPath(src)
        moved == [mMem[m] EXCEPT !.added = TRUE, !.path = fp]
    IN  \E st \in StatOutcomes(fp) :
          \/ /\ st = "notExist"
             /\ \E renamed \in BOOLEAN :
                  IF renamed /\ src \in files
                    THEN /\ files' = (files \ {src}) \cup {fp}
                         /\ UpdateM(m, moved, ok)
                    ELSE /\ mMem' = [mMem EXCEPT ![m].added = TRUE]
                         /\ UNCHANGED <<mRow, files>>
          \/ /\ st # "notExist"
             /\ UpdateM(m, moved, ok)
             /\ UNCHANGED files

-----------------------------------------------------------------------------

\* The process stops and a new one loads the structs from their rows.
Restart ==
    /\ rMem' = rRow
    /\ mMem' = mRow
    /\ refused' = FALSE
    /\ UNCHANGED <<rRow, mRow, files>>

Next ==
    \/ \E ok \in BOOLEAN :
          \/ Finished(ok) /\ UNCHANGED <<mMem, mRow, files>>
          \/ \E m \in Measurements :
                \/ /\ \/ Failed(m, ok) \/ Done(m, ok)
                      \/ UploadFailed(m, ok) \/ UploadSucceeded(m, ok)
                   /\ UNCHANGED <<rMem, rRow, files, refused>>
                \/ AddToResult(m, ok) /\ UNCHANGED <<rMem, rRow, refused>>
    \/ Restart

Spec == Init /\ [][Next]_vars

-----------------------------------------------------------------------------
(* Properties                                                              *)

\* AddToResult's comment: a report already at finalPath "has already been
\* moved there", the multi-input case.  Through failing renames and
\* updates, restarts, and later methods that write the whole struct, every
\* stored report_file_path names the report file, or names its temporary
\* place after the file was moved into the result's directory.
ReportNeverLost ==
    \A m \in Measurements :
        LET p == mRow[m].path
        IN  p \in files \/ (p.dirs = 0 /\ [p EXCEPT !.dirs = 1] \in files)

\* Result.Finished refuses a result that "is already finished": whenever it
\* refuses, the stored row is finished.
FinishRetryPersists == refused => rRow.isDone

=============================================================================
