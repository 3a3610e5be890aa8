---------------------------- MODULE LibraryScan ----------------------------
(***************************************************************************)
(* The scan of the library directory beside the running pipeline.  A sync  *)
(* and QueueNewBooksLimit walk the directory, then list the books, then    *)
(* write each book back whole; downloads, renames, resets and crashes go   *)
(* on in between.  (The scan that Start makes, before there are workers,   *)
(* is inside Start.)                                                       *)
(*                                                                         *)
(* Source: reconcileExistingAudiobookFilesWithProgress and its matching in *)
(* internal/library/library_reconcile.go.  One scan at a time is modelled; *)
(* a later one sees what an earlier one wrote.                             *)
(***************************************************************************)
EXTENDS Pipeline

CONSTANT FilesNamed  \* TRUE: paths hold the ASIN (the default file name does)

ASSUME FilesNamedAssumption == FilesNamed \in BOOLEAN

VARIABLES
    scanPc,     \* "off", "walking", "writing"
    unwalked,   \* books whose present file the walk has not come to yet
    seen,       \* discoveredFiles, by book: the present path, or one it has left
    listed,     \* the books as ListBooks read them
    toWrite,    \* books of the list still to be looked at
    touched     \* history: books the pipeline has changed during this scan

scanVars == <<scanPc, unwalked, seen, listed, toWrite, touched>>
allVars  == <<vars, scanVars>>

Paths      == {"valid", "stale"}
BookRecord == [st : BookStatus, path : Paths \cup {"none"}]
NothingListed == [b \in Books |-> [st |-> "new", path |-> "none"]]

ScanOver ==
    /\ scanPc' = "off" /\ unwalked' = {} /\ toWrite' = {} /\ touched' = {}
    /\ seen' = [b \in Books |-> {}] /\ listed' = NothingListed

-----------------------------------------------------------------------------
(* The scan *)

ScanBegin ==
    /\ Serving /\ scanPc = "off"
    /\ scanPc' = "walking" /\ unwalked' = Books
    /\ UNCHANGED <<vars, seen, listed, toWrite, touched>>

(* walkDir comes to the place of the book's file.                          *)
Walk(b) ==
    /\ scanPc = "walking" /\ b \in unwalked
    /\ unwalked' = unwalked \ {b}
    /\ seen' = [seen EXCEPT ![b] = IF b \in library THEN @ \cup {"valid"} ELSE @]
    /\ UNCHANGED <<vars, scanPc, listed, toWrite, touched>>

(* ListBooks with an empty filter: every book, in one query.               *)
ScanList ==
    /\ scanPc = "walking" /\ unwalked = {}
    /\ scanPc' = "writing" /\ toWrite' = Books
    /\ listed' = [b \in Books |-> [st |-> bookSt[b], path |-> bookPath[b]]]
    /\ UNCHANGED <<vars, unwalked, seen, touched>>

(* findBestFileForBook: the recorded path if it was seen, else any path    *)
(* with the ASIN; a path without it may be found by its names, or not.     *)
MutMatches(b) ==
    IF listed[b].path = "valid" /\ "valid" \in seen[b] THEN {"valid"} ELSE {"none"}
Matches(b) ==
    IF listed[b].path = "valid" /\ "valid" \in seen[b] THEN {"valid"}
    ELSE IF FilesNamed /\ seen[b] # {} THEN seen[b]
    ELSE seen[b] \cup {"none"}

(* Path, size and status are as they were listed: nothing to write.        *)
MutUpToDate(b, p) == listed[b].path = p
UpToDate(b, p) == listed[b] = [st |-> "complete", path |-> p]

Write(b, st, p) ==
    /\ bookSt' = [bookSt EXCEPT ![b] = st]
    /\ bookPath' = [bookPath EXCEPT ![b] = p]

(* One book: complete at the file that matches it (written also if only    *)
(* the size differs), new if none does and it was listed as complete.      *)
ReconcileBook(b) ==
    /\ scanPc = "writing" /\ b \in toWrite
    /\ toWrite' = toWrite \ {b}
    /\ \E p \in Matches(b) :
          \/ p # "none" /\ Write(b, "complete", p)
          \/ p # "none" /\ UpToDate(b, p) /\ UNCHANGED <<bookSt, bookPath>>
          \/ p = "none" /\ listed[b].st = "complete" /\ Write(b, "new", "none")
          \/ p = "none" /\ listed[b].st # "complete" /\ UNCHANGED <<bookSt, bookPath>>
    /\ UNCHANGED <<rowSt, rowBook, nextRow, diskVars, phase, paused, stageVars,
                   chanVars, fanning, request, asReorg, budget, scanPc,
                   unwalked, seen, listed, touched>>

ScanReturns ==
    /\ scanPc = "writing" /\ toWrite = {}
    /\ ScanOver
    /\ UNCHANGED vars

(* The walk, the query or a write fails, or the caller's context ends: the *)
(* scan returns where it is.                                               *)
ScanFails ==
    /\ scanPc # "off"
    /\ ScanOver
    /\ UNCHANGED vars

-----------------------------------------------------------------------------
(* The pipeline beside it *)

Delivered(b) == b \notin library /\ b \in library'
FileLeft(b)  == \/ b \in library /\ b \notin library'
                \/ bookPath[b] = "valid" /\ bookPath'[b] = "stale"
Moved == {b \in Books : Delivered(b) \/ FileLeft(b)}

(* What becomes of a path the scan remembers: a file leaves it, or the     *)
(* next delivery puts a file at the same path again.                       *)
PathNow(b, p, again) ==
    IF FileLeft(b) /\ p = "valid" THEN "stale"
    ELSE IF Delivered(b) /\ p = "stale" /\ again THEN "valid"
    ELSE p

TouchedNow ==
    {b \in Books : \/ bookSt'[b] # bookSt[b] \/ bookPath'[b] # bookPath[b]
                   \/ b \in Moved}

(* A file that moves during the walk may come to a place the walk has      *)
(* passed, or to one it has yet to come to.                                *)
PipelineBesideScan ==
    /\ Next
    /\ scanPc # "off" /\ phase' # "crashed"
    /\ \E again \in BOOLEAN :
          /\ seen' = [b \in Books |-> {PathNow(b, p, again) : p \in seen[b]}]
          /\ listed' = [b \in Books |->
                [listed[b] EXCEPT !.path = PathNow(b, @, again)]]
    /\ \/ unwalked' = unwalked \ Moved
       \/ scanPc = "walking" /\ unwalked' = unwalked \cup Moved
    /\ touched' = touched \cup TouchedNow
    /\ UNCHANGED <<scanPc, toWrite>>

PipelineAlone == Next /\ scanPc = "off" /\ UNCHANGED scanVars

(* A crash takes the scan with it.                                         *)
CrashDuringScan == Crash /\ scanPc # "off" /\ ScanOver

-----------------------------------------------------------------------------
ScanInit ==
    /\ Init
    /\ scanPc = "off" /\ unwalked = {} /\ toWrite = {} /\ touched = {}
    /\ seen = [b \in Books |-> {}] /\ listed = NothingListed

ScanStep ==
    \/ ScanBegin \/ ScanList \/ ScanReturns \/ ScanFails
    \/ \E b \in Books : Walk(b) \/ ReconcileBook(b)

ScanNext == ScanStep \/ PipelineAlone \/ PipelineBesideScan \/ CrashDuringScan

ScanSpec == ScanInit /\ [][ScanNext]_allVars

-----------------------------------------------------------------------------
(* Properties *)

(* The type invariant.                                                     *)
ScanTypeOK ==
    /\ TypeOK
    /\ scanPc \in {"off", "walking", "writing"}
    /\ unwalked \subseteq Books /\ toWrite \subseteq Books /\ touched \subseteq Books
    /\ seen \in [Books -> SUBSET Paths]
    /\ listed \in [Books -> BookRecord]

(* The catalogue agrees with the disk about a book.                        *)
Agree(b) == IF b \in library THEN bookSt[b] = "complete" /\ bookPath[b] = "valid"
                             ELSE bookSt[b] # "complete"

(* A scan heals: whatever failures, lost writes, crashes or earlier scans  *)
(* have left behind, a book the scan has written back and nobody else      *)
(* changed during it is complete exactly if its file is there.             *)
ScanHeals ==
    FilesNamed /\ scanPc = "writing" =>
        \A b \in Books \ (toWrite \cup touched) : Agree(b)

(* What the scan knows of a book nobody changes is what is there: the      *)
(* parts that make ScanHeals inductive.                                    *)
SeenNow(b) == seen[b] = IF b \in library THEN {"valid"} ELSE {}

ScanKnows ==
    /\ scanPc = "off" => touched = {} /\ seen = [b \in Books |-> {}]
    /\ scanPc = "walking" => \A b \in Books \ touched :
          IF b \in unwalked THEN seen[b] = {} ELSE SeenNow(b)
    /\ scanPc = "writing" => \A b \in toWrite \ touched :
          SeenNow(b) /\ listed[b] = [st |-> bookSt[b], path |-> bookPath[b]]

(* Together: the invariant of the proofs.                                  *)
ScanInv == IInv /\ ScanTypeOK /\ ScanKnows /\ ScanHeals

=============================================================================
