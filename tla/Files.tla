------------------------------- MODULE Files -------------------------------
(***************************************************************************)
(* The files of organized books and what the rows of books say of them.    *)
(* A book is one m4b file, or a folder of mp3 chapters.  Requests convert  *)
(* one into the other or delete the files, jobs of the pipeline move them  *)
(* to where the naming templates place them now, a phase of the sync       *)
(* rewrites their tags, and scans of the library tell the rows what files  *)
(* they found; all of them read the row, work on the disk without a lock   *)
(* that the others take, and write the row whole at the end.               *)
(*                                                                         *)
(* Source: internal/library/convert.go, metadata_repair.go and             *)
(* library_reconcile.go, internal/organizer/plex.go and naming.go, and     *)
(* removeBookPath, handleRedownload, handleResyncMetadata,                 *)
(* handleDeleteBookMedia, buildReorganizePlans and handleReorganizeLibrary *)
(* of internal/web/server.go.                                              *)
(*                                                                         *)
(* A folder is named for what the templates gave when it was made, and so  *)
(* is the m4b in it; chapter files are named by number, whatever the book. *)
(* What a file holds is nothing, a part of something, or all that it       *)
(* should of one book.  A sidecar moves and goes with its m4b.             *)
(***************************************************************************)
EXTENDS Integers, FiniteSets

CONSTANTS
    Books,
    Names,        \* what the templates can give: book folders
    Chapters,     \* how many chapters a book has
    Converters,   \* requests that convert
    Movers,       \* reorganize jobs
    Erasers,      \* requests that delete or redownload
    Taggers,      \* runs of the metadata repair
    Refreshers,   \* requests that fetch a book's metadata again
    Scanners,     \* scans of the library
    Shelved,      \* the layouts that books have at first
    Budget        \* bound: how often each event may happen; "any": in all

Actors == Converters \cup Movers \cup Erasers \cup Taggers \cup Refreshers \cup Scanners
Events == {"convert", "reorganize", "erase", "retag", "resync", "scan", "rename",
           "cancel", "fail", "db", "crash", "any"}

(* One book: the templates put no two in one folder.                       *)
ASSUME FilesAssumption ==
    /\ \E b \in Books : Books = {b}
    /\ Books \cap {"none", "part", "chapter", "temp"} = {} /\ "none" \notin Names
    /\ Chapters \in Nat \ {0}
    /\ LET Kinds == <<Converters, Movers, Erasers, Taggers, Refreshers, Scanners>>
       IN  \A i, j \in 1..6 : i # j => Kinds[i] \cap Kinds[j] = {}
    /\ Shelved \subseteq {"m4b", "mp3"} /\ Shelved # {}
    /\ Budget \in [Events -> Nat]

VARIABLES
    \* the disk
    dirs,        \* the folders there are
    disk,        \* what each file of each folder holds
    across,      \* whether the download directory is on another device
    \* settings and metadata
    home,        \* what the templates give for each book
    \* the database
    row,         \* status and file_path of each book
    \* the program
    converting,  \* convertingASINs
    pc, loc,
    \* history and bounds
    asked,       \* books whose files were asked to be deleted
    shaken,      \* books that two of the others worked on at once
    misread,     \* books of which a part was taken for the whole
    budget

vars == <<dirs, disk, across, home, row, converting, pc, loc, asked, shaken, misread,
          budget>>

Folder     == <<>>
M4b(b, n)  == <<b, n>>
Chapter(i) == <<"chapter", i>>
Temp(t)    == <<"temp", t>>
ChapterFiles == {Chapter(i) : i \in 1..Chapters}
FileNames  == {M4b(b, n) : b \in Books, n \in Names} \cup ChapterFiles
                 \cup {Temp(t) : t \in Taggers}
NoPath == [dir |-> "none", file |-> Folder]
Paths  == [dir : Names \cup {"none"}, file : FileNames \cup {Folder}]
Idle   == [book |-> "none", path |-> NoPath, to |-> "none", staged |-> "none",
           target |-> "none", left |-> {}, open |-> "none", was |-> "new", cancelled |-> FALSE,
           found |-> {}]

-----------------------------------------------------------------------------
(* Helpers *)

Spend(k) ==
    /\ budget[k] > 0 /\ budget["any"] > 0
    /\ budget' = [budget EXCEPT ![k] = @ - 1, !["any"] = @ - 1]
Me(v) == loc[v]
Goto(v, l) == pc' = [pc EXCEPT ![v] = l]
Set(v, l)  == loc' = [loc EXCEPT ![v] = l]
Stop(v)    == Goto(v, "idle") /\ loc' = [loc EXCEPT ![v] = Idle]

Holds(n, f) == IF n \in dirs THEN disk[n][f] ELSE "none"
Present(p)  == p.dir \in dirs /\ (p.file # Folder => Holds(p.dir, p.file) # "none")
Whole(p, b) ==
    /\ p.dir \in dirs
    /\ IF p.file = Folder THEN \A f \in ChapterFiles : Holds(p.dir, f) = b
                          ELSE Holds(p.dir, p.file) = b
Partial(p, b) ==
    /\ ~Whole(p, b)
    /\ IF p.file = Folder THEN \E f \in ChapterFiles : Holds(p.dir, f) # "none"
                          ELSE Holds(p.dir, p.file) # "none"
Write(n, f, c) == disk' = [disk EXCEPT ![n][f] = c]
Bare == [f \in FileNames |-> "none"]
MkdirAll(n) == dirs' = dirs \cup {n}

(* An actor of another kind starts on a book that one is at.               *)
Others(v) == (Actors \ Taggers) \ {v}
Begin(v, b) ==
    shaken' = IF \E w \in Others(v) :
                    \/ loc[w].book = b /\ ~({v, w} \subseteq Converters)
                    \/ w \in Scanners /\ pc[w] # "idle"
              THEN shaken \cup {b} ELSE shaken

-----------------------------------------------------------------------------
(* ConvertBook *)

GetBook(k, b, to) ==
    /\ k \in Converters /\ pc[k] = "idle" /\ row[b].path # NoPath
    /\ Spend("convert")
    /\ Set(k, [Me(k) EXCEPT !.book = b, !.to = to, !.path = row[b].path]) /\ Goto(k, "lock")
    /\ Begin(k, b)
    /\ UNCHANGED <<dirs, disk, across, home, row, converting, asked, misread>>

(* The lock per ASIN: a request that finds it taken is refused.  One that  *)
(* gets it goes by the row it read before.                                 *)
Stale(k) == Me(k).path # row[Me(k).book].path
MarkStale(k) ==
    LET b == Me(k).book
    IN  /\ shaken' = IF Stale(k) THEN shaken \cup {b} ELSE shaken
        /\ misread' = IF Stale(k) /\ Partial(Me(k).path, b) THEN misread \cup {b} ELSE misread
MutLock(k) ==
    /\ pc[k] = "lock"
    /\ \/ Me(k).book \notin converting /\ Goto(k, "layout") /\ MarkStale(k) /\ UNCHANGED loc
       \/ Me(k).book \in converting /\ Stop(k) /\ UNCHANGED <<shaken, misread>>
    /\ UNCHANGED <<dirs, disk, across, home, row, converting, asked, budget>>
Lock(k) ==
    /\ pc[k] = "lock"
    /\ \/ Me(k).book \notin converting
             /\ converting' = converting \cup {Me(k).book}
             /\ Goto(k, "layout") /\ MarkStale(k) /\ UNCHANGED loc
       \/ Me(k).book \in converting /\ Stop(k) /\ UNCHANGED <<converting, shaken, misread>>
    /\ UNCHANGED <<dirs, disk, across, home, row, asked, budget>>

(* The request ends; its deferred calls release the lock and remove what   *)
(* it staged.                                                              *)
EndConvert(k) == Stop(k) /\ converting' = converting \ {Me(k).book}

Format(p) == IF p.file = Folder THEN "mp3" ELSE "m4b"
MutLayout(k) ==
    /\ pc[k] = "layout"
    /\ LET p == Me(k).path
       IN  \/ (~Present(p) \/ Format(p) = Me(k).to) /\ Stop(k)
           \/ /\ Present(p) /\ Format(p) # Me(k).to
              /\ Goto(k, IF Me(k).to = "mp3" THEN "split" ELSE "list")
              /\ UNCHANGED loc
    /\ UNCHANGED <<dirs, disk, across, home, row, converting, asked, shaken, misread, budget>>
Layout(k) ==
    /\ pc[k] = "layout"
    /\ LET p == Me(k).path
       IN  \/ (~Present(p) \/ Format(p) = Me(k).to) /\ EndConvert(k)
           \/ /\ Present(p) /\ Format(p) # Me(k).to
              /\ Goto(k, IF Me(k).to = "mp3" THEN "split" ELSE "list")
              /\ UNCHANGED <<loc, converting>>
    /\ UNCHANGED <<dirs, disk, across, home, row, asked, shaken, misread, budget>>

(* SplitChapters into the staging directory: the source is read for each   *)
(* chapter.                                                                *)
Split(k) ==
    /\ pc[k] = "split"
    /\ \/ /\ Present(Me(k).path)
          /\ Set(k, [Me(k) EXCEPT !.staged = Holds(Me(k).path.dir, Me(k).path.file)])
          /\ Goto(k, "folder") /\ UNCHANGED <<converting, budget>>
       \/ ~Present(Me(k).path) /\ EndConvert(k) /\ UNCHANGED budget
       \/ Spend("fail") /\ EndConvert(k)
    /\ UNCHANGED <<dirs, disk, across, home, row, asked, shaken, misread>>

(* The mp3 files of the folder, and their concatenation.                   *)
ListChapters(k) ==
    /\ pc[k] = "list"
    /\ LET there == {f \in ChapterFiles : Holds(Me(k).path.dir, f) # "none"}
       IN  IF there = {} THEN EndConvert(k)
           ELSE Set(k, [Me(k) EXCEPT !.left = there]) /\ Goto(k, "concat") /\ UNCHANGED converting
    /\ UNCHANGED <<dirs, disk, across, home, row, asked, shaken, misread, budget>>
Concat(k) ==
    /\ pc[k] = "concat"
    /\ LET n == Me(k).path.dir
           got == {Holds(n, f) : f \in Me(k).left}
       IN  \/ /\ "none" \notin got
              /\ Set(k, [Me(k) EXCEPT !.staged =
                               IF got = {Me(k).book} /\ Me(k).left = ChapterFiles
                               THEN Me(k).book ELSE "part"])
              /\ Goto(k, "folder") /\ UNCHANGED <<converting, budget>>
           \/ "none" \in got /\ EndConvert(k) /\ UNCHANGED budget
           \/ Spend("fail") /\ EndConvert(k)
    /\ UNCHANGED <<dirs, disk, across, home, row, asked, shaken, misread>>

(* OrganizeMultiFile and Organize begin alike: the folder is what the      *)
(* templates give now.                                                     *)
MakeFolder(k) ==
    /\ pc[k] = "folder"
    /\ MkdirAll(home[Me(k).book])
    /\ disk' = IF home[Me(k).book] \in dirs THEN disk
               ELSE [disk EXCEPT ![home[Me(k).book]] = Bare]
    /\ Set(k, [Me(k) EXCEPT !.target = home[Me(k).book],
                            !.left = IF Me(k).to = "mp3" THEN ChapterFiles ELSE Me(k).left])
    /\ Goto(k, "move")
    /\ UNCHANGED <<across, home, row, converting, asked, shaken, misread, budget>>

(* The file that is moved next, and what comes after it.  (The chapters go *)
(* in the order of their numbers; the properties do not tell them apart.)  *)
NextFile(k) == IF Me(k).to = "m4b" THEN M4b(Me(k).book, Me(k).target)
               ELSE CHOOSE f \in Me(k).left : TRUE
Moved(k) ==
    LET left == IF Me(k).to = "mp3" THEN Me(k).left \ {NextFile(k)} ELSE Me(k).left
    IN  /\ Set(k, [Me(k) EXCEPT !.left = left, !.open = "none"])
        /\ Goto(k, IF Me(k).to = "mp3" /\ left # {} THEN "move" ELSE "record")

(* A rename; from another device a copy to the final name, and when that   *)
(* fails what it wrote stays.                                              *)
MoveIn(k) ==
    /\ pc[k] = "move"
    /\ \/ /\ Me(k).target \in dirs /\ ~across
          /\ Write(Me(k).target, NextFile(k), Me(k).staged) /\ Moved(k)
          /\ UNCHANGED converting
       \/ /\ Me(k).target \in dirs /\ across
          /\ Write(Me(k).target, NextFile(k), "part")
          /\ Set(k, [Me(k) EXCEPT !.open = Me(k).target]) /\ Goto(k, "copy")
          /\ UNCHANGED converting
       \/ Me(k).target \notin dirs /\ EndConvert(k) /\ UNCHANGED disk
    /\ UNCHANGED <<dirs, across, home, row, asked, shaken, misread, budget>>

(* The copy ends in the file it began, under the name a job may have given *)
(* it since, or in one that somebody has removed or replaced.              *)
Copying(k) ==
    LET n == Me(k).open
        f == NextFile(k)
    IN  {g \in FileNames :
           /\ Holds(n, g) = "part"
           /\ g = f \/ (Holds(n, f) = "none" /\ g \in {M4b(Me(k).book, m) : m \in Names})}
Copied(k) ==
    /\ pc[k] = "copy"
    /\ \/ /\ \/ \E f \in Copying(k) : Write(Me(k).open, f, Me(k).staged)
             \/ Copying(k) = {} /\ UNCHANGED disk
          /\ Moved(k) /\ UNCHANGED <<converting, budget>>
       \/ Spend("fail") /\ EndConvert(k) /\ UNCHANGED disk
    /\ UNCHANGED <<dirs, across, home, row, asked, shaken, misread>>

(* The row is written whole.  For chapters an error ends the request, and  *)
(* a cancel makes it one; for an m4b it is only logged, and the call does  *)
(* not hear a cancel.                                                      *)
At(n, f) == [status |-> "complete", path |-> [dir |-> n, file |-> f]]
NewPlace(k) ==
    At(Me(k).target, IF Me(k).to = "mp3" THEN Folder ELSE M4b(Me(k).book, Me(k).target))
Record(k) ==
    /\ pc[k] = "record"
    /\ \/ /\ ~(Me(k).to = "mp3" /\ Me(k).cancelled)
          /\ row' = [row EXCEPT ![Me(k).book] = NewPlace(k)]
          /\ Goto(k, "drop") /\ UNCHANGED <<loc, converting, budget>>
       \/ /\ IF Me(k).cancelled /\ Me(k).to = "mp3" THEN UNCHANGED budget ELSE Spend("db")
          /\ IF Me(k).to = "mp3" THEN EndConvert(k)
             ELSE Goto(k, "drop") /\ UNCHANGED <<loc, converting>>
          /\ UNCHANGED row
    /\ UNCHANGED <<dirs, disk, across, home, asked, shaken, misread>>

(* The old files are removed by the names they had.                        *)
DropFile(k, f) ==
    IF Me(k).path.dir \in dirs THEN Write(Me(k).path.dir, f, "none") ELSE UNCHANGED disk
MutDropOld(k) ==
    /\ pc[k] = "drop"
    /\ EndConvert(k)
    /\ UNCHANGED <<dirs, disk, across, home, row, asked, shaken, misread, budget>>
DropOld(k) ==
    /\ pc[k] = "drop"
    /\ \/ Me(k).to = "mp3" /\ DropFile(k, Me(k).path.file) /\ EndConvert(k)
       \/ /\ Me(k).to = "m4b" /\ Me(k).left # {}
          /\ \E f \in Me(k).left :
                DropFile(k, f) /\ Set(k, [Me(k) EXCEPT !.left = Me(k).left \ {f}])
          /\ UNCHANGED <<pc, converting>>
       \/ Me(k).to = "m4b" /\ Me(k).left = {} /\ EndConvert(k) /\ UNCHANGED disk
    /\ UNCHANGED <<dirs, across, home, row, asked, shaken, misread, budget>>

(* The user cancels a conversion under way.                                *)
Cancel(k) ==
    /\ k \in Converters /\ pc[k] \notin {"idle", "lock"} /\ ~Me(k).cancelled
    /\ Spend("cancel")
    /\ Set(k, [Me(k) EXCEPT !.cancelled = TRUE])
    /\ UNCHANGED <<dirs, disk, across, home, row, converting, pc, asked, shaken, misread>>

-----------------------------------------------------------------------------
(* Reorganizing *)

Target(p, b) == [dir |-> home[b],
                 file |-> IF p.file = Folder THEN Folder ELSE M4b(b, home[b])]

(* buildReorganizePlans: complete books whose place is not the templates'. *)
Plan(r, b) ==
    /\ r \in Movers /\ pc[r] = "idle"
    /\ row[b].status = "complete" /\ Present(row[b].path)
    /\ Target(row[b].path, b) # row[b].path
    /\ Spend("reorganize")
    /\ Set(r, [Me(r) EXCEPT !.book = b]) /\ Goto(r, "queued")
    /\ UNCHANGED <<dirs, disk, across, home, row, converting, asked, shaken, misread>>

(* The job comes to it, and reads the row again.                           *)
StartMove(r) ==
    /\ pc[r] = "queued"
    /\ Set(r, [Me(r) EXCEPT !.path = row[Me(r).book].path]) /\ Goto(r, "stat")
    /\ row' = [row EXCEPT ![Me(r).book].status = "processing"]
    /\ Begin(r, Me(r).book)
    /\ UNCHANGED <<dirs, disk, across, home, converting, asked, misread, budget>>

FailMove(r) ==
    /\ row' = [row EXCEPT ![Me(r).book].status = "failed"]
    /\ Stop(r)

(* ReorganizeInPlaceWithProgress: the m4b is renamed in its folder,        *)
Stat(r) ==
    /\ pc[r] = "stat"
    /\ LET p == Me(r).path
       IN  IF ~Present(p) THEN FailMove(r)
           ELSE /\ Set(r, [Me(r) EXCEPT !.target = home[Me(r).book]])
                /\ Goto(r, IF p.file = Folder \/ p.file = Target(p, Me(r).book).file
                           THEN "movedir" ELSE "movefile")
                /\ UNCHANGED row
    /\ UNCHANGED <<dirs, disk, across, home, converting, asked, shaken, misread, budget>>
MoveFile(r) ==
    /\ pc[r] = "movefile"
    /\ LET p   == Me(r).path
           new == M4b(Me(r).book, Me(r).target)
       IN  IF Present(p)
           THEN /\ disk' = [disk EXCEPT ![p.dir][new] = disk[p.dir][p.file],
                                        ![p.dir][p.file] = "none"]
                /\ Goto(r, "movedir") /\ UNCHANGED <<loc, row>>
           ELSE FailMove(r) /\ UNCHANGED disk
    /\ UNCHANGED <<dirs, across, home, converting, asked, shaken, misread, budget>>

(* and the folder, with all that is in it, is renamed, which the system    *)
(* refuses if there is one with files by that name.  What is being copied  *)
(* into the folder goes with it.                                           *)
Empty(n) == \A f \in FileNames : disk[n][f] = "none"
MoveDir(r) ==
    /\ pc[r] = "movedir"
    /\ LET old == Me(r).path.dir
           new == Me(r).target
       IN  IF old = new
           THEN Goto(r, "note") /\ UNCHANGED <<dirs, disk, loc, row>>
           ELSE IF old \in dirs /\ (new \in dirs => Empty(new))
           THEN /\ dirs' = (dirs \ {old}) \cup {new}
                /\ disk' = [disk EXCEPT ![new] = disk[old], ![old] = Bare]
                /\ loc' = [v \in Actors |->
                             [loc[v] EXCEPT !.open = IF @ = old THEN new ELSE @]]
                /\ Goto(r, "note") /\ UNCHANGED row
           ELSE FailMove(r) /\ UNCHANGED <<dirs, disk>>
    /\ UNCHANGED <<across, home, converting, asked, shaken, misread, budget>>
NoteMove(r) ==
    /\ pc[r] = "note"
    /\ \/ /\ row' = [row EXCEPT ![Me(r).book] =
                       At(Me(r).target, IF Me(r).path.file = Folder THEN Folder
                                        ELSE M4b(Me(r).book, Me(r).target))]
          /\ Stop(r) /\ UNCHANGED budget
       \/ Spend("db") /\ FailMove(r)
    /\ UNCHANGED <<dirs, disk, across, home, converting, asked, shaken, misread>>

-----------------------------------------------------------------------------
(* Deleting: handleDeleteBookMedia and handleRedownload *)

ReadErase(e, b) ==
    /\ e \in Erasers /\ pc[e] = "idle"
    /\ Spend("erase")
    /\ Set(e, [Me(e) EXCEPT !.book = b, !.path = row[b].path]) /\ Goto(e, "remove")
    /\ asked' = asked \cup {b}
    /\ Begin(e, b)
    /\ UNCHANGED <<dirs, disk, across, home, row, converting, misread>>

(* removeBookPath; the folder goes when it is left empty.                  *)
RemoveBookPath(e) ==
    /\ pc[e] = "remove"
    /\ LET p == Me(e).path
       IN  IF ~Present(p) THEN UNCHANGED <<dirs, disk>>
           ELSE IF p.file = Folder
           THEN dirs' = dirs \ {p.dir} /\ disk' = [disk EXCEPT ![p.dir] = Bare]
           ELSE /\ Write(p.dir, p.file, "none")
                /\ dirs' = IF \A f \in FileNames \ {p.file} : disk[p.dir][f] = "none"
                           THEN dirs \ {p.dir} ELSE dirs
    /\ Goto(e, "reset")
    /\ UNCHANGED <<across, home, row, converting, loc, asked, shaken, misread, budget>>
Reset(e) ==
    /\ pc[e] = "reset"
    /\ \/ row' = [row EXCEPT ![Me(e).book] = [status |-> "new", path |-> NoPath]]
             /\ UNCHANGED budget
       \/ Spend("db") /\ UNCHANGED row
    /\ Stop(e)
    /\ UNCHANGED <<dirs, disk, across, home, converting, asked, shaken, misread>>

-----------------------------------------------------------------------------
(* RepairBookMetadata, for one book that needs it *)

ListBooks(t, b) ==
    /\ t \in Taggers /\ pc[t] = "idle"
    /\ row[b].status = "complete" /\ row[b].path.file # Folder
    /\ \A n \in Names : disk[n][Temp(t)] = "none"
    /\ Spend("retag")
    /\ Set(t, [Me(t) EXCEPT !.book = b, !.path = row[b].path]) /\ Goto(t, "tag")
    /\ UNCHANGED <<dirs, disk, across, home, row, converting, asked, shaken, misread>>

(* retagBookFile: a file beside the original, which then takes its place.  *)
(* What is written goes with the folder; the names do not.                 *)
StartTemp(t) ==
    /\ pc[t] = "tag"
    /\ IF Present(Me(t).path)
       THEN /\ Write(Me(t).path.dir, Temp(t), "part")
            /\ Set(t, [Me(t) EXCEPT !.open = Me(t).path.dir,
                                    !.staged = Holds(Me(t).path.dir, Me(t).path.file)])
            /\ misread' = IF Whole(Me(t).path, Me(t).book) THEN misread
                          ELSE misread \cup {Me(t).book}
            /\ Goto(t, "embed")
       ELSE Stop(t) /\ UNCHANGED <<disk, misread>>
    /\ UNCHANGED <<dirs, across, home, row, converting, asked, shaken, budget>>
EmbedMetadata(t) ==
    /\ pc[t] = "embed"
    /\ \/ /\ IF Holds(Me(t).open, Temp(t)) = "part"
             THEN Write(Me(t).open, Temp(t), Me(t).staged) ELSE UNCHANGED disk
          /\ Goto(t, "replace") /\ UNCHANGED budget
       \/ Spend("fail") /\ Goto(t, "untemp") /\ UNCHANGED disk
    /\ UNCHANGED <<dirs, across, home, row, converting, loc, asked, shaken, misread>>
MutReplace(t) ==
    /\ pc[t] = "replace"
    /\ disk' = [disk EXCEPT ![Me(t).path.dir][Me(t).path.file] = "none"]
    /\ Goto(t, "untemp")
    /\ UNCHANGED <<dirs, across, home, row, converting, loc, asked, shaken, misread, budget>>
Replace(t) ==
    /\ pc[t] = "replace"
    /\ LET n == Me(t).path.dir
       IN  IF Holds(n, Temp(t)) # "none"
           THEN /\ disk' = [disk EXCEPT ![n][Me(t).path.file] = disk[n][Temp(t)],
                                        ![n][Temp(t)] = "none"]
                /\ Stop(t)
           ELSE Goto(t, "untemp") /\ UNCHANGED <<disk, loc>>
    /\ UNCHANGED <<dirs, across, home, row, converting, asked, shaken, misread, budget>>
RemoveTemp(t) ==
    /\ pc[t] = "untemp"
    /\ IF Me(t).path.dir \in dirs THEN Write(Me(t).path.dir, Temp(t), "none")
       ELSE UNCHANGED disk
    /\ Stop(t)
    /\ UNCHANGED <<dirs, across, home, row, converting, asked, shaken, misread, budget>>

-----------------------------------------------------------------------------
(* handleResyncMetadata: what is fetched goes into the row that was read   *)
(* before, which is written whole, and with the metadata the place changes *)

ReadResync(s, b) ==
    /\ s \in Refreshers /\ pc[s] = "idle"
    /\ Spend("resync")
    /\ Set(s, [Me(s) EXCEPT !.book = b, !.path = row[b].path, !.was = row[b].status])
    /\ Goto(s, "fetch")
    /\ Begin(s, b)
    /\ UNCHANGED <<dirs, disk, across, home, row, converting, asked, misread>>
SaveMetadata(s) ==
    /\ pc[s] = "fetch"
    /\ \/ /\ row' = [row EXCEPT ![Me(s).book] =
                         [status |-> Me(s).was, path |-> Me(s).path]]
          /\ \E n \in Names : home' = [home EXCEPT ![Me(s).book] = n]
          /\ UNCHANGED budget
       \/ (Spend("fail") \/ Spend("db")) /\ UNCHANGED <<row, home, misread>>
    /\ Stop(s)
    /\ UNCHANGED <<dirs, disk, across, converting, asked, shaken, misread>>

-----------------------------------------------------------------------------
(* A scan of the library: reconcileExistingAudiobookFiles, from a sync or  *)
(* from the queueing of new books.  (LibraryScan has what can happen       *)
(* between the steps of a walk and between the list and its writes.)       *)

(* The walk: every audio file there is, temporary and half-written ones    *)
(* too.                                                                    *)
Walk(q) ==
    /\ q \in Scanners /\ pc[q] = "idle"
    /\ Spend("scan")
    /\ Set(q, [Me(q) EXCEPT !.found = {x \in dirs \X FileNames : Holds(x[1], x[2]) # "none"}])
    /\ Goto(q, "match")
    /\ shaken' = shaken \cup {b \in Books : \E v \in Others(q) : loc[v].book = b}
    /\ UNCHANGED <<dirs, disk, across, home, row, converting, asked, misread>>

(* findBestFileForBook.  First the recorded path, if it was found: a       *)
(* folder for as long as it has files, a file as itself when it is alone   *)
(* in its folder, and otherwise as its folder (audioStatsForDirectory).    *)
InFolder(found, n) == {x \in found : x[1] = n}
StoredPath(b, found) ==
    LET p == row[b].path
    IN  IF p.file # Folder /\ <<p.dir, p.file>> \notin found THEN {}
        ELSE IF InFolder(found, p.dir) = {} THEN {}
        ELSE IF InFolder(found, p.dir) = {<<p.dir, p.file>>} THEN {p}
        ELSE {[dir |-> p.dir, file |-> Folder]}

(* Then the first file whose name holds the ASIN, and the default template *)
(* gives one to the m4b only (buildASINFileIndex, extractASINFromPath).    *)
AsinPath(b, found) ==
    {[dir |-> x[1], file |-> x[2]] :
        x \in {y \in found : \E n \in Names : y[2] = M4b(b, n)}}

(* Then names made of title and author, which no folder here has, and at   *)
(* last a guess by them: a folder that looks like chapters, or a file; or  *)
(* nothing, as when two do as well (fuzzyMatchDiscoveredFile).  What is    *)
(* left of chapters, even one, counts as such a folder.                    *)
ByTitle(found) ==
    {NoPath}
    \cup {[dir |-> x[1], file |-> Folder] : x \in {y \in found : y[2] \in ChapterFiles}}
    \cup {[dir |-> x[1], file |-> x[2]] :
              x \in {y \in found : \E t \in Taggers : y[2] = Temp(t)}}

BestFile(b, found) ==
    IF StoredPath(b, found) # {} THEN StoredPath(b, found)
    ELSE IF AsinPath(b, found) # {} THEN AsinPath(b, found)
    ELSE ByTitle(found)

(* Each book is listed and written back: complete at what was found for    *)
(* it; new when nothing was and it had been complete.  An error ends it.   *)
Reconciled(b, best) ==
    IF best # NoPath THEN [status |-> "complete", path |-> best]
    ELSE IF row[b].status = "complete" THEN [status |-> "new", path |-> NoPath]
    ELSE row[b]
Misread(old, new, b) ==
    /\ new # old
    /\ \/ Partial(new, b)
       \/ \E t \in Taggers : new.file = Temp(t)
       \/ old.file # Folder /\ new = [old EXCEPT !.file = Folder]
Reconcile(q) ==
    /\ pc[q] = "match"
    /\ \/ /\ row' \in {[b \in Books |-> Reconciled(b, best[b])] :
                         best \in {f \in [Books -> Paths] :
                                    \A b \in Books : f[b] \in BestFile(b, Me(q).found)}}
          /\ misread' = misread \cup {b \in Books : Misread(row[b].path, row'[b].path, b)}
          /\ UNCHANGED budget
       \/ Spend("db") /\ UNCHANGED <<row, misread>>
    /\ Stop(q)
    /\ UNCHANGED <<dirs, disk, across, home, converting, asked, shaken>>

-----------------------------------------------------------------------------
(* The templates change; a restart *)

Retitle(b) ==
    /\ Spend("rename")
    /\ \E n \in Names \ {home[b]} : home' = [home EXCEPT ![b] = n]
    /\ UNCHANGED <<dirs, disk, across, row, converting, pc, loc, asked, shaken, misread>>

Crash ==
    /\ Spend("crash")
    /\ pc' = [v \in Actors |-> "idle"] /\ loc' = [v \in Actors |-> Idle]
    /\ converting' = {}
    /\ UNCHANGED <<dirs, disk, across, home, row, asked, shaken, misread>>

-----------------------------------------------------------------------------
Lay(n, kind) ==
    LET b == CHOOSE b \in Books : TRUE
    IN  [f \in FileNames |->
            IF f \in (IF kind = "mp3" THEN ChapterFiles ELSE {M4b(b, n)})
            THEN b ELSE "none"]

(* The book is where some template put it: an m4b, or its chapters.        *)
Init ==
    /\ \E n \in Names, kind \in Shelved :
          /\ dirs = {n}
          /\ disk = [m \in Names |-> IF m = n THEN Lay(n, kind) ELSE Bare]
          /\ row = [b \in Books |-> At(n, IF kind = "mp3" THEN Folder ELSE M4b(b, n))]
          /\ home = [b \in Books |-> n]
    /\ across \in BOOLEAN
    /\ converting = {} /\ asked = {} /\ shaken = {} /\ misread = {}
    /\ pc = [v \in Actors |-> "idle"] /\ loc = [v \in Actors |-> Idle]
    /\ budget = Budget

ConvertStep(k) ==
    \/ Lock(k) \/ Layout(k) \/ Split(k) \/ ListChapters(k) \/ Concat(k)
    \/ MakeFolder(k) \/ MoveIn(k) \/ Copied(k) \/ Record(k) \/ DropOld(k)
MoveStep(r)  == StartMove(r) \/ Stat(r) \/ MoveFile(r) \/ MoveDir(r) \/ NoteMove(r)
EraseStep(e) == RemoveBookPath(e) \/ Reset(e)
TagStep(t)   == StartTemp(t) \/ EmbedMetadata(t) \/ Replace(t) \/ RemoveTemp(t)

Next ==
    \/ \E k \in Converters :
          \/ ConvertStep(k) \/ Cancel(k)
          \/ \E b \in Books, to \in {"m4b", "mp3"} : GetBook(k, b, to)
    \/ \E r \in Movers : MoveStep(r) \/ \E b \in Books : Plan(r, b)
    \/ \E e \in Erasers : EraseStep(e) \/ \E b \in Books : ReadErase(e, b)
    \/ \E t \in Taggers : TagStep(t) \/ \E b \in Books : ListBooks(t, b)
    \/ \E s \in Refreshers : SaveMetadata(s) \/ \E b \in Books : ReadResync(s, b)
    \/ \E q \in Scanners : Walk(q) \/ Reconcile(q)
    \/ \E b \in Books : Retitle(b)
    \/ Crash

Spec == Init /\ [][Next]_vars

(* What was begun goes on; nobody needs to begin anything.                 *)
FairSpec == Spec /\ \A k \in Converters : WF_vars(ConvertStep(k))

-----------------------------------------------------------------------------
(* Properties *)

(* Types, what each kind of actor can be at, and the lock: one request at  *)
(* a time converts a book, and it is marked as long as it does.            *)
Contents == Books \cup {"none", "part"}
Statuses == {"new", "processing", "complete", "failed"}
Locs == [book : Books \cup {"none"}, path : Paths, to : {"none", "m4b", "mp3"},
         staged : Contents, target : Names \cup {"none"}, left : SUBSET ChapterFiles,
         open : Names \cup {"none"}, was : Statuses, cancelled : BOOLEAN,
         found : SUBSET (Names \X FileNames)]

FilesTypeOK ==
    /\ dirs \subseteq Names
    /\ disk \in [Names -> [FileNames -> Contents]]
    /\ \A n \in Names \ dirs : disk[n] = Bare
    /\ across \in BOOLEAN /\ home \in [Books -> Names]
    /\ row \in [Books -> [status : Statuses, path : Paths]]
    /\ converting \subseteq Books /\ asked \subseteq Books
    /\ shaken \subseteq Books /\ misread \subseteq Books
    /\ loc \in [Actors -> Locs]
    /\ pc \in [Actors -> {"idle", "lock", "layout", "split", "list", "concat", "folder", "move",
                          "copy", "record", "drop", "queued", "stat", "movefile", "movedir",
                          "note", "remove", "reset", "tag", "embed", "replace", "untemp",
                          "fetch", "match"}]
    /\ budget \in [Events -> Nat] /\ \A k \in Events : budget[k] <= Budget[k]
    /\ \A k \in Converters : pc[k] \notin {"idle", "lock"} =>
          /\ Me(k).book \in converting
          /\ \A j \in Converters \ {k} :
                pc[j] \notin {"idle", "lock"} => Me(j).book # Me(k).book

Spared(k) == budget[k] = Budget[k]
M4bs(b)   == {p \in Names \X {M4b(b, n) : n \in Names} : Holds(p[1], p[2]) = b}
Splits(b) == {n \in dirs : \A f \in ChapterFiles : Holds(n, f) = b}
AtWork(b) == \E v \in Actors : loc[v].book = b

(* The whole book is on the disk in one form or the other, unless its      *)
(* files were asked to be deleted: a conversion that fails or stops with   *)
(* the program halfway leaves what it began with, or both                  *)
(* (convert.go:151, 292).                                                  *)
Kept(b) == M4bs(b) # {} \/ Splits(b) # {}
Recoverable == \A b \in Books \ asked : Kept(b)

(* While the database answers, nothing loses a book of which no part was   *)
(* taken for the whole: by a scan that gives it an m4b as part of its      *)
(* folder (library_reconcile.go:329) or files still being written, by a    *)
(* conversion that goes by a row another one has changed (convert.go:35,   *)
(* 48), or by a repair of the tags that reads an m4b still being copied    *)
(* (metadata_repair.go:180).  When two work on a book at once that takes   *)
(* more than four events, or a request that fetches its metadata and puts  *)
(* back a row another has changed meanwhile (server.go:4312, 4359).        *)
FewEvents == budget["any"] >= Budget["any"] - 4
NoAudioLost ==
    Spared("db") =>
       \A b \in Books \ (asked \cup misread) :
          Kept(b) \/ (b \in shaken /\ ~(Spared("resync") /\ FewEvents))

(* The books on which each has worked for itself, beside repairs of their  *)
(* tags, from what it rightly took for the whole.                          *)
Apart == IF Spared("db") THEN Books \ (shaken \cup asked \cup misread) ELSE {}

(* However often they are converted, moved, repaired, refreshed, scanned   *)
(* and renamed, and whatever fails, is cancelled or stops with the program *)
(* halfway: such a book is never lost,                                     *)
KeptApart == \A b \in Apart : Kept(b)

(* a complete row says where the whole book is, and in which form,         *)
RowTellsForm ==
    \A b \in Apart : row[b].status = "complete" => Whole(row[b].path, b)

(* and once nothing is under way, what succeeded has left one copy of it:  *)
(* no m4b beside chapters, and no copy in a folder of an older name.       *)
OneCopy ==
    \A b \in Apart :
       ~AtWork(b) /\ (\A k \in {"fail", "crash", "retag", "cancel"} : Spared(k))
       => Cardinality(M4bs(b)) + Cardinality(Splits(b)) = 1

(* Together: the row and the disk agree on the one form the book is in.    *)
OneForm == KeptApart /\ RowTellsForm /\ OneCopy

(* A book that is being converted is free to be converted again some time. *)
ConvertsEnd == \A b \in Books : b \in converting ~> b \notin converting
=============================================================================
