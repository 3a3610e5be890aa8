---------------------------- MODULE FilesProofs ----------------------------
(***************************************************************************)
(* The types of Files, and that the row and the disk agree on the one form *)
(* of every book on which each has worked for itself.                      *)
(***************************************************************************)
EXTENDS Files, FiniteSetTheorems, TLAPS

(* What an actor can be at, by its kind.                                   *)
ConvertStages == {"idle", "lock", "layout", "split", "list", "concat", "folder", "move",
                  "copy", "record", "drop"}
MoveStages    == {"idle", "queued", "stat", "movefile", "movedir", "note"}
TagStages     == {"idle", "tag", "embed", "replace", "untemp"}

(* What a conversion, and a move, needs to know at each stage.             *)
Prepared(x, l) ==
    /\ x # "idle" => l.to \in {"m4b", "mp3"}
    /\ x \notin {"idle", "lock", "layout"} /\ l.to = "mp3" => l.path.file # Folder
    /\ x = "split" => l.to = "mp3"
    /\ x \in {"move", "copy", "record", "drop"} => l.target \in Names
    /\ x \in {"move", "copy"} /\ l.to = "mp3" => l.left # {}
Placed(x, l) ==
    /\ x = "movefile" => l.path.file # Folder
    /\ x \in {"movefile", "movedir", "note"} => l.target \in Names

(* An actor has a book from its first step to its last; what deletes has   *)
(* one whose files were asked to be deleted.                               *)
KindsKept ==
    /\ \A k \in Converters : pc[k] \in ConvertStages
    /\ \A r \in Movers : pc[r] \in MoveStages
    /\ \A e \in Erasers : pc[e] \in {"idle", "remove", "reset"}
    /\ \A t \in Taggers : pc[t] \in TagStages
    /\ \A s \in Refreshers : pc[s] \in {"idle", "fetch"}
    /\ \A q \in Scanners : pc[q] \in {"idle", "match"} /\ loc[q].book = "none"
    /\ \A v \in Actors \ Scanners : pc[v] = "idle" <=> loc[v].book = "none"
    /\ \A k \in Converters : Prepared(pc[k], loc[k])
    /\ \A r \in Movers : Placed(pc[r], loc[r])
    /\ \A t \in Taggers : pc[t] # "idle" => loc[t].path.file # Folder
    /\ \A e \in Erasers : pc[e] # "idle" => loc[e].book \in asked

M4bFiles(b) == {M4b(b, n) : n \in Names}
TempFiles   == {Temp(t) : t \in Taggers}

(* Who works on the book: a job that waits does not, nor does a scan, which*)
(* works on all of them.                                                   *)
Busy(v, b) == v \in Actors \ Taggers /\ loc[v].book = b /\ pc[v] # "queued"

Alone(b) ==
    /\ \A v, w \in Actors : Busy(v, b) /\ Busy(w, b) /\ v # w => {v, w} \subseteq Converters
    /\ \A q \in Scanners : pc[q] # "idle" => \A v \in Actors : ~Busy(v, b)

(* The row names nothing, or files that are the whole book if they are     *)
(* there.                                                                  *)
RowRight(b) ==
    LET p == row[b].path
    IN  /\ p = NoPath \/ (p.dir \in Names /\ (p.file = Folder \/ p.file \in M4bFiles(b)))
        /\ Present(p) => Whole(p, b)
        /\ row[b].status = "complete" => Present(p)

Place(b, n, p, m) == [dir |-> n, file |-> IF p.file = Folder THEN Folder ELSE M4b(b, m)]

(* A conversion goes by the row as it is, works from the whole book, and   *)
(* has at each stage written so much of its new place.                     *)
NewPath(l)  == [dir  |-> l.target,
                file |-> IF l.to = "mp3" THEN Folder ELSE M4b(l.book, l.target)]
Upcoming(l) == IF l.to = "m4b" THEN M4b(l.book, l.target) ELSE CHOOSE f \in l.left : TRUE
ConvertRight(x, l, b) ==
    /\ x \in {"layout", "split", "list", "concat", "folder", "move", "copy", "record"} =>
          l.path = row[b].path
    /\ x \in {"split", "list", "concat", "folder", "move", "copy", "record"} =>
          Whole(l.path, b)
    /\ x \in {"split", "list", "concat", "folder", "move", "copy", "record", "drop"} =>
          (l.to = "mp3" <=> l.path.file # Folder)
    /\ x = "split" => l.to = "mp3"
    /\ x \in {"list", "concat"} => l.to = "m4b"
    /\ x \in {"concat", "folder", "move", "copy", "record"} /\ l.to = "m4b" =>
          l.left = ChapterFiles
    /\ x \in {"folder", "move", "copy", "record"} => l.staged = b
    /\ x \in {"move", "copy"} =>
          /\ l.target \in dirs
          /\ l.to = "mp3" =>
                l.left # {} /\ \A f \in ChapterFiles \ l.left : disk[l.target][f] = b
    /\ x = "copy" => l.open = l.target /\ disk[l.target][Upcoming(l)] \in {"part", b}
    /\ x = "record" => Whole(NewPath(l), b)
    /\ x = "drop" =>
          /\ row[b] = [status |-> "complete", path |-> NewPath(l)]
          /\ l.path.file = Folder \/ l.path.file \in M4bFiles(b)

(* A job keeps the row it read, which says that it is under way, and knows *)
(* where the book is.                                                      *)
MoveRight(x, l, b) ==
    /\ x \in {"stat", "movefile", "movedir", "note"} =>
          row[b] = [status |-> "processing", path |-> l.path]
    /\ x \in {"movefile", "movedir", "note"} => l.target \in Names
    /\ x = "movefile" => Whole(l.path, b) /\ l.path.file \notin {Folder, M4b(b, l.target)}
    /\ x = "movedir" => Whole(Place(b, l.path.dir, l.path, l.target), b)
    /\ x = "note" => Whole(Place(b, l.target, l.path, l.target), b)

(* A request that fetches metadata has the row as it is.                   *)
FetchRight(x, l, b) == x = "fetch" => row[b] = [status |-> l.was, path |-> l.path]

(* A repair writes the whole book, and what it wrote is nowhere else.      *)
TagRight(t, x, l, b) ==
    /\ l.path.dir \in Names /\ l.path.file \in M4bFiles(b)
    /\ x = "tag" => \A n \in Names : disk[n][Temp(t)] = "none"
    /\ x # "tag" => l.staged = b /\ \A n \in Names : disk[n][Temp(t)] \in {"none", "part", b}
    /\ x = "embed" => l.open \in Names /\ \A n \in Names \ {l.open} : disk[n][Temp(t)] = "none"
    /\ x = "replace" => \A n \in Names : disk[n][Temp(t)] # "part"

(* What a scan has found is there, but for what repairs were writing.      *)
ScanRight(x, l) ==
    x = "match" =>
       \A y \in l.found : y[1] \in dirs /\ (y[2] \notin TempFiles => disk[y[1]][y[2]] # "none")

(* What an actor of each kind relies on.                                   *)
Own(v, x, l, b) ==
    /\ v \in Converters /\ l.book = b => ConvertRight(x, l, b)
    /\ v \in Movers /\ l.book = b => MoveRight(x, l, b)
    /\ v \in Refreshers /\ l.book = b => FetchRight(x, l, b)
    /\ v \in Taggers /\ l.book = b => TagRight(v, x, l, b)
    /\ v \in Scanners => ScanRight(x, l)

Fine(b) ==
    Kept(b) /\ Alone(b) /\ RowRight(b) /\ \A v \in Actors : Own(v, pc[v], loc[v], b)

(* When all has gone well, every file there is is accounted for: by the    *)
(* row, or by a conversion or a move under way.                            *)
Parts(p) == IF p.file = Folder THEN ChapterFiles ELSE {p.file}
Lies(n, f, p) == n = p.dir /\ f \in Parts(p)
Converts(x, l, n, f) ==
    \/ x \in {"move", "copy", "record"} /\ Lies(n, f, NewPath(l))
    \/ x = "drop" /\ n = l.path.dir
          /\ IF l.to = "mp3" THEN f = l.path.file ELSE f \in l.left
Moves(x, l, b, n, f) ==
    \/ x = "movedir" /\ Lies(n, f, Place(b, l.path.dir, l.path, l.target))
    \/ x = "note" /\ Lies(n, f, Place(b, l.target, l.path, l.target))
Accounts(v, x, l, b, n, f) ==
    /\ l.book = b
    /\ (v \in Converters /\ Converts(x, l, n, f)) \/ (v \in Movers /\ Moves(x, l, b, n, f))
Carries(v, x, l, b) == v \in Movers /\ l.book = b /\ x \in {"movedir", "note"}
Moving(b) == \E v \in Actors : Carries(v, pc[v], loc[v], b)

Smooth == \A k \in {"fail", "crash", "retag", "cancel"} : Spared(k)
Exact(b) ==
    /\ \A t \in Taggers : pc[t] = "idle" /\ \A n \in Names : disk[n][Temp(t)] = "none"
    /\ \A k \in Converters : ~loc[k].cancelled
    /\ Moving(b) \/ Whole(row[b].path, b)
    /\ \A n \in Names, f \in FileNames : disk[n][f] # "none" =>
          \/ ~Moving(b) /\ Lies(n, f, row[b].path)
          \/ \E v \in Actors : Accounts(v, pc[v], loc[v], b, n, f)
    /\ \A q \in Scanners : pc[q] = "match" =>
          \A n \in Names, f \in FileNames : disk[n][f] # "none" => <<n, f>> \in loc[q].found

IInv ==
    /\ FilesTypeOK /\ KindsKept
    /\ \A b \in Apart : Fine(b) /\ (Smooth => Exact(b))

(* The parts of the type invariant.                                        *)
DiskTyped ==
    /\ dirs \subseteq Names /\ disk \in [Names -> [FileNames -> Contents]]
    /\ \A n \in Names \ dirs : disk[n] = Bare
RowTyped == row \in [Books -> [status : Statuses, path : Paths]]
RestTyped ==
    /\ across \in BOOLEAN /\ home \in [Books -> Names]
    /\ converting \subseteq Books /\ asked \subseteq Books
    /\ shaken \subseteq Books /\ misread \subseteq Books
    /\ budget \in [Events -> Nat] /\ \A k \in Events : budget[k] <= Budget[k]
Stages == ConvertStages \cup MoveStages \cup TagStages
             \cup {"remove", "reset", "fetch", "match"}
ActorsTyped == loc \in [Actors -> Locs] /\ pc \in [Actors -> Stages]
LockKept ==
    \A k \in Converters : pc[k] \notin {"idle", "lock"} =>
       /\ loc[k].book \in converting
       /\ \A j \in Converters \ {k} :
             pc[j] \notin {"idle", "lock"} => loc[j].book # loc[k].book

-----------------------------------------------------------------------------
(* Names, kinds and types *)

(* There is one book, and it is none of the words that stand for others.   *)
LEMMA OneBook ==
    ASSUME NEW b \in Books
    PROVE  /\ \A x \in Books : x = b
           /\ b \notin {"none", "part", "chapter", "temp"}
BY FilesAssumption

(* The names that files have are those of the m4b, of the chapters and of  *)
(* temporary files, and no file has a name of two of these kinds.          *)
LEMMA FileKinds ==
    ASSUME NEW b \in Books
    PROVE  /\ FileNames = M4bFiles(b) \cup ChapterFiles \cup TempFiles
           /\ M4bFiles(b) \cap ChapterFiles = {} /\ M4bFiles(b) \cap TempFiles = {}
           /\ ChapterFiles \cap TempFiles = {} /\ Folder \notin FileNames
           /\ \A n, m \in Names : M4b(b, n) = M4b(b, m) => n = m
           /\ \A t, u \in Taggers : Temp(t) = Temp(u) => t = u
           /\ \A n \in Names : M4b(b, n) \in M4bFiles(b)
           /\ \A t \in Taggers : Temp(t) \in TempFiles
           /\ Chapter(1) \in ChapterFiles
<1>1. Books = {b}
  BY OneBook
<1>2. FileNames = M4bFiles(b) \cup ChapterFiles \cup TempFiles
  BY <1>1 DEF FileNames, M4bFiles, TempFiles, M4b, Temp
<1>3. M4bFiles(b) \cap ChapterFiles = {} /\ M4bFiles(b) \cap TempFiles = {}
  BY OneBook DEF M4bFiles, ChapterFiles, TempFiles, M4b, Temp, Chapter
<1>4. ChapterFiles \cap TempFiles = {}
  BY DEF ChapterFiles, TempFiles, Temp, Chapter
<1>5. Folder \notin FileNames
  BY DEF FileNames, Folder, ChapterFiles, M4b, Temp, Chapter
<1>6. /\ \A n, m \in Names : M4b(b, n) = M4b(b, m) => n = m
      /\ \A t, u \in Taggers : Temp(t) = Temp(u) => t = u
      /\ \A n \in Names : M4b(b, n) \in M4bFiles(b)
      /\ \A t \in Taggers : Temp(t) \in TempFiles
  BY DEF M4b, Temp, M4bFiles, TempFiles
<1>7. Chapter(1) \in ChapterFiles
  BY FilesAssumption DEF ChapterFiles
<1> QED BY <1>2, <1>3, <1>4, <1>5, <1>6, <1>7

(* No two kinds of actors share one.                                       *)
LEMMA KindsApart ==
    /\ Converters \cap Movers = {} /\ Converters \cap Erasers = {}
    /\ Converters \cap Taggers = {} /\ Converters \cap Refreshers = {}
    /\ Converters \cap Scanners = {} /\ Movers \cap Erasers = {}
    /\ Movers \cap Taggers = {} /\ Movers \cap Refreshers = {}
    /\ Movers \cap Scanners = {} /\ Erasers \cap Taggers = {}
    /\ Erasers \cap Refreshers = {} /\ Erasers \cap Scanners = {}
    /\ Taggers \cap Refreshers = {} /\ Taggers \cap Scanners = {}
    /\ Refreshers \cap Scanners = {}
<1> DEFINE K == <<Converters, Movers, Erasers, Taggers, Refreshers, Scanners>>
<1>1. \A i, j \in 1..6 : i # j => K[i] \cap K[j] = {}
  BY FilesAssumption
<1>2. /\ K[1] = Converters /\ K[2] = Movers /\ K[3] = Erasers
      /\ K[4] = Taggers /\ K[5] = Refreshers /\ K[6] = Scanners
  OBVIOUS
<1> HIDE DEF K
<1>3. /\ K[1] \cap K[2] = {} /\ K[1] \cap K[3] = {} /\ K[1] \cap K[4] = {}
      /\ K[1] \cap K[5] = {} /\ K[1] \cap K[6] = {} /\ K[2] \cap K[3] = {}
      /\ K[2] \cap K[4] = {} /\ K[2] \cap K[5] = {} /\ K[2] \cap K[6] = {}
      /\ K[3] \cap K[4] = {} /\ K[3] \cap K[5] = {} /\ K[3] \cap K[6] = {}
      /\ K[4] \cap K[5] = {} /\ K[4] \cap K[6] = {} /\ K[5] \cap K[6] = {}
  BY <1>1
<1> QED BY <1>2, <1>3

(* The type invariant is its parts.                                        *)
LEMMA TypeParts ==
    FilesTypeOK <=> DiskTyped /\ RowTyped /\ RestTyped /\ ActorsTyped /\ LockKept
BY DEF FilesTypeOK, DiskTyped, RowTyped, RestTyped, ActorsTyped, LockKept, Stages,
       ConvertStages, MoveStages, TagStages, Me

(* So it is after a step.                                                  *)
LEMMA TypePartsNext ==
    FilesTypeOK' <=> DiskTyped' /\ RowTyped' /\ RestTyped' /\ ActorsTyped' /\ LockKept'
BY DEF FilesTypeOK, DiskTyped, RowTyped, RestTyped, ActorsTyped, LockKept, Stages,
       ConvertStages, MoveStages, TagStages, Me

(* Every path is in a folder or nowhere, and an idle actor has no book.    *)
LEMMA IdleTyped == Idle \in Locs /\ Idle.book = "none" /\ NoPath \in Paths
<1>1. NoPath \in Paths
  BY DEF NoPath, Paths
<1>2. {} \in SUBSET ChapterFiles /\ {} \in SUBSET (Names \X FileNames)
  OBVIOUS
<1> QED BY <1>1, <1>2 DEF Idle, Locs, Contents, Statuses

(* Paths and marks by their fields.                                        *)
LEMMA PathFields ==
    ASSUME NEW p \in Paths
    PROVE  /\ p.dir \in Names \cup {"none"} /\ p.file \in FileNames \cup {Folder}
           /\ p = [dir |-> p.dir, file |-> p.file]
BY DEF Paths

-----------------------------------------------------------------------------
(* Every step keeps the types *)

(* What an actor may be left at, with which marks, once `gone' are the     *)
(* books whose files were asked to be deleted.                             *)
Fits(v, x, l, gone) ==
    /\ l \in Locs
    /\ v \in Converters => x \in ConvertStages /\ Prepared(x, l)
    /\ v \in Movers => x \in MoveStages /\ Placed(x, l)
    /\ v \in Erasers => x \in {"idle", "remove", "reset"} /\ (x # "idle" => l.book \in gone)
    /\ v \in Taggers => x \in TagStages /\ (x # "idle" => l.path.file # Folder)
    /\ v \in Refreshers => x \in {"idle", "fetch"}
    /\ v \in Scanners => x \in {"idle", "match"} /\ l.book = "none"
    /\ v \notin Scanners => (x = "idle" <=> l.book = "none")

ActorsFit == ActorsTyped /\ KindsKept

(* The kind of an actor.                                                   *)
LEMMA KindOf ==
    ASSUME NEW v
    PROVE  /\ v \in Converters => /\ v \in Actors /\ v \notin Movers /\ v \notin Erasers
                                  /\ v \notin Taggers /\ v \notin Refreshers
                                  /\ v \notin Scanners
           /\ v \in Movers => /\ v \in Actors /\ v \notin Converters /\ v \notin Erasers
                              /\ v \notin Taggers /\ v \notin Refreshers
                              /\ v \notin Scanners
           /\ v \in Erasers => /\ v \in Actors /\ v \notin Converters /\ v \notin Movers
                               /\ v \notin Taggers /\ v \notin Refreshers
                               /\ v \notin Scanners
           /\ v \in Taggers => /\ v \in Actors /\ v \notin Converters /\ v \notin Movers
                               /\ v \notin Erasers /\ v \notin Refreshers
                               /\ v \notin Scanners
           /\ v \in Refreshers => /\ v \in Actors /\ v \notin Converters /\ v \notin Movers
                                  /\ v \notin Erasers /\ v \notin Taggers
                                  /\ v \notin Scanners
           /\ v \in Scanners => /\ v \in Actors /\ v \notin Converters /\ v \notin Movers
                                /\ v \notin Erasers /\ v \notin Taggers
                                /\ v \notin Refreshers
<1>1. ASSUME NEW S, NEW T, S \cap T = {}, v \in S, v \in T
      PROVE  FALSE
  BY <1>1
<1>2. v \in Converters \/ v \in Movers \/ v \in Erasers \/ v \in Taggers
         \/ v \in Refreshers \/ v \in Scanners => v \in Actors
  BY DEF Actors
<1>3. /\ ~(v \in Converters /\ v \in Movers) /\ ~(v \in Converters /\ v \in Erasers)
      /\ ~(v \in Converters /\ v \in Taggers) /\ ~(v \in Converters /\ v \in Refreshers)
      /\ ~(v \in Converters /\ v \in Scanners) /\ ~(v \in Movers /\ v \in Erasers)
      /\ ~(v \in Movers /\ v \in Taggers) /\ ~(v \in Movers /\ v \in Refreshers)
      /\ ~(v \in Movers /\ v \in Scanners) /\ ~(v \in Erasers /\ v \in Taggers)
      /\ ~(v \in Erasers /\ v \in Refreshers) /\ ~(v \in Erasers /\ v \in Scanners)
      /\ ~(v \in Taggers /\ v \in Refreshers) /\ ~(v \in Taggers /\ v \in Scanners)
      /\ ~(v \in Refreshers /\ v \in Scanners)
  BY <1>1, KindsApart
<1> QED BY <1>2, <1>3

(* The invariant of the actors says that each fits.                        *)
LEMMA FitsEach ==
    ActorsFit <=> /\ loc \in [Actors -> Locs] /\ pc \in [Actors -> Stages]
                  /\ \A v \in Actors : Fits(v, pc[v], loc[v], asked)
<1>1. ASSUME ActorsFit, NEW v \in Actors
      PROVE  Fits(v, pc[v], loc[v], asked)
  BY <1>1 DEF ActorsFit, ActorsTyped, KindsKept, Fits
<1>2. ASSUME loc \in [Actors -> Locs], pc \in [Actors -> Stages],
             \A v \in Actors : Fits(v, pc[v], loc[v], asked)
      PROVE  ActorsFit
  BY <1>2, KindOf DEF ActorsFit, ActorsTyped, KindsKept, Fits
<1> QED BY <1>1, <1>2 DEF ActorsFit, ActorsTyped

(* So it says after a step.                                                *)
LEMMA FitsEachNext ==
    ActorsFit' <=> /\ loc' \in [Actors -> Locs] /\ pc' \in [Actors -> Stages]
                   /\ \A v \in Actors : Fits(v, pc'[v], loc'[v], asked')
<1>1. ASSUME ActorsFit', NEW v \in Actors
      PROVE  Fits(v, pc'[v], loc'[v], asked')
  BY <1>1 DEF ActorsFit, ActorsTyped, KindsKept, Fits
<1>2. ASSUME loc' \in [Actors -> Locs], pc' \in [Actors -> Stages],
             \A v \in Actors : Fits(v, pc'[v], loc'[v], asked')
      PROVE  ActorsFit'
  BY <1>2, KindOf DEF ActorsFit, ActorsTyped, KindsKept, Fits
<1> QED BY <1>1, <1>2 DEF ActorsFit, ActorsTyped

(* An actor that steps to what fits it keeps the types of all.             *)
LEMMA OneSteps ==
    ASSUME ActorsFit, NEW v \in Actors, NEW x \in Stages, NEW l,
           Fits(v, x, l, asked'), asked \subseteq asked',
           loc' = [loc EXCEPT ![v] = l], pc' = [pc EXCEPT ![v] = x]
    PROVE  ActorsFit'
<1>1. /\ loc \in [Actors -> Locs] /\ pc \in [Actors -> Stages]
      /\ \A w \in Actors : Fits(w, pc[w], loc[w], asked)
  BY FitsEach
<1>2. loc' \in [Actors -> Locs] /\ pc' \in [Actors -> Stages]
  BY <1>1 DEF Fits
<1>3. ASSUME NEW w \in Actors
      PROVE  Fits(w, pc'[w], loc'[w], asked')
  <2>1. CASE w = v
    BY <1>1, <2>1
  <2>2. CASE w # v
    <3>1. pc'[w] = pc[w] /\ loc'[w] = loc[w]
      BY <1>1, <2>2
    <3>2. Fits(w, pc[w], loc[w], asked)
      BY <1>1
    <3> QED BY <3>1, <3>2 DEF Fits
  <2> QED BY <2>1, <2>2
<1> QED BY <1>2, <1>3, FitsEachNext

(* An actor that stops fits.                                               *)
LEMMA StopFits ==
    ASSUME ActorsFit, NEW v \in Actors, Stop(v), asked' = asked
    PROVE  ActorsFit'
<1>1. Fits(v, "idle", Idle, asked')
  BY IdleTyped DEF Fits, ConvertStages, MoveStages, TagStages, Prepared, Placed
<1>2. "idle" \in Stages
  BY DEF Stages, ConvertStages
<1> QED BY <1>1, <1>2, OneSteps DEF Stop, Goto

(* What is not a new hold on the lock, nor the end of one, keeps the lock. *)
LEMMA LockStays ==
    ASSUME LockKept, ActorsFit, NEW v \in Actors, NEW x, NEW l,
           v \in Converters /\ x \notin {"idle", "lock"} =>
              pc[v] \notin {"idle", "lock"} /\ l.book = loc[v].book,
           loc' = [loc EXCEPT ![v] = l], pc' = [pc EXCEPT ![v] = x],
           converting \subseteq converting'
    PROVE  LockKept'
<1>1. loc \in [Actors -> Locs] /\ pc \in [Actors -> Stages]
  BY DEF ActorsFit, ActorsTyped
<1>2. \A k \in Converters : pc'[k] \notin {"idle", "lock"} =>
         pc[k] \notin {"idle", "lock"} /\ loc'[k].book = loc[k].book
  <2> TAKE k \in Converters
  <2>1. k \in Actors
    BY DEF Actors
  <2> QED BY <1>1, <2>1
<1> QED BY <1>2 DEF LockKept

(* A conversion that ends leaves the lock to nobody.                       *)
LEMMA LockLeft ==
    ASSUME LockKept, ActorsFit, NEW k \in Converters, EndConvert(k),
           pc[k] \notin {"idle", "lock"}
    PROVE  LockKept'
<1>1. loc \in [Actors -> Locs] /\ pc \in [Actors -> Stages] /\ k \in Actors
  BY DEF ActorsFit, ActorsTyped, Actors
<1>2. pc' = [pc EXCEPT ![k] = "idle"] /\ loc' = [loc EXCEPT ![k] = Idle]
      /\ converting' = converting \ {loc[k].book}
  BY DEF EndConvert, Stop, Goto, Me
<1>3. \A j \in Converters : pc'[j] \notin {"idle", "lock"} =>
         /\ j # k /\ pc[j] \notin {"idle", "lock"} /\ loc'[j].book = loc[j].book
  <2> TAKE j \in Converters
  <2>1. j \in Actors
    BY DEF Actors
  <2> QED BY <1>1, <1>2, <2>1
<1>4. \A j \in Converters : pc'[j] \notin {"idle", "lock"} => loc[j].book # loc[k].book
  BY <1>3 DEF LockKept
<1> QED BY <1>2, <1>3, <1>4 DEF LockKept

(* An event that happens leaves less of them.                              *)
LEMMA SpendTyped ==
    ASSUME budget \in [Events -> Nat], \A j \in Events : budget[j] <= Budget[j],
           NEW k \in Events, k # "any", Spend(k)
    PROVE  /\ budget' \in [Events -> Nat] /\ \A j \in Events : budget'[j] <= Budget[j]
           /\ \A j \in Events : Spared(j)' => Spared(j)
           /\ ~Spared(k)'
<1>1. "any" \in Events /\ Budget \in [Events -> Nat]
  BY FilesAssumption DEF Events
<1>2. /\ budget[k] > 0 /\ budget["any"] > 0
      /\ budget' = [budget EXCEPT ![k] = budget[k] - 1, !["any"] = budget["any"] - 1]
  BY DEF Spend
<1>3. budget' \in [Events -> Nat]
  BY <1>1, <1>2
<1>4. \A j \in Events : budget'[j] = IF j \in {k, "any"} THEN budget[j] - 1 ELSE budget[j]
  BY <1>1, <1>2
<1>5. \A j \in Events : budget[j] \in Nat /\ Budget[j] \in Nat /\ budget[j] <= Budget[j]
  BY <1>1
<1>6. \A j \in Events : budget'[j] <= Budget[j]
  BY <1>4, <1>5
<1>7. \A j \in Events : budget'[j] = Budget[j] => budget[j] = Budget[j]
  BY <1>4, <1>5
<1>8. budget'[k] # Budget[k]
  BY <1>4, <1>5
<1> QED BY <1>3, <1>6, <1>7, <1>8 DEF Spared

(* The type invariant, with what goes with the kind of each actor: every   *)
(* step keeps this.                                                        *)
Typed == DiskTyped /\ RowTyped /\ RestTyped /\ ActorsFit /\ LockKept

(* It is the type invariant and the kinds,                                 *)
LEMMA TypedIs == Typed <=> FilesTypeOK /\ KindsKept
BY TypeParts DEF Typed, ActorsFit

(* and so it is after a step.                                              *)
LEMMA TypedIsNext == Typed' <=> FilesTypeOK' /\ KindsKept'
BY TypePartsNext DEF Typed, ActorsFit

(* The marks of an actor, one by one.                                      *)
LEMMA Marks ==
    ASSUME ActorsFit, NEW v \in Actors
    PROVE  /\ loc[v] \in Locs /\ pc[v] \in Stages /\ Fits(v, pc[v], loc[v], asked)
           /\ loc[v].book \in Books \cup {"none"} /\ loc[v].path \in Paths
           /\ loc[v].to \in {"none", "m4b", "mp3"} /\ loc[v].staged \in Contents
           /\ loc[v].target \in Names \cup {"none"} /\ loc[v].left \in SUBSET ChapterFiles
           /\ loc[v].open \in Names \cup {"none"} /\ loc[v].was \in Statuses
           /\ loc[v].cancelled \in BOOLEAN /\ loc[v].found \in SUBSET (Names \X FileNames)
           /\ v \notin Scanners /\ pc[v] # "idle" => loc[v].book \in Books
<1>1. loc[v] \in Locs /\ pc[v] \in Stages /\ Fits(v, pc[v], loc[v], asked)
  BY FitsEach
<1> QED BY <1>1 DEF Locs, Fits

(* A file of a folder that is there is written.                            *)
LEMMA WriteTyped ==
    ASSUME DiskTyped, NEW n \in dirs, NEW f \in FileNames, NEW c \in Contents,
           Write(n, f, c), dirs' = dirs
    PROVE  DiskTyped'
BY DEF DiskTyped, Write

(* What a folder holds is what the disk says of it.                        *)
LEMMA HoldsIs ==
    ASSUME DiskTyped, NEW n \in Names \cup {"none"}, NEW f \in FileNames
    PROVE  /\ Holds(n, f) \in Contents
           /\ n \in Names => Holds(n, f) = disk[n][f] /\ disk[n][f] \in Contents
           /\ n = "none" => Holds(n, f) = "none"
           /\ Holds(n, f) # "none" => n \in dirs
<1>1. n \in Names \ dirs => disk[n][f] = "none"
  BY DEF DiskTyped, Bare
<1>2. n = "none" => n \notin dirs
  BY FilesAssumption DEF DiskTyped
<1>3. n \in Names => disk[n][f] \in Contents
  BY DEF DiskTyped
<1>4. "none" \in Contents
  BY DEF Contents
<1> QED BY <1>1, <1>2, <1>3, <1>4 DEF Holds, DiskTyped

(* What stays, but for the bounds, keeps its types.                        *)
LEMMA RestStays ==
    ASSUME RestTyped, UNCHANGED <<across, home, converting, asked, misread>>,
           shaken' = shaken \/ \E b \in Books : shaken' = shaken \cup {b},
           budget' = budget \/ \E k \in Events \ {"any"} : Spend(k)
    PROVE  RestTyped'
<1>1. /\ budget' \in [Events -> Nat]
      /\ \A j \in Events : budget'[j] <= Budget[j]
  BY SpendTyped DEF RestTyped
<1> QED BY <1>1 DEF RestTyped

(* A step of one actor that holds the lock, or does not want it.           *)
LEMMA StepTyped ==
    ASSUME Typed, NEW v \in Actors, NEW x \in Stages, NEW l,
           Fits(v, x, l, asked'), asked \subseteq asked',
           loc' = [loc EXCEPT ![v] = l], pc' = [pc EXCEPT ![v] = x],
           v \in Converters /\ x \notin {"idle", "lock"} =>
              pc[v] \notin {"idle", "lock"} /\ l.book = loc[v].book,
           converting \subseteq converting',
           DiskTyped', RowTyped', RestTyped'
    PROVE  Typed'
<1>1. ActorsFit'
  BY OneSteps DEF Typed
<1>2. LockKept'
  BY LockStays DEF Typed
<1> QED BY <1>1, <1>2 DEF Typed

(* A step that ends an actor's work, of a conversion with the lock.        *)
LEMMA EndTyped ==
    ASSUME Typed, NEW v \in Actors, asked' = asked,
           \/ v \in Converters /\ EndConvert(v) /\ pc[v] \notin {"idle", "lock"}
           \/ Stop(v) /\ converting' = converting,
           DiskTyped', RowTyped', RestTyped'
    PROVE  Typed'
<1>1. Stop(v)
  BY DEF EndConvert
<1>2. ActorsFit'
  BY <1>1, StopFits DEF Typed
<1>3. CASE v \in Converters /\ EndConvert(v) /\ pc[v] \notin {"idle", "lock"}
  BY <1>2, <1>3, LockLeft DEF Typed
<1>4. CASE Stop(v) /\ converting' = converting
  <2>1. loc' = [loc EXCEPT ![v] = Idle] /\ pc' = [pc EXCEPT ![v] = "idle"]
    BY <1>1 DEF Stop, Goto
  <2>2. LockKept'
    BY <1>4, <2>1, LockStays DEF Typed
  <2> QED BY <1>2, <2>2 DEF Typed
<1> QED BY <1>3, <1>4

(* What is known of a conversion under way.                                *)
LEMMA Converting ==
    ASSUME Typed, NEW k \in Converters
    PROVE  /\ k \in Actors /\ k \notin Scanners /\ k \notin Erasers
           /\ loc[k] \in Locs /\ pc[k] \in ConvertStages /\ Prepared(pc[k], loc[k])
           /\ pc[k] # "idle" => loc[k].book \in Books /\ loc[k].book # "none"
           /\ \A x \in ConvertStages : x \in Stages
           /\ \A x \in ConvertStages, l \in Locs :
                 (x = "idle" <=> l.book = "none") /\ Prepared(x, l) => Fits(k, x, l, asked)
<1>1. k \in Actors /\ k \notin Scanners /\ k \notin Erasers
  BY KindOf
<1>2. Fits(k, pc[k], loc[k], asked) /\ loc[k] \in Locs
      /\ (pc[k] # "idle" => loc[k].book \in Books)
  BY <1>1, Marks DEF Typed
<1>3. \A x \in ConvertStages, l \in Locs :
         (x = "idle" <=> l.book = "none") /\ Prepared(x, l) => Fits(k, x, l, asked)
  BY KindOf DEF Fits
<1>4. pc[k] # "idle" => loc[k].book # "none"
  BY <1>2, OneBook
<1>5. pc[k] \in ConvertStages /\ Prepared(pc[k], loc[k])
  BY <1>2 DEF Fits
<1> QED BY <1>1, <1>2, <1>3, <1>4, <1>5 DEF Stages

(* The step of a conversion that goes on.                                  *)
LEMMA ConvertGoesOn ==
    ASSUME Typed, NEW k \in Converters, NEW x \in ConvertStages \ {"idle", "lock"},
           pc[k] \notin {"idle", "lock"}, NEW l \in Locs,
           l.book = loc[k].book, Prepared(x, l), asked' = asked,
           loc' = [loc EXCEPT ![k] = l], pc' = [pc EXCEPT ![k] = x],
           converting' = converting, DiskTyped', RowTyped', RestTyped'
    PROVE  Typed'
<1>1. l.book # "none" /\ k \in Actors /\ x \in Stages
  BY Converting
<1>2. Fits(k, x, l, asked')
  BY <1>1, Converting
<1> QED BY <1>1, <1>2, StepTyped

(* A conversion that begins keeps the types: its path is that of a row.    *)
LEMMA GetBookTyped ==
    ASSUME Typed, NEW k \in Converters, NEW b \in Books, NEW to \in {"m4b", "mp3"},
           GetBook(k, b, to)
    PROVE  Typed'
<1>1. PICK l : l = [loc[k] EXCEPT !.book = b, !.to = to, !.path = row[b].path]
  OBVIOUS
<1>2. row[b].path \in Paths
  BY DEF Typed, RowTyped
<1>3. l \in Locs /\ l.book = b /\ l.to = to
  BY <1>1, <1>2, Converting DEF Locs
<1>4. Fits(k, "lock", l, asked')
  BY <1>3, Converting, OneBook DEF GetBook, ConvertStages, Prepared
<1>5. loc' = [loc EXCEPT ![k] = l] /\ pc' = [pc EXCEPT ![k] = "lock"]
  BY <1>1 DEF GetBook, Set, Goto, Me
<1>6. DiskTyped' /\ RowTyped'
  BY DEF GetBook, Typed, DiskTyped, RowTyped
<1>7. RestTyped'
  <2>1. shaken' = shaken \/ \E c \in Books : shaken' = shaken \cup {c}
    BY DEF GetBook, Begin
  <2>2. \E j \in Events \ {"any"} : Spend(j)
    BY DEF GetBook, Events
  <2> QED BY <2>1, <2>2, RestStays DEF GetBook, Typed
<1>8. "lock" \in Stages /\ k \in Actors
  BY Converting DEF ConvertStages
<1> QED BY <1>4, <1>5, <1>6, <1>7, <1>8, StepTyped DEF GetBook

(* Only one conversion gets past the lock, and it marks its book.          *)
LEMMA LockTyped ==
    ASSUME Typed, NEW k \in Converters, Lock(k)
    PROVE  Typed'
<1>1. DiskTyped' /\ RowTyped'
  BY DEF Lock, Typed, DiskTyped, RowTyped
<1>2. loc[k].book \in Books /\ k \in Actors
  BY Converting DEF Lock
<1>3. RestTyped'
  BY <1>2 DEF Lock, Typed, RestTyped, MarkStale, Me
<1>4. CASE /\ loc[k].book \notin converting /\ converting' = converting \cup {loc[k].book}
           /\ pc' = [pc EXCEPT ![k] = "layout"] /\ loc' = loc
  <2>1. Fits(k, "layout", loc[k], asked') /\ "layout" \in Stages
    BY <1>2, Converting DEF Lock, ConvertStages, Prepared
  <2>2. loc \in [Actors -> Locs] /\ pc \in [Actors -> Stages]
    BY FitsEach DEF Typed
  <2>3. loc' = [loc EXCEPT ![k] = loc[k]]
    BY <1>2, <1>4, <2>2
  <2>4. ActorsFit'
    BY <1>2, <1>4, <2>1, <2>3, OneSteps DEF Typed, Lock
  <2>5. \A j \in Converters \ {k} : pc'[j] \notin {"idle", "lock"} =>
           pc[j] \notin {"idle", "lock"} /\ loc[j].book \in converting
    <3> TAKE j \in Converters \ {k}
    <3>1. pc'[j] = pc[j]
      BY <1>4, <2>2, KindOf
    <3> QED BY <3>1 DEF Typed, LockKept
  <2>6. LockKept'
    BY <1>4, <2>5 DEF Typed, LockKept
  <2> QED BY <1>1, <1>3, <2>4, <2>6 DEF Typed
<1>5. CASE Stop(k) /\ converting' = converting
  BY <1>1, <1>2, <1>3, <1>5, EndTyped DEF Lock
<1> QED BY <1>4, <1>5 DEF Lock, Goto, Me

(* A conversion ends with all else as it was, but for the bounds and what  *)
(* it does to the disk and the row.                                        *)
LEMMA ConvertEnds ==
    ASSUME Typed, NEW k \in Converters, EndConvert(k), pc[k] \notin {"idle", "lock"},
           DiskTyped', RowTyped', UNCHANGED <<across, home, asked, shaken, misread>>,
           budget' = budget \/ \E j \in Events \ {"any"} : Spend(j)
    PROVE  Typed'
<1>1. /\ budget' \in [Events -> Nat]
      /\ \A j \in Events : budget'[j] <= Budget[j]
  BY SpendTyped DEF Typed, RestTyped
<1>2. converting' \subseteq Books
  BY DEF EndConvert, Typed, RestTyped
<1>3. RestTyped'
  BY <1>1, <1>2 DEF Typed, RestTyped
<1> QED BY <1>3, Converting, EndTyped

(* What is to become chapters is an m4b.                                   *)
LEMMA LayoutTyped ==
    ASSUME Typed, NEW k \in Converters, Layout(k)
    PROVE  Typed'
<1>1. DiskTyped' /\ RowTyped' /\ pc[k] \notin {"idle", "lock"}
  BY DEF Layout, Typed, DiskTyped, RowTyped
<1>2. CASE EndConvert(k)
  BY <1>1, <1>2, ConvertEnds DEF Layout
<1>3. ASSUME NEW x, x = (IF loc[k].to = "mp3" THEN "split" ELSE "list"), Goto(k, x),
             Format(loc[k].path) # loc[k].to, loc' = loc, converting' = converting
      PROVE  Typed'
  <2>1. RestTyped'
    BY <1>3 DEF Layout, Typed, RestTyped
  <2>2. loc' = [loc EXCEPT ![k] = loc[k]] /\ pc' = [pc EXCEPT ![k] = x]
    BY <1>3, FitsEach DEF Goto, Typed
  <2>3. x \in ConvertStages \ {"idle", "lock"} /\ Prepared(x, loc[k])
    BY <1>1, <1>3, Converting DEF ConvertStages, Prepared, Format
  <2> QED BY <1>1, <1>3, <2>1, <2>2, <2>3, Converting, ConvertGoesOn DEF Layout
<1> QED BY <1>2, <1>3 DEF Layout, Me

(* What is staged is something a file can hold.                            *)
LEMMA SplitTyped ==
    ASSUME Typed, NEW k \in Converters, Split(k)
    PROVE  Typed'
<1>1. DiskTyped' /\ RowTyped' /\ pc[k] \notin {"idle", "lock"}
  BY DEF Split, Typed, DiskTyped, RowTyped
<1>2. CASE EndConvert(k)
  BY <1>1, <1>2, ConvertEnds DEF Split, Events
<1>3. ASSUME Goto(k, "folder"), UNCHANGED <<converting, budget>>,
             Set(k, [loc[k] EXCEPT !.staged = Holds(loc[k].path.dir, loc[k].path.file)])
      PROVE  Typed'
  <2>1. PICK l : l = [loc[k] EXCEPT !.staged = Holds(loc[k].path.dir, loc[k].path.file)]
    OBVIOUS
  <2>2. loc[k].path \in Paths /\ loc[k].path.file # Folder
    BY Converting, Marks DEF Typed, Split, Prepared
  <2>3. Holds(loc[k].path.dir, loc[k].path.file) \in Contents
    BY <2>2, PathFields, HoldsIs DEF Typed
  <2>4. l \in Locs /\ l.book = loc[k].book /\ Prepared("folder", l)
    BY <2>1, <2>2, <2>3, Converting DEF Locs, Prepared, Split
  <2>5. "folder" \in ConvertStages \ {"idle", "lock"}
    BY DEF ConvertStages
  <2>6. RestTyped'
    BY <1>3 DEF Split, Typed, RestTyped
  <2> QED BY <1>1, <1>3, <2>1, <2>4, <2>5, <2>6, ConvertGoesOn DEF Split, Set, Goto
<1> QED BY <1>2, <1>3 DEF Split, Me

(* What was listed are chapter files.                                      *)
LEMMA ListTyped ==
    ASSUME Typed, NEW k \in Converters, ListChapters(k)
    PROVE  Typed'
<1>1. DiskTyped' /\ RowTyped' /\ pc[k] \notin {"idle", "lock"}
  BY DEF ListChapters, Typed, DiskTyped, RowTyped
<1>2. CASE EndConvert(k)
  BY <1>1, <1>2, ConvertEnds DEF ListChapters
<1>3. ASSUME NEW there \in SUBSET ChapterFiles, Goto(k, "concat"), UNCHANGED converting,
             Set(k, [loc[k] EXCEPT !.left = there])
      PROVE  Typed'
  <2>1. PICK l : l = [loc[k] EXCEPT !.left = there]
    OBVIOUS
  <2>2. l \in Locs /\ l.book = loc[k].book /\ Prepared("concat", l)
    BY <2>1, Converting DEF Locs, Prepared, ListChapters
  <2>3. "concat" \in ConvertStages \ {"idle", "lock"}
    BY DEF ConvertStages
  <2>4. RestTyped'
    BY <1>3 DEF ListChapters, Typed, RestTyped
  <2> QED BY <1>1, <1>3, <2>1, <2>2, <2>3, <2>4, ConvertGoesOn DEF ListChapters, Set, Goto
<1> QED BY <1>2, <1>3 DEF ListChapters, Me

(* What is staged is the book, or a part.                                  *)
LEMMA ConcatTyped ==
    ASSUME Typed, NEW k \in Converters, Concat(k)
    PROVE  Typed'
<1>1. DiskTyped' /\ RowTyped' /\ pc[k] \notin {"idle", "lock"}
  BY DEF Concat, Typed, DiskTyped, RowTyped
<1>2. CASE EndConvert(k)
  BY <1>1, <1>2, ConvertEnds DEF Concat, Events
<1>3. ASSUME NEW c \in {loc[k].book, "part"}, Goto(k, "folder"),
             UNCHANGED <<converting, budget>>, Set(k, [loc[k] EXCEPT !.staged = c])
      PROVE  Typed'
  <2>1. PICK l : l = [loc[k] EXCEPT !.staged = c]
    OBVIOUS
  <2>2. c \in Contents
    BY Converting DEF Concat, Contents
  <2>3. l \in Locs /\ l.book = loc[k].book /\ Prepared("folder", l)
    BY <2>1, <2>2, Converting DEF Locs, Prepared, Concat
  <2>4. "folder" \in ConvertStages \ {"idle", "lock"}
    BY DEF ConvertStages
  <2>5. RestTyped'
    BY <1>3 DEF Concat, Typed, RestTyped
  <2> QED BY <1>1, <1>3, <2>1, <2>3, <2>4, <2>5, ConvertGoesOn DEF Concat, Set, Goto
<1> QED BY <1>2, <1>3 DEF Concat, Me

(* A folder that is made is an empty one.                                  *)
LEMMA MakeFolderTyped ==
    ASSUME Typed, NEW k \in Converters, MakeFolder(k)
    PROVE  Typed'
<1>1. RowTyped' /\ RestTyped' /\ pc[k] \notin {"idle", "lock"}
  BY DEF MakeFolder, Typed, RowTyped, RestTyped
<1>2. loc[k].book \in Books
  BY <1>1, Converting
<1>3. PICK n \in Names : n = home[loc[k].book]
  BY <1>2 DEF Typed, RestTyped
<1>4. dirs' = dirs \cup {n} /\ disk' = IF n \in dirs THEN disk ELSE [disk EXCEPT ![n] = Bare]
  BY <1>3 DEF MakeFolder, MkdirAll, Me
<1>5. Bare \in [FileNames -> Contents]
  BY DEF Bare, Contents
<1>6. DiskTyped'
  BY <1>4, <1>5 DEF Typed, DiskTyped
<1>7. PICK l : l = [loc[k] EXCEPT !.target = n,
                                  !.left = IF loc[k].to = "mp3" THEN ChapterFiles ELSE loc[k].left]
  OBVIOUS
<1>8. ChapterFiles \in SUBSET ChapterFiles /\ ChapterFiles # {}
  BY <1>2, FileKinds
<1>9. l \in Locs /\ l.book = loc[k].book /\ Prepared("move", l)
  BY <1>7, <1>8, Converting DEF Locs, Prepared, MakeFolder
<1>10. "move" \in ConvertStages \ {"idle", "lock"}
  BY DEF ConvertStages
<1>11. loc' = [loc EXCEPT ![k] = l] /\ pc' = [pc EXCEPT ![k] = "move"]
  BY <1>3, <1>7 DEF MakeFolder, Set, Goto, Me
<1> QED BY <1>1, <1>6, <1>9, <1>10, <1>11, ConvertGoesOn DEF MakeFolder

(* The file moved next is one of the new place.                            *)
LEMMA NextFileIs ==
    ASSUME Typed, NEW k \in Converters, pc[k] \in {"move", "copy"}
    PROVE  /\ NextFile(k) \in FileNames /\ NextFile(k) \notin TempFiles
           /\ loc[k].to = "mp3" => NextFile(k) \in loc[k].left /\ NextFile(k) \in ChapterFiles
           /\ loc[k].to = "m4b" => NextFile(k) = M4b(loc[k].book, loc[k].target)
           /\ loc[k].to \in {"m4b", "mp3"} /\ loc[k].target \in Names
<1>1. loc[k].book \in Books /\ Prepared(pc[k], loc[k])
  BY Converting
<1>2. loc[k].left \in SUBSET ChapterFiles
  BY Converting, Marks DEF Typed
<1>3. loc[k].to = "mp3" => NextFile(k) \in loc[k].left
  BY <1>1 DEF NextFile, Prepared, Me
<1>4. loc[k].to = "m4b" => NextFile(k) = M4b(loc[k].book, loc[k].target)
  BY DEF NextFile, Me
<1>5. loc[k].to \in {"m4b", "mp3"} /\ loc[k].target \in Names
  BY <1>1 DEF Prepared
<1>6. M4b(loc[k].book, loc[k].target) \in M4bFiles(loc[k].book)
  BY <1>5 DEF M4bFiles
<1> QED BY <1>1, <1>2, <1>3, <1>4, <1>5, <1>6, FileKinds

(* After a file is moved there is another, or the row is written.          *)
LEMMA MovedTyped ==
    ASSUME Typed, NEW k \in Converters, pc[k] \in {"move", "copy"}, Moved(k), asked' = asked,
           converting' = converting, DiskTyped', RowTyped', RestTyped'
    PROVE  Typed'
<1>1. PICK left : left = (IF loc[k].to = "mp3" THEN loc[k].left \ {NextFile(k)} ELSE loc[k].left)
  OBVIOUS
<1>2. PICK l : l = [loc[k] EXCEPT !.left = left, !.open = "none"]
  OBVIOUS
<1>3. PICK x : x = IF loc[k].to = "mp3" /\ left # {} THEN "move" ELSE "record"
  OBVIOUS
<1>4. loc' = [loc EXCEPT ![k] = l] /\ pc' = [pc EXCEPT ![k] = x]
  BY <1>1, <1>2, <1>3 DEF Moved, Set, Goto, Me
<1>5. loc[k].left \in SUBSET ChapterFiles
  BY Converting, Marks DEF Typed
<1>6. left \in SUBSET ChapterFiles
  BY <1>1, <1>5
<1>7. l \in Locs /\ l.book = loc[k].book /\ Prepared(x, l)
  BY <1>1, <1>2, <1>3, <1>6, Converting DEF Locs, Prepared
<1>8. x \in ConvertStages \ {"idle", "lock"} /\ pc[k] \notin {"idle", "lock"}
  BY <1>3 DEF ConvertStages
<1> QED BY <1>4, <1>7, <1>8, ConvertGoesOn

(* A file is written to a folder there is, and chapters are left to move   *)
(* or it is time to record.                                                *)
LEMMA MoveInTyped ==
    ASSUME Typed, NEW k \in Converters, MoveIn(k)
    PROVE  Typed'
<1>1. RowTyped' /\ pc[k] \notin {"idle", "lock"} /\ pc[k] \in {"move", "copy"}
  BY DEF MoveIn, Typed, RowTyped
<1>2. NextFile(k) \in FileNames /\ loc[k].staged \in Contents /\ "part" \in Contents
  BY <1>1, NextFileIs, Converting, Marks DEF Typed, Contents
<1>3. CASE ~across /\ loc[k].target \in dirs /\ Write(loc[k].target, NextFile(k), loc[k].staged)
           /\ Moved(k) /\ UNCHANGED converting
  <2>1. DiskTyped'
    BY <1>2, <1>3, WriteTyped DEF MoveIn, Typed
  <2>2. RestTyped'
    BY <1>3 DEF MoveIn, Typed, RestTyped
  <2> QED BY <1>1, <1>3, <2>1, <2>2, MovedTyped DEF MoveIn
<1>4. CASE across /\ loc[k].target \in dirs /\ Write(loc[k].target, NextFile(k), "part")
           /\ Set(k, [loc[k] EXCEPT !.open = loc[k].target]) /\ Goto(k, "copy")
           /\ UNCHANGED converting
  <2>1. DiskTyped'
    BY <1>2, <1>4, WriteTyped DEF MoveIn, Typed
  <2>2. RestTyped'
    BY <1>4 DEF MoveIn, Typed, RestTyped
  <2>3. PICK l : l = [loc[k] EXCEPT !.open = loc[k].target]
    OBVIOUS
  <2>4. l \in Locs /\ l.book = loc[k].book /\ Prepared("copy", l)
    BY <1>1, <2>3, Converting DEF Locs, Prepared, MoveIn
  <2>5. "copy" \in ConvertStages \ {"idle", "lock"}
    BY DEF ConvertStages
  <2> QED BY <1>1, <1>4, <2>1, <2>2, <2>3, <2>4, <2>5, ConvertGoesOn DEF MoveIn, Set, Goto
<1>5. CASE EndConvert(k) /\ UNCHANGED disk
  <2>1. DiskTyped'
    BY <1>5 DEF MoveIn, Typed, DiskTyped
  <2> QED BY <1>1, <1>5, <2>1, ConvertEnds DEF MoveIn
<1> QED BY <1>3, <1>4, <1>5 DEF MoveIn, Me

(* A copy ends where its file is, if it is still there.                    *)
LEMMA CopiedTyped ==
    ASSUME Typed, NEW k \in Converters, Copied(k)
    PROVE  Typed'
<1>1. RowTyped' /\ pc[k] \notin {"idle", "lock"} /\ pc[k] \in {"move", "copy"}
  BY DEF Copied, Typed, RowTyped
<1>2. NextFile(k) \in FileNames /\ loc[k].staged \in Contents
      /\ loc[k].open \in Names \cup {"none"}
  BY <1>1, NextFileIs, Converting, Marks DEF Typed
<1>3. CASE /\ \/ \E f \in Copying(k) : Write(loc[k].open, f, loc[k].staged)
              \/ UNCHANGED disk
           /\ Moved(k) /\ UNCHANGED <<converting, budget>>
  <2>1. DiskTyped'
    <3>1. CASE UNCHANGED disk
      BY <3>1 DEF Copied, Typed, DiskTyped
    <3>2. ASSUME NEW f \in Copying(k), Write(loc[k].open, f, loc[k].staged)
          PROVE  DiskTyped'
      <4>1. f \in FileNames /\ loc[k].open \in dirs
        BY DEF Copying, Holds, Me
      <4> QED BY <1>2, <3>2, <4>1, WriteTyped DEF Copied, Typed
    <3> QED BY <1>3, <3>1, <3>2
  <2>2. RestTyped'
    BY <1>3 DEF Copied, Typed, RestTyped
  <2> QED BY <1>1, <1>3, <2>1, <2>2, MovedTyped DEF Copied
<1>4. CASE Spend("fail") /\ EndConvert(k) /\ UNCHANGED disk
  <2>1. DiskTyped'
    BY <1>4 DEF Copied, Typed, DiskTyped
  <2> QED BY <1>1, <1>4, <2>1, ConvertEnds DEF Copied, Events
<1> QED BY <1>3, <1>4 DEF Copied, Me

(* The new place is one a row can name.                                    *)
LEMMA NewPlaceTyped ==
    ASSUME Typed, NEW k \in Converters, pc[k] \in {"record", "drop"}
    PROVE  NewPlace(k) \in [status : Statuses, path : Paths]
<1>1. loc[k].book \in Books /\ loc[k].target \in Names
  BY Converting DEF Prepared
<1>2. M4b(loc[k].book, loc[k].target) \in FileNames
  BY <1>1, FileKinds
<1> QED BY <1>1, <1>2 DEF NewPlace, At, Statuses, Paths, Me

(* The row is complete at the new place, which is a path.                  *)
LEMMA RecordTyped ==
    ASSUME Typed, NEW k \in Converters, Record(k)
    PROVE  Typed'
<1>1. DiskTyped' /\ pc[k] \notin {"idle", "lock"} /\ loc[k].book \in Books
  BY Converting DEF Record, Typed, DiskTyped
<1>2. RowTyped'
  BY <1>1, NewPlaceTyped DEF Record, Typed, RowTyped, Me
<1>3. budget' = budget \/ \E j \in Events \ {"any"} : Spend(j)
  BY DEF Record, Events
<1>4. CASE EndConvert(k)
  BY <1>1, <1>2, <1>3, <1>4, ConvertEnds DEF Record
<1>5. CASE Goto(k, "drop") /\ UNCHANGED <<loc, converting>>
  <2>1. RestTyped'
    BY <1>3, <1>5, RestStays DEF Record, Typed
  <2>2. loc' = [loc EXCEPT ![k] = loc[k]] /\ pc' = [pc EXCEPT ![k] = "drop"]
    BY <1>5, Converting, FitsEach DEF Goto, Typed
  <2>3. "drop" \in ConvertStages \ {"idle", "lock"} /\ Prepared("drop", loc[k])
    BY Converting DEF ConvertStages, Prepared, Record
  <2> QED BY <1>1, <1>2, <1>5, <2>1, <2>2, <2>3, Converting, ConvertGoesOn DEF Record
<1> QED BY <1>4, <1>5 DEF Record

(* Dropping the old files writes only to a folder there is.                *)
LEMMA DropOldTyped ==
    ASSUME Typed, NEW k \in Converters, DropOld(k)
    PROVE  Typed'
<1>1. RowTyped' /\ pc[k] \notin {"idle", "lock"} /\ pc[k] \in ConvertStages
  BY Converting DEF DropOld, Typed, RowTyped
<1>2. ASSUME NEW f \in FileNames, DropFile(k, f), dirs' = dirs
      PROVE  DiskTyped'
  <2>1. CASE UNCHANGED disk
    BY <1>2, <2>1 DEF Typed, DiskTyped
  <2>2. CASE loc[k].path.dir \in dirs /\ Write(loc[k].path.dir, f, "none")
    BY <1>2, <2>2, WriteTyped DEF Typed, Contents
  <2> QED BY <1>2, <2>1, <2>2 DEF DropFile, Me
<1>3. CASE loc[k].to = "mp3" /\ DropFile(k, loc[k].path.file) /\ EndConvert(k)
  <2>1. loc[k].path.file \in FileNames
    BY <1>3, Converting, Marks, PathFields DEF DropOld, Prepared, Typed
  <2>2. DiskTyped'
    BY <1>2, <1>3, <2>1 DEF DropOld
  <2> QED BY <1>1, <1>3, <2>2, ConvertEnds DEF DropOld
<1>4. ASSUME loc[k].to = "m4b", NEW f \in loc[k].left, DropFile(k, f),
             Set(k, [loc[k] EXCEPT !.left = loc[k].left \ {f}]), UNCHANGED <<pc, converting>>
      PROVE  Typed'
  <2>1. loc[k].left \in SUBSET ChapterFiles /\ loc[k].book \in Books
    BY <1>1, Converting, Marks DEF Typed
  <2>2. f \in FileNames
    BY <2>1, FileKinds
  <2>3. DiskTyped'
    BY <1>2, <1>4, <2>2 DEF DropOld
  <2>4. PICK left : left = loc[k].left \ {f}
    OBVIOUS
  <2>5. left \in SUBSET ChapterFiles
    BY <2>1, <2>4
  <2>6. PICK l : l = [loc[k] EXCEPT !.left = left]
    OBVIOUS
  <2>7. l \in Locs /\ l.book = loc[k].book /\ Prepared("drop", l)
    BY <2>5, <2>6, Converting DEF Locs, Prepared, DropOld
  <2>8. RestTyped'
    BY <1>4 DEF DropOld, Typed, RestTyped
  <2>9. loc' = [loc EXCEPT ![k] = l] /\ pc' = [pc EXCEPT ![k] = "drop"]
    BY <1>4, <2>4, <2>6, Converting, FitsEach DEF Set, DropOld, Typed
  <2>10. "drop" \in ConvertStages \ {"idle", "lock"}
    BY DEF ConvertStages
  <2> QED BY <1>1, <1>4, <2>3, <2>7, <2>8, <2>9, <2>10, ConvertGoesOn DEF DropOld
<1>5. CASE EndConvert(k) /\ UNCHANGED disk
  <2>1. DiskTyped'
    BY <1>5 DEF DropOld, Typed, DiskTyped
  <2> QED BY <1>1, <1>5, <2>1, ConvertEnds DEF DropOld
<1> QED BY <1>3, <1>4, <1>5 DEF DropOld, Me

(* A cancel marks the conversion and changes nothing else.                 *)
LEMMA CancelTyped ==
    ASSUME Typed, NEW k \in Converters, Cancel(k)
    PROVE  Typed'
<1>1. DiskTyped' /\ RowTyped'
  BY DEF Cancel, Typed, DiskTyped, RowTyped
<1>2. RestTyped'
  BY RestStays DEF Cancel, Typed, Events
<1>3. PICK l : l = [loc[k] EXCEPT !.cancelled = TRUE]
  OBVIOUS
<1>4. l \in Locs /\ l.book = loc[k].book /\ Prepared(pc[k], l)
  BY <1>3, Converting DEF Locs, Prepared
<1>5. loc' = [loc EXCEPT ![k] = l] /\ pc' = [pc EXCEPT ![k] = pc[k]]
  BY <1>3, Converting, FitsEach DEF Cancel, Set, Me, Typed
<1>6. pc[k] \in ConvertStages \ {"idle", "lock"}
  BY Converting DEF Cancel
<1> QED BY <1>1, <1>2, <1>4, <1>5, <1>6, ConvertGoesOn DEF Cancel

(* What is known of a job that moves, and what it may go on to.            *)
LEMMA MovingOn ==
    ASSUME Typed, NEW r \in Movers
    PROVE  /\ r \in Actors /\ r \notin Converters
           /\ loc[r] \in Locs /\ pc[r] \in MoveStages /\ Placed(pc[r], loc[r])
           /\ pc[r] # "idle" => loc[r].book \in Books /\ loc[r].book # "none"
           /\ \A x \in MoveStages : x \in Stages
           /\ \A x \in MoveStages, l \in Locs :
                 (x = "idle" <=> l.book = "none") /\ Placed(x, l) => Fits(r, x, l, asked)
<1>1. r \in Actors /\ r \notin Converters
  BY KindOf
<1>2. Fits(r, pc[r], loc[r], asked) /\ loc[r] \in Locs
      /\ (pc[r] # "idle" => loc[r].book \in Books)
  BY <1>1, Marks, KindOf DEF Typed
<1>3. \A x \in MoveStages, l \in Locs :
         (x = "idle" <=> l.book = "none") /\ Placed(x, l) => Fits(r, x, l, asked)
  BY KindOf DEF Fits
<1>4. pc[r] # "idle" => loc[r].book # "none"
  BY <1>2, OneBook
<1>5. pc[r] \in MoveStages /\ Placed(pc[r], loc[r])
  BY <1>2 DEF Fits
<1> QED BY <1>1, <1>2, <1>3, <1>4, <1>5 DEF Stages

(* The step of a job that goes on.                                         *)
LEMMA MoveGoesOn ==
    ASSUME Typed, NEW r \in Movers, NEW x \in MoveStages \ {"idle"}, NEW l \in Locs,
           l.book \in Books, Placed(x, l), asked' = asked,
           loc' = [loc EXCEPT ![r] = l], pc' = [pc EXCEPT ![r] = x],
           converting' = converting, DiskTyped', RowTyped', RestTyped'
    PROVE  Typed'
<1>1. l.book # "none" /\ r \in Actors /\ x \in Stages /\ r \notin Converters
  BY MovingOn, OneBook
<1>2. Fits(r, x, l, asked')
  BY <1>1, MovingOn
<1> QED BY <1>1, <1>2, StepTyped

(* A job that is planned has a book.                                       *)
LEMMA PlanTyped ==
    ASSUME Typed, NEW r \in Movers, NEW b \in Books, Plan(r, b)
    PROVE  Typed'
<1>1. DiskTyped' /\ RowTyped'
  BY DEF Plan, Typed, DiskTyped, RowTyped
<1>2. RestTyped'
  BY RestStays DEF Plan, Typed, Events
<1>3. PICK l : l = [loc[r] EXCEPT !.book = b]
  OBVIOUS
<1>4. l \in Locs /\ l.book = b /\ Placed("queued", l)
  BY <1>3, MovingOn DEF Locs, Placed
<1>5. "queued" \in MoveStages \ {"idle"}
  BY DEF MoveStages
<1> QED BY <1>1, <1>2, <1>3, <1>4, <1>5, MoveGoesOn DEF Plan, Set, Goto, Me

(* A job that begins goes by the path of a row.                            *)
LEMMA StartMoveTyped ==
    ASSUME Typed, NEW r \in Movers, StartMove(r)
    PROVE  Typed'
<1>1. DiskTyped' /\ loc[r].book \in Books
  BY MovingOn DEF StartMove, Typed, DiskTyped
<1>2. row[loc[r].book] \in [status : Statuses, path : Paths]
  BY <1>1 DEF Typed, RowTyped
<1>3. row' = [row EXCEPT ![loc[r].book].status = "processing"]
  BY DEF StartMove, Me
<1>4. RowTyped'
  BY <1>3 DEF Typed, RowTyped, Statuses
<1>5. RestTyped'
  <2>1. shaken' = shaken \/ \E c \in Books : shaken' = shaken \cup {c}
    BY <1>1 DEF StartMove, Begin, Me
  <2> QED BY <2>1, RestStays DEF StartMove, Typed
<1>6. PICK l : l = [loc[r] EXCEPT !.path = row[loc[r].book].path]
  OBVIOUS
<1>7. l \in Locs /\ l.book = loc[r].book /\ Placed("stat", l)
  BY <1>2, <1>6, MovingOn DEF Locs, Placed
<1>8. "stat" \in MoveStages \ {"idle"}
  BY DEF MoveStages
<1> QED BY <1>1, <1>4, <1>5, <1>6, <1>7, <1>8, MoveGoesOn DEF StartMove, Set, Goto, Me

(* A job that fails, or ends, with all else as it was but for the bounds,  *)
(* the disk and the row.                                                   *)
LEMMA MoveEnds ==
    ASSUME Typed, NEW r \in Movers, Stop(r), DiskTyped', RowTyped',
           UNCHANGED <<across, home, asked, shaken, misread, converting>>,
           budget' = budget \/ \E j \in Events \ {"any"} : Spend(j)
    PROVE  Typed'
<1>1. RestTyped'
  BY RestStays DEF Typed
<1> QED BY <1>1, MovingOn, EndTyped

(* A job that fails writes a status that rows can have, and stops.         *)
LEMMA FailTyped ==
    ASSUME Typed, NEW r \in Movers, FailMove(r)
    PROVE  RowTyped' /\ Stop(r)
BY DEF FailMove, Typed, RowTyped, Statuses

(* A job renames the file only if there is one, to a name of its folder.   *)
LEMMA StatTyped ==
    ASSUME Typed, NEW r \in Movers, Stat(r)
    PROVE  Typed'
<1>1. DiskTyped' /\ loc[r].book \in Books
  BY MovingOn DEF Stat, Typed, DiskTyped
<1>2. CASE FailMove(r)
  BY <1>1, <1>2, FailTyped, MoveEnds DEF Stat
<1>3. ASSUME NEW x, UNCHANGED row, Goto(r, x), Set(r, [loc[r] EXCEPT !.target = home[loc[r].book]]),
             x = IF \/ loc[r].path.file = Folder
                    \/ loc[r].path.file = Target(loc[r].path, loc[r].book).file
                 THEN "movedir" ELSE "movefile"
      PROVE  Typed'
  <2>1. home[loc[r].book] \in Names
    BY <1>1 DEF Typed, RestTyped
  <2>2. PICK l : l = [loc[r] EXCEPT !.target = home[loc[r].book]]
    OBVIOUS
  <2>3. l \in Locs /\ l.book = loc[r].book /\ Placed(x, l)
    BY <1>3, <2>1, <2>2, MovingOn DEF Locs, Placed
  <2>4. x \in MoveStages \ {"idle"}
    BY <1>3 DEF MoveStages
  <2>5. RowTyped' /\ RestTyped'
    BY <1>3 DEF Stat, Typed, RowTyped, RestTyped
  <2> QED BY <1>1, <1>3, <2>2, <2>3, <2>4, <2>5, MoveGoesOn DEF Stat, Set, Goto
<1> QED BY <1>2, <1>3 DEF Stat, Me

(* A file is renamed within a folder there is.                             *)
LEMMA MoveFileTyped ==
    ASSUME Typed, NEW r \in Movers, MoveFile(r)
    PROVE  Typed'
<1>1. pc[r] = "movefile" /\ loc[r].book \in Books /\ loc[r].path.file # Folder
      /\ loc[r].path \in Paths /\ loc[r].target \in Names
  BY MovingOn, Marks DEF MoveFile, Placed, Typed
<1>2. CASE FailMove(r) /\ UNCHANGED disk
  <2>1. DiskTyped'
    BY <1>2 DEF MoveFile, Typed, DiskTyped
  <2> QED BY <1>2, <2>1, FailTyped, MoveEnds DEF MoveFile
<1>3. ASSUME Present(loc[r].path), NEW n, n = loc[r].path.dir,
             NEW old, old = loc[r].path.file, NEW new, new = M4b(loc[r].book, loc[r].target),
             disk' = [disk EXCEPT ![n][new] = disk[n][old], ![n][old] = "none"],
             Goto(r, "movedir"), UNCHANGED <<loc, row>>
      PROVE  Typed'
  <2>1. n \in Names /\ n \in dirs /\ old \in FileNames /\ new \in FileNames
    BY <1>1, <1>3, PathFields, FileKinds DEF Present, Typed, DiskTyped
  <2>2. PICK c : c = disk[n][old]
    OBVIOUS
  <2>3. c \in Contents /\ "none" \in Contents
    BY <2>1, <2>2 DEF Typed, DiskTyped, Contents
  <2>4. disk' = [disk EXCEPT ![n][new] = c, ![n][old] = "none"]
    BY <1>3, <2>2
  <2>5. DiskTyped'
    BY <2>1, <2>3, <2>4 DEF Typed, DiskTyped, MoveFile
  <2>6. RowTyped' /\ RestTyped'
    BY <1>3 DEF MoveFile, Typed, RowTyped, RestTyped
  <2>7. Placed("movedir", loc[r]) /\ "movedir" \in MoveStages \ {"idle"}
    BY <1>1 DEF Placed, MoveStages
  <2>8. loc' = [loc EXCEPT ![r] = loc[r]] /\ pc' = [pc EXCEPT ![r] = "movedir"]
    BY <1>3, MovingOn, FitsEach DEF Goto, Typed
  <2> QED BY <1>1, <2>5, <2>6, <2>7, <2>8, MovingOn, MoveGoesOn DEF MoveFile
<1> QED BY <1>2, <1>3 DEF MoveFile, Me

(* A folder that is renamed takes along what is being written in it.       *)
LEMMA MoveDirTyped ==
    ASSUME Typed, NEW r \in Movers, MoveDir(r)
    PROVE  Typed'
<1>1. loc[r].book \in Books /\ loc[r].target \in Names /\ Placed("note", loc[r])
      /\ "note" \in MoveStages \ {"idle"}
  BY MovingOn DEF MoveDir, Placed, MoveStages
<1>2. CASE FailMove(r) /\ UNCHANGED <<dirs, disk>>
  <2>1. DiskTyped'
    BY <1>2 DEF Typed, DiskTyped
  <2> QED BY <1>2, <2>1, FailTyped, MoveEnds DEF MoveDir
<1>3. CASE Goto(r, "note") /\ UNCHANGED <<dirs, disk, loc, row>>
  <2>1. DiskTyped' /\ RowTyped' /\ RestTyped'
    BY <1>3 DEF MoveDir, Typed, DiskTyped, RowTyped, RestTyped
  <2>2. loc' = [loc EXCEPT ![r] = loc[r]] /\ pc' = [pc EXCEPT ![r] = "note"]
    BY <1>3, MovingOn, FitsEach DEF Goto, Typed
  <2> QED BY <1>1, <2>1, <2>2, MovingOn, MoveGoesOn DEF MoveDir
<1>4. ASSUME NEW old, old = loc[r].path.dir, NEW new, new = loc[r].target, old \in dirs,
             dirs' = (dirs \ {old}) \cup {new},
             disk' = [disk EXCEPT ![new] = disk[old], ![old] = Bare],
             loc' = [v \in Actors |-> [loc[v] EXCEPT !.open = IF @ = old THEN new ELSE @]],
             Goto(r, "note"), UNCHANGED row
      PROVE  Typed'
  <2>1. Bare \in [FileNames -> Contents]
    BY DEF Bare, Contents
  <2>2. DiskTyped'
    BY <1>1, <1>4, <2>1 DEF Typed, DiskTyped
  <2>3. RowTyped' /\ RestTyped'
    BY <1>4 DEF MoveDir, Typed, RowTyped, RestTyped
  <2>4. loc \in [Actors -> Locs] /\ pc \in [Actors -> Stages]
    BY FitsEach DEF Typed
  <2>5. ASSUME NEW v \in Actors
        PROVE  /\ loc'[v] \in Locs /\ loc'[v].book = loc[v].book /\ loc'[v].to = loc[v].to
               /\ loc'[v].path = loc[v].path /\ loc'[v].target = loc[v].target
               /\ loc'[v].left = loc[v].left
    <3>1. PICK o : o = IF loc[v].open = old THEN new ELSE loc[v].open
      OBVIOUS
    <3>2. o \in Names \cup {"none"}
      BY <1>1, <1>4, <2>4, <3>1, Marks DEF Typed
    <3>3. loc'[v] = [loc[v] EXCEPT !.open = o]
      BY <1>4, <3>1
    <3>4. loc[v] \in Locs
      BY <2>4
    <3> QED BY <3>2, <3>3, <3>4 DEF Locs
  <2>6. pc' = [pc EXCEPT ![r] = "note"] /\ r \in Actors /\ "note" \in Stages
    BY <1>1, <1>4, MovingOn DEF Goto
  <2>7. loc' \in [Actors -> Locs] /\ pc' \in [Actors -> Stages]
    BY <1>4, <2>4, <2>5, <2>6
  <2>8. ASSUME NEW v \in Actors
        PROVE  Fits(v, pc'[v], loc'[v], asked')
    <3>1. Fits(v, pc[v], loc[v], asked)
      BY FitsEach DEF Typed
    <3>2. CASE v # r
      <4>1. pc'[v] = pc[v]
        BY <2>4, <2>6, <3>2
      <4> QED BY <2>5, <3>1, <4>1 DEF Fits, Prepared, Placed, MoveDir
    <3>3. CASE v = r
      <4>1. pc'[v] = "note"
        BY <2>4, <2>6, <3>3
      <4>2. Placed("note", loc'[v])
        BY <1>1, <2>5, <3>3 DEF Placed
      <4>3. loc'[v].book # "none"
        BY <1>1, <2>5, <3>3, OneBook
      <4> QED BY <1>1, <2>5, <3>3, <4>1, <4>2, <4>3, KindOf DEF Fits
    <3> QED BY <3>2, <3>3
  <2>9. ActorsFit'
    BY <2>7, <2>8, FitsEachNext
  <2>10. \A k \in Converters : pc'[k] = pc[k] /\ loc'[k].book = loc[k].book
    <3> TAKE k \in Converters
    <3>1. k \in Actors /\ k # r
      BY KindOf
    <3> QED BY <2>4, <2>5, <2>6, <3>1
  <2>11. LockKept'
    BY <2>10 DEF Typed, LockKept, MoveDir
  <2> QED BY <2>2, <2>3, <2>9, <2>11 DEF Typed
<1> QED BY <1>2, <1>3, <1>4 DEF MoveDir, Me

(* The row is complete at the place the job moved to, or failed.           *)
LEMMA NoteMoveTyped ==
    ASSUME Typed, NEW r \in Movers, NoteMove(r)
    PROVE  Typed'
<1>1. DiskTyped' /\ loc[r].book \in Books /\ loc[r].target \in Names
  BY MovingOn DEF NoteMove, Typed, DiskTyped, Placed
<1>2. PICK e : e = At(loc[r].target, IF loc[r].path.file = Folder THEN Folder
                                     ELSE M4b(loc[r].book, loc[r].target))
  OBVIOUS
<1>3. e \in [status : Statuses, path : Paths]
  BY <1>1, <1>2, FileKinds DEF At, Statuses, Paths
<1>4. CASE row' = [row EXCEPT ![loc[r].book] = e] /\ Stop(r) /\ UNCHANGED budget
  <2>1. RowTyped'
    BY <1>3, <1>4 DEF Typed, RowTyped
  <2> QED BY <1>1, <1>4, <2>1, MoveEnds DEF NoteMove
<1>5. CASE Spend("db") /\ FailMove(r)
  BY <1>1, <1>5, FailTyped, MoveEnds DEF NoteMove, Events
<1> QED BY <1>2, <1>4, <1>5 DEF NoteMove, Me

(* Who deletes has a book whose files were asked to be deleted.            *)
LEMMA ReadEraseTyped ==
    ASSUME Typed, NEW e \in Erasers, NEW b \in Books, ReadErase(e, b)
    PROVE  Typed'
<1>1. DiskTyped' /\ RowTyped' /\ e \in Actors /\ e \notin Converters
  BY KindOf DEF ReadErase, Typed, DiskTyped, RowTyped
<1>2. RestTyped'
  <2>1. /\ budget' \in [Events -> Nat]
        /\ \A j \in Events : budget'[j] <= Budget[j]
    BY SpendTyped DEF ReadErase, Typed, RestTyped, Events
  <2> QED BY <2>1 DEF ReadErase, Begin, Typed, RestTyped
<1>3. PICK l : l = [loc[e] EXCEPT !.book = b, !.path = row[b].path]
  OBVIOUS
<1>4. row[b].path \in Paths
  BY DEF Typed, RowTyped
<1>5. l \in Locs /\ l.book = b
  BY <1>1, <1>3, <1>4, Marks DEF Locs, Typed
<1>6. Fits(e, "remove", l, asked') /\ "remove" \in Stages
  BY <1>5, KindOf, OneBook DEF Fits, ReadErase, Stages
<1> QED BY <1>1, <1>2, <1>3, <1>6, StepTyped DEF ReadErase, Set, Goto, Me

(* A folder that goes is left bare.                                        *)
LEMMA RemoveTyped ==
    ASSUME Typed, NEW e \in Erasers, RemoveBookPath(e)
    PROVE  Typed'
<1>1. RowTyped' /\ RestTyped' /\ e \in Actors /\ e \notin Converters
  BY KindOf DEF RemoveBookPath, Typed, RowTyped, RestTyped
<1>2. PICK p \in Paths : p = loc[e].path
  BY <1>1, Marks DEF Typed
<1>3. DiskTyped'
  <2>1. CASE UNCHANGED <<dirs, disk>>
    BY <2>1 DEF Typed, DiskTyped
  <2>2. CASE dirs' = dirs \ {p.dir} /\ disk' = [disk EXCEPT ![p.dir] = Bare]
    <3>1. Bare \in [FileNames -> Contents]
      BY DEF Bare, Contents
    <3> QED BY <2>2, <3>1 DEF Typed, DiskTyped
  <2>3. ASSUME p.dir \in dirs, p.file \in FileNames, Write(p.dir, p.file, "none"),
               dirs' = IF \A f \in FileNames \ {p.file} : disk[p.dir][f] = "none"
                       THEN dirs \ {p.dir} ELSE dirs
        PROVE  DiskTyped'
    <3>1. disk' = [disk EXCEPT ![p.dir] = [disk[p.dir] EXCEPT ![p.file] = "none"]]
      BY <2>3 DEF Write
    <3>2. "none" \in Contents /\ p.dir \in Names
      BY <2>3 DEF Contents, Typed, DiskTyped
    <3>3. disk' \in [Names -> [FileNames -> Contents]]
      BY <2>3, <3>1, <3>2 DEF Typed, DiskTyped
    <3>4. ASSUME \A f \in FileNames \ {p.file} : disk[p.dir][f] = "none"
          PROVE  disk'[p.dir] = Bare
      <4>1. disk[p.dir] \in [FileNames -> Contents]
        BY <3>2 DEF Typed, DiskTyped
      <4>2. disk'[p.dir] = [disk[p.dir] EXCEPT ![p.file] = "none"]
        BY <3>1, <3>2 DEF Typed, DiskTyped
      <4>3. \A f \in FileNames : disk'[p.dir][f] = "none"
        BY <3>4, <4>1, <4>2
      <4> QED BY <4>1, <4>2, <4>3 DEF Bare
    <3>5. \A n \in Names : n # p.dir => disk'[n] = disk[n]
      BY <3>1 DEF Typed, DiskTyped
    <3> QED BY <2>3, <3>2, <3>3, <3>4, <3>5 DEF Typed, DiskTyped
  <2>4. Present(p) => p.dir \in dirs
    BY DEF Present
  <2> QED BY <1>2, <2>1, <2>2, <2>3, <2>4, PathFields DEF RemoveBookPath, Me
<1>4. Fits(e, "reset", loc[e], asked') /\ "reset" \in Stages
  BY <1>1, Marks, KindOf DEF Typed, Fits, RemoveBookPath, Stages
<1>5. loc' = [loc EXCEPT ![e] = loc[e]] /\ pc' = [pc EXCEPT ![e] = "reset"]
  BY <1>1, FitsEach DEF RemoveBookPath, Goto, Typed
<1> QED BY <1>1, <1>3, <1>4, <1>5, StepTyped DEF RemoveBookPath

(* A row that is reset is new and names nothing.                           *)
LEMMA ResetTyped ==
    ASSUME Typed, NEW e \in Erasers, Reset(e)
    PROVE  Typed'
<1>1. DiskTyped' /\ e \in Actors
  BY KindOf DEF Reset, Typed, DiskTyped
<1>2. RestTyped'
  BY RestStays DEF Reset, Typed, Events
<1>3. RowTyped'
  BY IdleTyped DEF Reset, Typed, RowTyped, Statuses
<1> QED BY <1>1, <1>2, <1>3, EndTyped DEF Reset

(* What is known of a repair of the tags, and what it may go on to.        *)
LEMMA Tagging ==
    ASSUME Typed, NEW t \in Taggers
    PROVE  /\ t \in Actors /\ t \notin Converters /\ Temp(t) \in FileNames
           /\ loc[t] \in Locs /\ pc[t] \in TagStages
           /\ pc[t] # "idle" => /\ loc[t].book \in Books /\ loc[t].book # "none"
                                /\ loc[t].path.file \in FileNames
           /\ \A x \in TagStages : x \in Stages
           /\ \A x \in TagStages \ {"idle"}, l \in Locs :
                 l.book # "none" /\ l.path.file # Folder => Fits(t, x, l, asked)
<1>1. t \in Actors /\ t \notin Converters
  BY KindOf
<1>2. Fits(t, pc[t], loc[t], asked) /\ loc[t] \in Locs /\ loc[t].path \in Paths
      /\ (pc[t] # "idle" => loc[t].book \in Books)
  BY <1>1, Marks, KindOf DEF Typed
<1>3. \A x \in TagStages \ {"idle"}, l \in Locs :
         l.book # "none" /\ l.path.file # Folder => Fits(t, x, l, asked)
  BY KindOf DEF Fits
<1>4. pc[t] # "idle" => loc[t].book # "none"
  BY <1>2, OneBook
<1>5. pc[t] \in TagStages /\ (pc[t] # "idle" => loc[t].path.file \in FileNames)
  BY <1>2, PathFields DEF Fits
<1>6. Temp(t) \in FileNames
  BY DEF FileNames
<1> QED BY <1>1, <1>2, <1>3, <1>4, <1>5, <1>6 DEF Stages

(* The step of a repair that goes on.                                      *)
LEMMA TagGoesOn ==
    ASSUME Typed, NEW t \in Taggers, NEW x \in TagStages \ {"idle"}, NEW l \in Locs,
           l.book \in Books, l.path.file # Folder, asked' = asked,
           loc' = [loc EXCEPT ![t] = l], pc' = [pc EXCEPT ![t] = x],
           converting' = converting, DiskTyped', RowTyped', RestTyped'
    PROVE  Typed'
<1>1. l.book # "none" /\ t \in Actors /\ x \in Stages /\ t \notin Converters
  BY Tagging, OneBook
<1>2. Fits(t, x, l, asked')
  BY <1>1, Tagging
<1> QED BY <1>1, <1>2, StepTyped

(* A repair has the path of an m4b.                                        *)
LEMMA ListBooksTyped ==
    ASSUME Typed, NEW t \in Taggers, NEW b \in Books, ListBooks(t, b)
    PROVE  Typed'
<1>1. DiskTyped' /\ RowTyped'
  BY DEF ListBooks, Typed, DiskTyped, RowTyped
<1>2. RestTyped'
  BY RestStays DEF ListBooks, Typed, Events
<1>3. PICK l : l = [loc[t] EXCEPT !.book = b, !.path = row[b].path]
  OBVIOUS
<1>4. row[b].path \in Paths /\ row[b].path.file # Folder
  BY DEF Typed, RowTyped, ListBooks
<1>5. l \in Locs /\ l.book = b /\ l.path.file # Folder
  BY <1>3, <1>4, Tagging DEF Locs
<1>6. "tag" \in TagStages \ {"idle"}
  BY DEF TagStages
<1> QED BY <1>1, <1>2, <1>3, <1>5, <1>6, TagGoesOn DEF ListBooks, Set, Goto, Me

(* A repair writes beside the m4b, in a folder there is.                   *)
LEMMA StartTempTyped ==
    ASSUME Typed, NEW t \in Taggers, StartTemp(t)
    PROVE  Typed'
<1>1. /\ RowTyped' /\ loc[t].book \in Books /\ loc[t].path.file \in FileNames
      /\ loc[t].path.file # Folder
  BY Tagging, FileKinds DEF StartTemp, Typed, RowTyped
<1>2. RestTyped'
  BY <1>1 DEF StartTemp, Typed, RestTyped, Me
<1>3. CASE Stop(t) /\ UNCHANGED <<disk, misread>>
  <2>1. DiskTyped'
    BY <1>3 DEF StartTemp, Typed, DiskTyped
  <2> QED BY <1>1, <1>2, <1>3, <2>1, Tagging, EndTyped DEF StartTemp
<1>4. ASSUME Present(loc[t].path), NEW n, n = loc[t].path.dir, Write(n, Temp(t), "part"),
             NEW c, c = Holds(n, loc[t].path.file),
             Set(t, [loc[t] EXCEPT !.open = n, !.staged = c]), Goto(t, "embed")
      PROVE  Typed'
  <2>1. n \in dirs /\ n \in Names /\ "part" \in Contents
    BY <1>4 DEF Present, Typed, DiskTyped, Contents
  <2>2. DiskTyped'
    BY <1>4, <2>1, Tagging, WriteTyped DEF StartTemp, Typed
  <2>3. c \in Contents
    BY <1>1, <1>4, <2>1, HoldsIs DEF Typed
  <2>4. PICK l : l = [loc[t] EXCEPT !.open = n, !.staged = c]
    OBVIOUS
  <2>5. l \in Locs /\ l.book = loc[t].book /\ l.path.file # Folder
    BY <1>1, <2>1, <2>3, <2>4, Tagging DEF Locs
  <2>6. "embed" \in TagStages \ {"idle"}
    BY DEF TagStages
  <2> QED BY <1>1, <1>2, <1>4, <2>2, <2>4, <2>5, <2>6, TagGoesOn DEF StartTemp, Set, Goto
<1> QED BY <1>3, <1>4 DEF StartTemp, Me

(* A repair that goes on with its marks as they are.                       *)
LEMMA TagSteps ==
    ASSUME Typed, NEW t \in Taggers, NEW x \in TagStages \ {"idle"}, pc[t] # "idle",
           loc' = loc, Goto(t, x), asked' = asked,
           converting' = converting, DiskTyped', RowTyped', RestTyped'
    PROVE  Typed'
<1>1. loc' = [loc EXCEPT ![t] = loc[t]] /\ pc' = [pc EXCEPT ![t] = x]
  BY Tagging, FitsEach DEF Goto, Typed
<1>2. loc[t].path.file # Folder /\ loc[t].book \in Books
  BY Tagging, FileKinds
<1> QED BY <1>1, <1>2, Tagging, TagGoesOn

(* A repair writes what it read, if its file is still there.               *)
LEMMA EmbedTyped ==
    ASSUME Typed, NEW t \in Taggers, EmbedMetadata(t)
    PROVE  Typed'
<1>1. RowTyped' /\ loc[t].staged \in Contents
  BY Tagging, Marks DEF EmbedMetadata, Typed, RowTyped
<1>2. RestTyped'
  BY RestStays DEF EmbedMetadata, Typed, Events
<1>3. DiskTyped'
  <2>1. CASE UNCHANGED disk
    BY <2>1 DEF EmbedMetadata, Typed, DiskTyped
  <2>2. CASE loc[t].open \in dirs /\ Write(loc[t].open, Temp(t), loc[t].staged)
    BY <1>1, <2>2, Tagging, WriteTyped DEF EmbedMetadata, Typed
  <2>3. Holds(loc[t].open, Temp(t)) = "part" => loc[t].open \in dirs
    BY DEF Holds
  <2> QED BY <2>1, <2>2, <2>3 DEF EmbedMetadata, Me
<1>4. "replace" \in TagStages \ {"idle"} /\ "untemp" \in TagStages \ {"idle"}
  BY DEF TagStages
<1> QED BY <1>1, <1>2, <1>3, <1>4, TagSteps DEF EmbedMetadata

(* A repair puts its file in place only where there is one.                *)
LEMMA ReplaceTyped ==
    ASSUME Typed, NEW t \in Taggers, Replace(t)
    PROVE  Typed'
<1>1. /\ RowTyped' /\ RestTyped' /\ loc[t].path.file \in FileNames /\ Temp(t) \in FileNames
      /\ loc[t].path \in Paths
  BY Tagging, Marks DEF Replace, Typed, RowTyped, RestTyped
<1>2. PICK n : n = loc[t].path.dir
  OBVIOUS
<1>3. CASE Goto(t, "untemp") /\ UNCHANGED <<disk, loc>>
  <2>1. DiskTyped'
    BY <1>3 DEF Replace, Typed, DiskTyped
  <2>2. "untemp" \in TagStages \ {"idle"}
    BY DEF TagStages
  <2> QED BY <1>1, <1>3, <2>1, <2>2, TagSteps DEF Replace
<1>4. ASSUME Holds(n, Temp(t)) # "none", Stop(t),
             disk' = [disk EXCEPT ![n][loc[t].path.file] = disk[n][Temp(t)],
                                  ![n][Temp(t)] = "none"]
      PROVE  Typed'
  <2>1. n \in dirs /\ n \in Names
    BY <1>4 DEF Holds, Typed, DiskTyped
  <2>2. PICK c : c = disk[n][Temp(t)]
    OBVIOUS
  <2>3. c \in Contents /\ "none" \in Contents
    BY <1>1, <2>1, <2>2 DEF Typed, DiskTyped, Contents
  <2>4. disk' = [disk EXCEPT ![n][loc[t].path.file] = c, ![n][Temp(t)] = "none"]
    BY <1>4, <2>2
  <2>5. DiskTyped'
    BY <1>1, <2>1, <2>3, <2>4 DEF Typed, DiskTyped, Replace
  <2> QED BY <1>1, <1>4, <2>5, Tagging, EndTyped DEF Replace
<1> QED BY <1>2, <1>3, <1>4 DEF Replace, Me

(* A repair that failed removes its file from a folder there is.           *)
LEMMA RemoveTempTyped ==
    ASSUME Typed, NEW t \in Taggers, RemoveTemp(t)
    PROVE  Typed'
<1>1. RowTyped' /\ RestTyped' /\ "none" \in Contents
  BY DEF RemoveTemp, Typed, RowTyped, RestTyped, Contents
<1>2. DiskTyped'
  <2>1. CASE UNCHANGED disk
    BY <2>1 DEF RemoveTemp, Typed, DiskTyped
  <2>2. CASE loc[t].path.dir \in dirs /\ Write(loc[t].path.dir, Temp(t), "none")
    BY <1>1, <2>2, Tagging, WriteTyped DEF RemoveTemp, Typed
  <2> QED BY <2>1, <2>2 DEF RemoveTemp, Me
<1> QED BY <1>1, <1>2, Tagging, EndTyped DEF RemoveTemp

(* Who fetches metadata keeps a status and a path of a row,                *)
LEMMA ReadResyncTyped ==
    ASSUME Typed, NEW s \in Refreshers, NEW b \in Books, ReadResync(s, b)
    PROVE  Typed'
<1>1. DiskTyped' /\ RowTyped' /\ s \in Actors /\ s \notin Converters
  BY KindOf DEF ReadResync, Typed, DiskTyped, RowTyped
<1>2. RestTyped'
  <2>1. shaken' = shaken \/ \E c \in Books : shaken' = shaken \cup {c}
    BY DEF ReadResync, Begin
  <2> QED BY <2>1, RestStays DEF ReadResync, Typed, Events
<1>3. PICK l : l = [loc[s] EXCEPT !.book = b, !.path = row[b].path, !.was = row[b].status]
  OBVIOUS
<1>4. row[b].path \in Paths /\ row[b].status \in Statuses
  BY DEF Typed, RowTyped
<1>5. l \in Locs /\ l.book = b
  BY <1>1, <1>3, <1>4, Marks DEF Locs, Typed
<1>6. Fits(s, "fetch", l, asked') /\ "fetch" \in Stages
  BY <1>5, KindOf, OneBook DEF Fits, Stages
<1> QED BY <1>1, <1>2, <1>3, <1>6, StepTyped DEF ReadResync, Set, Goto, Me

(* which it puts back.                                                     *)
LEMMA SaveMetadataTyped ==
    ASSUME Typed, NEW s \in Refreshers, SaveMetadata(s)
    PROVE  Typed'
<1>1. DiskTyped' /\ s \in Actors /\ loc[s].path \in Paths /\ loc[s].was \in Statuses
      /\ loc[s].book \in Books
  BY KindOf, Marks DEF SaveMetadata, Typed, DiskTyped
<1>2. RowTyped'
  BY <1>1 DEF SaveMetadata, Typed, RowTyped, Me
<1>3. home' \in [Books -> Names]
  BY DEF SaveMetadata, Typed, RestTyped
<1>4. /\ budget' \in [Events -> Nat]
      /\ \A j \in Events : budget'[j] <= Budget[j]
  BY SpendTyped DEF SaveMetadata, Typed, RestTyped, Events
<1>5. RestTyped'
  BY <1>3, <1>4 DEF SaveMetadata, Typed, RestTyped
<1> QED BY <1>1, <1>2, <1>5, EndTyped DEF SaveMetadata

(* A scan finds files of folders.                                          *)
LEMMA WalkTyped ==
    ASSUME Typed, NEW q \in Scanners, Walk(q)
    PROVE  Typed'
<1>1. DiskTyped' /\ RowTyped' /\ q \in Actors /\ q \notin Converters
  BY KindOf DEF Walk, Typed, DiskTyped, RowTyped
<1>2. /\ budget' \in [Events -> Nat]
      /\ \A j \in Events : budget'[j] <= Budget[j]
  BY SpendTyped DEF Walk, Typed, RestTyped, Events
<1>3. RestTyped'
  BY <1>2 DEF Walk, Typed, RestTyped
<1>4. PICK found : found = {x \in dirs \X FileNames : Holds(x[1], x[2]) # "none"}
  OBVIOUS
<1>5. found \in SUBSET (Names \X FileNames)
  BY <1>4 DEF Typed, DiskTyped
<1>6. PICK l : l = [loc[q] EXCEPT !.found = found]
  OBVIOUS
<1>7. l \in Locs /\ l.book = loc[q].book
  BY <1>1, <1>5, <1>6, Marks DEF Locs, Typed
<1>8. Fits(q, "match", l, asked') /\ "match" \in Stages
  BY <1>1, <1>7, Marks, KindOf DEF Fits, Stages, Typed
<1> QED BY <1>1, <1>3, <1>4, <1>6, <1>8, StepTyped DEF Walk, Set, Goto, Me

(* A scan writes paths and statuses that rows can have.                    *)
LEMMA ReconcileTyped ==
    ASSUME Typed, NEW q \in Scanners, Reconcile(q)
    PROVE  Typed'
<1>1. DiskTyped' /\ q \in Actors
  BY KindOf DEF Reconcile, Typed, DiskTyped
<1>2. /\ budget' \in [Events -> Nat]
      /\ \A j \in Events : budget'[j] <= Budget[j]
  BY SpendTyped DEF Reconcile, Typed, RestTyped, Events
<1>3. RestTyped'
  BY <1>2 DEF Reconcile, Typed, RestTyped
<1>4. RowTyped'
  <2>1. ASSUME NEW best \in [Books -> Paths],
               row' = [b \in Books |-> Reconciled(b, best[b])]
        PROVE  RowTyped'
    <3>1. \A b \in Books : Reconciled(b, best[b]) \in [status : Statuses, path : Paths]
      BY IdleTyped DEF Reconciled, Typed, RowTyped, Statuses
    <3> QED BY <2>1, <3>1 DEF RowTyped
  <2>2. CASE UNCHANGED row
    BY <2>2 DEF Typed, RowTyped
  <2> QED BY <2>1, <2>2 DEF Reconcile
<1> QED BY <1>1, <1>3, <1>4, EndTyped DEF Reconcile

(* The templates give another name.                                        *)
LEMMA RetitleTyped ==
    ASSUME Typed, NEW b \in Books, Retitle(b)
    PROVE  Typed'
<1>1. DiskTyped' /\ RowTyped' /\ ActorsFit' /\ LockKept'
  BY DEF Retitle, Typed, DiskTyped, RowTyped, ActorsFit, ActorsTyped, KindsKept, LockKept
<1>2. /\ budget' \in [Events -> Nat]
      /\ \A j \in Events : budget'[j] <= Budget[j]
  BY SpendTyped DEF Retitle, Typed, RestTyped, Events
<1>3. RestTyped'
  BY <1>2 DEF Retitle, Typed, RestTyped
<1> QED BY <1>1, <1>3 DEF Typed

(* After a restart all are idle, and nothing is locked.                    *)
LEMMA CrashTyped ==
    ASSUME Typed, Crash
    PROVE  Typed'
<1>1. DiskTyped' /\ RowTyped'
  BY DEF Crash, Typed, DiskTyped, RowTyped
<1>2. /\ budget' \in [Events -> Nat]
      /\ \A j \in Events : budget'[j] <= Budget[j]
  BY SpendTyped DEF Crash, Typed, RestTyped, Events
<1>3. RestTyped'
  BY <1>2 DEF Crash, Typed, RestTyped
<1>4. "idle" \in Stages
  BY DEF Stages, ConvertStages
<1>5. loc' \in [Actors -> Locs] /\ pc' \in [Actors -> Stages]
      /\ \A v \in Actors : loc'[v] = Idle /\ pc'[v] = "idle"
  BY <1>4, IdleTyped DEF Crash
<1>6. \A v \in Actors : Fits(v, "idle", Idle, asked')
  BY IdleTyped DEF Fits, ConvertStages, MoveStages, TagStages, Prepared, Placed
<1>7. ActorsFit'
  BY <1>5, <1>6, FitsEachNext
<1>8. LockKept'
  BY <1>5, KindOf DEF LockKept
<1> QED BY <1>1, <1>3, <1>7, <1>8 DEF Typed

(* At the start all types are right.                                       *)
LEMMA InitTyped == Init => Typed
<1> SUFFICES ASSUME Init PROVE Typed
  OBVIOUS
<1>1. PICK n \in Names, kind \in Shelved :
         /\ dirs = {n}
         /\ disk = [m \in Names |-> IF m = n THEN Lay(n, kind) ELSE Bare]
         /\ row = [b \in Books |-> At(n, IF kind = "mp3" THEN Folder ELSE M4b(b, n))]
         /\ home = [b \in Books |-> n]
  BY DEF Init
<1>2. Bare \in [FileNames -> Contents]
  BY DEF Bare, Contents
<1>3. (CHOOSE b \in Books : TRUE) \in Books
  BY FilesAssumption
<1>4. Lay(n, kind) \in [FileNames -> Contents]
  BY <1>3 DEF Lay, Contents
<1>5. DiskTyped
  BY <1>1, <1>2, <1>4 DEF DiskTyped
<1>6. \A b \in Books : At(n, IF kind = "mp3" THEN Folder ELSE M4b(b, n))
                          \in [status : Statuses, path : Paths]
  BY FileKinds DEF At, Statuses, Paths
<1>7. RowTyped
  BY <1>1, <1>6 DEF RowTyped
<1>8. RestTyped
  BY <1>1, FilesAssumption DEF Init, RestTyped
<1>9. "idle" \in Stages
  BY DEF Stages, ConvertStages
<1>10. loc \in [Actors -> Locs] /\ pc \in [Actors -> Stages]
       /\ \A v \in Actors : loc[v] = Idle /\ pc[v] = "idle"
  BY <1>9, IdleTyped DEF Init
<1>11. \A v \in Actors : Fits(v, "idle", Idle, asked)
  BY IdleTyped DEF Fits, ConvertStages, MoveStages, TagStages, Prepared, Placed
<1>12. ActorsFit
  BY <1>10, <1>11, FitsEach
<1>13. LockKept
  BY <1>10, KindOf DEF LockKept
<1> QED BY <1>5, <1>7, <1>8, <1>12, <1>13 DEF Typed

(* Every step keeps the types, the kinds and the lock.                     *)
LEMMA TypedStep ==
    ASSUME Typed, [Next]_vars
    PROVE  Typed'
<1>1. CASE UNCHANGED vars
  BY <1>1 DEF vars, Typed, DiskTyped, RowTyped, RestTyped, ActorsFit, ActorsTyped, KindsKept,
     LockKept
<1>2. ASSUME NEW k \in Converters, ConvertStep(k)
      PROVE  Typed'
  BY <1>2, LockTyped, LayoutTyped, SplitTyped, ListTyped, ConcatTyped, MakeFolderTyped,
     MoveInTyped, CopiedTyped, RecordTyped, DropOldTyped DEF ConvertStep
<1>3. ASSUME NEW r \in Movers, MoveStep(r)
      PROVE  Typed'
  BY <1>3, StartMoveTyped, StatTyped, MoveFileTyped, MoveDirTyped, NoteMoveTyped DEF MoveStep
<1>4. ASSUME NEW e \in Erasers, EraseStep(e)
      PROVE  Typed'
  BY <1>4, RemoveTyped, ResetTyped DEF EraseStep
<1>5. ASSUME NEW t \in Taggers, TagStep(t)
      PROVE  Typed'
  BY <1>5, StartTempTyped, EmbedTyped, ReplaceTyped, RemoveTempTyped DEF TagStep
<1> QED BY <1>1, <1>2, <1>3, <1>4, <1>5, GetBookTyped, CancelTyped, PlanTyped,
           ReadEraseTyped, ListBooksTyped, ReadResyncTyped, SaveMetadataTyped, WalkTyped,
           ReconcileTyped, RetitleTyped, CrashTyped DEF Next

(* Types, what each kind of actor can be at, and the lock of a conversion, *)
(* hold in every state.                                                    *)
THEOREM FilesTyped == Spec => []FilesTypeOK
<1>1. Init => Typed
  BY InitTyped
<1>2. Typed /\ [Next]_vars => Typed'
  BY TypedStep
<1>3. Typed => FilesTypeOK
  BY TypedIs
<1> QED BY <1>1, <1>2, <1>3, PTL DEF Spec

-----------------------------------------------------------------------------
(* What has been, and what is on the disk *)

(* What was asked, shaken or misread stays so, and no event comes back.    *)
Grows ==
    /\ asked \subseteq asked' /\ shaken \subseteq shaken' /\ misread \subseteq misread'
    /\ budget' = budget \/ \E j \in Events \ {"any"} : Spend(j)

(* No step undoes a mark or gives back what it spent.                      *)
LEMMA EachGrows ==
    ASSUME [Next]_vars
    PROVE  Grows
<1>1. CASE UNCHANGED vars
  BY <1>1 DEF vars, Grows
<1>2. ASSUME NEW k \in Converters, ConvertStep(k)
      PROVE  Grows
  BY <1>2 DEF Grows, ConvertStep, Lock, MarkStale, Layout, Split, ListChapters, Concat,
     MakeFolder, MoveIn, Copied, Record, DropOld, Events
<1>3. ASSUME NEW k \in Converters, Cancel(k)
      PROVE  Grows
  BY <1>3 DEF Grows, Cancel, Events
<1>4. ASSUME NEW k \in Converters, NEW b \in Books, NEW to \in {"m4b", "mp3"}, GetBook(k, b, to)
      PROVE  Grows
  BY <1>4 DEF Grows, GetBook, Begin, Events
<1>5. ASSUME NEW r \in Movers, MoveStep(r) \/ \E b \in Books : Plan(r, b)
      PROVE  Grows
  BY <1>5 DEF Grows, MoveStep, StartMove, Begin, Stat, MoveFile, MoveDir, NoteMove, Plan, Events
<1>6. ASSUME NEW e \in Erasers, EraseStep(e) \/ \E b \in Books : ReadErase(e, b)
      PROVE  Grows
  BY <1>6 DEF Grows, EraseStep, RemoveBookPath, Reset, ReadErase, Begin, Events
<1>7. ASSUME NEW t \in Taggers, TagStep(t) \/ \E b \in Books : ListBooks(t, b)
      PROVE  Grows
  BY <1>7 DEF Grows, TagStep, StartTemp, EmbedMetadata, Replace, RemoveTemp, ListBooks, Events
<1>8. ASSUME NEW s \in Refreshers, SaveMetadata(s) \/ \E b \in Books : ReadResync(s, b)
      PROVE  Grows
  BY <1>8 DEF Grows, SaveMetadata, ReadResync, Begin, Events
<1>9. ASSUME NEW q \in Scanners, Walk(q) \/ Reconcile(q)
      PROVE  Grows
  BY <1>9 DEF Grows, Walk, Reconcile, Events
<1>10. CASE Crash \/ \E b \in Books : Retitle(b)
  BY <1>10 DEF Grows, Crash, Retitle, Events
<1> QED BY <1>1, <1>2, <1>3, <1>4, <1>5, <1>6, <1>7, <1>8, <1>9, <1>10 DEF Next

(* A book that is apart has been, and what is smooth has been.             *)
LEMMA ApartBefore ==
    ASSUME Typed, [Next]_vars
    PROVE  /\ \A j \in Events : Spared(j)' => Spared(j)
           /\ \A b \in Apart' : b \in Apart /\ b \in Books
           /\ Smooth' => Smooth
<1>1. \A j \in Events : Spared(j)' => Spared(j)
  BY EachGrows, SpendTyped DEF Grows, Typed, RestTyped, Spared
<1>2. {"db", "fail", "crash", "retag", "cancel"} \subseteq Events
  BY DEF Events
<1>3. \A b \in Apart' : b \in Apart /\ b \in Books
  BY <1>1, <1>2, EachGrows DEF Grows, Apart
<1>4. Smooth' => Smooth
  BY <1>1, <1>2 DEF Smooth
<1> QED BY <1>1, <1>3, <1>4

(* What no longer is spared did not happen.                                *)
LEMMA SparedNow ==
    ASSUME Typed, NEW k \in Events, k # "any", Spared(k)'
    PROVE  ~Spend(k)
BY SpendTyped DEF Typed, RestTyped

(* Whole and present, in terms of the disk alone.                          *)
LEMMA WholeIs ==
    ASSUME DiskTyped, NEW b \in Books, NEW p \in Paths
    PROVE  /\ Whole(p, b) <=> p.dir \in Names /\ \A f \in Parts(p) : disk[p.dir][f] = b
           /\ Whole(p, b) => p.dir \in dirs /\ Present(p)
           /\ Present(p) <=> p.dir \in dirs /\ (p.file # Folder => disk[p.dir][p.file] # "none")
<1>1. b # "none" /\ Chapter(1) \in ChapterFiles /\ ChapterFiles \subseteq FileNames
  BY OneBook, FileKinds
<1>2. \A f \in FileNames : p.dir \in Names => Holds(p.dir, f) = disk[p.dir][f]
                          /\ (disk[p.dir][f] # "none" => p.dir \in dirs)
  BY HoldsIs
<1>3. p.dir \in dirs => p.dir \in Names
  BY DEF DiskTyped
<1>4. p.dir \in Names \cup {"none"} /\ p.file \in FileNames \cup {Folder}
  BY PathFields
<1>5. Whole(p, b) <=> p.dir \in Names /\ \A f \in Parts(p) : disk[p.dir][f] = b
  <2>1. CASE p.file = Folder
    BY <1>1, <1>2, <1>3, <2>1 DEF Whole, Parts
  <2>2. CASE p.file # Folder
    BY <1>1, <1>2, <1>3, <1>4, <2>2 DEF Whole, Parts
  <2> QED BY <2>1, <2>2
<1>6. Present(p) <=> p.dir \in dirs /\ (p.file # Folder => disk[p.dir][p.file] # "none")
  BY <1>2, <1>3, <1>4 DEF Present
<1>7. Whole(p, b) => p.dir \in dirs /\ Present(p)
  <2>1. Whole(p, b) => p.dir \in dirs
    BY DEF Whole
  <2>2. Whole(p, b) /\ p.file # Folder => disk[p.dir][p.file] = b
    BY <1>5 DEF Parts
  <2> QED BY <2>1, <2>2, <1>1, <1>6
<1> QED BY <1>5, <1>6, <1>7

(* So it is after a step.                                                  *)
LEMMA HoldsIsNext ==
    ASSUME DiskTyped', NEW n \in Names \cup {"none"}, NEW f \in FileNames
    PROVE  /\ n \in Names => Holds(n, f)' = disk'[n][f] /\ disk'[n][f] \in Contents
           /\ Holds(n, f)' # "none" => n \in dirs'
<1>1. n \in Names \ dirs' => disk'[n][f] = "none"
  BY DEF DiskTyped, Bare
<1>2. n \in Names => disk'[n][f] \in Contents
  BY DEF DiskTyped
<1> QED BY <1>1, <1>2 DEF Holds, DiskTyped

(* So it is after a step.                                                  *)
LEMMA WholeIsNext ==
    ASSUME DiskTyped', NEW b \in Books, NEW p \in Paths
    PROVE  /\ Whole(p, b)' <=> p.dir \in Names /\ \A f \in Parts(p) : disk'[p.dir][f] = b
           /\ Whole(p, b)' => p.dir \in dirs' /\ Present(p)'
           /\ Present(p)' <=>
                 p.dir \in dirs' /\ (p.file # Folder => disk'[p.dir][p.file] # "none")
<1>1. b # "none" /\ Chapter(1) \in ChapterFiles /\ ChapterFiles \subseteq FileNames
  BY OneBook, FileKinds
<1>2. \A f \in FileNames : p.dir \in Names => Holds(p.dir, f)' = disk'[p.dir][f]
                          /\ (disk'[p.dir][f] # "none" => p.dir \in dirs')
  BY HoldsIsNext
<1>3. p.dir \in dirs' => p.dir \in Names
  BY DEF DiskTyped
<1>4. p.dir \in Names \cup {"none"} /\ p.file \in FileNames \cup {Folder}
  BY PathFields
<1>5. Whole(p, b)' <=> p.dir \in Names /\ \A f \in Parts(p) : disk'[p.dir][f] = b
  <2>1. CASE p.file = Folder
    BY <1>1, <1>2, <1>3, <2>1 DEF Whole, Parts
  <2>2. CASE p.file # Folder
    BY <1>1, <1>2, <1>3, <1>4, <2>2 DEF Whole, Parts
  <2> QED BY <2>1, <2>2
<1>6. Present(p)' <=> p.dir \in dirs' /\ (p.file # Folder => disk'[p.dir][p.file] # "none")
  BY <1>2, <1>3, <1>4 DEF Present
<1>7. Whole(p, b)' => p.dir \in dirs' /\ Present(p)'
  <2>1. Whole(p, b)' => p.dir \in dirs'
    BY DEF Whole
  <2>2. Whole(p, b)' /\ p.file # Folder => disk'[p.dir][p.file] = b
    BY <1>5 DEF Parts
  <2> QED BY <2>1, <2>2, <1>1, <1>6
<1> QED BY <1>5, <1>6, <1>7

(* A whole m4b, or chapters all there, keep the book.                      *)
LEMMA KeptIs ==
    ASSUME DiskTyped, NEW b \in Books
    PROVE  /\ \A p \in Paths : Whole(p, b) /\ (p.file = Folder \/ p.file \in M4bFiles(b)) => Kept(b)
           /\ Kept(b) => \E p \in Paths :
                            Whole(p, b) /\ (p.file = Folder \/ p.file \in M4bFiles(b))
<1>1. ASSUME NEW p \in Paths, Whole(p, b), p.file = Folder \/ p.file \in M4bFiles(b)
      PROVE  Kept(b)
  <2>1. p.dir \in dirs /\ p.dir \in Names
    BY <1>1, WholeIs
  <2>2. CASE p.file = Folder
    <3>1. p.dir \in Splits(b)
      BY <1>1, <2>1, <2>2 DEF Whole, Splits
    <3> QED BY <3>1 DEF Kept
  <2>3. CASE p.file \in M4bFiles(b)
    <3>1. p.file # Folder
      BY <2>3 DEF M4bFiles, M4b, Folder
    <3>2. Holds(p.dir, p.file) = b
      BY <1>1, <3>1 DEF Whole
    <3>3. <<p.dir, p.file>> \in M4bs(b)
      BY <2>1, <2>3, <3>2 DEF M4bs, M4bFiles
    <3> QED BY <3>3 DEF Kept
  <2> QED BY <1>1, <2>2, <2>3
<1>2. ASSUME Kept(b)
      PROVE  \E p \in Paths : Whole(p, b) /\ (p.file = Folder \/ p.file \in M4bFiles(b))
  <2>1. CASE M4bs(b) # {}
    <3>1. PICK n \in Names, f \in M4bFiles(b) : Holds(n, f) = b
      BY <2>1 DEF M4bs, M4bFiles
    <3>2. PICK p : p = [dir |-> n, file |-> f]
      OBVIOUS
    <3>3. f \in FileNames /\ f # Folder
      BY FileKinds
    <3>4. p \in Paths /\ p.dir = n /\ p.file = f
      BY <3>2, <3>3 DEF Paths
    <3>5. n \in dirs
      BY <3>1, <3>3, HoldsIs, OneBook
    <3> QED BY <3>1, <3>3, <3>4, <3>5 DEF Whole
  <2>2. CASE Splits(b) # {}
    <3>1. PICK n \in dirs : \A f \in ChapterFiles : Holds(n, f) = b
      BY <2>2 DEF Splits
    <3>2. PICK p : p = [dir |-> n, file |-> Folder]
      OBVIOUS
    <3>3. p \in Paths /\ p.dir = n /\ p.file = Folder
      BY <3>2 DEF Paths, DiskTyped
    <3> QED BY <3>1, <3>3 DEF Whole
  <2> QED BY <1>2, <2>1, <2>2 DEF Kept
<1> QED BY <1>1, <1>2

(* The same after a step.                                                  *)
LEMMA KeptNext ==
    ASSUME DiskTyped', NEW b \in Books, NEW p \in Paths, Whole(p, b)',
           p.file = Folder \/ p.file \in M4bFiles(b)
    PROVE  Kept(b)'
<1>1. p.dir \in dirs' /\ p.dir \in Names
  BY WholeIsNext
<1>2. CASE p.file = Folder
  <2>1. p.dir \in Splits(b)'
    BY <1>1, <1>2 DEF Whole, Splits
  <2> QED BY <2>1 DEF Kept
<1>3. CASE p.file \in M4bFiles(b)
  <2>1. p.file # Folder
    BY <1>3 DEF M4bFiles, M4b, Folder
  <2>2. Holds(p.dir, p.file)' = b
    BY <2>1 DEF Whole
  <2>3. <<p.dir, p.file>> \in M4bs(b)'
    BY <1>1, <1>3, <2>2 DEF M4bs, M4bFiles
  <2> QED BY <2>3 DEF Kept
<1> QED BY <1>2, <1>3

-----------------------------------------------------------------------------
(* What a step leaves as it was *)

(* A step heals what it touches: nothing becomes other than the book, and  *)
(* the row and the folders stay.                                           *)
Heals(b) ==
    /\ dirs' = dirs /\ row'[b] = row[b]
    /\ \A n \in Names, f \in FileNames \ TempFiles : disk'[n][f] \in {disk[n][f], b}
TempsStay(w) == w \in Taggers => \A n \in Names : disk'[n][Temp(w)] = disk[n][Temp(w)]

(* What was whole is whole, and the row is right.                          *)
LEMMA HealsWhole ==
    ASSUME Typed, Typed', NEW b \in Books, Heals(b)
    PROVE  /\ \A p \in Paths : Whole(p, b) /\ p.file \notin TempFiles => Whole(p, b)'
           /\ Kept(b) => Kept(b)'
           /\ RowRight(b) => RowRight(b)'
<1>1. DiskTyped /\ DiskTyped' /\ RowTyped /\ row[b].path \in Paths
  BY DEF Typed, RowTyped
<1>2. /\ ChapterFiles \subseteq FileNames \ TempFiles
      /\ M4bFiles(b) \subseteq FileNames \ TempFiles
      /\ Folder \notin FileNames
  BY FileKinds
<1>3. ASSUME NEW p \in Paths, Whole(p, b), p.file \notin TempFiles
      PROVE  Whole(p, b)'
  <2>1. p.dir \in Names /\ \A f \in Parts(p) : disk[p.dir][f] = b
    BY <1>1, <1>3, WholeIs
  <2>2. Parts(p) \subseteq FileNames \ TempFiles
    BY <1>2, <1>3, PathFields DEF Parts
  <2>3. \A f \in Parts(p) : disk'[p.dir][f] = b
    BY <2>1, <2>2 DEF Heals
  <2> QED BY <1>1, <2>1, <2>3, WholeIsNext
<1>4. Kept(b) => Kept(b)'
  <2>1. SUFFICES ASSUME Kept(b) PROVE Kept(b)'
    OBVIOUS
  <2>2. PICK p \in Paths : Whole(p, b) /\ (p.file = Folder \/ p.file \in M4bFiles(b))
    BY <1>1, <2>1, KeptIs
  <2>3. p.file \notin TempFiles
    BY <2>2, <1>2 DEF TempFiles, Temp, Folder
  <2>4. Whole(p, b)'
    BY <2>2, <2>3, <1>3
  <2> QED BY <2>2, <2>4, <1>1, KeptNext
<1>5. ASSUME RowRight(b)
      PROVE  RowRight(b)'
  <2>0. PICK p \in Paths : p = row[b].path
    BY <1>1
  <2>1. p = NoPath \/ (p.dir \in Names /\ (p.file = Folder \/ p.file \in M4bFiles(b)))
    BY <1>5, <2>0 DEF RowRight
  <2>2. p.file = Folder \/ p.file \in M4bFiles(b)
    BY <2>1 DEF NoPath
  <2>3. Present(p) => Whole(p, b)
    BY <1>5, <2>0 DEF RowRight
  <2>4. row[b].status = "complete" => Present(p)
    BY <1>5, <2>0 DEF RowRight
  <2>5. p.file \notin TempFiles
    BY <2>2, <1>2 DEF TempFiles, Temp, Folder
  <2>6. Present(p) => Present(p)'
    BY <2>3, <2>5, <1>1, <1>3, WholeIsNext
  <2>7. Present(p)' => Whole(p, b)'
    <3>1. CASE p.file = Folder
      <4>1. Present(p)' => Present(p)
        BY <3>1 DEF Present, Heals
      <4> QED BY <4>1, <2>3, <2>5, <1>1, <1>3
    <3>2. CASE p.file \in M4bFiles(b)
      <4>1. p.file # Folder /\ p.file \in FileNames \ TempFiles /\ Parts(p) = {p.file}
        BY <3>2, <1>2 DEF Parts
      <4>2. SUFFICES ASSUME Present(p)' PROVE Whole(p, b)'
        OBVIOUS
      <4>3. p.dir \in dirs' /\ disk'[p.dir][p.file] # "none"
        BY <4>1, <4>2, <1>1, WholeIsNext
      <4>4. p.dir \in Names /\ p.dir \in dirs
        BY <4>3, <1>1 DEF DiskTyped, Heals
      <4>5. CASE disk'[p.dir][p.file] = b
        BY <4>1, <4>4, <4>5, <1>1, WholeIsNext
      <4>6. CASE disk'[p.dir][p.file] = disk[p.dir][p.file]
        <5>1. Present(p)
          BY <4>1, <4>3, <4>4, <4>6, <1>1, WholeIs
        <5> QED BY <5>1, <2>3, <2>5, <1>1, <1>3
      <4> QED BY <4>1, <4>4, <4>5, <4>6 DEF Heals
    <3> QED BY <2>2, <3>1, <3>2
  <2>8. row'[b] = row[b]
    BY DEF Heals
  <2>9. /\ p = NoPath \/ (p.dir \in Names /\ (p.file = Folder \/ p.file \in M4bFiles(b)))
        /\ Present(p)' => Whole(p, b)'
        /\ row[b].status = "complete" => Present(p)'
    BY <2>1, <2>4, <2>6, <2>7
  <2> QED BY <2>0, <2>8, <2>9 DEF RowRight
<1> QED BY <1>3, <1>4, <1>5

(* The paths that are told of files, and no temporary ones.                *)
LEMMA PathsOf ==
    ASSUME NEW b \in Books, NEW n \in Names, NEW m \in Names
    PROVE  /\ \A p \in Paths : Place(b, n, p, m) \in Paths
           /\ \A p \in Paths : Place(b, n, p, m).file \in M4bFiles(b) \cup {Folder}
           /\ \A l : l.target = n /\ l.book = b =>
                 NewPath(l) \in Paths /\ NewPath(l).file \in M4bFiles(b) \cup {Folder}
           /\ \A p \in Paths : p.file \in M4bFiles(b) \cup {Folder} => p.file \notin TempFiles
<1>1. M4b(b, m) \in M4bFiles(b) /\ M4b(b, n) \in M4bFiles(b) /\ M4bFiles(b) \subseteq FileNames
  BY FileKinds
<1>2. \A f \in M4bFiles(b) \cup {Folder} : f \notin TempFiles
  BY FileKinds DEF TempFiles, Temp, Folder
<1> QED BY <1>1, <1>2 DEF Place, NewPath, Paths

(* What a conversion relies on outlasts what heals.                        *)
LEMMA ConvertStays ==
    ASSUME Typed, Typed', NEW b \in Books, Heals(b), RowRight(b), NEW x, NEW l \in Locs,
           l.book = b, Prepared(x, l), ConvertRight(x, l, b)
    PROVE  ConvertRight(x, l, b)'
<1>1. row'[b] = row[b] /\ dirs' = dirs
  BY DEF Heals
<1>2. /\ \A p \in Paths : Whole(p, b) /\ p.file \notin TempFiles => Whole(p, b)'
      /\ row[b].path.file \in M4bFiles(b) \cup {Folder}
      /\ row[b].path \in Paths
  BY HealsWhole DEF RowRight, NoPath, Typed, RowTyped
<1>3. Whole(row[b].path, b) => Whole(row[b].path, b)'
  <2>1. PICK p \in Paths : p = row[b].path
    BY <1>2
  <2>2. p.file \notin TempFiles
    BY <1>2, <2>1, FileKinds DEF TempFiles, Temp, Folder
  <2>3. Whole(p, b) => Whole(p, b)'
    BY <1>2, <2>2
  <2> QED BY <2>1, <2>3, <1>1
<1>4. x \in {"split", "list", "concat", "folder", "move", "copy", "record"} => Whole(l.path, b)'
  BY <1>1, <1>3 DEF ConvertRight
<1>5. x = "record" => Whole(NewPath(l), b)'
  <2>1. SUFFICES ASSUME x = "record" PROVE Whole(NewPath(l), b)'
    OBVIOUS
  <2>2. Whole(NewPath(l), b) /\ l.target \in Names
    BY <2>1 DEF ConvertRight, Prepared
  <2>3. NewPath(l) \in Paths /\ NewPath(l).file \notin TempFiles
    BY <2>2, PathsOf
  <2> QED BY <1>2, <2>2, <2>3
<1>6. x \in {"move", "copy"} /\ l.to = "mp3" =>
         \A f \in ChapterFiles \ l.left : disk'[l.target][f] = b
  <2>1. SUFFICES ASSUME x \in {"move", "copy"}, l.to = "mp3", NEW f \in ChapterFiles \ l.left
                 PROVE  disk'[l.target][f] = b
    OBVIOUS
  <2>2. disk[l.target][f] = b /\ l.target \in Names
    BY <2>1 DEF ConvertRight, Prepared
  <2>3. f \in FileNames \ TempFiles
    BY FileKinds
  <2> QED BY <2>2, <2>3 DEF Heals
<1>7. x = "copy" => disk'[l.target][Upcoming(l)] \in {"part", b}
  <2>1. SUFFICES ASSUME x = "copy" PROVE disk'[l.target][Upcoming(l)] \in {"part", b}
    OBVIOUS
  <2>2. disk[l.target][Upcoming(l)] \in {"part", b} /\ l.target \in Names
    BY <2>1 DEF ConvertRight, Prepared
  <2>3. Upcoming(l) \in FileNames \ TempFiles
    <3>1. l.to = "m4b" \/ (l.to = "mp3" /\ l.left # {} /\ l.left \subseteq ChapterFiles)
      BY <2>1 DEF Prepared, Locs
    <3>2. l.to = "m4b" => Upcoming(l) \in M4bFiles(b)
      BY <2>2 DEF Upcoming, M4bFiles
    <3>3. l.to = "mp3" => Upcoming(l) \in l.left
      BY <3>1 DEF Upcoming
    <3> QED BY <3>1, <3>2, <3>3, FileKinds
  <2> QED BY <2>2, <2>3 DEF Heals
<1> QED BY <1>1, <1>4, <1>5, <1>6, <1>7 DEF ConvertRight

(* So does what a move relies on,                                          *)
LEMMA MoveStays ==
    ASSUME Typed, Typed', NEW b \in Books, Heals(b), RowRight(b), NEW x, NEW l \in Locs,
           l.book = b, x = "movedir" => l.path.dir \in Names,
           MoveRight(x, l, b)
    PROVE  MoveRight(x, l, b)'
<1>1. row'[b] = row[b]
  BY DEF Heals
<1>2. \A p \in Paths : Whole(p, b) /\ p.file \notin TempFiles => Whole(p, b)'
  BY HealsWhole
<1>3. l.path \in Paths
  BY DEF Locs
<1>4. x = "movefile" => Whole(l.path, b)'
  <2>1. SUFFICES ASSUME x = "movefile" PROVE Whole(l.path, b)'
    OBVIOUS
  <2>2. Whole(l.path, b) /\ l.path = row[b].path
    BY <2>1 DEF MoveRight
  <2>3. l.path.file \in M4bFiles(b) \cup {Folder}
    BY <2>2 DEF RowRight, NoPath
  <2>4. l.path.file \notin TempFiles
    BY <2>3, FileKinds DEF TempFiles, Temp, Folder
  <2> QED BY <1>2, <1>3, <2>2, <2>4
<1>5. ASSUME NEW n \in Names, l.target \in Names, Whole(Place(b, n, l.path, l.target), b)
      PROVE  Whole(Place(b, n, l.path, l.target), b)'
  <2>1. PICK p : p = Place(b, n, l.path, l.target)
    OBVIOUS
  <2>2. p \in Paths /\ p.file \in M4bFiles(b) \cup {Folder} /\ p.file \notin TempFiles
    BY <1>3, <1>5, <2>1, PathsOf
  <2>3. Whole(p, b)'
    BY <1>2, <1>5, <2>1, <2>2
  <2> QED BY <2>1, <2>3
<1>6. x = "movedir" => Whole(Place(b, l.path.dir, l.path, l.target), b)'
  BY <1>5 DEF MoveRight
<1>7. x = "note" => Whole(Place(b, l.target, l.path, l.target), b)'
  BY <1>5 DEF MoveRight
<1> QED BY <1>1, <1>4, <1>6, <1>7 DEF MoveRight

(* and of a scan and a repair.                                             *)
LEMMA ScanStays ==
    ASSUME Typed, NEW b \in Books, Heals(b), NEW x, NEW l \in Locs, ScanRight(x, l)
    PROVE  ScanRight(x, l)'
<1>1. SUFFICES ASSUME x = "match", NEW y \in l.found
               PROVE  y[1] \in dirs' /\ (y[2] \notin TempFiles => disk'[y[1]][y[2]] # "none")
  BY DEF ScanRight
<1>2. y[1] \in dirs /\ (y[2] \notin TempFiles => disk[y[1]][y[2]] # "none")
  BY <1>1 DEF ScanRight
<1>3. y \in Names \X FileNames
  BY <1>1 DEF Locs
<1> QED BY <1>2, <1>3, OneBook DEF Heals

(* A repair relies on no more than what it wrote itself.                   *)
LEMMA TagStays ==
    ASSUME NEW b \in Books, NEW t \in Taggers, TempsStay(t), NEW x, NEW l \in Locs,
           TagRight(t, x, l, b)
    PROVE  TagRight(t, x, l, b)'
BY DEF TempsStay, TagRight

(* An actor that does not step relies on the same after what heals.        *)
LEMMA OwnStays ==
    ASSUME Typed, Typed', NEW b \in Books, Heals(b), RowRight(b), NEW w \in Actors,
           TempsStay(w), loc'[w] = loc[w], pc'[w] = pc[w], Own(w, pc[w], loc[w], b)
    PROVE  Own(w, pc[w], loc[w], b)'
<1>1. PICK x, l : x = pc[w] /\ l = loc[w]
  OBVIOUS
<1>2. l \in Locs /\ Fits(w, x, l, asked)
  BY <1>1, Marks DEF Typed
<1>3. Own(w, x, l, b)
  BY <1>1
<1>4. w \in Converters /\ l.book = b => ConvertRight(x, l, b)'
  BY <1>2, <1>3, ConvertStays DEF Own, Fits
<1>5. w \in Movers /\ l.book = b => MoveRight(x, l, b)'
  <2>1. SUFFICES ASSUME w \in Movers, l.book = b PROVE MoveRight(x, l, b)'
    OBVIOUS
  <2>2. MoveRight(x, l, b)
    BY <2>1, <1>3 DEF Own
  <2>3. x = "movedir" => l.path.dir \in Names
    BY <2>2 DEF MoveRight, Whole, Place, Typed, DiskTyped
  <2> QED BY <1>2, <2>1, <2>2, <2>3, MoveStays
<1>6. w \in Refreshers /\ l.book = b => FetchRight(x, l, b)'
  BY <1>3 DEF Own, FetchRight, Heals
<1>7. w \in Taggers /\ l.book = b => TagRight(w, x, l, b)'
  BY <1>2, <1>3, TagStays DEF Own
<1>8. w \in Scanners => ScanRight(x, l)'
  BY <1>2, <1>3, ScanStays DEF Own
<1>9. Own(w, x, l, b)'
  BY <1>4, <1>5, <1>6, <1>7, <1>8 DEF Own
<1> QED BY <1>1, <1>9

(* An actor steps to a stage and marks, and the others stay.               *)
Steps(v, x, l) == loc' = [loc EXCEPT ![v] = l] /\ pc' = [pc EXCEPT ![v] = x]

(* What such a step leaves each actor with.                                *)
LEMMA StepsIs ==
    ASSUME Typed, NEW v \in Actors, NEW x, NEW l, Steps(v, x, l)
    PROVE  /\ loc'[v] = l /\ pc'[v] = x
           /\ \A w \in Actors \ {v} : loc'[w] = loc[w] /\ pc'[w] = pc[w]
<1>1. loc \in [Actors -> Locs] /\ pc \in [Actors -> Stages]
  BY FitsEach DEF Typed
<1> QED BY <1>1 DEF Steps

(* Nobody else comes to work on a book while no one begins.                *)
LEMMA AloneStays ==
    ASSUME NEW b, Alone(b), \A w \in Actors : Busy(w, b)' => Busy(w, b),
           \A q \in Scanners : pc'[q] # "idle" => pc[q] # "idle"
    PROVE  Alone(b)'
BY DEF Alone

(* The one that begins with a book without shaking it finds nobody there.  *)
LEMMA BeginsAlone ==
    ASSUME Typed, NEW b \in Books, Alone(b), NEW v \in Actors, v \notin Taggers \cup Scanners,
           Begin(v, b), b \notin shaken', NEW x, NEW l, Steps(v, x, l)
    PROVE  Alone(b)'
<1>1. \A w \in Others(v) : /\ loc[w].book = b => {v, w} \subseteq Converters
                           /\ w \in Scanners => pc[w] = "idle"
  BY DEF Begin
<1>2. \A w \in Actors \ {v} : loc'[w] = loc[w] /\ pc'[w] = pc[w]
  BY StepsIs
<1>3. ASSUME NEW w \in Actors, Busy(w, b)', w # v
      PROVE  Busy(w, b) /\ {v, w} \subseteq Converters
  <2>1. Busy(w, b)
    BY <1>2, <1>3 DEF Busy
  <2>2. w \in Others(v) /\ loc[w].book = b
    BY <1>3, <2>1 DEF Others, Busy
  <2> QED BY <1>1, <2>1, <2>2
<1>4. ASSUME NEW w \in Actors, NEW u \in Actors, Busy(w, b)', Busy(u, b)', w # u
      PROVE  {w, u} \subseteq Converters
  <2>1. CASE w = v
    BY <1>3, <1>4, <2>1
  <2>2. CASE u = v
    BY <1>3, <1>4, <2>2
  <2>3. CASE w # v /\ u # v
    BY <1>3, <1>4, <2>3
  <2> QED BY <2>1, <2>2, <2>3
<1>5. ASSUME NEW q \in Scanners
      PROVE  pc'[q] = "idle"
  <2>1. q \in Actors /\ q # v /\ q \notin Taggers
    BY KindOf
  <2>2. q \in Others(v)
    BY <2>1 DEF Others
  <2> QED BY <1>1, <1>2, <2>1, <2>2
<1> QED BY <1>4, <1>5 DEF Alone

(* Who is idle relies on nothing.                                          *)
LEMMA IdleOwn ==
    ASSUME NEW b \in Books, NEW v
    PROVE  Own(v, "idle", Idle, b) /\ Own(v, "idle", Idle, b)'
<1>1. Idle.book # b
  BY OneBook, IdleTyped
<1> QED BY <1>1 DEF Own, ScanRight

(* A step of one actor that heals what it touches.                         *)
LEMMA HealStep ==
    ASSUME Typed, Typed', NEW b \in Books, Fine(b), Heals(b), NEW v \in Actors, NEW x, NEW l,
           Steps(v, x, l), \A t \in Taggers \ {v} : TempsStay(t), Alone(b)', Own(v, x, l, b)'
    PROVE  Fine(b)'
<1>1. Kept(b)' /\ RowRight(b)' /\ RowRight(b)
  BY HealsWhole DEF Fine
<1>2. ASSUME NEW w \in Actors
      PROVE  Own(w, pc[w], loc[w], b)'
  <2>1. CASE w = v
    <3>1. loc'[w] = l /\ pc'[w] = x
      BY <2>1, StepsIs
    <3> QED BY <2>1, <3>1
  <2>2. CASE w # v
    <3>1. loc'[w] = loc[w] /\ pc'[w] = pc[w]
      BY <2>2, StepsIs
    <3>2. TempsStay(w)
      BY <2>2 DEF TempsStay
    <3>3. PICK y, m : y = pc[w] /\ m = loc[w]
      OBVIOUS
    <3>4. Own(w, pc[w], loc[w], b)'
      BY <1>1, <3>1, <3>2, OwnStays DEF Fine
    <3> QED BY <3>1, <3>4
  <2> QED BY <2>1, <2>2
<1> QED BY <1>1, <1>2 DEF Fine

(* The same of one that has begun or is not at the book at all.            *)
LEMMA QuietStep ==
    ASSUME Typed, Typed', NEW b \in Books, Fine(b), Heals(b), NEW v \in Actors, NEW x, NEW l,
           Steps(v, x, l), \A t \in Taggers \ {v} : TempsStay(t), Own(v, x, l, b)',
           v \notin Taggers /\ l.book = b /\ x # "queued" => Busy(v, b),
           v \in Scanners /\ x # "idle" => pc[v] # "idle"
    PROVE  Fine(b)'
<1>1. /\ loc'[v] = l /\ pc'[v] = x
      /\ \A w \in Actors \ {v} : loc'[w] = loc[w] /\ pc'[w] = pc[w]
  BY StepsIs
<1>2. \A w \in Actors : Busy(w, b)' => Busy(w, b)
  BY <1>1 DEF Busy
<1>3. \A q \in Scanners : pc'[q] # "idle" => pc[q] # "idle"
  BY <1>1, KindOf
<1>4. Alone(b)'
  BY <1>2, <1>3, AloneStays DEF Fine
<1> QED BY <1>4, HealStep

(* An actor that stops.                                                    *)
LEMMA StopStep ==
    ASSUME Typed, Typed', NEW b \in Books, Fine(b), Heals(b), NEW v \in Actors, Stop(v),
           \A t \in Taggers \ {v} : TempsStay(t)
    PROVE  Fine(b)'
<1>1. Steps(v, "idle", Idle)
  BY DEF Stop, Goto, Steps
<1>2. Idle.book # b
  BY OneBook, IdleTyped
<1> QED BY <1>1, <1>2, IdleOwn, QuietStep

(* When of those that work on the book only conversions that wait for the  *)
(* lock do not step, no actor but the one that steps relies on more than   *)
(* the temporary files of repairs and the finds of scans.                  *)
LEMMA OthersOwn ==
    ASSUME Typed, NEW b \in Books, NEW v \in Actors,
           \A w \in Actors \ {v} : pc'[w] = pc[w] /\ loc'[w].book = loc[w].book,
           \A w \in Actors \ {v} : Busy(w, b) => w \in Converters /\ pc[w] = "lock",
           \A t \in Taggers \ {v} : loc[t].book = b => TagRight(t, pc[t], loc[t], b)',
           \A q \in Scanners \ {v} : ScanRight(pc[q], loc[q])',
           Kept(b)', Alone(b)', RowRight(b)', Own(v, pc[v], loc[v], b)'
    PROVE  Fine(b)'
<1>1. ASSUME NEW w \in Actors, w # v
      PROVE  Own(w, pc[w], loc[w], b)'
  <2>1. pc'[w] = pc[w] /\ loc'[w].book = loc[w].book
    BY <1>1
  <2>2. PICK x, l : x = pc[w] /\ l = loc'[w]
    OBVIOUS
  <2>3. Busy(w, b) => w \in Converters /\ x = "lock"
    BY <1>1, <2>2
  <2>4. w \in Scanners => ScanRight(x, l)'
    BY <1>1, <2>1, <2>2
  <2>5. w \in Converters /\ l.book = b => x = "lock"
    <3>1. SUFFICES ASSUME w \in Converters, l.book = b PROVE x = "lock"
      OBVIOUS
    <3>2. x # "queued"
      BY <2>2, <3>1, Converting DEF ConvertStages
    <3> QED BY <2>1, <2>2, <2>3, <3>1, <3>2, KindOf DEF Busy
  <2>6. w \in Movers /\ l.book = b => x = "queued"
    BY <2>1, <2>2, <2>3, KindOf DEF Busy
  <2>7. w \in Refreshers => l.book # b
    <3>1. SUFFICES ASSUME w \in Refreshers PROVE l.book # b
      OBVIOUS
    <3>2. pc[w] # "queued"
      BY <3>1, Marks DEF Typed, Fits
    <3> QED BY <2>1, <2>2, <2>3, <3>1, <3>2, KindOf DEF Busy
  <2>8. w \in Taggers /\ l.book = b => TagRight(w, x, l, b)'
    BY <1>1, <2>1, <2>2
  <2>9. Own(w, x, l, b)'
    BY <2>4, <2>5, <2>6, <2>7, <2>8 DEF Own, ConvertRight, MoveRight
  <2> QED BY <2>1, <2>2, <2>9
<1> QED BY <1>1 DEF Fine

(* Beside an actor that is at work on the book only conversions that wait  *)
(* for the lock, jobs that wait and repairs of the tags have it.           *)
LEMMA WorkStep ==
    ASSUME Typed, NEW b \in Books, Fine(b), NEW v \in Actors, Busy(v, b), pc[v] # "lock",
           \A w \in Actors \ {v} : pc'[w] = pc[w] /\ loc'[w].book = loc[w].book,
           \A t \in Taggers : loc[t].book = b => TagRight(t, pc[t], loc[t], b)',
           Kept(b)', RowRight(b)', Own(v, pc[v], loc[v], b)'
    PROVE  Fine(b)'
<1>1. pc[v] # "idle" /\ v \notin Scanners /\ v \notin Taggers
  <2>1. Fits(v, pc[v], loc[v], asked)
    BY Marks DEF Typed
  <2>2. loc[v].book # "none"
    BY OneBook DEF Busy
  <2> QED BY <2>1, <2>2 DEF Fits, Busy
<1>2. ASSUME NEW w \in Actors, w # v, Busy(w, b)
      PROVE  w \in Converters /\ pc[w] = "lock"
  <2>1. v \in Converters /\ w \in Converters
    BY <1>2 DEF Fine, Alone
  <2>2. loc[v].book = b /\ loc[w].book = b
    BY <1>2 DEF Busy
  <2>3. pc[w] \in {"idle", "lock"}
    BY <1>1, <1>2, <2>1, <2>2 DEF Typed, LockKept
  <2>4. pc[w] # "idle"
    <3>1. Fits(w, pc[w], loc[w], asked) /\ w \notin Scanners
      BY <2>1, Marks, KindOf DEF Typed
    <3> QED BY <2>2, <3>1, OneBook DEF Fits
  <2> QED BY <2>1, <2>3, <2>4
<1>3. ASSUME NEW q \in Scanners
      PROVE  ScanRight(pc[q], loc[q])'
  <2>1. pc'[q] = "idle"
    BY <1>1, <1>3, KindOf DEF Fine, Alone
  <2> QED BY <2>1 DEF ScanRight
<1>4. Alone(b)'
  <2>1. \A w \in Actors : Busy(w, b)' => Busy(w, b)
    BY DEF Busy
  <2>2. \A q \in Scanners : pc'[q] # "idle" => pc[q] # "idle"
    BY <1>1, KindOf
  <2> QED BY <2>1, <2>2, AloneStays DEF Fine
<1> QED BY <1>2, <1>3, <1>4, OthersOwn

-----------------------------------------------------------------------------
(* Conversions keep it *)

(* A step that leaves the disk and the row heals what it touches.          *)
LEMMA SameHeals ==
    ASSUME Typed, NEW b \in Books, UNCHANGED <<dirs, disk, row>>
    PROVE  Heals(b) /\ \A t \in Taggers : TempsStay(t)
BY DEF Heals, TempsStay

(* What is known when a book is still apart after a step.                  *)
LEMMA ApartIs ==
    ASSUME Typed, NEW b \in Apart'
    PROVE  /\ b \in Books /\ b \notin shaken' /\ b \notin asked' /\ b \notin misread'
           /\ ~Spend("db")
<1>1. b \in Books /\ b \notin shaken' /\ b \notin asked' /\ b \notin misread' /\ Spared("db")'
  BY DEF Apart
<1> QED BY <1>1, SparedNow DEF Events

(* What is known of a conversion at a book.                                *)
LEMMA ConvertAt ==
    ASSUME Typed, NEW b \in Books, Fine(b), NEW k \in Converters, pc[k] # "idle"
    PROVE  /\ k \in Actors /\ loc[k] \in Locs /\ loc[k].book = b /\ loc[k].path \in Paths
           /\ Prepared(pc[k], loc[k]) /\ ConvertRight(pc[k], loc[k], b)
           /\ Busy(k, b) /\ k \notin Taggers /\ k \notin Scanners
           /\ RowRight(b) /\ row[b].path \in Paths
<1>1. k \in Actors /\ loc[k] \in Locs /\ Prepared(pc[k], loc[k]) /\ loc[k].book \in Books
      /\ pc[k] # "queued"
  BY Converting DEF ConvertStages
<1>2. loc[k].book = b
  BY <1>1, OneBook
<1>3. ConvertRight(pc[k], loc[k], b)
  BY <1>1, <1>2 DEF Fine, Own
<1>4. row[b].path \in Paths /\ loc[k].path \in Paths
  BY <1>1 DEF Typed, RowTyped, Locs
<1> QED BY <1>1, <1>2, <1>3, <1>4, KindOf DEF Busy, Fine

(* A conversion goes on with what it needs, and heals.                     *)
LEMMA ConvertQuiet ==
    ASSUME Typed, Typed', NEW b \in Books, Fine(b), Heals(b), \A t \in Taggers : TempsStay(t),
           NEW k \in Converters, pc[k] # "idle", NEW x, NEW l \in Locs, Steps(k, x, l),
           l.book = b, Prepared(x, l), ConvertRight(x, l, b)
    PROVE  Fine(b)'
<1>1. Busy(k, b) /\ RowRight(b) /\ k \in Actors
  BY ConvertAt
<1>2. ConvertRight(x, l, b)'
  BY <1>1, ConvertStays
<1>3. Own(k, x, l, b)'
  BY <1>2, KindOf DEF Own
<1> QED BY <1>1, <1>3, QuietStep, KindOf

(* A conversion that ends leaves all as it was.                            *)
LEMMA ConvertStops ==
    ASSUME Typed, Typed', NEW b \in Books, Fine(b), NEW k \in Converters, EndConvert(k),
           UNCHANGED <<dirs, disk, row>>
    PROVE  Fine(b)'
<1>1. Stop(k) /\ k \in Actors
  BY Converting DEF EndConvert
<1> QED BY <1>1, SameHeals, StopStep

(* A conversion that begins alone goes by the row as it is.                *)
LEMMA GetBookFine ==
    ASSUME Typed, Typed', NEW b \in Apart', Fine(b), NEW k \in Converters, NEW c \in Books,
           NEW to \in {"m4b", "mp3"}, GetBook(k, c, to)
    PROVE  Fine(b)'
<1>1. b \in Books /\ c = b /\ b \notin shaken'
  BY ApartIs, OneBook
<1>2. PICK l : l = [loc[k] EXCEPT !.book = c, !.to = to, !.path = row[c].path]
  OBVIOUS
<1>3. Steps(k, "lock", l)
  BY <1>2 DEF GetBook, Set, Goto, Me, Steps
<1>4. k \in Actors /\ k \notin Taggers \cup Scanners
  BY KindOf
<1>5. Alone(b)'
  BY <1>1, <1>3, <1>4, BeginsAlone DEF GetBook, Fine
<1>6. Own(k, "lock", l, b)'
  BY <1>4, KindOf DEF Own, ConvertRight
<1>7. UNCHANGED <<dirs, disk, row>>
  BY DEF GetBook
<1> QED BY <1>1, <1>3, <1>4, <1>5, <1>6, <1>7, SameHeals, HealStep

(* A conversion that gets the lock, and not by a row that has changed,     *)
(* goes by the row as it is.                                               *)
LEMMA LockFine ==
    ASSUME Typed, Typed', NEW b \in Apart', Fine(b), NEW k \in Converters, Lock(k)
    PROVE  Fine(b)'
<1>1. b \in Books /\ b \notin shaken' /\ pc[k] = "lock"
  BY ApartIs DEF Lock
<1>2. k \in Actors /\ loc[k].book = b /\ loc[k] \in Locs /\ Prepared(pc[k], loc[k])
  BY <1>1, ConvertAt
<1>3. Heals(b) /\ \A t \in Taggers : TempsStay(t)
  BY <1>1, SameHeals DEF Lock
<1>4. CASE Goto(k, "layout") /\ MarkStale(k) /\ UNCHANGED loc
  <2>1. PICK l : l = loc[k]
    OBVIOUS
  <2>2. Steps(k, "layout", l)
    BY <1>2, <1>4, <2>1, FitsEach DEF Goto, Steps, Typed
  <2>3. l.path = row[b].path
    BY <1>1, <1>2, <1>4, <2>1 DEF MarkStale, Stale, Me
  <2>4. ConvertRight("layout", l, b) /\ Prepared("layout", l)
    BY <1>1, <1>2, <2>1, <2>3 DEF ConvertRight, Prepared
  <2> QED BY <1>1, <1>2, <1>3, <2>1, <2>2, <2>4, ConvertQuiet
<1>5. CASE Stop(k)
  BY <1>1, <1>2, <1>3, <1>5, StopStep
<1> QED BY <1>4, <1>5 DEF Lock

(* A conversion that goes on from here works from the whole book: the path *)
(* is the row's, and what the row names is there whole.                    *)
LEMMA LayoutFine ==
    ASSUME Typed, Typed', NEW b \in Apart', Fine(b), NEW k \in Converters, Layout(k)
    PROVE  Fine(b)'
<1>1. b \in Books /\ pc[k] = "layout" /\ UNCHANGED <<dirs, disk, row>>
  BY ApartIs DEF Layout
<1>2. PICK l : l = loc[k]
  OBVIOUS
<1>3. k \in Actors /\ l.book = b /\ l \in Locs /\ Prepared("layout", l) /\ l.path = row[b].path
      /\ l.to \in {"m4b", "mp3"} /\ RowRight(b)
  <2>1. /\ k \in Actors /\ l.book = b /\ l \in Locs /\ Prepared("layout", l)
        /\ ConvertRight("layout", l, b) /\ RowRight(b)
    BY <1>1, <1>2, ConvertAt
  <2> QED BY <2>1 DEF ConvertRight, Prepared
<1>4. CASE EndConvert(k)
  BY <1>1, <1>4, ConvertStops
<1>5. ASSUME NEW x, x = (IF l.to = "mp3" THEN "split" ELSE "list"), Goto(k, x),
             Present(l.path), Format(l.path) # l.to, loc' = loc
      PROVE  Fine(b)'
  <2>1. Steps(k, x, l)
    BY <1>2, <1>3, <1>5, FitsEach DEF Goto, Steps, Typed
  <2>2. Whole(l.path, b)
    BY <1>3, <1>5 DEF RowRight
  <2>3. l.to = "mp3" <=> l.path.file # Folder
    BY <1>3, <1>5 DEF Format
  <2>4. ConvertRight(x, l, b) /\ Prepared(x, l)
    BY <1>3, <1>5, <2>2, <2>3 DEF ConvertRight, Prepared
  <2> QED BY <1>1, <1>3, <2>1, <2>4, SameHeals, ConvertQuiet
<1> QED BY <1>2, <1>4, <1>5 DEF Layout, Me

(* The chapters are staged from the whole m4b.                             *)
LEMMA SplitFine ==
    ASSUME Typed, Typed', NEW b \in Apart', Fine(b), NEW k \in Converters, Split(k)
    PROVE  Fine(b)'
<1>1. b \in Books /\ pc[k] = "split" /\ UNCHANGED <<dirs, disk, row>>
  BY ApartIs DEF Split
<1>2. /\ k \in Actors /\ loc[k].book = b /\ loc[k] \in Locs /\ loc[k].path = row[b].path
      /\ loc[k].to = "mp3" /\ Whole(loc[k].path, b) /\ loc[k].path.file # Folder
      /\ Prepared(pc[k], loc[k])
  BY <1>1, ConvertAt DEF ConvertRight
<1>3. CASE EndConvert(k)
  BY <1>1, <1>3, ConvertStops
<1>4. CASE /\ Set(k, [loc[k] EXCEPT !.staged = Holds(loc[k].path.dir, loc[k].path.file)])
           /\ Goto(k, "folder")
  <2>1. Holds(loc[k].path.dir, loc[k].path.file) = b
    BY <1>2 DEF Whole
  <2>2. PICK l : l = [loc[k] EXCEPT !.staged = b]
    OBVIOUS
  <2>3. Steps(k, "folder", l)
    BY <1>4, <2>1, <2>2 DEF Set, Goto, Steps
  <2>4. l \in Locs /\ l.book = b /\ Prepared("folder", l)
    BY <1>1, <1>2, <2>2 DEF Locs, Contents, Prepared
  <2>5. ConvertRight("folder", l, b)
    BY <1>2, <2>2 DEF ConvertRight, Locs
  <2> QED BY <1>1, <1>2, <2>3, <2>4, <2>5, SameHeals, ConvertQuiet
<1> QED BY <1>3, <1>4 DEF Split, Me

(* All chapters are listed, for the folder has them all.                   *)
LEMMA ListFine ==
    ASSUME Typed, Typed', NEW b \in Apart', Fine(b), NEW k \in Converters, ListChapters(k)
    PROVE  Fine(b)'
<1>1. b \in Books /\ pc[k] = "list" /\ UNCHANGED <<dirs, disk, row>>
  BY ApartIs DEF ListChapters
<1>2. /\ k \in Actors /\ loc[k].book = b /\ loc[k] \in Locs /\ loc[k].path = row[b].path
      /\ loc[k].to = "m4b" /\ Whole(loc[k].path, b) /\ loc[k].path.file = Folder
      /\ Prepared(pc[k], loc[k])
  BY <1>1, ConvertAt DEF ConvertRight
<1>3. CASE EndConvert(k)
  BY <1>1, <1>3, ConvertStops
<1>4. ASSUME NEW there, there = {f \in ChapterFiles : Holds(loc[k].path.dir, f) # "none"},
             Set(k, [loc[k] EXCEPT !.left = there]), Goto(k, "concat")
      PROVE  Fine(b)'
  <2>1. \A f \in ChapterFiles : Holds(loc[k].path.dir, f) = b
    BY <1>2 DEF Whole
  <2>2. there = ChapterFiles
    BY <1>1, <1>4, <2>1, OneBook
  <2>3. PICK l : l = [loc[k] EXCEPT !.left = ChapterFiles]
    OBVIOUS
  <2>4. Steps(k, "concat", l)
    BY <1>4, <2>2, <2>3 DEF Set, Goto, Steps
  <2>5. ChapterFiles \in SUBSET ChapterFiles
    OBVIOUS
  <2>6. l \in Locs /\ l.book = b /\ Prepared("concat", l)
    BY <1>2, <2>3, <2>5 DEF Locs, Prepared
  <2>7. ConvertRight("concat", l, b)
    BY <1>2, <2>3 DEF ConvertRight, Locs
  <2> QED BY <1>1, <1>2, <2>4, <2>6, <2>7, SameHeals, ConvertQuiet
<1> QED BY <1>3, <1>4 DEF ListChapters, Me

(* The m4b is staged from all chapters.                                    *)
LEMMA ConcatFine ==
    ASSUME Typed, Typed', NEW b \in Apart', Fine(b), NEW k \in Converters, Concat(k)
    PROVE  Fine(b)'
<1>1. b \in Books /\ pc[k] = "concat" /\ UNCHANGED <<dirs, disk, row>>
  BY ApartIs DEF Concat
<1>2. /\ k \in Actors /\ loc[k].book = b /\ loc[k] \in Locs /\ loc[k].path = row[b].path
      /\ loc[k].to = "m4b" /\ Whole(loc[k].path, b) /\ loc[k].path.file = Folder
      /\ loc[k].left = ChapterFiles /\ Prepared(pc[k], loc[k])
  BY <1>1, ConvertAt DEF ConvertRight
<1>3. CASE EndConvert(k)
  BY <1>1, <1>3, ConvertStops
<1>4. ASSUME NEW got, got = {Holds(loc[k].path.dir, f) : f \in loc[k].left},
             Set(k, [loc[k] EXCEPT !.staged = IF got = {loc[k].book} /\ loc[k].left = ChapterFiles
                                              THEN loc[k].book ELSE "part"]),
             Goto(k, "folder")
      PROVE  Fine(b)'
  <2>1. \A f \in ChapterFiles : Holds(loc[k].path.dir, f) = b
    BY <1>2 DEF Whole
  <2>2. got = {b}
    BY <1>1, <1>2, <1>4, <2>1, FileKinds
  <2>3. PICK l : l = [loc[k] EXCEPT !.staged = b]
    OBVIOUS
  <2>4. Steps(k, "folder", l)
    BY <1>2, <1>4, <2>2, <2>3 DEF Set, Goto, Steps
  <2>5. l \in Locs /\ l.book = b /\ Prepared("folder", l)
    BY <1>1, <1>2, <2>3 DEF Locs, Contents, Prepared
  <2>6. ConvertRight("folder", l, b)
    BY <1>2, <2>3 DEF ConvertRight, Locs
  <2> QED BY <1>1, <1>2, <2>4, <2>5, <2>6, SameHeals, ConvertQuiet
<1> QED BY <1>3, <1>4 DEF Concat, Me

(* A cancel takes nothing that the conversion relies on.                   *)
LEMMA CancelFine ==
    ASSUME Typed, Typed', NEW b \in Apart', Fine(b), NEW k \in Converters, Cancel(k)
    PROVE  Fine(b)'
<1>1. b \in Books /\ pc[k] # "idle" /\ UNCHANGED <<dirs, disk, row>>
  BY ApartIs DEF Cancel
<1>2. PICK x, l, m : x = pc[k] /\ m = loc[k] /\ l = [loc[k] EXCEPT !.cancelled = TRUE]
  OBVIOUS
<1>3. m \in Locs /\ m.book = b /\ Prepared(x, m) /\ ConvertRight(x, m, b) /\ k \in Actors
  BY <1>1, <1>2, ConvertAt
<1>4. /\ l \in Locs /\ l.book = b /\ l.to = m.to /\ l.path = m.path /\ l.left = m.left
      /\ l.target = m.target /\ l.open = m.open /\ l.staged = m.staged
  BY <1>2, <1>3 DEF Locs
<1>5. Prepared(x, l)
  BY <1>3, <1>4 DEF Prepared
<1>6. NewPath(l) = NewPath(m) /\ Upcoming(l) = Upcoming(m)
  BY <1>3, <1>4 DEF NewPath, Upcoming
<1>7. ConvertRight(x, l, b)
  BY <1>3, <1>4, <1>6 DEF ConvertRight
<1>8. Steps(k, x, l)
  BY <1>2, <1>3, FitsEach DEF Cancel, Set, Me, Steps, Typed
<1> QED BY <1>1, <1>4, <1>5, <1>7, <1>8, SameHeals, ConvertQuiet

(* An actor at work on the book steps, beside the temporary files.         *)
LEMMA LoneStep ==
    ASSUME Typed, NEW b \in Books, Fine(b), NEW v \in Actors, Busy(v, b), pc[v] # "lock",
           NEW x, NEW l, Steps(v, x, l), \A t \in Taggers : TempsStay(t),
           Kept(b)', RowRight(b)', Own(v, x, l, b)'
    PROVE  Fine(b)'
<1>1. /\ loc'[v] = l /\ pc'[v] = x
      /\ \A w \in Actors \ {v} : loc'[w] = loc[w] /\ pc'[w] = pc[w]
  BY StepsIs
<1>2. ASSUME NEW t \in Taggers, loc[t].book = b
      PROVE  TagRight(t, pc[t], loc[t], b)'
  <2>1. t \in Actors /\ t # v
    BY KindOf DEF Busy
  <2>2. PICK y, m : y = pc[t] /\ m = loc[t]
    OBVIOUS
  <2>3. m \in Locs /\ TagRight(t, y, m, b)
    BY <1>2, <2>1, <2>2, Marks DEF Fine, Own, Typed
  <2>4. TagRight(t, y, m, b)'
    BY <2>3, TagStays
  <2> QED BY <1>1, <2>1, <2>2, <2>4
<1>3. Own(v, pc[v], loc[v], b)'
  BY <1>1
<1> QED BY <1>1, <1>2, <1>3, WorkStep

(* Files that are whole and are not touched are whole.                     *)
LEMMA WholeStays ==
    ASSUME Typed, Typed', NEW b \in Books, NEW p \in Paths, Whole(p, b),
           \A f \in Parts(p) : disk'[p.dir][f] = disk[p.dir][f]
    PROVE  Whole(p, b)'
BY WholeIs, WholeIsNext DEF Typed

(* The row is right when what it names is whole.                           *)
LEMMA RowWhole ==
    ASSUME Typed', NEW b \in Books, NEW p \in Paths, row'[b].path = p, Whole(p, b)',
           p.file \in M4bFiles(b) \cup {Folder}
    PROVE  RowRight(b)' /\ Kept(b)'
<1>1. p.dir \in Names /\ Present(p)'
  BY WholeIsNext DEF Typed
<1>2. Kept(b)'
  BY KeptNext DEF Typed
<1> QED BY <1>1, <1>2 DEF RowRight

(* The files of the two forms are not the same.                            *)
LEMMA FormsApart ==
    ASSUME NEW b \in Books
    PROVE  /\ \A f \in ChapterFiles : f \notin M4bFiles(b) /\ f \notin TempFiles /\ f \in FileNames
           /\ \A f \in M4bFiles(b) : f \notin TempFiles /\ f # Folder /\ f \in FileNames
           /\ \A p : p.file = Folder => Parts(p) = ChapterFiles
           /\ \A p : p.file # Folder => Parts(p) = {p.file}
           /\ ChapterFiles # {}
BY FileKinds DEF Parts

(* A folder that is made holds nothing.                                    *)
LEMMA FolderMade ==
    ASSUME Typed, NEW k \in Converters, MakeFolder(k), home[loc[k].book] \in Names
    PROVE  disk' = disk /\ home[loc[k].book] \in dirs'
<1>1. PICK n \in Names : n = home[loc[k].book]
  OBVIOUS
<1>2. n \notin dirs => disk[n] = Bare
  BY DEF Typed, DiskTyped
<1>3. disk' = IF n \in dirs THEN disk ELSE [disk EXCEPT ![n] = Bare]
  BY <1>1 DEF MakeFolder, Me
<1>4. [disk EXCEPT ![n] = disk[n]] = disk
  BY DEF Typed, DiskTyped
<1>5. n \in dirs'
  BY <1>1 DEF MakeFolder, MkdirAll, Me
<1> QED BY <1>1, <1>2, <1>3, <1>4, <1>5

(* The new folder takes nothing from what there was.                       *)
LEMMA MakeFolderFine ==
    ASSUME Typed, Typed', NEW b \in Apart', Fine(b), NEW k \in Converters, MakeFolder(k)
    PROVE  Fine(b)'
<1>1. b \in Books /\ pc[k] = "folder" /\ row' = row
  BY ApartIs DEF MakeFolder
<1>2. PICK m : m = loc[k]
  OBVIOUS
<1>3. /\ k \in Actors /\ m.book = b /\ m \in Locs /\ m.path \in Paths /\ Busy(k, b) /\ RowRight(b)
      /\ ConvertRight("folder", m, b) /\ Prepared("folder", m) /\ k \notin Taggers
  BY <1>1, <1>2, ConvertAt
<1>4. m.path = row[b].path /\ Whole(m.path, b) /\ (m.to = "mp3" <=> m.path.file # Folder)
      /\ (m.to = "m4b" => m.left = ChapterFiles) /\ m.staged = b /\ m.to \in {"m4b", "mp3"}
  BY <1>3 DEF ConvertRight, Prepared
<1>5. PICK n \in Names : n = home[b]
  BY <1>1 DEF Typed, RestTyped
<1>6. n \in dirs' /\ disk' = disk
  BY <1>1, <1>2, <1>3, <1>5, FolderMade
<1>7. PICK l : l = [m EXCEPT !.target = n, !.left = IF m.to = "mp3" THEN ChapterFiles ELSE m.left]
  OBVIOUS
<1>8. Steps(k, "move", l)
  BY <1>2, <1>3, <1>5, <1>7 DEF MakeFolder, Set, Goto, Me, Steps
<1>9. Whole(m.path, b)'
  BY <1>1, <1>3, <1>4, <1>6, WholeStays
<1>10. RowRight(b)' /\ Kept(b)'
  <2>1. m.path.file \in M4bFiles(b) \cup {Folder}
    BY <1>3, <1>4 DEF RowRight, NoPath
  <2> QED BY <1>1, <1>3, <1>4, <1>9, <2>1, RowWhole
<1>11. /\ l.book = b /\ l.to = m.to /\ l.path = m.path /\ l.staged = b /\ l.target = n
       /\ l.left = ChapterFiles
  BY <1>3, <1>4, <1>7 DEF Locs
<1>12. ConvertRight("move", l, b)'
  BY <1>1, <1>4, <1>6, <1>9, <1>11, FormsApart DEF ConvertRight
<1>13. Own(k, "move", l, b)'
  BY <1>12, KindOf DEF Own
<1>14. \A t \in Taggers : TempsStay(t)
  BY <1>6 DEF TempsStay
<1> QED BY <1>1, <1>3, <1>8, <1>10, <1>13, <1>14, LoneStep

(* The file moved next is in its place.                                    *)
LEMMA MovedFine ==
    ASSUME Typed, Typed', NEW b \in Books, Fine(b), NEW k \in Converters,
           pc[k] \in {"move", "copy"}, Moved(k), Heals(b), \A t \in Taggers : TempsStay(t),
           disk'[loc[k].target][NextFile(k)] = b
    PROVE  Fine(b)'
<1>1. PICK m : m = loc[k]
  OBVIOUS
<1>2. /\ k \in Actors /\ m.book = b /\ m \in Locs /\ m.path \in Paths /\ Busy(k, b) /\ RowRight(b)
      /\ ConvertRight(pc[k], m, b) /\ k \notin Taggers /\ row[b].path \in Paths
  BY <1>1, ConvertAt
<1>3. m.path = row[b].path /\ Whole(m.path, b) /\ (m.to = "mp3" <=> m.path.file # Folder)
      /\ (m.to = "m4b" => m.left = ChapterFiles) /\ m.staged = b /\ m.target \in dirs
      /\ (m.to = "mp3" => m.left # {} /\ \A f \in ChapterFiles \ m.left : disk[m.target][f] = b)
  BY <1>2 DEF ConvertRight
<1>4. PICK f : f = NextFile(k)
  OBVIOUS
<1>5. /\ m.to = "mp3" => f \in m.left /\ f \in ChapterFiles
      /\ m.to = "m4b" => f = M4b(b, m.target)
      /\ m.to \in {"m4b", "mp3"} /\ m.target \in Names
  BY <1>1, <1>2, <1>4, NextFileIs
<1>6. PICK left : left = IF m.to = "mp3" THEN m.left \ {f} ELSE m.left
  OBVIOUS
<1>7. PICK l, x : /\ l = [m EXCEPT !.left = left, !.open = "none"]
                  /\ x = IF m.to = "mp3" /\ left # {} THEN "move" ELSE "record"
  OBVIOUS
<1>8. Steps(k, x, l)
  BY <1>1, <1>4, <1>6, <1>7 DEF Moved, Set, Goto, Me, Steps
<1>9. /\ l.book = b /\ l.to = m.to /\ l.path = m.path /\ l.staged = b /\ l.target = m.target
      /\ l.left = left
  BY <1>2, <1>3, <1>7 DEF Locs
<1>10. row'[b] = row[b] /\ dirs' = dirs
  BY DEF Heals
<1>11. Whole(m.path, b)'
  <2>1. m.path.file \notin TempFiles
    <3>1. m.path.file \in M4bFiles(b) \cup {Folder}
      BY <1>2, <1>3 DEF RowRight, NoPath
    <3> QED BY <3>1, FormsApart, FileKinds DEF TempFiles, Temp, Folder
  <2> QED BY <1>2, <1>3, <2>1, HealsWhole
<1>12. disk'[m.target][f] = b
  BY <1>1, <1>4
<1>13. m.to = "mp3" => \A g \in ChapterFiles \ left : disk'[m.target][g] = b
  <2>1. SUFFICES ASSUME m.to = "mp3", NEW g \in ChapterFiles \ left
                 PROVE  disk'[m.target][g] = b
    OBVIOUS
  <2>2. CASE g = f
    BY <1>12, <2>2
  <2>3. CASE g # f
    <3>1. disk[m.target][g] = b
      BY <1>3, <1>6, <2>1, <2>3
    <3>2. disk'[m.target][g] \in {disk[m.target][g], b}
      BY <1>5, <2>1, FormsApart DEF Heals
    <3> QED BY <3>1, <3>2
  <2> QED BY <2>2, <2>3
<1>14. x = "record" => Whole(NewPath(l), b)'
  <2>1. SUFFICES ASSUME x = "record" PROVE Whole(NewPath(l), b)'
    OBVIOUS
  <2>2. PICK p : p = NewPath(l)
    OBVIOUS
  <2>3. p \in Paths /\ p.dir = m.target
        /\ p.file = (IF m.to = "mp3" THEN Folder ELSE M4b(b, m.target))
    BY <1>5, <1>9, <2>2, PathsOf DEF NewPath
  <2>4. \A g \in Parts(p) : disk'[m.target][g] = b
    <3>1. CASE m.to = "mp3"
      BY <1>7, <1>13, <2>1, <2>3, <3>1, FormsApart
    <3>2. CASE m.to = "m4b"
      <4>1. p.file = f /\ p.file # Folder
        BY <1>5, <2>3, <3>2 DEF M4b, Folder
      <4> QED BY <1>12, <4>1, FormsApart
    <3> QED BY <1>5, <3>1, <3>2
  <2>5. Whole(p, b)'
    BY <1>5, <2>3, <2>4, WholeIsNext DEF Typed
  <2> QED BY <2>2, <2>5
<1>15. ConvertRight(x, l, b)'
  <2>1. x \in {"move", "record"} /\ (x = "move" => m.to = "mp3" /\ left # {})
    BY <1>7
  <2> QED BY <1>3, <1>6, <1>9, <1>10, <1>11, <1>13, <1>14, <2>1 DEF ConvertRight
<1>16. Own(k, x, l, b)'
  BY <1>15, KindOf DEF Own
<1> QED BY <1>2, <1>8, <1>16, QuietStep

(* A file of the book that is written heals.                               *)
LEMMA WriteHeals ==
    ASSUME Typed, NEW b \in Books, NEW n \in Names, NEW f \in FileNames \ TempFiles,
           Write(n, f, b), UNCHANGED <<dirs, row>>
    PROVE  Heals(b) /\ (\A t \in Taggers : TempsStay(t)) /\ disk'[n][f] = b
<1>1. /\ disk \in [Names -> [FileNames -> Contents]]
      /\ disk' = [disk EXCEPT ![n][f] = b]
  BY DEF Typed, DiskTyped, Write
<1>2. \A m \in Names, g \in FileNames :
         disk'[m][g] = IF m = n /\ g = f THEN b ELSE disk[m][g]
  BY <1>1
<1>3. \A t \in Taggers : Temp(t) \in FileNames /\ Temp(t) # f
  BY FileKinds
<1> QED BY <1>2, <1>3 DEF Heals, TempsStay

(* A file of the new form is written over no file of the old: it is the    *)
(* whole book, or a part that nothing names yet.                           *)
LEMMA MoveInFine ==
    ASSUME Typed, Typed', NEW b \in Apart', Fine(b), NEW k \in Converters, MoveIn(k)
    PROVE  Fine(b)'
<1>1. b \in Books /\ pc[k] = "move" /\ UNCHANGED <<dirs, row>>
  BY ApartIs DEF MoveIn
<1>2. PICK m : m = loc[k]
  OBVIOUS
<1>3. /\ k \in Actors /\ m.book = b /\ m \in Locs /\ m.path \in Paths /\ Busy(k, b) /\ RowRight(b)
      /\ ConvertRight("move", m, b) /\ Prepared("move", m) /\ k \notin Taggers
      /\ row[b].path \in Paths
  BY <1>1, <1>2, ConvertAt
<1>4. m.path = row[b].path /\ Whole(m.path, b) /\ (m.to = "mp3" <=> m.path.file # Folder)
      /\ (m.to = "m4b" => m.left = ChapterFiles) /\ m.staged = b /\ m.target \in dirs
      /\ (m.to = "mp3" => m.left # {} /\ \A f \in ChapterFiles \ m.left : disk[m.target][f] = b)
  BY <1>3 DEF ConvertRight
<1>5. PICK f : f = NextFile(k)
  OBVIOUS
<1>6. /\ m.to = "mp3" => f \in m.left /\ f \in ChapterFiles
      /\ m.to = "m4b" => f = M4b(b, m.target) /\ f \in M4bFiles(b)
      /\ m.to \in {"m4b", "mp3"} /\ m.target \in Names /\ f \in FileNames \ TempFiles
  BY <1>1, <1>2, <1>3, <1>5, NextFileIs DEF M4bFiles
<1>7. CASE Write(m.target, f, m.staged) /\ Moved(k)
  <2>1. Heals(b) /\ (\A t \in Taggers : TempsStay(t)) /\ disk'[m.target][f] = b
    BY <1>1, <1>4, <1>6, <1>7, WriteHeals
  <2> QED BY <1>1, <1>2, <1>5, <1>7, <2>1, MovedFine
<1>8. CASE Write(m.target, f, "part") /\ Set(k, [m EXCEPT !.open = m.target]) /\ Goto(k, "copy")
  <2>1. /\ disk \in [Names -> [FileNames -> Contents]]
        /\ disk' = [disk EXCEPT ![m.target][f] = "part"]
    BY <1>8 DEF Typed, DiskTyped, Write
  <2>2. \A n \in Names, g \in FileNames :
           disk'[n][g] = IF n = m.target /\ g = f THEN "part" ELSE disk[n][g]
    BY <1>6, <2>1
  <2>3. PICK l : l = [m EXCEPT !.open = m.target]
    OBVIOUS
  <2>4. Steps(k, "copy", l)
    BY <1>8, <2>3 DEF Set, Goto, Steps
  <2>5. /\ l.book = b /\ l.to = m.to /\ l.path = m.path /\ l.staged = b /\ l.target = m.target
        /\ l.left = m.left /\ l.open = m.target
    BY <1>3, <1>4, <2>3 DEF Locs
  <2>6. Upcoming(l) = f
    BY <1>2, <1>3, <1>5, <2>5 DEF Upcoming, NextFile, Me
  <2>7. \A g \in Parts(m.path) : g # f /\ g \in FileNames
    <3>1. m.path.file \in M4bFiles(b) \cup {Folder}
      BY <1>3, <1>4 DEF RowRight, NoPath
    <3>2. CASE m.to = "mp3"
      <4>1. Parts(m.path) = {m.path.file} /\ m.path.file \in M4bFiles(b)
        BY <1>1, <1>4, <3>1, <3>2, FormsApart
      <4> QED BY <1>1, <1>6, <3>2, <4>1, FormsApart
    <3>3. CASE m.to = "m4b"
      <4>1. Parts(m.path) = ChapterFiles
        BY <1>1, <1>4, <3>3, FormsApart
      <4> QED BY <1>1, <1>6, <3>3, <4>1, FormsApart
    <3> QED BY <1>6, <3>2, <3>3
  <2>8. m.path.dir \in Names
    BY <1>1, <1>3, <1>4, WholeIs DEF Typed
  <2>9. Whole(m.path, b)'
    BY <1>1, <1>3, <1>4, <2>2, <2>7, <2>8, WholeStays
  <2>10. RowRight(b)' /\ Kept(b)'
    <3>1. m.path.file \in M4bFiles(b) \cup {Folder}
      BY <1>3, <1>4 DEF RowRight, NoPath
    <3> QED BY <1>1, <1>3, <1>4, <2>9, <3>1, RowWhole
  <2>11. m.to = "mp3" => \A g \in ChapterFiles \ m.left : disk'[m.target][g] = b
    BY <1>1, <1>4, <1>6, <2>2, FormsApart
  <2>12. disk'[m.target][f] = "part"
    BY <1>6, <2>2
  <2>13. ConvertRight("copy", l, b)'
    BY <1>1, <1>4, <2>5, <2>6, <2>9, <2>11, <2>12 DEF ConvertRight
  <2>14. Own(k, "copy", l, b)'
    BY <2>13, KindOf DEF Own
  <2>15. \A t \in Taggers : TempsStay(t)
    BY <1>1, <1>6, <2>2, FileKinds DEF TempsStay
  <2> QED BY <1>1, <1>3, <2>4, <2>10, <2>14, <2>15, LoneStep
<1>9. CASE EndConvert(k) /\ UNCHANGED disk
  BY <1>1, <1>9, ConvertStops
<1> QED BY <1>2, <1>5, <1>7, <1>8, <1>9 DEF MoveIn, Me

(* A copy that ends is the whole book; one that fails is what nothing      *)
(* names.                                                                  *)
LEMMA CopiedFine ==
    ASSUME Typed, Typed', NEW b \in Apart', Fine(b), NEW k \in Converters, Copied(k)
    PROVE  Fine(b)'
<1>1. b \in Books /\ pc[k] = "copy" /\ UNCHANGED <<dirs, row>>
  BY ApartIs DEF Copied
<1>2. PICK m : m = loc[k]
  OBVIOUS
<1>3. /\ k \in Actors /\ m.book = b /\ m \in Locs /\ ConvertRight("copy", m, b)
  BY <1>1, <1>2, ConvertAt
<1>4. PICK f : f = NextFile(k)
  OBVIOUS
<1>5. m.target \in Names /\ f \in FileNames \ TempFiles
  BY <1>1, <1>2, <1>4, NextFileIs
<1>6. m.staged = b /\ m.target \in dirs /\ m.open = m.target /\ disk[m.target][f] \in {"part", b}
  <2>1. Upcoming(m) = f
    BY <1>2, <1>3, <1>4 DEF Upcoming, NextFile, Me
  <2> QED BY <1>3, <2>1 DEF ConvertRight
<1>7. CASE /\ \/ \E g \in Copying(k) : Write(m.open, g, m.staged)
              \/ Copying(k) = {} /\ UNCHANGED disk
           /\ Moved(k)
  <2>1. Heals(b) /\ (\A t \in Taggers : TempsStay(t)) /\ disk'[m.target][f] = b
    <3>1. Holds(m.target, f) = disk[m.target][f]
      BY <1>6 DEF Holds
    <3>2. Copying(k) = IF disk[m.target][f] = "part" THEN {f} ELSE {}
      BY <1>1, <1>2, <1>4, <1>5, <1>6, <3>1, OneBook DEF Copying, Me
    <3>3. CASE disk[m.target][f] = "part"
      BY <1>1, <1>5, <1>6, <1>7, <3>2, <3>3, WriteHeals
    <3>4. CASE disk[m.target][f] # "part"
      BY <1>1, <1>6, <1>7, <3>2, <3>4, SameHeals
    <3> QED BY <3>3, <3>4
  <2> QED BY <1>1, <1>2, <1>4, <1>7, <2>1, MovedFine
<1>8. CASE EndConvert(k) /\ UNCHANGED disk
  BY <1>1, <1>8, ConvertStops
<1> QED BY <1>2, <1>4, <1>7, <1>8 DEF Copied, Me

(* The row is told of the new form when all of it is there.                *)
LEMMA RecordFine ==
    ASSUME Typed, Typed', NEW b \in Apart', Fine(b), NEW k \in Converters, Record(k)
    PROVE  Fine(b)'
<1>1. b \in Books /\ pc[k] = "record" /\ UNCHANGED <<dirs, disk>> /\ ~Spend("db")
  BY ApartIs DEF Record
<1>2. PICK m : m = loc[k]
  OBVIOUS
<1>3. /\ k \in Actors /\ m.book = b /\ m \in Locs /\ Busy(k, b) /\ RowRight(b)
      /\ ConvertRight("record", m, b) /\ Prepared("record", m) /\ k \notin Taggers
  BY <1>1, <1>2, ConvertAt
<1>4. PICK p : p = NewPath(m)
  OBVIOUS
<1>5. p \in Paths /\ p.file \in M4bFiles(b) \cup {Folder} /\ Whole(p, b)
  BY <1>1, <1>3, <1>4, PathsOf DEF Prepared, ConvertRight
<1>6. NewPlace(k) = [status |-> "complete", path |-> p]
  BY <1>2, <1>4 DEF NewPlace, NewPath, At, Me
<1>7. CASE row' = [row EXCEPT ![m.book] = NewPlace(k)] /\ Goto(k, "drop") /\ UNCHANGED loc
  <2>1. row'[b] = [status |-> "complete", path |-> p]
    BY <1>1, <1>3, <1>6, <1>7 DEF Typed, RowTyped
  <2>2. Steps(k, "drop", m)
    BY <1>2, <1>3, <1>7, FitsEach DEF Goto, Steps, Typed
  <2>3. Whole(p, b)'
    BY <1>1, <1>5, WholeStays
  <2>4. RowRight(b)' /\ Kept(b)'
    BY <1>1, <1>5, <2>1, <2>3, RowWhole
  <2>5. m.path.file = Folder \/ m.path.file \in M4bFiles(b)
    BY <1>3 DEF RowRight, NoPath, ConvertRight
  <2>6. ConvertRight("drop", m, b)'
    BY <1>3, <1>4, <2>1, <2>5 DEF ConvertRight
  <2>7. Own(k, "drop", m, b)'
    BY <2>6, KindOf DEF Own
  <2>8. \A t \in Taggers : TempsStay(t)
    BY <1>1 DEF TempsStay
  <2> QED BY <1>1, <1>3, <2>2, <2>4, <2>7, <2>8, LoneStep
<1>8. CASE EndConvert(k) /\ UNCHANGED row
  BY <1>1, <1>8, ConvertStops
<1> QED BY <1>1, <1>2, <1>7, <1>8 DEF Record, Me

(* The old files go when the row names the new ones, which have other      *)
(* names.                                                                  *)
LEMMA DropOldFine ==
    ASSUME Typed, Typed', NEW b \in Apart', Fine(b), NEW k \in Converters, DropOld(k)
    PROVE  Fine(b)'
<1>1. b \in Books /\ pc[k] = "drop" /\ UNCHANGED <<dirs, row>>
  BY ApartIs DEF DropOld
<1>2. PICK m : m = loc[k]
  OBVIOUS
<1>3. /\ k \in Actors /\ m.book = b /\ m \in Locs /\ m.path \in Paths /\ Busy(k, b) /\ RowRight(b)
      /\ ConvertRight("drop", m, b) /\ Prepared("drop", m) /\ k \notin Taggers
  BY <1>1, <1>2, ConvertAt
<1>4. PICK p : p = NewPath(m)
  OBVIOUS
<1>5. /\ row[b].path = p /\ p \in Paths /\ p.file \in M4bFiles(b) \cup {Folder}
      /\ p.file = (IF m.to = "mp3" THEN Folder ELSE M4b(b, m.target))
      /\ Whole(p, b)
  <2>1. row[b] = [status |-> "complete", path |-> p]
    BY <1>3, <1>4 DEF ConvertRight
  <2>2. Whole(p, b)
    BY <1>3, <2>1 DEF RowRight
  <2> QED BY <1>1, <1>3, <1>4, <2>1, <2>2, PathsOf DEF Prepared, NewPath
<1>6. /\ m.to = "mp3" <=> m.path.file # Folder
      /\ m.path.file = Folder \/ m.path.file \in M4bFiles(b)
      /\ m.to \in {"m4b", "mp3"} /\ m.left \subseteq ChapterFiles
  BY <1>3 DEF ConvertRight, Prepared, Locs
<1>7. ASSUME NEW f \in FileNames \ TempFiles, f \notin Parts(p), DropFile(k, f)
      PROVE  RowRight(b)' /\ Kept(b)' /\ \A t \in Taggers : TempsStay(t)
  <2>1. \A n \in Names, g \in FileNames \ {f} : disk'[n][g] = disk[n][g]
    <3>1. CASE UNCHANGED disk
      BY <3>1
    <3>2. CASE m.path.dir \in dirs /\ Write(m.path.dir, f, "none")
      BY <3>2 DEF Write, Typed, DiskTyped
    <3> QED BY <1>2, <1>7, <3>1, <3>2 DEF DropFile, Me
  <2>2. p.dir \in Names /\ Parts(p) \subseteq FileNames
    BY <1>1, <1>5, WholeIs, FormsApart DEF Typed
  <2>3. Whole(p, b)'
    BY <1>1, <1>5, <1>7, <2>1, <2>2, WholeStays
  <2>4. RowRight(b)' /\ Kept(b)'
    BY <1>1, <1>5, <2>3, RowWhole
  <2>5. \A t \in Taggers : TempsStay(t)
    BY <1>1, <1>7, <2>1, FileKinds DEF TempsStay
  <2> QED BY <2>4, <2>5
<1>8. CASE m.to = "mp3" /\ DropFile(k, m.path.file) /\ EndConvert(k)
  <2>1. m.path.file \in FileNames \ TempFiles /\ m.path.file \notin Parts(p)
    BY <1>1, <1>5, <1>6, <1>8, FormsApart
  <2>2. RowRight(b)' /\ Kept(b)' /\ \A t \in Taggers : TempsStay(t)
    BY <1>7, <1>8, <2>1
  <2>3. Steps(k, "idle", Idle)
    BY <1>8 DEF EndConvert, Stop, Goto, Steps
  <2> QED BY <1>1, <1>3, <2>2, <2>3, IdleOwn, LoneStep
<1>9. ASSUME m.to = "m4b", NEW f \in m.left, DropFile(k, f),
             Set(k, [m EXCEPT !.left = m.left \ {f}]), UNCHANGED pc
      PROVE  Fine(b)'
  <2>1. f \in FileNames \ TempFiles /\ f \notin Parts(p)
    BY <1>1, <1>5, <1>6, <1>9, FormsApart DEF M4b, Folder
  <2>2. RowRight(b)' /\ Kept(b)' /\ \A t \in Taggers : TempsStay(t)
    BY <1>7, <1>9, <2>1
  <2>3. PICK left : left = m.left \ {f}
    OBVIOUS
  <2>4. PICK l : l = [m EXCEPT !.left = left]
    OBVIOUS
  <2>5. Steps(k, "drop", l)
    BY <1>1, <1>3, <1>9, <2>3, <2>4, FitsEach DEF Set, Steps, Typed
  <2>6. l.book = b /\ l.to = m.to /\ l.path = m.path /\ l.target = m.target
    BY <1>3, <2>4 DEF Locs
  <2>7. NewPath(l) = p
    BY <1>3, <1>4, <2>6 DEF NewPath
  <2>8. row'[b] = [status |-> "complete", path |-> p]
    BY <1>1, <1>3, <1>4 DEF ConvertRight
  <2>9. ConvertRight("drop", l, b)'
    BY <1>6, <2>6, <2>7, <2>8 DEF ConvertRight
  <2>10. Own(k, "drop", l, b)'
    BY <2>9, KindOf DEF Own
  <2> QED BY <1>1, <1>3, <2>2, <2>5, <2>10, LoneStep
<1>10. CASE EndConvert(k) /\ UNCHANGED disk
  BY <1>1, <1>10, ConvertStops
<1> QED BY <1>2, <1>8, <1>9, <1>10 DEF DropOld, Me

-----------------------------------------------------------------------------
(* Moves keep it *)

(* What is on the disk is the same when the disk is.                       *)
LEMMA SameDisk ==
    ASSUME NEW b, UNCHANGED <<dirs, disk>>
    PROVE  /\ Kept(b)' <=> Kept(b)
           /\ \A p : Whole(p, b)' <=> Whole(p, b)
           /\ \A p : Present(p)' <=> Present(p)
<1>1. \A n, f : Holds(n, f)' = Holds(n, f)
  BY DEF Holds
<1>2. Kept(b)' <=> Kept(b)
  BY <1>1 DEF Kept, M4bs, Splits
<1>3. \A p : (Whole(p, b)' <=> Whole(p, b)) /\ (Present(p)' <=> Present(p))
  BY <1>1 DEF Whole, Present
<1> QED BY <1>2, <1>3

(* A row that is marked as under way or failed names the same files.       *)
LEMMA MarkRow ==
    ASSUME Typed, NEW b \in Books, RowRight(b), UNCHANGED <<dirs, disk>>,
           NEW s \in {"processing", "failed"}, row' = [row EXCEPT ![b].status = s]
    PROVE  row'[b] = [status |-> s, path |-> row[b].path] /\ RowRight(b)'
<1>1. row[b] = [status |-> row[b].status, path |-> row[b].path]
  BY DEF Typed, RowTyped
<1>2. row'[b] = [status |-> s, path |-> row[b].path]
  BY <1>1 DEF Typed, RowTyped
<1>3. RowRight(b)'
  BY <1>2, SameDisk DEF RowRight
<1> QED BY <1>2, <1>3

(* What is known of a job at a book.                                       *)
LEMMA MoveAt ==
    ASSUME Typed, NEW b \in Books, Fine(b), NEW r \in Movers, pc[r] # "idle"
    PROVE  /\ r \in Actors /\ loc[r] \in Locs /\ loc[r].book = b /\ loc[r].path \in Paths
           /\ Placed(pc[r], loc[r]) /\ MoveRight(pc[r], loc[r], b)
           /\ pc[r] # "queued" => Busy(r, b)
           /\ r \notin Taggers /\ r \notin Scanners /\ r \notin Converters
           /\ RowRight(b) /\ row[b].path \in Paths
           /\ row[b].path.file \in M4bFiles(b) \cup {Folder}
<1>1. r \in Actors /\ loc[r] \in Locs /\ Placed(pc[r], loc[r]) /\ loc[r].book \in Books
  BY MovingOn
<1>2. loc[r].book = b
  BY <1>1, OneBook
<1>3. MoveRight(pc[r], loc[r], b)
  BY <1>1, <1>2 DEF Fine, Own
<1>4. row[b].path \in Paths /\ loc[r].path \in Paths
  BY <1>1 DEF Typed, RowTyped, Locs
<1>5. row[b].path.file \in M4bFiles(b) \cup {Folder}
  BY DEF Fine, RowRight, NoPath
<1> QED BY <1>1, <1>2, <1>3, <1>4, <1>5, KindOf DEF Busy, Fine

(* A job that fails marks the row.                                         *)
LEMMA FailFine ==
    ASSUME Typed, NEW b \in Books, Fine(b), NEW r \in Movers, pc[r] \notin {"idle", "queued"},
           FailMove(r), UNCHANGED <<dirs, disk>>
    PROVE  Fine(b)'
<1>1. r \in Actors /\ loc[r].book = b /\ Busy(r, b) /\ pc[r] # "lock"
  BY MoveAt, MovingOn DEF MoveStages
<1>2. RowRight(b)'
  BY <1>1, MarkRow DEF FailMove, Me, Fine
<1>3. Kept(b)'
  BY SameDisk DEF Fine
<1>4. Steps(r, "idle", Idle)
  BY DEF FailMove, Stop, Goto, Steps
<1>5. \A t \in Taggers : TempsStay(t)
  BY DEF TempsStay
<1> QED BY <1>1, <1>2, <1>3, <1>4, <1>5, IdleOwn, LoneStep

(* A job that goes on while nothing changes.                               *)
LEMMA MoveQuiet ==
    ASSUME Typed, Typed', NEW b \in Books, Fine(b), UNCHANGED <<dirs, disk, row>>,
           NEW r \in Movers, NEW x, NEW l, Steps(r, x, l),
           x # "queued" /\ l.book = b => Busy(r, b), MoveRight(x, l, b)
    PROVE  Fine(b)'
<1>1. r \in Actors
  BY KindOf
<1>2. MoveRight(x, l, b)'
  BY SameDisk DEF MoveRight
<1>3. Own(r, x, l, b)'
  BY <1>2, KindOf DEF Own
<1> QED BY <1>1, <1>3, SameHeals, QuietStep, KindOf

(* A job that waits does not work on the book.                             *)
LEMMA PlanFine ==
    ASSUME Typed, Typed', NEW b \in Apart', Fine(b), NEW r \in Movers, NEW c \in Books, Plan(r, c)
    PROVE  Fine(b)'
<1>1. b \in Books /\ UNCHANGED <<dirs, disk, row>>
  BY ApartIs DEF Plan
<1>2. PICK l : l = [loc[r] EXCEPT !.book = c]
  OBVIOUS
<1>3. Steps(r, "queued", l)
  BY <1>2 DEF Plan, Set, Goto, Me, Steps
<1>4. MoveRight("queued", l, b)
  BY DEF MoveRight
<1> QED BY <1>1, <1>3, <1>4, MoveQuiet

(* A job that begins alone keeps the row it read.                          *)
LEMMA StartMoveFine ==
    ASSUME Typed, Typed', NEW b \in Apart', Fine(b), NEW r \in Movers, StartMove(r)
    PROVE  Fine(b)'
<1>1. b \in Books /\ b \notin shaken' /\ UNCHANGED <<dirs, disk>> /\ pc[r] = "queued"
  BY ApartIs DEF StartMove
<1>2. /\ r \in Actors /\ loc[r] \in Locs /\ loc[r].book = b /\ RowRight(b)
      /\ r \notin Taggers /\ r \notin Scanners /\ r \notin Converters
  BY <1>1, MoveAt
<1>3. PICK l : l = [loc[r] EXCEPT !.path = row[b].path]
  OBVIOUS
<1>4. Steps(r, "stat", l)
  BY <1>2, <1>3 DEF StartMove, Set, Goto, Me, Steps
<1>5. l.book = b /\ l.path = row[b].path
  BY <1>2, <1>3 DEF Locs
<1>6. row'[b] = [status |-> "processing", path |-> row[b].path] /\ RowRight(b)'
  BY <1>1, <1>2, MarkRow DEF StartMove, Me
<1>7. Alone(b)'
  BY <1>1, <1>2, <1>4, BeginsAlone DEF StartMove, Me, Fine
<1>8. /\ loc'[r] = l /\ pc'[r] = "stat"
      /\ \A w \in Actors \ {r} : loc'[w] = loc[w] /\ pc'[w] = pc[w]
  BY <1>2, <1>4, StepsIs
<1>9. Busy(r, b)'
  BY <1>2, <1>5, <1>8 DEF Busy
<1>10. \A w \in Actors \ {r} : ~Busy(w, b)
  BY <1>2, <1>7, <1>8, <1>9 DEF Alone, Busy
<1>11. MoveRight("stat", l, b)'
  BY <1>5, <1>6 DEF MoveRight
<1>12. Own(r, "stat", l, b)'
  BY <1>11, KindOf DEF Own
<1>13. Own(r, pc[r], loc[r], b)'
  BY <1>8, <1>12
<1>14. ASSUME NEW q \in Scanners \ {r}
       PROVE  ScanRight(pc[q], loc[q])'
  <2>1. pc'[q] = "idle"
    BY <1>2, <1>7, <1>9 DEF Alone
  <2> QED BY <2>1 DEF ScanRight
<1>15. ASSUME NEW t \in Taggers \ {r}, loc[t].book = b
       PROVE  TagRight(t, pc[t], loc[t], b)'
  <2>1. t \in Actors /\ loc'[t] = loc[t] /\ pc'[t] = pc[t]
    BY <1>8, <1>15, KindOf
  <2>2. TagRight(t, pc[t], loc[t], b)
    BY <1>15, <2>1 DEF Fine, Own
  <2> QED BY <1>1, <2>1, <2>2 DEF TagRight
<1>16. Kept(b)'
  BY <1>1, SameDisk DEF Fine
<1> QED BY <1>1, <1>2, <1>6, <1>7, <1>8, <1>10, <1>13, <1>14, <1>15, <1>16, OthersOwn

(* What the row names is the whole book, which the job is to rename.       *)
LEMMA StatFine ==
    ASSUME Typed, Typed', NEW b \in Apart', Fine(b), NEW r \in Movers, Stat(r)
    PROVE  Fine(b)'
<1>1. b \in Books /\ UNCHANGED <<dirs, disk>> /\ pc[r] = "stat"
  BY ApartIs DEF Stat
<1>2. PICK m : m = loc[r]
  OBVIOUS
<1>3. /\ r \in Actors /\ m \in Locs /\ m.book = b /\ Busy(r, b) /\ RowRight(b) /\ m.path \in Paths
      /\ MoveRight("stat", m, b) /\ row[b].path.file \in M4bFiles(b) \cup {Folder}
  BY <1>1, <1>2, MoveAt
<1>4. m.path = row[b].path /\ row[b].status = "processing"
  BY <1>3 DEF MoveRight
<1>5. PICK n \in Names : n = home[b]
  BY <1>1 DEF Typed, RestTyped
<1>6. PICK p : p = m.path
  OBVIOUS
<1>7. ASSUME Present(p), NEW x,
             x = (IF p.file = Folder \/ p.file = Target(p, b).file THEN "movedir" ELSE "movefile"),
             Set(r, [m EXCEPT !.target = n]), Goto(r, x), UNCHANGED row
      PROVE  Fine(b)'
  <2>1. PICK l : l = [m EXCEPT !.target = n]
    OBVIOUS
  <2>2. Steps(r, x, l)
    BY <1>7, <2>1 DEF Set, Goto, Steps
  <2>3. l.book = b /\ l.path = p /\ l.target = n
    BY <1>3, <1>6, <2>1 DEF Locs
  <2>4. Whole(p, b)
    BY <1>3, <1>4, <1>6, <1>7 DEF RowRight
  <2>5. x = "movefile" => p.file \notin {Folder, M4b(b, n)}
    BY <1>5, <1>7 DEF Target
  <2>6. x = "movedir" => Place(b, p.dir, p, n) = p
    BY <1>3, <1>5, <1>6, <1>7, PathFields DEF Target, Place
  <2>7. x \in {"movedir", "movefile"}
    BY <1>7
  <2>8. MoveRight(x, l, b)
    BY <1>3, <1>4, <1>6, <2>3, <2>4, <2>5, <2>6, <2>7 DEF MoveRight
  <2> QED BY <1>1, <1>3, <1>7, <2>2, <2>8, MoveQuiet
<1>8. CASE FailMove(r)
  BY <1>1, <1>8, FailFine
<1> QED BY <1>2, <1>3, <1>5, <1>6, <1>7, <1>8 DEF Stat, Me

(* The m4b is renamed whole: the job knows it by its new name in its old   *)
(* folder.                                                                 *)
LEMMA MoveFileFine ==
    ASSUME Typed, Typed', NEW b \in Apart', Fine(b), NEW r \in Movers, MoveFile(r)
    PROVE  Fine(b)'
<1>1. b \in Books /\ UNCHANGED dirs /\ pc[r] = "movefile"
  BY ApartIs DEF MoveFile
<1>2. PICK m : m = loc[r]
  OBVIOUS
<1>3. /\ r \in Actors /\ m \in Locs /\ m.book = b /\ Busy(r, b) /\ RowRight(b) /\ m.path \in Paths
      /\ MoveRight("movefile", m, b) /\ row[b].path.file \in M4bFiles(b) \cup {Folder}
  BY <1>1, <1>2, MoveAt
<1>4. PICK p, n : p = m.path /\ n = m.target
  OBVIOUS
<1>5. /\ row[b] = [status |-> "processing", path |-> p] /\ n \in Names
      /\ Whole(p, b) /\ p.file \notin {Folder, M4b(b, n)} /\ p \in Paths
  BY <1>3, <1>4 DEF MoveRight
<1>6. /\ p.dir \in Names /\ p.dir \in dirs /\ Present(p) /\ disk[p.dir][p.file] = b
      /\ p.file \in M4bFiles(b) /\ M4b(b, n) \in M4bFiles(b)
  BY <1>1, <1>3, <1>5, WholeIs, FormsApart DEF Typed, M4bFiles
<1>7. /\ row' = row /\ loc' = loc /\ Goto(r, "movedir")
      /\ disk' = [disk EXCEPT ![p.dir][M4b(b, n)] = disk[p.dir][p.file], ![p.dir][p.file] = "none"]
  BY <1>2, <1>3, <1>4, <1>6 DEF MoveFile, Me
<1>8. /\ disk \in [Names -> [FileNames -> Contents]]
      /\ p.file \in FileNames /\ M4b(b, n) \in FileNames /\ M4b(b, n) # p.file
  BY <1>1, <1>5, <1>6, FormsApart DEF Typed, DiskTyped
<1>9. \A m1 \in Names, g \in FileNames :
         disk'[m1][g] = IF m1 = p.dir /\ g = p.file THEN "none"
                        ELSE IF m1 = p.dir /\ g = M4b(b, n) THEN b ELSE disk[m1][g]
  BY <1>6, <1>7, <1>8
<1>10. Steps(r, "movedir", m)
  BY <1>2, <1>3, <1>7, FitsEach DEF Goto, Steps, Typed
<1>11. PICK new : new = Place(b, p.dir, p, n)
  OBVIOUS
<1>12. new \in Paths /\ new.dir = p.dir /\ new.file = M4b(b, n) /\ Parts(new) = {M4b(b, n)}
       /\ new.file # Folder
  BY <1>1, <1>5, <1>6, <1>11, PathsOf, FormsApart DEF Place
<1>13. Whole(new, b)'
  BY <1>1, <1>6, <1>8, <1>9, <1>12, WholeIsNext DEF Typed
<1>14. Kept(b)'
  BY <1>1, <1>6, <1>12, <1>13, KeptNext DEF Typed
<1>15. RowRight(b)'
  <2>1. ~Present(p)'
    <3>1. disk'[p.dir][p.file] = "none"
      BY <1>6, <1>8, <1>9
    <3> QED BY <1>1, <1>5, <3>1, WholeIsNext DEF Typed
  <2>2. p.dir \in Names /\ p.file \in M4bFiles(b) /\ row'[b] = [status |-> "processing", path |-> p]
    BY <1>5, <1>6, <1>7
  <2> QED BY <2>1, <2>2 DEF RowRight
<1>16. MoveRight("movedir", m, b)'
  BY <1>4, <1>5, <1>7, <1>11, <1>13 DEF MoveRight
<1>17. Own(r, "movedir", m, b)'
  BY <1>16, KindOf DEF Own
<1>18. \A t \in Taggers : TempsStay(t)
  <2>1. \A t \in Taggers : Temp(t) \in FileNames /\ Temp(t) # p.file /\ Temp(t) # M4b(b, n)
    BY <1>1, <1>6, FileKinds
  <2> QED BY <1>9, <2>1 DEF TempsStay
<1> QED BY <1>1, <1>3, <1>10, <1>14, <1>15, <1>17, <1>18, LoneStep

(* A repair goes on as before when a folder is renamed: what it writes     *)
(* goes with the folder.                                                   *)
LEMMA TagMoves ==
    ASSUME Typed, NEW b \in Books, NEW old \in Names, NEW new \in Names, old # new,
           \A f \in FileNames : disk[new][f] = "none",
           disk' = [disk EXCEPT ![new] = disk[old], ![old] = Bare],
           NEW t \in Taggers, NEW x, NEW m \in Locs, NEW l,
           l.path = m.path, l.staged = m.staged, m.open = old => l.open = new,
           m.open # old => l.open = m.open,
           TagRight(t, x, m, b)
    PROVE  TagRight(t, x, l, b)'
<1>1. Temp(t) \in FileNames
  BY FileKinds
<1>2. \A n \in Names : disk'[n][Temp(t)] = IF n = new THEN disk[old][Temp(t)]
                                           ELSE IF n = old THEN "none" ELSE disk[n][Temp(t)]
  BY <1>1 DEF Typed, DiskTyped, Bare
<1>3. disk[new][Temp(t)] = "none"
  BY <1>1
<1>4. /\ l.path = m.path /\ l.staged = m.staged
      /\ (m.open = old => l.open = new) /\ (m.open # old => l.open = m.open)
  OBVIOUS
<1>5. x = "tag" => \A n \in Names : disk'[n][Temp(t)] = "none"
  BY <1>2 DEF TagRight
<1>6. x # "tag" => \A n \in Names : disk'[n][Temp(t)] \in {"none", "part", b}
  BY <1>2 DEF TagRight
<1>7. x = "embed" => l.open \in Names /\ \A n \in Names \ {l.open} : disk'[n][Temp(t)] = "none"
  <2>1. SUFFICES ASSUME x = "embed"
                 PROVE  l.open \in Names /\ \A n \in Names \ {l.open} : disk'[n][Temp(t)] = "none"
    OBVIOUS
  <2>2. m.open \in Names /\ \A n \in Names \ {m.open} : disk[n][Temp(t)] = "none"
    BY <2>1 DEF TagRight
  <2>3. CASE m.open = old
    BY <1>2, <1>3, <1>4, <2>2, <2>3
  <2>4. CASE m.open # old
    <3>1. disk[old][Temp(t)] = "none" /\ l.open = m.open
      BY <1>4, <2>2, <2>4
    <3> QED BY <1>2, <2>2, <3>1
  <2> QED BY <2>3, <2>4
<1>8. x = "replace" => \A n \in Names : disk'[n][Temp(t)] # "part"
  <2>1. x = "replace" => \A n \in Names : disk[n][Temp(t)] # "part"
    BY DEF TagRight
  <2>2. PICK d : d = [n \in Names |-> disk[n][Temp(t)]]
    OBVIOUS
  <2>3. \A n \in Names : d[n] = disk[n][Temp(t)]
    BY <2>2
  <2>4. x = "replace" => \A n \in Names : d[n] # "part"
    BY <2>1, <2>3
  <2>5. \A n \in Names : disk'[n][Temp(t)] \in {d[old], "none", d[n]}
    BY <1>2, <2>3
  <2> QED BY <2>4, <2>5
<1> QED BY <1>4, <1>5, <1>6, <1>7, <1>8 DEF TagRight

(* The folder is renamed with the whole book in it, to one that had        *)
(* nothing to lose.                                                        *)
LEMMA MoveDirFine ==
    ASSUME Typed, Typed', NEW b \in Apart', Fine(b), NEW r \in Movers, MoveDir(r)
    PROVE  Fine(b)'
<1>1. b \in Books /\ pc[r] = "movedir"
  BY ApartIs DEF MoveDir
<1>2. PICK m : m = loc[r]
  OBVIOUS
<1>3. /\ r \in Actors /\ m \in Locs /\ m.book = b /\ Busy(r, b) /\ RowRight(b) /\ m.path \in Paths
      /\ MoveRight("movedir", m, b) /\ row[b].path.file \in M4bFiles(b) \cup {Folder}
      /\ r \notin Taggers
  BY <1>1, <1>2, MoveAt
<1>4. PICK p, old, new : p = m.path /\ old = m.path.dir /\ new = m.target
  OBVIOUS
<1>5. /\ row[b] = [status |-> "processing", path |-> p] /\ new \in Names
      /\ Whole(Place(b, old, p, new), b) /\ p \in Paths
  BY <1>3, <1>4 DEF MoveRight
<1>6. old \in dirs /\ old \in Names
  BY <1>5 DEF Whole, Place, Typed, DiskTyped
<1>7. CASE old = new /\ Goto(r, "note") /\ UNCHANGED <<dirs, disk, loc, row>>
  <2>1. Steps(r, "note", m)
    BY <1>2, <1>3, <1>7, FitsEach DEF Goto, Steps, Typed
  <2>2. MoveRight("note", m, b)
    BY <1>4, <1>5, <1>7 DEF MoveRight
  <2> QED BY <1>1, <1>3, <1>7, <2>1, <2>2, MoveQuiet
<1>8. CASE /\ old # new /\ (new \in dirs => Empty(new))
           /\ dirs' = (dirs \ {old}) \cup {new}
           /\ disk' = [disk EXCEPT ![new] = disk[old], ![old] = Bare]
           /\ loc' = [v \in Actors |-> [loc[v] EXCEPT !.open = IF @ = old THEN new ELSE @]]
           /\ Goto(r, "note") /\ UNCHANGED row
  <2>1. \A f \in FileNames : disk[new][f] = "none"
    BY <1>5, <1>8 DEF Empty, Typed, DiskTyped, Bare
  <2>2. /\ \A f \in FileNames : disk'[new][f] = disk[old][f]
        /\ new \in dirs' /\ old \notin dirs'
    BY <1>5, <1>6, <1>8 DEF Typed, DiskTyped
  <2>3. PICK q, z : q = Place(b, old, p, new) /\ z = Place(b, new, p, new)
    OBVIOUS
  <2>4. /\ q \in Paths /\ z \in Paths /\ q.dir = old /\ z.dir = new /\ Parts(z) = Parts(q)
        /\ z.file \in M4bFiles(b) \cup {Folder}
    BY <1>1, <1>5, <1>6, <2>3, PathsOf DEF Place, Parts
  <2>5. \A f \in Parts(q) : f \in FileNames /\ disk[old][f] = b
    <3>1. q.file \in M4bFiles(b) \cup {Folder}
      BY <1>1, <1>5, <1>6, <2>3, PathsOf
    <3>2. \A f \in Parts(q) : f \in FileNames
      BY <1>1, <3>1, FormsApart
    <3> QED BY <1>1, <1>5, <2>3, <2>4, <3>2, WholeIs DEF Typed
  <2>6. Whole(z, b)'
    BY <1>1, <1>5, <2>2, <2>4, <2>5, WholeIsNext DEF Typed
  <2>7. Kept(b)'
    BY <1>1, <2>4, <2>6, KeptNext DEF Typed
  <2>8. RowRight(b)'
    <3>1. ~Present(p)'
      BY <1>4, <2>2 DEF Present
    <3>2. row'[b] = [status |-> "processing", path |-> p] /\ p.dir \in Names
          /\ p.file \in M4bFiles(b) \cup {Folder}
      BY <1>3, <1>4, <1>5, <1>6, <1>8
    <3> QED BY <3>1, <3>2 DEF RowRight
  <2>9. loc \in [Actors -> Locs] /\ pc \in [Actors -> Stages]
    BY FitsEach DEF Typed
  <2>10. \A w \in Actors : loc'[w] = [loc[w] EXCEPT !.open = IF loc[w].open = old THEN new
                                                          ELSE loc[w].open]
    BY <1>8
  <2>11. pc'[r] = "note" /\ \A w \in Actors \ {r} : pc'[w] = pc[w]
    BY <1>3, <1>8, <2>9 DEF Goto
  <2>12. \A w \in Actors : loc'[w].book = loc[w].book
    <3> TAKE w \in Actors
    <3>1. PICK n, o : n = loc[w] /\ o = IF n.open = old THEN new ELSE n.open
      OBVIOUS
    <3>2. n \in Locs
      BY <2>9, <3>1
    <3>3. loc'[w] = [n EXCEPT !.open = o]
      BY <2>10, <3>1
    <3> QED BY <3>1, <3>2, <3>3 DEF Locs
  <2>13. ASSUME NEW t \in Taggers, loc[t].book = b
         PROVE  TagRight(t, pc[t], loc[t], b)'
    <3>1. PICK x, l, n : x = pc[t] /\ n = loc[t] /\ l = loc'[t]
      OBVIOUS
    <3>2. t \in Actors /\ n \in Locs /\ pc'[t] = pc[t]
      BY <1>3, <2>9, <2>11, <3>1, KindOf
    <3>3. TagRight(t, x, n, b)
      BY <2>13, <3>1, <3>2 DEF Fine, Own
    <3>4. /\ l.path = n.path /\ l.staged = n.staged
          /\ (n.open = old => l.open = new) /\ (n.open # old => l.open = n.open)
      <4>1. PICK o : o = IF n.open = old THEN new ELSE n.open
        OBVIOUS
      <4>2. l = [n EXCEPT !.open = o]
        BY <2>10, <3>1, <3>2, <4>1
      <4> QED BY <3>2, <4>1, <4>2 DEF Locs
    <3>5. TagRight(t, x, l, b)'
      BY <1>1, <1>5, <1>6, <1>8, <2>1, <3>2, <3>3, <3>4, TagMoves
    <3> QED BY <3>1, <3>2, <3>5
  <2>14. PICK l : l = loc'[r]
    OBVIOUS
  <2>15. l.book = b /\ l.path = p /\ l.target = new
    BY <1>2, <1>3, <1>4, <2>10, <2>14 DEF Locs
  <2>16. row'[b] = row[b]
    BY <1>8
  <2>17. MoveRight("note", l, b)'
    BY <1>5, <2>3, <2>6, <2>15, <2>16 DEF MoveRight
  <2>18. Own(r, "note", l, b)'
    BY <2>17, KindOf DEF Own
  <2>19. Own(r, pc[r], loc[r], b)'
    BY <2>11, <2>14, <2>18
  <2> QED BY <1>1, <1>3, <2>7, <2>8, <2>11, <2>12, <2>13, <2>19, WorkStep
<1>9. CASE FailMove(r) /\ UNCHANGED <<dirs, disk>>
  BY <1>1, <1>9, FailFine
<1> QED BY <1>2, <1>4, <1>7, <1>8, <1>9 DEF MoveDir, Me

(* The row is told where the book was moved to.                            *)
LEMMA NoteMoveFine ==
    ASSUME Typed, Typed', NEW b \in Apart', Fine(b), NEW r \in Movers, NoteMove(r)
    PROVE  Fine(b)'
<1>1. b \in Books /\ UNCHANGED <<dirs, disk>> /\ pc[r] = "note" /\ ~Spend("db")
  BY ApartIs DEF NoteMove
<1>2. PICK m : m = loc[r]
  OBVIOUS
<1>3. /\ r \in Actors /\ m \in Locs /\ m.book = b /\ Busy(r, b) /\ m.path \in Paths
      /\ MoveRight("note", m, b)
  BY <1>1, <1>2, MoveAt
<1>4. PICK z : z = Place(b, m.target, m.path, m.target)
  OBVIOUS
<1>5. m.target \in Names /\ Whole(z, b) /\ z \in Paths /\ z.file \in M4bFiles(b) \cup {Folder}
  BY <1>1, <1>3, <1>4, PathsOf DEF MoveRight
<1>6. Stop(r) /\ row' = [row EXCEPT ![b] = [status |-> "complete", path |-> z]]
  BY <1>1, <1>2, <1>3, <1>4 DEF NoteMove, At, Place, Me
<1>7. row'[b] = [status |-> "complete", path |-> z]
  BY <1>1, <1>6 DEF Typed, RowTyped
<1>8. Whole(z, b)'
  BY <1>1, <1>5, SameDisk
<1>9. RowRight(b)' /\ Kept(b)'
  BY <1>1, <1>5, <1>7, <1>8, RowWhole
<1>10. Steps(r, "idle", Idle)
  BY <1>6 DEF Stop, Goto, Steps
<1>11. \A t \in Taggers : TempsStay(t)
  BY <1>1 DEF TempsStay
<1> QED BY <1>1, <1>3, <1>9, <1>10, <1>11, IdleOwn, LoneStep

-----------------------------------------------------------------------------
(* So do repairs of the tags *)

(* What is known of a repair at a book.                                    *)
LEMMA TagAt ==
    ASSUME Typed, NEW b \in Books, Fine(b), NEW t \in Taggers, pc[t] # "idle"
    PROVE  /\ t \in Actors /\ loc[t] \in Locs /\ loc[t].book = b /\ loc[t].path \in Paths
           /\ TagRight(t, pc[t], loc[t], b)
           /\ loc[t].path.dir \in Names /\ loc[t].path.file \in M4bFiles(b)
<1>1. t \in Actors /\ t \notin Scanners
  BY KindOf
<1>2. loc[t] \in Locs /\ loc[t].book = b /\ loc[t].path \in Paths
  BY <1>1, Marks, OneBook DEF Typed
<1>3. TagRight(t, pc[t], loc[t], b)
  BY <1>1, <1>2 DEF Fine, Own
<1> QED BY <1>1, <1>2, <1>3 DEF TagRight

(* A repair goes on, beside what others do.                                *)
LEMMA TagQuiet ==
    ASSUME Typed, Typed', NEW b \in Books, Fine(b), Heals(b), NEW t \in Taggers, NEW x, NEW l,
           Steps(t, x, l), \A u \in Taggers \ {t} : TempsStay(u), TagRight(t, x, l, b)'
    PROVE  Fine(b)'
<1>1. t \in Actors
  BY KindOf
<1>2. Own(t, x, l, b)'
  BY KindOf DEF Own
<1> QED BY <1>1, <1>2, QuietStep, KindOf

(* A repair writes a temporary file of its own.                            *)
LEMMA WriteTemp ==
    ASSUME Typed, NEW b \in Books, NEW t \in Taggers, NEW n \in Names, NEW c,
           Write(n, Temp(t), c), UNCHANGED <<dirs, row>>
    PROVE  /\ Heals(b) /\ \A u \in Taggers \ {t} : TempsStay(u)
           /\ \A m \in Names : disk'[m][Temp(t)] = IF m = n THEN c ELSE disk[m][Temp(t)]
<1>1. /\ disk \in [Names -> [FileNames -> Contents]] /\ Temp(t) \in FileNames
      /\ disk' = [disk EXCEPT ![n][Temp(t)] = c]
  BY FileKinds DEF Typed, DiskTyped, Write
<1>2. \A m \in Names, g \in FileNames :
         disk'[m][g] = IF m = n /\ g = Temp(t) THEN c ELSE disk[m][g]
  BY <1>1
<1>3. \A u \in Taggers :
         Temp(u) \in FileNames /\ Temp(u) \in TempFiles /\ (u # t => Temp(u) # Temp(t))
  BY FileKinds
<1> QED BY <1>1, <1>2, <1>3 DEF Heals, TempsStay

(* A repair starts from an m4b that the row names.                         *)
LEMMA ListBooksFine ==
    ASSUME Typed, Typed', NEW b \in Apart', Fine(b), NEW t \in Taggers, NEW c \in Books,
           ListBooks(t, c)
    PROVE  Fine(b)'
<1>1. b \in Books /\ c = b /\ UNCHANGED <<dirs, disk, row>>
  BY ApartIs, OneBook DEF ListBooks
<1>2. PICK l : l = [loc[t] EXCEPT !.book = b, !.path = row[b].path]
  OBVIOUS
<1>3. Steps(t, "tag", l)
  BY <1>1, <1>2 DEF ListBooks, Set, Goto, Me, Steps
<1>4. l.path = row[b].path
  BY <1>2, KindOf, Marks DEF Typed, Locs
<1>5. row[b].path.dir \in Names /\ row[b].path.file \in M4bFiles(b)
  BY <1>1 DEF ListBooks, Fine, RowRight, NoPath
<1>6. \A n \in Names : disk'[n][Temp(t)] = "none"
  BY <1>1 DEF ListBooks
<1>7. TagRight(t, "tag", l, b)'
  BY <1>4, <1>5, <1>6 DEF TagRight
<1> QED BY <1>1, <1>3, <1>7, SameHeals, TagQuiet

(* A repair that reads the whole m4b has the whole book to write.          *)
LEMMA StartTempFine ==
    ASSUME Typed, Typed', NEW b \in Apart', Fine(b), NEW t \in Taggers, StartTemp(t)
    PROVE  Fine(b)'
<1>1. b \in Books /\ b \notin misread' /\ UNCHANGED <<dirs, row>> /\ pc[t] = "tag"
  BY ApartIs DEF StartTemp
<1>2. PICK m : m = loc[t]
  OBVIOUS
<1>3. /\ t \in Actors /\ m \in Locs /\ m.book = b /\ m.path \in Paths /\ m.path.dir \in Names
      /\ m.path.file \in M4bFiles(b) /\ m.path.file # Folder /\ TagRight(t, "tag", m, b)
  BY <1>1, <1>2, TagAt, FormsApart
<1>4. CASE /\ Write(m.path.dir, Temp(t), "part")
           /\ Set(t, [m EXCEPT !.open = m.path.dir, !.staged = Holds(m.path.dir, m.path.file)])
           /\ misread' = IF Whole(m.path, m.book) THEN misread ELSE misread \cup {m.book}
           /\ Goto(t, "embed")
  <2>1. Holds(m.path.dir, m.path.file) = b
    BY <1>1, <1>3, <1>4 DEF Whole
  <2>2. PICK l : l = [m EXCEPT !.open = m.path.dir, !.staged = b]
    OBVIOUS
  <2>3. Steps(t, "embed", l)
    BY <1>4, <2>1, <2>2 DEF Set, Goto, Steps
  <2>4. l.path = m.path /\ l.open = m.path.dir /\ l.staged = b
    BY <1>3, <2>2 DEF Locs
  <2>5. /\ Heals(b) /\ \A u \in Taggers \ {t} : TempsStay(u)
        /\ \A n \in Names : disk'[n][Temp(t)] = IF n = m.path.dir THEN "part" ELSE disk[n][Temp(t)]
    BY <1>1, <1>3, <1>4, WriteTemp
  <2>6. \A n \in Names : disk[n][Temp(t)] = "none"
    BY <1>3 DEF TagRight
  <2>7. TagRight(t, "embed", l, b)'
    BY <1>3, <2>4, <2>5, <2>6 DEF TagRight
  <2> QED BY <1>1, <2>3, <2>5, <2>7, TagQuiet
<1>5. CASE Stop(t) /\ UNCHANGED disk
  BY <1>1, <1>3, <1>5, SameHeals, StopStep
<1> QED BY <1>2, <1>4, <1>5 DEF StartTemp, Me

(* What a repair has written is the whole book, or nothing where the       *)
(* folder has moved meanwhile.                                             *)
LEMMA EmbedFine ==
    ASSUME Typed, Typed', NEW b \in Apart', Fine(b), NEW t \in Taggers, EmbedMetadata(t)
    PROVE  Fine(b)'
<1>1. b \in Books /\ UNCHANGED <<dirs, row, loc>> /\ pc[t] = "embed"
  BY ApartIs DEF EmbedMetadata
<1>2. PICK m : m = loc[t]
  OBVIOUS
<1>3. /\ t \in Actors /\ m \in Locs /\ m.book = b /\ TagRight(t, "embed", m, b)
      /\ Temp(t) \in FileNames
  BY <1>1, <1>2, TagAt, FileKinds
<1>4. /\ m.staged = b /\ m.open \in Names
      /\ \A n \in Names : disk[n][Temp(t)] \in {"none", "part", b}
      /\ \A n \in Names \ {m.open} : disk[n][Temp(t)] = "none"
  BY <1>3 DEF TagRight
<1>5. \A x : Goto(t, x) => Steps(t, x, m)
  BY <1>1, <1>2, <1>3, FitsEach DEF Goto, Steps, Typed
<1>6. CASE /\ IF Holds(m.open, Temp(t)) = "part" THEN Write(m.open, Temp(t), m.staged)
              ELSE UNCHANGED disk
           /\ Goto(t, "replace")
  <2>1. Holds(m.open, Temp(t)) = disk[m.open][Temp(t)]
    BY <1>3, <1>4, HoldsIs DEF Typed
  <2>2. /\ Heals(b) /\ \A u \in Taggers \ {t} : TempsStay(u)
        /\ \A n \in Names : disk'[n][Temp(t)] \in {"none", b}
    <3>1. CASE disk[m.open][Temp(t)] = "part"
      <4>1. /\ Heals(b) /\ \A u \in Taggers \ {t} : TempsStay(u)
            /\ \A n \in Names : disk'[n][Temp(t)] = IF n = m.open THEN b ELSE disk[n][Temp(t)]
        BY <1>1, <1>4, <1>6, <2>1, <3>1, WriteTemp
      <4> QED BY <1>4, <4>1
    <3>2. CASE disk[m.open][Temp(t)] # "part"
      <4>1. disk' = disk
        BY <1>6, <2>1, <3>2
      <4>2. \A n \in Names : disk[n][Temp(t)] \in {"none", b}
        BY <1>4, <3>2
      <4> QED BY <1>1, <4>1, <4>2, SameHeals
    <3> QED BY <3>1, <3>2
  <2>3. TagRight(t, "replace", m, b)'
    BY <1>1, <1>3, <1>4, <2>2, OneBook DEF TagRight
  <2> QED BY <1>1, <1>5, <1>6, <2>2, <2>3, TagQuiet
<1>7. CASE Goto(t, "untemp") /\ UNCHANGED disk
  <2>1. TagRight(t, "untemp", m, b)'
    BY <1>3, <1>7 DEF TagRight
  <2> QED BY <1>1, <1>5, <1>7, <2>1, SameHeals, TagQuiet
<1> QED BY <1>2, <1>6, <1>7 DEF EmbedMetadata, Me

(* A repair puts the whole book in the place of the m4b.                   *)
LEMMA ReplaceFine ==
    ASSUME Typed, Typed', NEW b \in Apart', Fine(b), NEW t \in Taggers, Replace(t)
    PROVE  Fine(b)'
<1>1. b \in Books /\ UNCHANGED <<dirs, row>> /\ pc[t] = "replace"
  BY ApartIs DEF Replace
<1>2. PICK m, n, f : m = loc[t] /\ n = loc[t].path.dir /\ f = loc[t].path.file
  OBVIOUS
<1>3. /\ t \in Actors /\ m \in Locs /\ m.book = b /\ TagRight(t, "replace", m, b)
      /\ n \in Names /\ f \in M4bFiles(b)
  BY <1>1, <1>2, TagAt
<1>4. f \in FileNames \ TempFiles /\ Temp(t) \in FileNames /\ Temp(t) \in TempFiles
  BY <1>1, <1>3, FormsApart, FileKinds
<1>5. Holds(n, Temp(t)) = disk[n][Temp(t)]
  BY <1>3, <1>4, HoldsIs DEF Typed
<1>6. \A u \in Taggers : Temp(u) \in FileNames /\ Temp(u) # f /\ (u # t => Temp(u) # Temp(t))
  BY <1>1, <1>3, FormsApart, FileKinds
<1>7. CASE /\ disk[n][Temp(t)] # "none" /\ Stop(t)
           /\ disk' = [disk EXCEPT ![n][f] = disk[n][Temp(t)], ![n][Temp(t)] = "none"]
  <2>1. disk[n][Temp(t)] = b
    BY <1>3, <1>7 DEF TagRight
  <2>2. \A m1 \in Names, g \in FileNames :
           disk'[m1][g] = IF m1 = n /\ g = Temp(t) THEN "none"
                          ELSE IF m1 = n /\ g = f THEN b ELSE disk[m1][g]
    BY <1>3, <1>4, <1>7, <2>1 DEF Typed, DiskTyped
  <2>3. Heals(b)
    BY <1>1, <1>4, <2>2 DEF Heals
  <2>4. \A u \in Taggers \ {t} : TempsStay(u)
    BY <1>6, <2>2 DEF TempsStay
  <2> QED BY <1>1, <1>3, <1>7, <2>3, <2>4, StopStep
<1>8. CASE Goto(t, "untemp") /\ UNCHANGED <<disk, loc>>
  <2>1. Steps(t, "untemp", m)
    BY <1>2, <1>3, <1>8, FitsEach DEF Goto, Steps, Typed
  <2>2. TagRight(t, "untemp", m, b)'
    BY <1>3, <1>8 DEF TagRight
  <2> QED BY <1>1, <1>8, <2>1, <2>2, SameHeals, TagQuiet
<1> QED BY <1>2, <1>5, <1>7, <1>8 DEF Replace, Me

(* What a repair removes nothing else relies on.                           *)
LEMMA RemoveTempFine ==
    ASSUME Typed, Typed', NEW b \in Apart', Fine(b), NEW t \in Taggers, RemoveTemp(t)
    PROVE  Fine(b)'
<1>1. b \in Books /\ UNCHANGED <<dirs, row>> /\ pc[t] = "untemp" /\ Stop(t)
  BY ApartIs DEF RemoveTemp
<1>2. t \in Actors /\ loc[t].path.dir \in Names
  BY <1>1, TagAt
<1>3. Heals(b) /\ \A u \in Taggers \ {t} : TempsStay(u)
  <2>1. CASE UNCHANGED disk
    BY <1>1, <2>1, SameHeals
  <2>2. CASE Write(loc[t].path.dir, Temp(t), "none")
    BY <1>1, <1>2, <2>2, WriteTemp
  <2> QED BY <2>1, <2>2 DEF RemoveTemp, Me
<1> QED BY <1>1, <1>2, <1>3, StopStep

-----------------------------------------------------------------------------
(* And requests for metadata, scans, and the end of the program            *)

(* Who fetches metadata alone has the row as it is,                        *)
LEMMA ReadResyncFine ==
    ASSUME Typed, Typed', NEW b \in Apart', Fine(b), NEW s \in Refreshers, NEW c \in Books,
           ReadResync(s, c)
    PROVE  Fine(b)'
<1>1. b \in Books /\ c = b /\ b \notin shaken' /\ UNCHANGED <<dirs, disk, row>>
  BY ApartIs, OneBook DEF ReadResync
<1>2. PICK l : l = [loc[s] EXCEPT !.book = b, !.path = row[b].path, !.was = row[b].status]
  OBVIOUS
<1>3. Steps(s, "fetch", l)
  BY <1>1, <1>2 DEF ReadResync, Set, Goto, Me, Steps
<1>4. s \in Actors /\ s \notin Taggers \cup Scanners /\ loc[s] \in Locs
  BY KindOf, Marks DEF Typed
<1>5. Alone(b)'
  BY <1>1, <1>3, <1>4, BeginsAlone DEF ReadResync, Fine
<1>6. row'[b] = [status |-> l.was, path |-> l.path]
  <2>1. row[b] = [status |-> row[b].status, path |-> row[b].path]
    BY <1>1 DEF Typed, RowTyped
  <2>2. l.was = row[b].status /\ l.path = row[b].path
    BY <1>2, <1>4 DEF Locs
  <2> QED BY <1>1, <2>1, <2>2
<1>7. FetchRight("fetch", l, b)'
  BY <1>6 DEF FetchRight
<1>8. Own(s, "fetch", l, b)'
  BY <1>7, KindOf DEF Own
<1> QED BY <1>1, <1>3, <1>4, <1>5, <1>8, SameHeals, HealStep

(* and puts back what is there.                                            *)
LEMMA SaveMetadataFine ==
    ASSUME Typed, Typed', NEW b \in Apart', Fine(b), NEW s \in Refreshers, SaveMetadata(s)
    PROVE  Fine(b)'
<1>1. b \in Books /\ UNCHANGED <<dirs, disk>> /\ pc[s] = "fetch" /\ Stop(s)
  BY ApartIs DEF SaveMetadata
<1>2. s \in Actors /\ loc[s].book = b
  BY <1>1, KindOf, Marks, OneBook DEF Typed
<1>3. row[b] = [status |-> loc[s].was, path |-> loc[s].path]
  BY <1>1, <1>2 DEF Fine, Own, FetchRight
<1>4. row'[b] = row[b]
  BY <1>2, <1>3 DEF SaveMetadata, Me, Typed, RowTyped
<1>5. Heals(b) /\ \A t \in Taggers : TempsStay(t)
  BY <1>1, <1>4 DEF Heals, TempsStay
<1> QED BY <1>1, <1>2, <1>5, StopStep

(* A scan finds what is there.                                             *)
LEMMA WalkFine ==
    ASSUME Typed, Typed', NEW b \in Apart', Fine(b), NEW q \in Scanners, Walk(q)
    PROVE  Fine(b)'
<1>1. b \in Books /\ b \notin shaken' /\ UNCHANGED <<dirs, disk, row>>
  BY ApartIs DEF Walk
<1>2. PICK found : found = {x \in dirs \X FileNames : Holds(x[1], x[2]) # "none"}
  OBVIOUS
<1>3. PICK l : l = [loc[q] EXCEPT !.found = found]
  OBVIOUS
<1>4. Steps(q, "match", l)
  BY <1>2, <1>3 DEF Walk, Set, Goto, Me, Steps
<1>5. q \in Actors /\ loc[q] \in Locs /\ q \notin Taggers /\ loc[q].book = "none"
  BY KindOf, Marks DEF Typed, Fits
<1>6. l.found = found /\ l.book = "none"
  BY <1>3, <1>5 DEF Locs
<1>7. \A w \in Others(q) : loc[w].book # b
  BY <1>1 DEF Walk
<1>8. /\ loc'[q] = l /\ pc'[q] = "match"
      /\ \A w \in Actors \ {q} : loc'[w] = loc[w] /\ pc'[w] = pc[w]
  BY <1>4, <1>5, StepsIs
<1>9. \A w \in Actors : ~Busy(w, b)'
  <2> TAKE w \in Actors
  <2>1. CASE w = q
    BY <1>1, <1>6, <1>8, <2>1, OneBook DEF Busy
  <2>2. CASE w # q
    BY <1>7, <1>8, <2>2 DEF Busy, Others
  <2> QED BY <2>1, <2>2
<1>10. Alone(b)'
  BY <1>9 DEF Alone
<1>11. ScanRight("match", l)'
  <2>1. SUFFICES ASSUME NEW x \in found
                 PROVE  x[1] \in dirs' /\ (x[2] \notin TempFiles => disk'[x[1]][x[2]] # "none")
    BY <1>6 DEF ScanRight
  <2>2. x[1] \in dirs /\ Holds(x[1], x[2]) # "none"
    BY <1>2, <2>1
  <2> QED BY <1>1, <2>2 DEF Holds
<1>12. Own(q, "match", l, b)'
  BY <1>11, KindOf DEF Own
<1> QED BY <1>1, <1>4, <1>5, <1>10, <1>12, SameHeals, HealStep

(* What a scan matches is the whole book, when it was not misread.         *)
LEMMA MatchRight ==
    ASSUME Typed, NEW b \in Books, RowRight(b), NEW old \in Paths, old = row[b].path,
           NEW found \in SUBSET (Names \X FileNames),
           \A y \in found : y[1] \in dirs /\ (y[2] \notin TempFiles => disk[y[1]][y[2]] # "none"),
           NEW new \in BestFile(b, found), ~Misread(old, new, b)
    PROVE  new = NoPath \/ /\ new \in Paths /\ new.file \in M4bFiles(b) \cup {Folder}
                           /\ Whole(new, b)
<1>1. /\ old.file \in M4bFiles(b) \cup {Folder} /\ (Present(old) => Whole(old, b))
      /\ \A f \in M4bFiles(b) \cup {Folder} : f \notin TempFiles
      /\ DiskTyped
  <2>1. old.file \in M4bFiles(b) \cup {Folder} /\ (Present(old) => Whole(old, b))
    BY DEF RowRight, NoPath
  <2>2. \A f \in M4bFiles(b) \cup {Folder} : f \notin TempFiles
    BY FormsApart DEF TempFiles, Temp, Folder
  <2> QED BY <2>1, <2>2 DEF Typed
<1>2. ASSUME new = old, Present(old)
      PROVE  new \in Paths /\ new.file \in M4bFiles(b) \cup {Folder} /\ Whole(new, b)
  BY <1>1, <1>2
<1>3. CASE new \in StoredPath(b, found)
  <2>1. /\ old.file # Folder => <<old.dir, old.file>> \in found
        /\ InFolder(found, old.dir) # {}
        /\ \/ InFolder(found, old.dir) = {<<old.dir, old.file>>} /\ new = old
           \/ new = [dir |-> old.dir, file |-> Folder]
    BY <1>3 DEF StoredPath
  <2>2. old.dir \in dirs
    BY <2>1 DEF InFolder
  <2>3. Present(old)
    <3>1. CASE old.file = Folder
      BY <2>2, <3>1 DEF Present
    <3>2. CASE old.file # Folder
      <4>1. disk[old.dir][old.file] # "none"
        BY <1>1, <2>1, <3>2
      <4> QED BY <2>2, <4>1 DEF Present, Holds
    <3> QED BY <3>1, <3>2
  <2>4. new = old
    <3>1. CASE new = [dir |-> old.dir, file |-> Folder] /\ old.file # Folder
      <4>1. new = [old EXCEPT !.file = Folder] /\ new # old
        BY <3>1, PathFields DEF Paths
      <4> QED BY <3>1, <4>1 DEF Misread
    <3>2. CASE new = [dir |-> old.dir, file |-> Folder] /\ old.file = Folder
      BY <3>2, PathFields
    <3> QED BY <2>1, <3>1, <3>2
  <2> QED BY <1>2, <2>3, <2>4
<1>4. CASE new \in AsinPath(b, found)
  <2>1. PICK x \in found : /\ new = [dir |-> x[1], file |-> x[2]]
                           /\ \E n \in Names : x[2] = M4b(b, n)
    BY <1>4 DEF AsinPath
  <2>2. x[1] \in Names /\ x[2] \in FileNames /\ x[2] \in M4bFiles(b)
    BY <2>1 DEF M4bFiles
  <2>3. x[1] \in dirs /\ disk[x[1]][x[2]] # "none"
    BY <1>1, <2>1, <2>2
  <2>4. new \in Paths /\ new.dir = x[1] /\ new.file = x[2] /\ new.file # Folder
    BY <2>1, <2>2, FormsApart DEF Paths
  <2>5. Holds(new.dir, new.file) # "none" /\ Present(new)
    BY <2>3, <2>4 DEF Holds, Present
  <2>6. CASE new = old
    BY <1>2, <2>5, <2>6
  <2>7. CASE new # old
    <3>1. ~Partial(new, b)
      BY <2>7 DEF Misread
    <3>2. Whole(new, b)
      BY <2>4, <2>5, <3>1 DEF Partial
    <3> QED BY <2>2, <2>4, <3>2
  <2> QED BY <2>6, <2>7
<1>5. CASE new \in ByTitle(found)
  <2>1. CASE new = NoPath
    BY <2>1
  <2>2. ASSUME NEW x \in found, x[2] \in ChapterFiles, new = [dir |-> x[1], file |-> Folder]
        PROVE  new \in Paths /\ new.file \in M4bFiles(b) \cup {Folder} /\ Whole(new, b)
    <3>1. x[1] \in dirs /\ disk[x[1]][x[2]] # "none"
      BY <2>2, FormsApart
    <3>2. new \in Paths /\ new.dir = x[1] /\ new.file = Folder
      BY <2>2 DEF Paths
    <3>3. CASE new = old
      <4>1. Present(old)
        BY <3>1, <3>2, <3>3 DEF Present
      <4> QED BY <1>2, <3>3, <4>1
    <3>4. CASE new # old
      <4>1. ~Partial(new, b)
        BY <3>4 DEF Misread
      <4>2. Holds(x[1], x[2]) # "none"
        BY <3>1 DEF Holds
      <4>3. Whole(new, b)
        BY <2>2, <3>2, <4>1, <4>2 DEF Partial
      <4> QED BY <3>2, <4>3
    <3> QED BY <3>3, <3>4
  <2>3. ASSUME NEW x \in found, NEW t \in Taggers, x[2] = Temp(t),
               new = [dir |-> x[1], file |-> x[2]]
        PROVE  FALSE
    <3>1. new.file = Temp(t) /\ new.file \in TempFiles
      BY <2>3, FileKinds
    <3>2. new # old
      BY <1>1, <3>1
    <3> QED BY <3>1, <3>2 DEF Misread
  <2> QED BY <1>5, <2>1, <2>2, <2>3 DEF ByTitle
<1> QED BY <1>3, <1>4, <1>5 DEF BestFile

(* A scan gives the row a whole book, as long as it takes no part for the  *)
(* whole.                                                                  *)
LEMMA ReconcileFine ==
    ASSUME Typed, Typed', NEW b \in Apart', Fine(b), NEW q \in Scanners, Reconcile(q)
    PROVE  Fine(b)'
<1>1. /\ b \in Books /\ b \notin misread' /\ UNCHANGED <<dirs, disk>> /\ pc[q] = "match"
      /\ Stop(q) /\ ~Spend("db")
  BY ApartIs DEF Reconcile
<1>2. PICK m : m = loc[q]
  OBVIOUS
<1>3. q \in Actors /\ m \in Locs /\ q \notin Taggers /\ ScanRight("match", m)
  BY <1>1, <1>2, KindOf, Marks DEF Typed, Fine, Own
<1>4. PICK best \in [Books -> Paths] :
         /\ best[b] \in BestFile(b, m.found)
         /\ row' = [c \in Books |-> Reconciled(c, best[c])]
         /\ misread' = misread \cup {c \in Books : Misread(row[c].path, row'[c].path, c)}
  BY <1>1, <1>2 DEF Reconcile, Me
<1>5. PICK new : new = best[b]
  OBVIOUS
<1>6. PICK old \in Paths : old = row[b].path
  BY <1>1 DEF Typed, RowTyped
<1>7. row'[b] = Reconciled(b, new) /\ ~Misread(old, row'[b].path, b)
  BY <1>1, <1>4, <1>5, <1>6
<1>8. Steps(q, "idle", Idle)
  BY <1>1 DEF Stop, Goto, Steps
<1>9. /\ loc'[q] = Idle /\ pc'[q] = "idle"
      /\ \A w \in Actors \ {q} : loc'[w] = loc[w] /\ pc'[w] = pc[w]
  BY <1>3, <1>8, StepsIs
<1>10. Kept(b)'
  BY <1>1, SameDisk DEF Fine
<1>11. RowRight(b)'
  <2>1. CASE new = NoPath
    <3>1. row'[b] = row[b] \/ row'[b] = [status |-> "new", path |-> NoPath]
      BY <1>7, <2>1 DEF Reconciled
    <3>2. CASE row'[b] = row[b]
      BY <1>1, <3>2, SameDisk DEF RowRight, Fine
    <3>3. CASE row'[b] = [status |-> "new", path |-> NoPath]
      <4>1. ~Present(NoPath)'
        BY FilesAssumption DEF Present, NoPath, Typed, DiskTyped
      <4> QED BY <3>3, <4>1 DEF RowRight
    <3> QED BY <3>1, <3>2, <3>3
  <2>2. CASE new # NoPath
    <3>1. row'[b] = [status |-> "complete", path |-> new]
      BY <1>7, <2>2 DEF Reconciled
    <3>2. ~Misread(old, new, b)
      BY <1>7, <3>1
    <3>3. /\ m.found \in SUBSET (Names \X FileNames)
          /\ \A y \in m.found :
                y[1] \in dirs /\ (y[2] \notin TempFiles => disk[y[1]][y[2]] # "none")
      BY <1>3 DEF ScanRight, Locs
    <3>4. new \in Paths /\ new.file \in M4bFiles(b) \cup {Folder} /\ Whole(new, b)
      BY <1>1, <1>4, <1>5, <1>6, <2>2, <3>2, <3>3, MatchRight DEF Fine
    <3>5. Whole(new, b)'
      BY <1>1, <3>4, SameDisk
    <3> QED BY <1>1, <3>1, <3>4, <3>5, RowWhole
  <2> QED BY <2>1, <2>2
<1>12. \A w \in Actors : ~Busy(w, b)
  BY <1>1 DEF Fine, Alone
<1>13. \A w \in Actors : ~Busy(w, b)'
  <2> TAKE w \in Actors
  <2>1. CASE w = q
    BY <1>1, <1>9, <2>1, OneBook, IdleTyped DEF Busy
  <2>2. CASE w # q
    BY <1>9, <1>12, <2>2 DEF Busy
  <2> QED BY <2>1, <2>2
<1>14. Alone(b)'
  BY <1>13 DEF Alone
<1>15. Own(q, pc[q], loc[q], b)'
  BY <1>1, <1>9, IdleOwn
<1>16. ASSUME NEW p \in Scanners \ {q}
       PROVE  ScanRight(pc[p], loc[p])'
  <2>1. p \in Actors /\ loc'[p] = loc[p] /\ pc'[p] = pc[p]
    BY <1>9, <1>16, KindOf
  <2>2. ScanRight(pc[p], loc[p])
    BY <1>16, <2>1 DEF Fine, Own
  <2> QED BY <1>1, <2>1, <2>2 DEF ScanRight
<1>17. ASSUME NEW t \in Taggers \ {q}, loc[t].book = b
       PROVE  TagRight(t, pc[t], loc[t], b)'
  <2>1. t \in Actors /\ loc'[t] = loc[t] /\ pc'[t] = pc[t]
    BY <1>9, <1>17, KindOf
  <2>2. TagRight(t, pc[t], loc[t], b)
    BY <1>17, <2>1 DEF Fine, Own
  <2> QED BY <1>1, <2>1, <2>2 DEF TagRight
<1> QED BY <1>1, <1>3, <1>9, <1>10, <1>11, <1>12, <1>14, <1>15, <1>16, <1>17, OthersOwn

(* A step that only changes the templates, or nothing.                     *)
LEMMA NothingFine ==
    ASSUME Typed, Typed', NEW b \in Apart', Fine(b), UNCHANGED <<dirs, disk, row, pc, loc>>
    PROVE  Fine(b)'
<1>1. b \in Books /\ Heals(b) /\ \A t \in Taggers : TempsStay(t)
  BY ApartIs, SameHeals
<1>2. Kept(b)' /\ RowRight(b)' /\ RowRight(b)
  BY <1>1, HealsWhole DEF Fine
<1>3. Alone(b)'
  BY AloneStays DEF Fine, Busy
<1>4. ASSUME NEW w \in Actors
      PROVE  Own(w, pc[w], loc[w], b)'
  BY <1>1, <1>2, OwnStays DEF TempsStay, Fine
<1> QED BY <1>2, <1>3, <1>4 DEF Fine

(* A stop of the program leaves the files, and idle actors rely on         *)
(* nothing.                                                                *)
LEMMA CrashFine ==
    ASSUME Typed, Typed', NEW b \in Apart', Fine(b), Crash
    PROVE  Fine(b)'
<1>1. b \in Books /\ UNCHANGED <<dirs, disk, row>>
  BY ApartIs DEF Crash
<1>2. Kept(b)' /\ RowRight(b)'
  BY <1>1, SameHeals, HealsWhole DEF Fine
<1>3. \A w \in Actors : pc'[w] = "idle" /\ loc'[w] = Idle
  BY DEF Crash
<1>4. \A w \in Actors : ~Busy(w, b)'
  BY <1>1, <1>3, IdleTyped, OneBook DEF Busy
<1>5. Alone(b)'
  BY <1>4 DEF Alone
<1>6. ASSUME NEW w \in Actors
      PROVE  Own(w, pc[w], loc[w], b)'
  BY <1>1, <1>3, IdleOwn
<1> QED BY <1>2, <1>5, <1>6 DEF Fine

(* What deletes files works on a book that is not apart.                   *)
LEMMA EraseNot ==
    ASSUME Typed, NEW b \in Apart', NEW e \in Erasers
    PROVE  ~EraseStep(e) /\ \A c \in Books : ~ReadErase(e, c)
<1>1. b \in Books /\ b \notin asked'
  BY ApartIs
<1>2. ASSUME EraseStep(e)
      PROVE  FALSE
  <2>1. pc[e] # "idle" /\ asked' = asked
    BY <1>2 DEF EraseStep, RemoveBookPath, Reset
  <2>2. loc[e].book \in asked
    BY <2>1 DEF Typed, ActorsFit, KindsKept
  <2>3. loc[e].book = b
    BY <1>1, <2>2, OneBook DEF Typed, RestTyped
  <2> QED BY <1>1, <2>1, <2>2, <2>3
<1>3. ASSUME NEW c \in Books, ReadErase(e, c)
      PROVE  FALSE
  BY <1>1, <1>3, OneBook DEF ReadErase
<1> QED BY <1>2, <1>3

(* Every step keeps what each relies on, for a book that stays apart.      *)
LEMMA FineStep ==
    ASSUME Typed, Typed', [Next]_vars, NEW b \in Apart', Fine(b)
    PROVE  Fine(b)'
<1>1. CASE UNCHANGED vars
  BY <1>1, NothingFine DEF vars
<1>2. ASSUME NEW k \in Converters, ConvertStep(k)
      PROVE  Fine(b)'
  BY <1>2, LockFine, LayoutFine, SplitFine, ListFine, ConcatFine, MakeFolderFine,
     MoveInFine, CopiedFine, RecordFine, DropOldFine DEF ConvertStep
<1>3. ASSUME NEW k \in Converters,
             Cancel(k) \/ \E c \in Books, to \in {"m4b", "mp3"} : GetBook(k, c, to)
      PROVE  Fine(b)'
  BY <1>3, CancelFine, GetBookFine
<1>4. ASSUME NEW r \in Movers, MoveStep(r) \/ \E c \in Books : Plan(r, c)
      PROVE  Fine(b)'
  BY <1>4, StartMoveFine, StatFine, MoveFileFine, MoveDirFine, NoteMoveFine, PlanFine DEF MoveStep
<1>5. ASSUME NEW e \in Erasers, EraseStep(e) \/ \E c \in Books : ReadErase(e, c)
      PROVE  Fine(b)'
  BY <1>5, EraseNot
<1>6. ASSUME NEW t \in Taggers, TagStep(t) \/ \E c \in Books : ListBooks(t, c)
      PROVE  Fine(b)'
  BY <1>6, StartTempFine, EmbedFine, ReplaceFine, RemoveTempFine, ListBooksFine DEF TagStep
<1>7. ASSUME NEW s \in Refreshers, SaveMetadata(s) \/ \E c \in Books : ReadResync(s, c)
      PROVE  Fine(b)'
  BY <1>7, SaveMetadataFine, ReadResyncFine
<1>8. ASSUME NEW q \in Scanners, Walk(q) \/ Reconcile(q)
      PROVE  Fine(b)'
  BY <1>8, WalkFine, ReconcileFine
<1>9. CASE Crash
  BY <1>9, CrashFine
<1>10. ASSUME NEW c \in Books, Retitle(c)
       PROVE  Fine(b)'
  BY <1>10, NothingFine DEF Retitle
<1> QED BY <1>1, <1>2, <1>3, <1>4, <1>5, <1>6, <1>7, <1>8, <1>9, <1>10 DEF Next

(* At the start the book is where its row says, and nobody is at it.       *)
LEMMA InitFine ==
    ASSUME Init, NEW b \in Books
    PROVE  Fine(b)
<1>1. PICK n \in Names, kind \in Shelved :
         /\ dirs = {n}
         /\ disk = [m \in Names |-> IF m = n THEN Lay(n, kind) ELSE Bare]
         /\ row = [c \in Books |-> At(n, IF kind = "mp3" THEN Folder ELSE M4b(c, n))]
  BY DEF Init
<1>2. PICK p : p = [dir |-> n, file |-> IF kind = "mp3" THEN Folder ELSE M4b(b, n)]
  OBVIOUS
<1>3. p \in Paths /\ p.dir = n /\ p.file \in M4bFiles(b) \cup {Folder}
      /\ Parts(p) = (IF kind = "mp3" THEN ChapterFiles ELSE {M4b(b, n)})
  BY <1>2, FileKinds, FormsApart DEF Paths, Parts
<1>4. row[b] = [status |-> "complete", path |-> p]
  BY <1>1, <1>2 DEF At
<1>5. (CHOOSE c \in Books : TRUE) = b
  BY OneBook
<1>6. \A f \in Parts(p) : f \in FileNames /\ disk[n][f] = b
  <2>1. \A f \in Parts(p) : f \in FileNames
    BY <1>3, FormsApart
  <2>2. disk[n] = Lay(n, kind)
    BY <1>1
  <2>3. \A f \in FileNames : Lay(n, kind)[f] = IF f \in Parts(p) THEN b ELSE "none"
    BY <1>3, <1>5 DEF Lay
  <2> QED BY <2>1, <2>2, <2>3
<1>7. Typed
  BY InitTyped
<1>8. Whole(p, b) /\ Present(p)
  BY <1>3, <1>6, <1>7, WholeIs DEF Typed
<1>9. Kept(b)
  BY <1>3, <1>7, <1>8, KeptIs DEF Typed
<1>10. RowRight(b)
  BY <1>3, <1>4, <1>8 DEF RowRight
<1>11. \A v \in Actors : pc[v] = "idle" /\ loc[v] = Idle
  BY DEF Init
<1>12. \A v \in Actors : ~Busy(v, b)
  BY <1>11, IdleTyped, OneBook DEF Busy
<1>13. Alone(b)
  BY <1>12 DEF Alone
<1>14. \A v \in Actors : Own(v, pc[v], loc[v], b)
  BY <1>11, IdleOwn
<1> QED BY <1>9, <1>10, <1>13, <1>14 DEF Fine

-----------------------------------------------------------------------------
(* When all goes well, there is one copy                                   *)

(* What was accounted for beside an actor that works on the book alone.    *)
LEMMA OnlyMine ==
    ASSUME Typed, NEW b \in Books, Fine(b), Exact(b), NEW v \in Actors, Busy(v, b), pc[v] # "lock"
    PROVE  /\ \A w \in Actors \ {v} : \A n, f : ~Accounts(w, pc[w], loc[w], b, n, f)
           /\ \A w \in Actors \ {v} : ~Carries(w, pc[w], loc[w], b)
           /\ \A q \in Scanners : pc[q] = "idle"
           /\ \A n \in Names, f \in FileNames : disk[n][f] # "none" =>
                 \/ ~Carries(v, pc[v], loc[v], b) /\ Lies(n, f, row[b].path)
                 \/ Accounts(v, pc[v], loc[v], b, n, f)
           /\ Carries(v, pc[v], loc[v], b) \/ Whole(row[b].path, b)
<1>1. pc[v] # "idle" /\ v \notin Scanners /\ loc[v].book = b
  <2>1. Fits(v, pc[v], loc[v], asked)
    BY Marks DEF Typed
  <2> QED BY <2>1, OneBook DEF Fits, Busy
<1>2. ASSUME NEW w \in Actors, w # v, w \in Converters \/ w \in Movers, loc[w].book = b
      PROVE  pc[w] \in {"idle", "lock", "queued"}
  <2>1. CASE pc[w] = "queued"
    BY <2>1
  <2>2. CASE pc[w] # "queued"
    <3>1. Busy(w, b)
      BY <1>2, <2>2, KindOf DEF Busy
    <3>2. v \in Converters /\ w \in Converters
      BY <1>2, <3>1 DEF Fine, Alone
    <3> QED BY <1>1, <1>2, <3>2 DEF Typed, LockKept
  <2> QED BY <2>1, <2>2
<1>3. \A w \in Actors \ {v} : \A n, f : ~Accounts(w, pc[w], loc[w], b, n, f)
  BY <1>2 DEF Accounts, Converts, Moves
<1>4. \A w \in Actors \ {v} : ~Carries(w, pc[w], loc[w], b)
  BY <1>2 DEF Carries
<1>5. \A q \in Scanners : pc[q] = "idle"
  BY DEF Fine, Alone
<1>6. Moving(b) <=> Carries(v, pc[v], loc[v], b)
  BY <1>4 DEF Moving
<1> QED BY <1>3, <1>4, <1>5, <1>6 DEF Exact

(* What such an actor leaves has to be accounted for by it or by the row.  *)
LEMMA ExactAlone ==
    ASSUME Typed, NEW b \in Books, Fine(b), Exact(b), NEW v \in Actors, Busy(v, b), pc[v] # "lock",
           \A w \in Actors \ {v} : /\ pc'[w] = pc[w] /\ loc'[w].book = loc[w].book
                                   /\ loc'[w].cancelled = loc[w].cancelled,
           v \in Converters => ~loc'[v].cancelled,
           \A t \in Taggers, n \in Names : disk'[n][Temp(t)] = "none",
           Carries(v, pc[v], loc[v], b)' \/ Whole(row[b].path, b)',
           \A n \in Names, f \in FileNames : disk'[n][f] # "none" =>
              \/ ~Carries(v, pc[v], loc[v], b)' /\ Lies(n, f, row'[b].path)
              \/ Accounts(v, pc[v], loc[v], b, n, f)'
    PROVE  Exact(b)'
<1>1. /\ \A w \in Actors \ {v} : ~Carries(w, pc[w], loc[w], b)
      /\ \A q \in Scanners : pc[q] = "idle"
  BY OnlyMine
<1>2. v \notin Taggers /\ v \notin Scanners
  <2>1. Fits(v, pc[v], loc[v], asked)
    BY Marks DEF Typed
  <2> QED BY <2>1, OneBook DEF Fits, Busy
<1>3. \A w \in Actors \ {v} : ~Carries(w, pc[w], loc[w], b)'
  BY <1>1 DEF Carries
<1>4. Moving(b)' <=> Carries(v, pc[v], loc[v], b)'
  BY <1>3 DEF Moving
<1>5. \A t \in Taggers : pc'[t] = "idle" /\ \A n \in Names : disk'[n][Temp(t)] = "none"
  BY <1>2, KindOf DEF Exact
<1>6. \A k \in Converters : ~loc'[k].cancelled
  BY KindOf DEF Exact
<1>7. \A q \in Scanners : pc'[q] = "idle"
  BY <1>1, <1>2, KindOf
<1> QED BY <1>4, <1>5, <1>6, <1>7 DEF Exact

(* An actor that begins nothing new on the disk leaves all accounted for.  *)
LEMMA ExactKeeps ==
    ASSUME Typed, Typed', NEW b \in Books, Exact(b), NEW v \in Actors, v \notin Taggers,
           NEW x, NEW l, Steps(v, x, l), v \in Converters => ~l.cancelled,
           ~Carries(v, pc[v], loc[v], b), ~Carries(v, x, l, b),
           row'[b].path = row[b].path, Whole(row[b].path, b) => Whole(row[b].path, b)',
           \A t \in Taggers : TempsStay(t),
           \A n \in Names, f \in FileNames : disk'[n][f] # "none" =>
              \/ /\ disk[n][f] # "none"
                 /\ Accounts(v, pc[v], loc[v], b, n, f) => Accounts(v, x, l, b, n, f)
              \/ Accounts(v, x, l, b, n, f),
           \A q \in Scanners \ {v} : pc[q] = "match" => disk' = disk,
           v \in Scanners /\ x = "match" =>
              \A n \in Names, f \in FileNames : disk'[n][f] # "none" => <<n, f>> \in l.found
    PROVE  Exact(b)'
<1>1. /\ loc'[v] = l /\ pc'[v] = x
      /\ \A w \in Actors \ {v} : loc'[w] = loc[w] /\ pc'[w] = pc[w]
  BY StepsIs
<1>2. \A w \in Actors \ {v} : Carries(w, pc[w], loc[w], b)' <=> Carries(w, pc[w], loc[w], b)
  BY <1>1 DEF Carries
<1>3. ~Carries(v, pc[v], loc[v], b)'
  BY <1>1 DEF Carries
<1>4. Moving(b)' <=> Moving(b)
  BY <1>2, <1>3 DEF Moving
<1>5. \A t \in Taggers : pc'[t] = "idle" /\ \A n \in Names : disk'[n][Temp(t)] = "none"
  BY <1>1, KindOf DEF Exact, TempsStay
<1>6. \A k \in Converters : ~loc'[k].cancelled
  BY <1>1, KindOf DEF Exact
<1>7. Moving(b)' \/ Whole(row[b].path, b)'
  BY <1>4 DEF Exact
<1>8. ASSUME NEW n \in Names, NEW f \in FileNames, disk'[n][f] # "none"
      PROVE  \/ ~Moving(b)' /\ Lies(n, f, row'[b].path)
             \/ \E w \in Actors : Accounts(w, pc[w], loc[w], b, n, f)'
  <2>1. CASE Accounts(v, x, l, b, n, f)
    <3>1. Accounts(v, pc[v], loc[v], b, n, f)'
      BY <1>1, <2>1 DEF Accounts, Converts, Moves, NewPath, Lies, Place, Parts
    <3> QED BY <3>1
  <2>2. CASE ~Accounts(v, x, l, b, n, f)
    <3>1. disk[n][f] # "none" /\ ~Accounts(v, pc[v], loc[v], b, n, f)
      BY <1>8, <2>2
    <3>2. CASE ~Moving(b) /\ Lies(n, f, row[b].path)
      BY <1>4, <3>2
    <3>3. ASSUME NEW w \in Actors, Accounts(w, pc[w], loc[w], b, n, f)
          PROVE  Accounts(w, pc[w], loc[w], b, n, f)'
      <4>1. w # v
        BY <3>1, <3>3
      <4>2. loc'[w] = loc[w] /\ pc'[w] = pc[w]
        BY <1>1, <4>1
      <4> QED BY <3>3, <4>2 DEF Accounts, Converts, Moves, NewPath, Lies, Place, Parts
    <3> QED BY <3>1, <3>2, <3>3 DEF Exact
  <2> QED BY <2>1, <2>2
<1>9. ASSUME NEW q \in Scanners, pc'[q] = "match", NEW n \in Names, NEW f \in FileNames,
             disk'[n][f] # "none"
      PROVE  <<n, f>> \in loc'[q].found
  <2>1. CASE q = v
    BY <1>1, <1>9, <2>1
  <2>2. CASE q # v
    <3>1. loc'[q] = loc[q] /\ pc[q] = "match" /\ disk' = disk
      BY <1>1, <1>9, <2>2, KindOf
    <3> QED BY <1>9, <3>1 DEF Exact
  <2> QED BY <2>1, <2>2
<1> QED BY <1>5, <1>6, <1>7, <1>8, <1>9 DEF Exact

(* A step on nothing that was accounted for by the actor, nor will be.     *)
LEMMA ExactQuiet ==
    ASSUME Typed, Typed', NEW b \in Books, Exact(b), NEW v \in Actors, v \notin Taggers,
           NEW x, NEW l, Steps(v, x, l), v \in Converters => ~l.cancelled,
           disk' = disk, row'[b].path = row[b].path,
           pc[v] \notin {"move", "copy", "record", "drop", "movedir", "note"},
           x \notin {"movedir", "note"}, v \in Scanners => x = "idle"
    PROVE  Exact(b)'
<1>1. ~Carries(v, pc[v], loc[v], b) /\ ~Carries(v, x, l, b)
  BY DEF Carries
<1>2. \A n, f : ~Accounts(v, pc[v], loc[v], b, n, f)
  BY DEF Accounts, Converts, Moves
<1>3. PICK p \in Paths : p = row[b].path
  BY DEF Typed, RowTyped
<1>4. Whole(p, b) => Whole(p, b)'
  BY WholeStays
<1>5. \A t \in Taggers : TempsStay(t)
  BY DEF TempsStay
<1>6. Whole(row[b].path, b) => Whole(row[b].path, b)'
  <2>1. row'[b].path = p
    BY <1>3
  <2>2. Whole(row[b].path, b) => Whole(p, b)
    BY <1>3
  <2>3. Whole(p, b)' => Whole(row[b].path, b)'
    BY <2>1
  <2> QED BY <1>4, <2>2, <2>3
<1> QED BY <1>1, <1>2, <1>5, <1>6, ExactKeeps

(* An actor that stops, and had nothing to account for.                    *)
LEMMA ExactStops ==
    ASSUME Typed, Typed', NEW b \in Books, Exact(b), NEW v \in Actors, v \notin Taggers, Stop(v),
           disk' = disk, row'[b].path = row[b].path,
           pc[v] \notin {"move", "copy", "record", "drop", "movedir", "note"}
    PROVE  Exact(b)'
<1>1. Steps(v, "idle", Idle)
  BY DEF Stop, Goto, Steps
<1>2. ~Idle.cancelled
  BY DEF Idle
<1> QED BY <1>1, <1>2, ExactQuiet

(* What is known of a step when all goes well.                             *)
LEMMA SmoothIs ==
    ASSUME Typed, Smooth', NEW b \in Apart'
    PROVE  /\ b \in Books /\ b \notin misread'
           /\ ~Spend("fail") /\ ~Spend("crash") /\ ~Spend("retag") /\ ~Spend("cancel")
           /\ ~Spend("db")
<1>1. /\ Spared("fail")' /\ Spared("crash")' /\ Spared("retag")' /\ Spared("cancel")'
  BY DEF Smooth
<1> QED BY <1>1, ApartIs, SparedNow DEF Events

(* A conversion that begins adds no file.                                  *)
LEMMA GetBookExact ==
    ASSUME Typed, Typed', NEW b \in Books, Exact(b), NEW k \in Converters, NEW c \in Books,
           NEW to \in {"m4b", "mp3"}, GetBook(k, c, to)
    PROVE  Exact(b)'
<1>1. PICK l : l = [loc[k] EXCEPT !.book = c, !.to = to, !.path = row[c].path]
  OBVIOUS
<1>2. Steps(k, "lock", l) /\ UNCHANGED <<disk, row>> /\ pc[k] = "idle"
  BY <1>1 DEF GetBook, Set, Goto, Me, Steps
<1>3. k \in Actors /\ k \notin Taggers /\ k \notin Scanners /\ loc[k] \in Locs
  BY KindOf, Marks DEF Typed
<1>4. ~l.cancelled
  BY <1>1, <1>3 DEF Locs, Exact
<1> QED BY <1>2, <1>3, <1>4, ExactQuiet

(* A conversion until it moves its files.                                  *)
LEMMA EarlyExact ==
    ASSUME Typed, Typed', NEW b \in Books, Exact(b), NEW k \in Converters,
           Lock(k) \/ Layout(k) \/ Split(k) \/ ListChapters(k) \/ Concat(k) \/ MakeFolder(k)
    PROVE  Exact(b)'
<1>1. k \in Actors /\ k \notin Taggers /\ k \notin Scanners /\ loc[k] \in Locs
  BY KindOf, Marks DEF Typed
<1>2. /\ pc[k] \in {"lock", "layout", "split", "list", "concat", "folder"}
      /\ row' = row
  BY DEF Lock, Layout, Split, ListChapters, Concat, MakeFolder
<1>3. disk' = disk
  <2>1. CASE MakeFolder(k)
    <3>1. loc[k].book \in Books
      BY <1>1, <1>2, Marks DEF Typed
    <3>2. home[loc[k].book] \in Names
      BY <3>1 DEF Typed, RestTyped
    <3> QED BY <2>1, <3>2, FolderMade
  <2>2. CASE ~MakeFolder(k)
    BY <2>2 DEF Lock, Layout, Split, ListChapters, Concat
  <2> QED BY <2>1, <2>2
<1>4. ~loc[k].cancelled
  BY DEF Exact
<1>5. CASE Stop(k)
  BY <1>1, <1>2, <1>3, <1>5, ExactStops
<1>6. ASSUME NEW x \in {"layout", "split", "list"}, Goto(k, x), loc' = loc
      PROVE  Exact(b)'
  <2>1. Steps(k, x, loc[k])
    BY <1>1, <1>6, FitsEach DEF Goto, Steps, Typed
  <2> QED BY <1>1, <1>2, <1>3, <1>4, <1>6, <2>1, ExactQuiet
<1>7. ASSUME NEW x \in {"concat", "folder", "move"}, Goto(k, x), NEW l, Set(k, l), ~l.cancelled
      PROVE  Exact(b)'
  <2>1. Steps(k, x, l)
    BY <1>7 DEF Goto, Set, Steps
  <2> QED BY <1>1, <1>2, <1>3, <1>7, <2>1, ExactQuiet
<1>8. /\ \A c : ~[loc[k] EXCEPT !.staged = c].cancelled
      /\ \A c : ~[loc[k] EXCEPT !.left = c].cancelled
      /\ \A c, d : ~[loc[k] EXCEPT !.target = c, !.left = d].cancelled
  BY <1>1, <1>4 DEF Locs
<1>9. CASE Lock(k)
  BY <1>5, <1>6, <1>9 DEF Lock
<1>10. CASE Layout(k)
  BY <1>5, <1>6, <1>10 DEF Layout, EndConvert
<1>11. CASE Split(k)
  BY <1>5, <1>7, <1>8, <1>11 DEF Split, EndConvert, Me
<1>12. CASE ListChapters(k)
  BY <1>5, <1>7, <1>8, <1>12 DEF ListChapters, EndConvert, Me
<1>13. CASE Concat(k)
  BY <1>5, <1>7, <1>8, <1>13 DEF Concat, EndConvert, Me
<1>14. CASE MakeFolder(k)
  BY <1>7, <1>8, <1>14 DEF MakeFolder, Me
<1> QED BY <1>9, <1>10, <1>11, <1>12, <1>13, <1>14

(* A conversion that writes into its new place.                            *)
LEMMA WriteExact ==
    ASSUME Typed, Typed', NEW b \in Books, Fine(b), Fine(b)', Exact(b), NEW k \in Converters,
           pc[k] \in {"move", "copy"}, NEW x \in {"move", "copy", "record"}, NEW l,
           Steps(k, x, l), l.book = b, ~l.cancelled, NewPath(l) = NewPath(loc[k]), row' = row,
           NEW f \in Parts(NewPath(loc[k])), f \notin TempFiles,
           \A n \in Names, g \in FileNames :
              n # loc[k].target \/ g # f => disk'[n][g] = disk[n][g]
    PROVE  Exact(b)'
<1>1. k \in Actors /\ k \notin Taggers /\ k \notin Scanners /\ Busy(k, b) /\ loc[k].book = b
  BY ConvertAt
<1>2. loc'[k] = l /\ pc'[k] = x
  BY <1>1, StepsIs
<1>3. ConvertRight(x, l, b)'
  <2>1. Own(k, pc[k], loc[k], b)'
    BY <1>1 DEF Fine
  <2> QED BY <1>2, <2>1 DEF Own
<1>4. Whole(row[b].path, b)'
  BY <1>3 DEF ConvertRight
<1>5. \A t \in Taggers : TempsStay(t)
  BY FileKinds DEF TempsStay
<1>6. \A q \in Scanners : pc[q] = "idle"
  BY <1>1 DEF Fine, Alone
<1>7. ~Carries(k, pc[k], loc[k], b) /\ ~Carries(k, x, l, b)
  BY DEF Carries
<1>8. \A n, g : Accounts(k, pc[k], loc[k], b, n, g) => Accounts(k, x, l, b, n, g)
  BY <1>1, KindOf DEF Accounts, Converts
<1>9. Accounts(k, x, l, b, loc[k].target, f)
  BY DEF Accounts, Converts, Lies, NewPath
<1>10. \A n \in Names, g \in FileNames : disk'[n][g] # "none" =>
          disk[n][g] # "none" \/ Accounts(k, x, l, b, n, g)
  BY <1>9
<1> QED BY <1>1, <1>4, <1>5, <1>6, <1>7, <1>8, <1>10, ExactKeeps

(* A file of the new form is accounted for by the conversion that wrote    *)
(* it.                                                                     *)
LEMMA MoveInExact ==
    ASSUME Typed, Typed', NEW b \in Apart', Fine(b), Fine(b)', Exact(b), Smooth',
           NEW k \in Converters, MoveIn(k) \/ Copied(k)
    PROVE  Exact(b)'
<1>1. b \in Books /\ pc[k] \in {"move", "copy"} /\ UNCHANGED <<dirs, row>> /\ ~Spend("fail")
  BY SmoothIs DEF MoveIn, Copied
<1>2. PICK m : m = loc[k]
  OBVIOUS
<1>3. /\ k \in Actors /\ m.book = b /\ m \in Locs /\ ConvertRight(pc[k], m, b)
      /\ k \notin Taggers /\ k \notin Scanners
  BY <1>1, <1>2, ConvertAt
<1>4. PICK f : f = NextFile(k)
  OBVIOUS
<1>5. /\ m.to = "mp3" => f \in m.left /\ f \in ChapterFiles
      /\ m.to = "m4b" => f = M4b(b, m.target) /\ f \in M4bFiles(b)
      /\ m.to \in {"m4b", "mp3"} /\ m.target \in Names /\ f \in FileNames \ TempFiles
  BY <1>1, <1>2, <1>3, <1>4, NextFileIs DEF M4bFiles
<1>6. m.target \in dirs /\ ~m.cancelled
  BY <1>1, <1>2, <1>3 DEF ConvertRight, Exact
<1>7. f \in Parts(NewPath(m))
  BY <1>1, <1>3, <1>5, FormsApart DEF NewPath, Parts
<1>8. \A c : Write(m.target, f, c) => \A n \in Names, g \in FileNames :
                n # m.target \/ g # f => disk'[n][g] = disk[n][g]
  BY <1>5 DEF Write, Typed, DiskTyped
<1>9. ASSUME Moved(k), UNCHANGED disk \/ \E c : Write(m.target, f, c)
      PROVE  Exact(b)'
  <2>1. PICK left : left = IF m.to = "mp3" THEN m.left \ {f} ELSE m.left
    OBVIOUS
  <2>2. PICK l, x : /\ l = [m EXCEPT !.left = left, !.open = "none"]
                    /\ x = IF m.to = "mp3" /\ left # {} THEN "move" ELSE "record"
    OBVIOUS
  <2>3. Steps(k, x, l)
    BY <1>2, <1>4, <1>9, <2>1, <2>2 DEF Moved, Set, Goto, Me, Steps
  <2>4. l.book = b /\ ~l.cancelled /\ l.target = m.target /\ l.to = m.to
    BY <1>3, <1>6, <2>2 DEF Locs
  <2>5. NewPath(l) = NewPath(m)
    BY <1>3, <2>4 DEF NewPath
  <2>6. \A n \in Names, g \in FileNames : n # m.target \/ g # f => disk'[n][g] = disk[n][g]
    BY <1>8, <1>9
  <2>7. x \in {"move", "record"} /\ row' = row /\ f \notin TempFiles
    BY <1>1, <1>5, <2>2
  <2>8. x \in {"move", "copy", "record"}
    BY <2>7
  <2> QED BY <1>1, <1>2, <1>7, <2>3, <2>4, <2>5, <2>6, <2>7, <2>8, WriteExact
<1>10. CASE Write(m.target, f, "part") /\ Set(k, [m EXCEPT !.open = m.target]) /\ Goto(k, "copy")
  <2>1. PICK l : l = [m EXCEPT !.open = m.target]
    OBVIOUS
  <2>2. Steps(k, "copy", l)
    BY <1>10, <2>1 DEF Set, Goto, Steps
  <2>3. l.book = b /\ ~l.cancelled /\ l.target = m.target /\ l.to = m.to
    BY <1>3, <1>6, <2>1 DEF Locs
  <2>4. NewPath(l) = NewPath(m)
    BY <1>3, <2>3 DEF NewPath
  <2> QED BY <1>1, <1>2, <1>5, <1>7, <1>8, <1>10, <2>2, <2>3, <2>4, WriteExact
<1>11. CASE MoveIn(k)
  BY <1>2, <1>4, <1>6, <1>9, <1>10, <1>11 DEF MoveIn, Me
<1>12. CASE Copied(k)
  <2>1. pc[k] = "copy" /\ m.open = m.target /\ disk[m.target][f] # "none"
    BY <1>1, <1>2, <1>3, <1>4, <1>12, OneBook
    DEF ConvertRight, Copied, Upcoming, NextFile, Me
  <2>2. \A g \in Copying(k) : g = f
    BY <1>2, <1>4, <1>6, <2>1 DEF Copying, Holds, Me
  <2> QED BY <1>1, <1>2, <1>4, <1>9, <1>12, <2>1, <2>2 DEF Copied, Me
<1> QED BY <1>11, <1>12

(* Once the row tells of the new form it accounts for the new files, and   *)
(* the conversion for the old.                                             *)
LEMMA RecordExact ==
    ASSUME Typed, Typed', NEW b \in Apart', Fine(b), Fine(b)', Exact(b), Smooth',
           NEW k \in Converters, Record(k)
    PROVE  Exact(b)'
<1>1. b \in Books /\ pc[k] = "record" /\ UNCHANGED <<dirs, disk>> /\ ~Spend("db")
  BY SmoothIs DEF Record
<1>2. PICK m : m = loc[k]
  OBVIOUS
<1>3. /\ k \in Actors /\ m.book = b /\ m \in Locs /\ Busy(k, b) /\ ConvertRight("record", m, b)
      /\ Prepared("record", m) /\ RowRight(b)
  BY <1>1, <1>2, ConvertAt
<1>4. ~m.cancelled
  BY <1>2 DEF Exact
<1>5. PICK p : p = NewPath(m)
  OBVIOUS
<1>6. NewPlace(k) = [status |-> "complete", path |-> p]
  BY <1>2, <1>5 DEF NewPlace, NewPath, At, Me
<1>7. row' = [row EXCEPT ![b] = NewPlace(k)] /\ Goto(k, "drop") /\ UNCHANGED loc
  BY <1>1, <1>2, <1>3, <1>4 DEF Record, Me
<1>8. row'[b].path = p
  BY <1>1, <1>6, <1>7 DEF Typed, RowTyped
<1>9. pc'[k] = "drop" /\ \A w \in Actors \ {k} : pc'[w] = pc[w]
  BY <1>3, <1>7, FitsEach DEF Goto, Typed
<1>10. Whole(row[b].path, b)'
  <2>1. Whole(p, b)'
    BY <1>1, <1>3, <1>5, SameDisk DEF ConvertRight
  <2> QED BY <1>8, <2>1
<1>11. \A n \in Names, f \in FileNames : disk[n][f] # "none" =>
          Lies(n, f, row[b].path) \/ Accounts(k, "record", m, b, n, f)
  BY <1>1, <1>2, <1>3, OnlyMine DEF Carries
<1>12. m.path = row[b].path /\ (m.to = "mp3" <=> m.path.file # Folder) /\ m.to \in {"m4b", "mp3"}
       /\ (m.to = "m4b" => m.left = ChapterFiles)
  BY <1>3 DEF ConvertRight, Prepared
<1>13. ASSUME NEW n \in Names, NEW f \in FileNames, disk'[n][f] # "none"
       PROVE  \/ ~Carries(k, pc[k], loc[k], b)' /\ Lies(n, f, row'[b].path)
              \/ Accounts(k, pc[k], loc[k], b, n, f)'
  <2>1. CASE Accounts(k, "record", m, b, n, f)
    <3>1. Lies(n, f, p)
      BY <1>3, <1>5, <2>1, KindOf DEF Accounts, Converts, Moves
    <3>2. ~Carries(k, pc[k], loc[k], b)'
      BY <1>9 DEF Carries
    <3> QED BY <1>8, <3>1, <3>2
  <2>2. CASE Lies(n, f, m.path)
    <3>1. Converts("drop", m, n, f)
      BY <1>12, <2>2 DEF Converts, Lies, Parts
    <3>2. Accounts(k, "drop", m, b, n, f)
      BY <1>3, <3>1 DEF Accounts
    <3> QED BY <1>2, <1>7, <1>9, <3>2 DEF Accounts, Converts, Moves, NewPath, Lies, Place, Parts
  <2> QED BY <1>1, <1>11, <1>12, <1>13, <2>1, <2>2
<1>14. \A t \in Taggers, n \in Names : disk'[n][Temp(t)] = "none"
  BY <1>1 DEF Exact
<1> QED BY <1>1, <1>2, <1>3, <1>4, <1>7, <1>9, <1>10, <1>13, <1>14, ExactAlone

(* The old files go one by one, and in the end the row accounts for all    *)
(* there are.                                                              *)
LEMMA DropOldExact ==
    ASSUME Typed, Typed', NEW b \in Apart', Fine(b), Fine(b)', Exact(b), Smooth',
           NEW k \in Converters, DropOld(k)
    PROVE  Exact(b)'
<1>1. b \in Books /\ pc[k] = "drop" /\ UNCHANGED <<dirs, row>>
  BY ApartIs DEF DropOld
<1>2. PICK m : m = loc[k]
  OBVIOUS
<1>3. /\ k \in Actors /\ m.book = b /\ m \in Locs /\ Busy(k, b) /\ ConvertRight("drop", m, b)
      /\ Prepared("drop", m) /\ m.path \in Paths /\ k \notin Movers
  BY <1>1, <1>2, ConvertAt, KindOf
<1>4. ~m.cancelled
  BY <1>2 DEF Exact
<1>5. Whole(row[b].path, b)'
  <2>1. row'[b].status = "complete"
    BY <1>1, <1>3 DEF ConvertRight
  <2> QED BY <2>1 DEF Fine, RowRight
<1>6. /\ m.to = "mp3" <=> m.path.file # Folder
      /\ m.path.file = Folder \/ m.path.file \in M4bFiles(b)
      /\ m.to \in {"m4b", "mp3"} /\ m.left \subseteq ChapterFiles
  BY <1>3 DEF ConvertRight, Prepared, Locs
<1>7. \A n \in Names, f \in FileNames : disk[n][f] # "none" =>
         Lies(n, f, row[b].path) \/ Accounts(k, "drop", m, b, n, f)
  BY <1>1, <1>2, <1>3, OnlyMine DEF Carries
<1>8. ASSUME NEW f \in FileNames, DropFile(k, f)
      PROVE  /\ m.path.dir \in Names => disk'[m.path.dir][f] = "none"
             /\ \A n \in Names, g \in FileNames : disk'[n][g] \in {disk[n][g], "none"}
  <2>1. CASE m.path.dir \in dirs
    <3>1. disk' = [disk EXCEPT ![m.path.dir][f] = "none"]
      BY <1>2, <1>8, <2>1 DEF DropFile, Write, Me
    <3>2. disk \in [Names -> [FileNames -> Contents]] /\ m.path.dir \in Names
      BY <2>1 DEF Typed, DiskTyped
    <3> QED BY <3>1, <3>2
  <2>2. CASE m.path.dir \notin dirs
    <3>1. disk' = disk
      BY <1>2, <1>8, <2>2 DEF DropFile, Me
    <3>2. m.path.dir \in Names => disk[m.path.dir][f] = "none"
      BY <2>2 DEF Typed, DiskTyped, Bare
    <3> QED BY <3>1, <3>2
  <2> QED BY <2>1, <2>2
<1>9. \A t \in Taggers, n \in Names : disk[n][Temp(t)] = "none" /\ Temp(t) \in FileNames
  BY <1>1, FileKinds DEF Exact
<1>10. ASSUME NEW x, NEW l, Steps(k, x, l), ~Carries(k, x, l, b), ~l.cancelled,
              \A n \in Names, g \in FileNames : disk'[n][g] \in {disk[n][g], "none"},
              \A n \in Names, g \in FileNames :
                 Accounts(k, "drop", m, b, n, g) /\ disk'[n][g] # "none" =>
                    Accounts(k, x, l, b, n, g)
       PROVE  Exact(b)'
  <2>1. loc'[k] = l /\ pc'[k] = x /\ \A w \in Actors \ {k} : loc'[w] = loc[w] /\ pc'[w] = pc[w]
    BY <1>3, <1>10, StepsIs
  <2>2. \A t \in Taggers, n \in Names : disk'[n][Temp(t)] = "none"
    BY <1>9, <1>10
  <2>3. ~Carries(k, pc[k], loc[k], b)'
    BY <1>10, <2>1 DEF Carries
  <2>4. ASSUME NEW n \in Names, NEW f \in FileNames, disk'[n][f] # "none"
        PROVE  Lies(n, f, row'[b].path) \/ Accounts(k, pc[k], loc[k], b, n, f)'
    <3>1. Lies(n, f, row[b].path) \/ Accounts(k, x, l, b, n, f)
      BY <1>7, <1>10, <2>4
    <3>2. Accounts(k, x, l, b, n, f) => Accounts(k, pc[k], loc[k], b, n, f)'
      BY <2>1 DEF Accounts, Converts, Moves, NewPath, Lies, Place, Parts
    <3> QED BY <1>1, <3>1, <3>2
  <2> QED BY <1>1, <1>3, <1>5, <1>10, <2>1, <2>2, <2>3, <2>4, ExactAlone
<1>11. ~Idle.cancelled /\ ~Carries(k, "idle", Idle, b)
  BY DEF Idle, Carries
<1>12. CASE m.to = "mp3" /\ DropFile(k, m.path.file) /\ EndConvert(k)
  <2>1. m.path.file \in FileNames
    BY <1>1, <1>6, <1>12, FormsApart
  <2>2. \A n \in Names, g \in FileNames : Accounts(k, "drop", m, b, n, g) => disk'[n][g] = "none"
    BY <1>3, <1>8, <1>12, <2>1 DEF Accounts, Converts
  <2>3. Steps(k, "idle", Idle)
    BY <1>12 DEF EndConvert, Stop, Goto, Steps
  <2> QED BY <1>8, <1>10, <1>11, <1>12, <2>1, <2>2, <2>3
<1>13. ASSUME m.to = "m4b", NEW f \in m.left, DropFile(k, f),
              Set(k, [m EXCEPT !.left = m.left \ {f}]), UNCHANGED pc
       PROVE  Exact(b)'
  <2>1. f \in FileNames
    BY <1>1, <1>6, <1>13, FormsApart
  <2>2. PICK left : left = m.left \ {f}
    OBVIOUS
  <2>3. PICK l : l = [m EXCEPT !.left = left]
    OBVIOUS
  <2>4. Steps(k, "drop", l)
    BY <1>1, <1>3, <1>13, <2>2, <2>3, FitsEach DEF Set, Steps, Typed
  <2>5. l.book = b /\ l.to = m.to /\ l.path = m.path /\ l.left = left /\ ~l.cancelled
    BY <1>3, <1>4, <2>3 DEF Locs
  <2>6. \A n \in Names, g \in FileNames :
           Accounts(k, "drop", m, b, n, g) /\ disk'[n][g] # "none" =>
              Accounts(k, "drop", l, b, n, g)
    BY <1>3, <1>8, <1>13, <2>1, <2>2, <2>5 DEF Accounts, Converts
  <2>7. ~Carries(k, "drop", l, b)
    BY DEF Carries
  <2> QED BY <1>8, <1>10, <1>13, <2>1, <2>4, <2>5, <2>6, <2>7
<1>14. CASE m.to = "m4b" /\ m.left = {} /\ EndConvert(k) /\ UNCHANGED disk
  <2>1. \A n, g : ~Accounts(k, "drop", m, b, n, g)
    BY <1>3, <1>14 DEF Accounts, Converts
  <2>2. Steps(k, "idle", Idle)
    BY <1>14 DEF EndConvert, Stop, Goto, Steps
  <2> QED BY <1>10, <1>11, <1>14, <2>1, <2>2
<1> QED BY <1>2, <1>12, <1>13, <1>14 DEF DropOld, Me

(* A job that is planned, and one that begins, moves no file yet.          *)
LEMMA PlanExact ==
    ASSUME Typed, Typed', NEW b \in Books, Fine(b), Exact(b), NEW r \in Movers,
           StartMove(r) \/ \E c \in Books : Plan(r, c)
    PROVE  Exact(b)'
<1>1. r \in Actors /\ r \notin Taggers /\ r \notin Scanners /\ r \notin Converters
  BY KindOf
<1>2. CASE StartMove(r)
  <2>1. pc[r] = "queued" /\ UNCHANGED <<dirs, disk>>
    BY <1>2 DEF StartMove
  <2>2. loc[r].book = b /\ RowRight(b)
    BY <2>1, MoveAt
  <2>3. row'[b].path = row[b].path
    BY <1>2, <2>1, <2>2, MarkRow DEF StartMove, Me
  <2>4. PICK l : l = [loc[r] EXCEPT !.path = row[b].path]
    OBVIOUS
  <2>5. Steps(r, "stat", l)
    BY <1>2, <2>2, <2>4 DEF StartMove, Set, Goto, Me, Steps
  <2> QED BY <1>1, <2>1, <2>3, <2>5, ExactQuiet
<1>3. ASSUME NEW c \in Books, Plan(r, c)
      PROVE  Exact(b)'
  <2>1. PICK l : l = [loc[r] EXCEPT !.book = c]
    OBVIOUS
  <2>2. Steps(r, "queued", l) /\ pc[r] = "idle" /\ UNCHANGED <<disk, row>>
    BY <1>3, <2>1 DEF Plan, Set, Goto, Me, Steps
  <2> QED BY <1>1, <2>2, ExactQuiet
<1> QED BY <1>2, <1>3

(* A job at work on the book accounts for all that it leaves.              *)
LEMMA MoverExact ==
    ASSUME Typed, Typed', NEW b \in Books, Fine(b), Exact(b), NEW r \in Movers,
           pc[r] \notin {"idle", "queued"}, NEW x, NEW l, loc'[r] = l, pc'[r] = x,
           \A w \in Actors \ {r} : /\ pc'[w] = pc[w] /\ loc'[w].book = loc[w].book
                                   /\ loc'[w].cancelled = loc[w].cancelled,
           \A t \in Taggers, n \in Names : disk'[n][Temp(t)] = "none",
           \/ /\ ~Carries(r, x, l, b) /\ Whole(row[b].path, b)'
              /\ \A n \in Names, f \in FileNames :
                    disk'[n][f] # "none" => Lies(n, f, row'[b].path)
           \/ /\ Carries(r, x, l, b)
              /\ \A n \in Names, f \in FileNames :
                    disk'[n][f] # "none" => Accounts(r, x, l, b, n, f)
    PROVE  Exact(b)'
<1>1. r \in Actors /\ Busy(r, b) /\ pc[r] # "lock" /\ r \notin Converters
  BY MoveAt, MovingOn DEF MoveStages
<1>2. Carries(r, x, l, b) <=> Carries(r, pc[r], loc[r], b)'
  BY DEF Carries
<1>3. \A n, f : Accounts(r, x, l, b, n, f) => Accounts(r, pc[r], loc[r], b, n, f)'
  BY DEF Accounts, Converts, Moves, NewPath, Lies, Place, Parts
<1> QED BY <1>1, <1>2, <1>3, ExactAlone

(* Before it carries the book, all there is is where the row says.         *)
LEMMA MoverLies ==
    ASSUME Typed, NEW b \in Books, Fine(b), Exact(b), NEW r \in Movers,
           pc[r] \in {"stat", "movefile"}
    PROVE  /\ Whole(loc[r].path, b) /\ loc[r].path = row[b].path /\ Present(loc[r].path)
           /\ loc[r].path \in Paths
           /\ \A n \in Names, f \in FileNames : disk[n][f] # "none" => Lies(n, f, loc[r].path)
<1>1. /\ r \in Actors /\ Busy(r, b) /\ pc[r] # "lock" /\ MoveRight(pc[r], loc[r], b)
      /\ loc[r].path \in Paths
  BY MoveAt
<1>2. /\ ~Carries(r, pc[r], loc[r], b)
      /\ \A n, f : ~Accounts(r, pc[r], loc[r], b, n, f)
  BY KindOf DEF Carries, Accounts, Moves
<1>3. loc[r].path = row[b].path
  BY <1>1 DEF MoveRight
<1>4. Whole(row[b].path, b)
  BY <1>1, <1>2, OnlyMine
<1>5. \A n \in Names, f \in FileNames : disk[n][f] # "none" => Lies(n, f, row[b].path)
  BY <1>1, <1>2, OnlyMine
<1>6. Present(loc[r].path)
  BY <1>1, <1>3, <1>4, WholeIs DEF Typed
<1> QED BY <1>1, <1>3, <1>4, <1>5, <1>6

(* A job that has found the book has moved no file yet.                    *)
LEMMA StatExact ==
    ASSUME Typed, Typed', NEW b \in Books, Fine(b), Exact(b), NEW r \in Movers, Stat(r)
    PROVE  Exact(b)'
<1>1. UNCHANGED <<dirs, disk>> /\ pc[r] = "stat"
  BY DEF Stat
<1>2. PICK m, p : m = loc[r] /\ p = m.path
  OBVIOUS
<1>3. r \in Actors /\ m \in Locs /\ m.book = b
  BY <1>1, <1>2, MoveAt
<1>4. /\ Whole(p, b) /\ p = row[b].path /\ Present(p) /\ p \in Paths
      /\ \A n \in Names, f \in FileNames : disk[n][f] # "none" => Lies(n, f, p)
  BY <1>1, <1>2, MoverLies
<1>5. PICK n \in Names : n = home[b]
  BY DEF Typed, RestTyped
<1>6. PICK x, l : /\ x = IF p.file = Folder \/ p.file = Target(p, b).file THEN "movedir"
                         ELSE "movefile"
                  /\ l = [m EXCEPT !.target = n]
  OBVIOUS
<1>7. Steps(r, x, l) /\ row' = row
  BY <1>2, <1>3, <1>4, <1>5, <1>6 DEF Stat, Set, Goto, Me, Steps
<1>8. /\ loc'[r] = l /\ pc'[r] = x
      /\ \A w \in Actors \ {r} : loc'[w] = loc[w] /\ pc'[w] = pc[w]
  BY <1>3, <1>7, StepsIs
<1>9. l.book = b /\ l.path = p /\ l.target = n
  BY <1>2, <1>3, <1>6 DEF Locs
<1>10. \A t \in Taggers, d \in Names : disk'[d][Temp(t)] = "none"
  BY <1>1 DEF Exact
<1>11. CASE x = "movefile"
  <2>1. ~Carries(r, x, l, b)
    BY <1>11 DEF Carries
  <2>2. Whole(row[b].path, b)'
    BY <1>1, <1>4, <1>7, SameDisk
  <2> QED BY <1>1, <1>4, <1>7, <1>8, <1>10, <2>1, <2>2, MoverExact
<1>12. CASE x = "movedir"
  <2>1. p.file = Folder \/ p.file = Target(p, b).file
    BY <1>6, <1>12
  <2>2. Place(b, p.dir, p, n) = p
    BY <1>4, <1>5, <2>1, PathFields DEF Target, Place
  <2>3. Carries(r, x, l, b)
    BY <1>9, <1>12 DEF Carries
  <2>4. \A d \in Names, f \in FileNames : disk'[d][f] # "none" => Accounts(r, x, l, b, d, f)
    BY <1>1, <1>4, <1>9, <1>12, <2>2 DEF Accounts, Moves
  <2> QED BY <1>1, <1>8, <1>10, <2>3, <2>4, MoverExact
<1> QED BY <1>6, <1>11, <1>12

(* The m4b that was renamed is accounted for by the job.                   *)
LEMMA MoveFileExact ==
    ASSUME Typed, Typed', NEW b \in Books, Fine(b), Exact(b), NEW r \in Movers, MoveFile(r)
    PROVE  Exact(b)'
<1>1. UNCHANGED dirs /\ pc[r] = "movefile"
  BY DEF MoveFile
<1>2. PICK m, p, n : m = loc[r] /\ p = m.path /\ n = m.target
  OBVIOUS
<1>3. r \in Actors /\ m \in Locs /\ m.book = b /\ MoveRight("movefile", m, b)
  BY <1>1, <1>2, MoveAt
<1>4. /\ Whole(p, b) /\ p = row[b].path /\ Present(p) /\ p \in Paths
      /\ \A d \in Names, f \in FileNames : disk[d][f] # "none" => Lies(d, f, p)
  BY <1>1, <1>2, MoverLies
<1>5. n \in Names /\ p.file \notin {Folder, M4b(b, n)} /\ p.dir \in Names
      /\ p.file \in FileNames /\ M4b(b, n) \in FileNames
  BY <1>2, <1>3, <1>4, WholeIs, PathFields, FileKinds DEF MoveRight, Typed
<1>6. /\ loc' = loc /\ Goto(r, "movedir")
      /\ disk' = [disk EXCEPT ![p.dir][M4b(b, n)] = disk[p.dir][p.file], ![p.dir][p.file] = "none"]
  BY <1>2, <1>3, <1>4 DEF MoveFile, Me
<1>7. \A d \in Names, g \in FileNames :
         disk'[d][g] = IF d = p.dir /\ g = p.file THEN "none"
                       ELSE IF d = p.dir /\ g = M4b(b, n) THEN disk[p.dir][p.file]
                       ELSE disk[d][g]
  BY <1>5, <1>6 DEF Typed, DiskTyped
<1>8. Steps(r, "movedir", m)
  BY <1>2, <1>3, <1>6, FitsEach DEF Goto, Steps, Typed
<1>9. /\ loc'[r] = m /\ pc'[r] = "movedir"
      /\ \A w \in Actors \ {r} : loc'[w] = loc[w] /\ pc'[w] = pc[w]
  BY <1>3, <1>8, StepsIs
<1>10. \A t \in Taggers, d \in Names : disk'[d][Temp(t)] = "none"
  <2>1. \A t \in Taggers : Temp(t) \in FileNames /\ Temp(t) # M4b(b, n)
    BY <1>5, FileKinds
  <2> QED BY <1>7, <2>1 DEF Exact
<1>11. Carries(r, "movedir", m, b)
  BY <1>3 DEF Carries
<1>12. ASSUME NEW d \in Names, NEW g \in FileNames, disk'[d][g] # "none"
       PROVE  Accounts(r, "movedir", m, b, d, g)
  <2>1. Parts(p) = {p.file}
    BY <1>5 DEF Parts
  <2>2. d = p.dir /\ g = M4b(b, n)
    BY <1>4, <1>7, <1>12, <2>1 DEF Lies
  <2>3. Parts(Place(b, p.dir, p, n)) = {M4b(b, n)} /\ Place(b, p.dir, p, n).dir = p.dir
    BY <1>5, FormsApart, FileKinds DEF Parts, Place
  <2> QED BY <1>2, <1>3, <2>2, <2>3 DEF Accounts, Moves, Lies
<1> QED BY <1>1, <1>9, <1>10, <1>11, <1>12, MoverExact

(* So is the folder that was renamed.                                      *)
LEMMA MoveDirExact ==
    ASSUME Typed, Typed', NEW b \in Books, Fine(b), Exact(b), NEW r \in Movers, MoveDir(r)
    PROVE  Exact(b)'
<1>1. pc[r] = "movedir"
  BY DEF MoveDir
<1>2. PICK m, p, old, new : m = loc[r] /\ p = m.path /\ old = m.path.dir /\ new = m.target
  OBVIOUS
<1>3. r \in Actors /\ m \in Locs /\ m.book = b /\ MoveRight("movedir", m, b) /\ p \in Paths
      /\ Busy(r, b)
  BY <1>1, <1>2, MoveAt
<1>4. PICK q, z : q = Place(b, old, p, new) /\ z = Place(b, new, p, new)
  OBVIOUS
<1>5. new \in Names /\ Whole(q, b)
  BY <1>2, <1>3, <1>4 DEF MoveRight
<1>6. old \in dirs /\ old \in Names
  BY <1>4, <1>5 DEF Whole, Place, Typed, DiskTyped
<1>7. q.dir = old /\ z.dir = new /\ Parts(z) = Parts(q)
  BY <1>4 DEF Place, Parts
<1>8. \A n \in Names, f \in FileNames : disk[n][f] # "none" => Lies(n, f, q)
  <2>1. \A n, f : Accounts(r, pc[r], loc[r], b, n, f) => Lies(n, f, q)
    BY <1>1, <1>2, <1>4, KindOf DEF Accounts, Moves
  <2>2. Carries(r, pc[r], loc[r], b)
    BY <1>1, <1>2, <1>3 DEF Carries
  <2> QED BY <1>1, <1>3, <2>1, <2>2, OnlyMine
<1>9. CASE old = new
  <2>1. Goto(r, "note") /\ UNCHANGED <<disk, loc>>
    BY <1>2, <1>9 DEF MoveDir, Me
  <2>2. Steps(r, "note", m)
    BY <1>2, <1>3, <2>1, FitsEach DEF Goto, Steps, Typed
  <2>3. /\ loc'[r] = m /\ pc'[r] = "note"
        /\ \A w \in Actors \ {r} : loc'[w] = loc[w] /\ pc'[w] = pc[w]
    BY <1>3, <2>2, StepsIs
  <2>4. Carries(r, "note", m, b)
    BY <1>3 DEF Carries
  <2>5. \A n \in Names, f \in FileNames : disk'[n][f] # "none" => Accounts(r, "note", m, b, n, f)
    BY <1>2, <1>3, <1>4, <1>8, <1>9, <2>1 DEF Accounts, Moves
  <2>6. \A t \in Taggers, n \in Names : disk'[n][Temp(t)] = "none"
    BY <2>1 DEF Exact
  <2> QED BY <1>1, <2>3, <2>4, <2>5, <2>6, MoverExact
<1>10. CASE old # new
  <2>1. \A f \in FileNames : disk[new][f] = "none"
    BY <1>5, <1>7, <1>8, <1>10 DEF Lies
  <2>2. /\ disk' = [disk EXCEPT ![new] = disk[old], ![old] = Bare]
        /\ loc' = [v \in Actors |-> [loc[v] EXCEPT !.open = IF @ = old THEN new ELSE @]]
        /\ Goto(r, "note")
    BY <1>2, <1>6, <1>10, <2>1 DEF MoveDir, Me, Empty
  <2>3. \A n \in Names, f \in FileNames :
           disk'[n][f] = IF n = new THEN disk[old][f] ELSE IF n = old THEN "none" ELSE disk[n][f]
    BY <1>5, <1>6, <1>10, <2>2 DEF Typed, DiskTyped, Bare
  <2>4. loc \in [Actors -> Locs] /\ pc \in [Actors -> Stages]
    BY FitsEach DEF Typed
  <2>5. pc'[r] = "note" /\ \A w \in Actors \ {r} : pc'[w] = pc[w]
    BY <1>3, <2>2, <2>4 DEF Goto
  <2>6. ASSUME NEW w \in Actors
        PROVE  /\ loc'[w].book = loc[w].book /\ loc'[w].cancelled = loc[w].cancelled
               /\ loc'[w].path = loc[w].path /\ loc'[w].target = loc[w].target
    <3>1. PICK n, o : n = loc[w] /\ o = IF n.open = old THEN new ELSE n.open
      OBVIOUS
    <3>2. n \in Locs /\ loc'[w] = [n EXCEPT !.open = o]
      BY <2>2, <2>4, <3>1
    <3> QED BY <3>1, <3>2 DEF Locs
  <2>7. PICK l : l = loc'[r]
    OBVIOUS
  <2>8. l.book = b /\ l.path = p /\ l.target = new
    BY <1>2, <1>3, <2>6, <2>7
  <2>9. Carries(r, "note", l, b)
    BY <2>8 DEF Carries
  <2>10. ASSUME NEW n \in Names, NEW f \in FileNames, disk'[n][f] # "none"
         PROVE  Accounts(r, "note", l, b, n, f)
    <3>1. n = new /\ f \in Parts(z)
      BY <1>6, <1>7, <1>8, <2>1, <2>3, <2>10 DEF Lies
    <3> QED BY <1>4, <1>7, <2>8, <3>1 DEF Accounts, Moves, Lies
  <2>11. \A t \in Taggers, n \in Names : disk'[n][Temp(t)] = "none"
    <3>1. \A t \in Taggers : Temp(t) \in FileNames
      BY FileKinds
    <3> QED BY <1>6, <2>3, <3>1 DEF Exact
  <2> QED BY <1>1, <2>5, <2>6, <2>7, <2>9, <2>10, <2>11, MoverExact
<1> QED BY <1>9, <1>10

(* Once the row tells of the new place, it accounts for what the job did.  *)
LEMMA NoteMoveExact ==
    ASSUME Typed, Typed', NEW b \in Apart', Fine(b), Exact(b), NEW r \in Movers, NoteMove(r)
    PROVE  Exact(b)'
<1>1. b \in Books /\ UNCHANGED <<dirs, disk>> /\ pc[r] = "note" /\ ~Spend("db")
  BY ApartIs DEF NoteMove
<1>2. PICK m : m = loc[r]
  OBVIOUS
<1>3. r \in Actors /\ m.book = b /\ MoveRight("note", m, b) /\ Busy(r, b)
  BY <1>1, <1>2, MoveAt
<1>4. PICK z : z = Place(b, m.target, m.path, m.target)
  OBVIOUS
<1>5. Stop(r) /\ row' = [row EXCEPT ![b] = [status |-> "complete", path |-> z]]
  BY <1>1, <1>2, <1>3, <1>4 DEF NoteMove, At, Place, Me
<1>6. row'[b].path = z
  BY <1>1, <1>5 DEF Typed, RowTyped
<1>7. Whole(row[b].path, b)'
  <2>1. Whole(z, b)'
    BY <1>1, <1>3, <1>4, SameDisk DEF MoveRight
  <2> QED BY <1>6, <2>1
<1>8. \A n \in Names, f \in FileNames : disk[n][f] # "none" => Lies(n, f, z)
  <2>1. \A n, f : Accounts(r, pc[r], loc[r], b, n, f) => Lies(n, f, z)
    BY <1>1, <1>2, <1>4, KindOf DEF Accounts, Moves
  <2>2. Carries(r, pc[r], loc[r], b)
    BY <1>1, <1>2, <1>3 DEF Carries
  <2> QED BY <1>1, <1>3, <2>1, <2>2, OnlyMine
<1>9. Steps(r, "idle", Idle)
  BY <1>5 DEF Stop, Goto, Steps
<1>10. /\ loc'[r] = Idle /\ pc'[r] = "idle"
       /\ \A w \in Actors \ {r} : loc'[w] = loc[w] /\ pc'[w] = pc[w]
  BY <1>3, <1>9, StepsIs
<1>11. ~Carries(r, "idle", Idle, b)
  BY DEF Carries
<1>12. \A t \in Taggers, n \in Names : disk'[n][Temp(t)] = "none"
  BY <1>1 DEF Exact
<1> QED BY <1>1, <1>6, <1>7, <1>8, <1>10, <1>11, <1>12, MoverExact

(* Who fetches metadata moves no file, and puts back the row there is.     *)
LEMMA ResyncExact ==
    ASSUME Typed, Typed', NEW b \in Books, Fine(b), Exact(b), NEW s \in Refreshers,
           SaveMetadata(s) \/ \E c \in Books : ReadResync(s, c)
    PROVE  Exact(b)'
<1>1. s \in Actors /\ s \notin Taggers /\ s \notin Scanners /\ s \notin Converters
  BY KindOf
<1>2. CASE SaveMetadata(s)
  <2>1. UNCHANGED <<dirs, disk>> /\ pc[s] = "fetch" /\ Stop(s)
    BY <1>2 DEF SaveMetadata
  <2>2. loc[s].book = b
    BY <1>1, <2>1, Marks, OneBook DEF Typed
  <2>3. row[b] = [status |-> loc[s].was, path |-> loc[s].path]
    BY <1>1, <2>1, <2>2 DEF Fine, Own, FetchRight
  <2>4. row'[b] = row[b]
    BY <1>2, <2>2, <2>3 DEF SaveMetadata, Me, Typed, RowTyped
  <2> QED BY <1>1, <2>1, <2>4, ExactStops
<1>3. ASSUME NEW c \in Books, ReadResync(s, c)
      PROVE  Exact(b)'
  <2>1. PICK l : l = [loc[s] EXCEPT !.book = c, !.path = row[c].path, !.was = row[c].status]
    OBVIOUS
  <2>2. Steps(s, "fetch", l) /\ pc[s] = "idle" /\ UNCHANGED <<disk, row>>
    BY <1>3, <2>1 DEF ReadResync, Set, Goto, Me, Steps
  <2> QED BY <1>1, <2>2, ExactQuiet
<1> QED BY <1>2, <1>3

(* A scan finds all that there is.                                         *)
LEMMA WalkExact ==
    ASSUME Typed, Typed', NEW b \in Books, Exact(b), NEW q \in Scanners, Walk(q)
    PROVE  Exact(b)'
<1>1. UNCHANGED <<dirs, disk, row>> /\ pc[q] = "idle"
  BY DEF Walk
<1>2. PICK found : found = {x \in dirs \X FileNames : Holds(x[1], x[2]) # "none"}
  OBVIOUS
<1>3. PICK l : l = [loc[q] EXCEPT !.found = found]
  OBVIOUS
<1>4. Steps(q, "match", l)
  BY <1>2, <1>3 DEF Walk, Set, Goto, Me, Steps
<1>5. q \in Actors /\ loc[q] \in Locs /\ q \notin Taggers /\ q \notin Converters
      /\ q \notin Movers
  BY KindOf, Marks DEF Typed
<1>6. l.found = found
  BY <1>3, <1>5 DEF Locs
<1>7. ASSUME NEW n \in Names, NEW f \in FileNames, disk'[n][f] # "none"
      PROVE  <<n, f>> \in l.found
  <2>1. Holds(n, f) # "none" /\ n \in dirs
    BY <1>1, <1>7, HoldsIs DEF Typed
  <2>2. <<n, f>> \in dirs \X FileNames /\ Holds(<<n, f>>[1], <<n, f>>[2]) # "none"
    BY <2>1
  <2> QED BY <1>2, <1>6, <2>2
<1>8. ~Carries(q, pc[q], loc[q], b) /\ ~Carries(q, "match", l, b)
  BY <1>5 DEF Carries
<1>9. \A n, f : ~Accounts(q, pc[q], loc[q], b, n, f)
  BY <1>5 DEF Accounts
<1>10. \A t \in Taggers : TempsStay(t)
  BY <1>1 DEF TempsStay
<1>11. Whole(row[b].path, b) => Whole(row[b].path, b)'
  BY <1>1, SameDisk
<1> QED BY <1>1, <1>4, <1>5, <1>7, <1>8, <1>9, <1>10, <1>11, ExactKeeps

(* And matches a book whose files are where its row says with just them.   *)
LEMMA ReconcileExact ==
    ASSUME Typed, Typed', NEW b \in Apart', Fine(b), Exact(b), NEW q \in Scanners, Reconcile(q)
    PROVE  Exact(b)'
<1>1. /\ b \in Books /\ b \notin misread' /\ UNCHANGED <<dirs, disk>> /\ pc[q] = "match"
      /\ Stop(q) /\ ~Spend("db")
  BY ApartIs DEF Reconcile
<1>2. PICK found : found = loc[q].found
  OBVIOUS
<1>3. q \in Actors /\ q \notin Taggers /\ q \notin Converters
  BY KindOf
<1>4. PICK best \in [Books -> Paths] :
         /\ best[b] \in BestFile(b, found)
         /\ row' = [c \in Books |-> Reconciled(c, best[c])]
         /\ misread' = misread \cup {c \in Books : Misread(row[c].path, row'[c].path, c)}
  BY <1>1, <1>2 DEF Reconcile, Me
<1>5. PICK new : new = best[b]
  OBVIOUS
<1>6. PICK old \in Paths : old = row[b].path
  BY <1>1 DEF Typed, RowTyped
<1>7. row'[b] = Reconciled(b, new) /\ ~Misread(old, row'[b].path, b)
  BY <1>1, <1>4, <1>5, <1>6
<1>8. ~Moving(b)
  <2>1. \A w \in Actors : ~Busy(w, b)
    BY <1>1 DEF Fine, Alone
  <2> QED BY <2>1, KindOf DEF Moving, Carries, Busy
<1>9. Whole(old, b) /\ old.dir \in Names /\ \A f \in Parts(old) : disk[old.dir][f] = b
  BY <1>1, <1>6, <1>8, WholeIs DEF Exact, Typed
<1>10. old.file \in M4bFiles(b) \cup {Folder}
  BY <1>6 DEF Fine, RowRight, NoPath
<1>11. \A f \in Parts(old) : <<old.dir, f>> \in found
  <2>1. \A f \in Parts(old) : f \in FileNames
    BY <1>1, <1>10, FormsApart
  <2> QED BY <1>1, <1>2, <1>9, <2>1, OneBook DEF Exact
<1>12. PICK f \in Parts(old) : old.file # Folder => f = old.file
  BY <1>1, <1>10, FormsApart
<1>13. InFolder(found, old.dir) # {}
  <2>1. <<old.dir, f>> \in found /\ <<old.dir, f>>[1] = old.dir
    BY <1>11
  <2> QED BY <2>1 DEF InFolder
<1>14. new \in {old, [dir |-> old.dir, file |-> Folder]}
  <2>1. old.file # Folder => <<old.dir, old.file>> \in found
    BY <1>11, <1>12
  <2>2. /\ StoredPath(b, found) # {}
        /\ StoredPath(b, found) \subseteq {old, [dir |-> old.dir, file |-> Folder]}
    BY <1>6, <1>13, <2>1 DEF StoredPath
  <2> QED BY <1>4, <1>5, <2>2 DEF BestFile
<1>15. new.dir = old.dir /\ new # NoPath
  BY <1>9, <1>14, FilesAssumption DEF NoPath
<1>16. row'[b].path = new
  BY <1>7, <1>15 DEF Reconciled
<1>17. new = old
  <2>1. CASE new = [dir |-> old.dir, file |-> Folder] /\ old.file # Folder
    <3>1. new = [old EXCEPT !.file = Folder] /\ new # old
      BY <2>1, PathFields DEF Paths
    <3> QED BY <1>7, <1>16, <2>1, <3>1 DEF Misread
  <2>2. CASE new = [dir |-> old.dir, file |-> Folder] /\ old.file = Folder
    BY <2>2, PathFields
  <2> QED BY <1>14, <2>1, <2>2
<1> QED BY <1>1, <1>3, <1>6, <1>16, <1>17, ExactStops

(* A step that leaves disk, row and actors leaves all accounted for.       *)
LEMMA NothingExact ==
    ASSUME NEW b, Exact(b), UNCHANGED <<dirs, disk, row, pc, loc>>
    PROVE  Exact(b)'
<1>1. Moving(b)' <=> Moving(b)
  BY DEF Moving, Carries
<1>2. Whole(row[b].path, b)' <=> Whole(row[b].path, b)
  BY SameDisk
<1>3. \A v, n, f : Accounts(v, pc[v], loc[v], b, n, f) => Accounts(v, pc[v], loc[v], b, n, f)'
  BY DEF Accounts, Converts, Moves, NewPath, Lies, Place, Parts
<1> QED BY <1>1, <1>2, <1>3 DEF Exact

(* Every step that goes well leaves all accounted for.                     *)
LEMMA ExactStep ==
    ASSUME Typed, Typed', [Next]_vars, NEW b \in Apart', Fine(b), Fine(b)', Exact(b), Smooth'
    PROVE  Exact(b)'
<1>1. /\ b \in Books /\ ~Spend("crash") /\ ~Spend("retag") /\ ~Spend("cancel")
  BY SmoothIs
<1>2. CASE UNCHANGED vars
  BY <1>2, NothingExact DEF vars
<1>3. ASSUME NEW k \in Converters, ConvertStep(k)
      PROVE  Exact(b)'
  BY <1>1, <1>3, EarlyExact, MoveInExact, RecordExact, DropOldExact DEF ConvertStep
<1>4. ASSUME NEW k \in Converters,
             Cancel(k) \/ \E c \in Books, to \in {"m4b", "mp3"} : GetBook(k, c, to)
      PROVE  Exact(b)'
  BY <1>1, <1>4, GetBookExact DEF Cancel
<1>5. ASSUME NEW r \in Movers, MoveStep(r) \/ \E c \in Books : Plan(r, c)
      PROVE  Exact(b)'
  BY <1>1, <1>5, PlanExact, StatExact, MoveFileExact, MoveDirExact, NoteMoveExact DEF MoveStep
<1>6. ASSUME NEW e \in Erasers, EraseStep(e) \/ \E c \in Books : ReadErase(e, c)
      PROVE  Exact(b)'
  BY <1>6, EraseNot
<1>7. ASSUME NEW t \in Taggers, TagStep(t) \/ \E c \in Books : ListBooks(t, c)
      PROVE  Exact(b)'
  <2>1. ~TagStep(t)
    BY DEF Exact, TagStep, StartTemp, EmbedMetadata, Replace, RemoveTemp
  <2> QED BY <1>1, <1>7, <2>1 DEF ListBooks
<1>8. ASSUME NEW s \in Refreshers, SaveMetadata(s) \/ \E c \in Books : ReadResync(s, c)
      PROVE  Exact(b)'
  BY <1>1, <1>8, ResyncExact
<1>9. ASSUME NEW q \in Scanners, Walk(q) \/ Reconcile(q)
      PROVE  Exact(b)'
  BY <1>1, <1>9, WalkExact, ReconcileExact
<1>10. ASSUME Crash \/ \E c \in Books : Retitle(c)
       PROVE  Exact(b)'
  BY <1>1, <1>10, NothingExact DEF Crash, Retitle
<1> QED BY <1>2, <1>3, <1>4, <1>5, <1>6, <1>7, <1>8, <1>9, <1>10 DEF Next

(* At the start the files of the book are all there is.                    *)
LEMMA InitExact ==
    ASSUME Init, NEW b \in Books
    PROVE  Exact(b)
<1>1. PICK n \in Names, kind \in Shelved :
         /\ dirs = {n}
         /\ disk = [m \in Names |-> IF m = n THEN Lay(n, kind) ELSE Bare]
         /\ row = [c \in Books |-> At(n, IF kind = "mp3" THEN Folder ELSE M4b(c, n))]
  BY DEF Init
<1>2. PICK p : p = row[b].path
  OBVIOUS
<1>3. p = [dir |-> n, file |-> IF kind = "mp3" THEN Folder ELSE M4b(b, n)]
  BY <1>1, <1>2 DEF At
<1>4. Parts(p) = (IF kind = "mp3" THEN ChapterFiles ELSE {M4b(b, n)}) /\ p.dir = n
  BY <1>3, FileKinds DEF Parts
<1>5. (CHOOSE c \in Books : TRUE) = b
  BY OneBook
<1>6. \A f \in FileNames : Lay(n, kind)[f] = IF f \in Parts(p) THEN b ELSE "none"
  BY <1>4, <1>5 DEF Lay
<1>7. \A m \in Names, f \in FileNames :
         disk[m][f] = IF m = n /\ f \in Parts(p) THEN b ELSE "none"
  BY <1>1, <1>6 DEF Bare
<1>8. \A v \in Actors : pc[v] = "idle" /\ loc[v] = Idle
  BY DEF Init
<1>9. /\ \A k \in Converters : ~loc[k].cancelled
      /\ \A q \in Scanners : pc[q] # "match"
      /\ \A t \in Taggers : pc[t] = "idle"
      /\ ~Moving(b)
  BY <1>8, KindOf DEF Idle, Moving, Carries
<1>10. \A t \in Taggers, m \in Names : disk[m][Temp(t)] = "none"
  <2>1. \A t \in Taggers : Temp(t) \in FileNames /\ Temp(t) \notin Parts(p)
    BY <1>4, FileKinds
  <2> QED BY <1>7, <2>1
<1>11. Whole(p, b)
  <2>1. p \in Paths /\ \A f \in Parts(p) : f \in FileNames
    BY <1>3, <1>4, FileKinds DEF Paths
  <2> QED BY <1>4, <1>7, <2>1, InitTyped, WholeIs DEF Typed
<1>12. \A m \in Names, f \in FileNames : disk[m][f] # "none" => Lies(m, f, p)
  BY <1>4, <1>7 DEF Lies
<1> QED BY <1>2, <1>9, <1>10, <1>11, <1>12 DEF Exact

(* Where all that there is is the whole book at one path, it has one form. *)
LEMMA OneThere ==
    ASSUME Typed, NEW b \in Books, NEW p \in Paths, p.file \in M4bFiles(b) \cup {Folder},
           Whole(p, b), \A n \in Names, f \in FileNames : disk[n][f] # "none" => Lies(n, f, p)
    PROVE  Cardinality(M4bs(b)) + Cardinality(Splits(b)) = 1
<1>1. p.dir \in Names /\ p.dir \in dirs /\ \A f \in Parts(p) : disk[p.dir][f] = b
  BY WholeIs DEF Typed
<1>2. b # "none" /\ dirs \subseteq Names
  BY OneBook DEF Typed, DiskTyped
<1>3. \A n \in Names, f \in FileNames : Holds(n, f) = disk[n][f]
  BY HoldsIs DEF Typed
<1>4. CASE p.file = Folder
  <2>1. Parts(p) = ChapterFiles
    BY <1>4 DEF Parts
  <2>2. M4bs(b) = {}
    BY <1>2, <1>3, <2>1, FileKinds DEF M4bs, Lies
  <2>3. Splits(b) = {p.dir}
    <3>1. PICK f \in ChapterFiles : TRUE
      BY FormsApart
    <3>2. \A n \in Splits(b) : n = p.dir
      BY <1>2, <1>3, <3>1, FormsApart DEF Splits, Lies
    <3>3. p.dir \in Splits(b)
      BY <1>1, <1>3, <2>1, FormsApart DEF Splits
    <3> QED BY <3>2, <3>3
  <2>4. Cardinality(M4bs(b)) = 0
    BY <2>2, FS_EmptySet
  <2>5. Cardinality(Splits(b)) = 1
    BY <2>3, FS_Singleton
  <2> QED BY <2>4, <2>5
<1>5. CASE p.file \in M4bFiles(b)
  <2>1. Parts(p) = {p.file} /\ p.file \in FileNames
    BY <1>5, FormsApart
  <2>2. M4bs(b) = {<<p.dir, p.file>>}
    <3>1. \A x \in M4bs(b) : x[1] \in Names /\ x[2] \in FileNames /\ disk[x[1]][x[2]] = b
      BY <1>3, FileKinds DEF M4bs
    <3>2. \A x \in M4bs(b) : x = <<p.dir, p.file>>
      <4> TAKE x \in M4bs(b)
      <4>1. x[1] = p.dir /\ x[2] = p.file
        BY <1>2, <2>1, <3>1 DEF Lies
      <4> QED BY <4>1 DEF M4bs
    <3>3. <<p.dir, p.file>> \in M4bs(b)
      <4>1. Holds(p.dir, p.file) = b
        BY <1>1, <1>3, <2>1
      <4> QED BY <1>1, <1>5, <4>1 DEF M4bs, M4bFiles
    <3> QED BY <3>2, <3>3
  <2>3. Splits(b) = {}
    <3>1. PICK f \in ChapterFiles : TRUE
      BY FormsApart
    <3>2. \A n \in Splits(b) : n \in Names /\ disk[n][f] = b /\ f \in FileNames
      BY <1>2, <1>3, <3>1, FormsApart DEF Splits
    <3>3. f # p.file
      BY <1>5, <3>1, FormsApart
    <3> QED BY <1>2, <2>1, <3>2, <3>3 DEF Lies
  <2>4. Cardinality(M4bs(b)) = 1
    BY <2>2, FS_Singleton
  <2>5. Cardinality(Splits(b)) = 0
    BY <2>3, FS_EmptySet
  <2> QED BY <2>4, <2>5
<1> QED BY <1>4, <1>5

(* What each relies on, and that all is accounted for, say what the row    *)
(* and the disk agree on.                                                  *)
LEMMA TellsOneForm == IInv => OneForm
<1> SUFFICES ASSUME IInv PROVE OneForm
  OBVIOUS
<1>1. Typed
  BY TypedIs DEF IInv
<1>2. \A b \in Apart : b \in Books /\ Fine(b) /\ (Smooth => Exact(b))
  BY DEF IInv, Apart
<1>3. KeptApart
  BY <1>2 DEF KeptApart, Fine
<1>4. RowTellsForm
  BY <1>2 DEF RowTellsForm, Fine, RowRight
<1>5. ASSUME NEW b \in Apart, ~AtWork(b), Smooth
      PROVE  Cardinality(M4bs(b)) + Cardinality(Splits(b)) = 1
  <2>1. b \in Books /\ Fine(b) /\ Exact(b)
    BY <1>2, <1>5
  <2>2. \A v \in Actors : loc[v].book # b
    BY <1>5 DEF AtWork
  <2>3. ~Moving(b) /\ \A v \in Actors, n \in Names, f \in FileNames :
                         ~Accounts(v, pc[v], loc[v], b, n, f)
    BY <2>2 DEF Moving, Carries, Accounts
  <2>4. PICK p \in Paths : p = row[b].path
    BY <1>1, <2>1 DEF Typed, RowTyped
  <2>5. p.file \in M4bFiles(b) \cup {Folder}
    BY <2>1, <2>4 DEF Fine, RowRight, NoPath
  <2>6. Whole(p, b) /\ \A n \in Names, f \in FileNames : disk[n][f] # "none" => Lies(n, f, p)
    BY <2>1, <2>3, <2>4 DEF Exact
  <2> QED BY <1>1, <2>1, <2>5, <2>6, OneThere
<1>6. OneCopy
  BY <1>5 DEF OneCopy, Smooth
<1> QED BY <1>3, <1>4, <1>6 DEF OneForm

(* For a book on which each has worked for itself, from what it rightly    *)
(* took for the whole: it is never lost, a complete row says where it is   *)
(* and in which form, and when all has gone well there is one copy of it.  *)
THEOREM BooksInOneForm == Spec => []OneForm
<1>1. Init => IInv
  <2> SUFFICES ASSUME Init PROVE IInv
    OBVIOUS
  <2>1. \A b \in Apart : b \in Books
    BY DEF Apart
  <2> QED BY <2>1, InitTyped, InitFine, InitExact, TypedIs DEF IInv
<1>2. IInv /\ [Next]_vars => IInv'
  <2> SUFFICES ASSUME IInv, [Next]_vars PROVE IInv'
    OBVIOUS
  <2>1. Typed
    BY TypedIs DEF IInv
  <2>2. Typed'
    BY <2>1, TypedStep
  <2>3. ASSUME NEW b \in Apart'
        PROVE  Fine(b)' /\ (Smooth' => Exact(b)')
    <3>1. b \in Apart /\ b \in Books /\ (Smooth' => Smooth)
      BY <2>1, <2>3, ApartBefore
    <3>2. Fine(b) /\ (Smooth => Exact(b))
      BY <3>1 DEF IInv
    <3>3. Fine(b)'
      BY <2>1, <2>2, <2>3, <3>2, FineStep
    <3> QED BY <2>1, <2>2, <2>3, <3>1, <3>2, <3>3, ExactStep
  <2> QED BY <2>2, <2>3, TypedIsNext DEF IInv
<1>3. IInv => OneForm
  BY TellsOneForm
<1> QED BY <1>1, <1>2, <1>3, PTL DEF Spec
=============================================================================
