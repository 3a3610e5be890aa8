---------------------------- MODULE MediaServer ----------------------------
(***************************************************************************)
(* What the media-server backends share: the servers, the rows that record *)
(* what was delivered to each, the workers that call a backend, and what a *)
(* call and a record of its outcome are.  Plex, Emby, Jellyfin and         *)
(* Audiobookshelf hold the calls of each backend, Delivery the fan-out of  *)
(* a book, the sweep of a sync, and the two together.                      *)
(*                                                                         *)
(* Source: internal/mediaserver/, internal/library/destinations.go and the *)
(* book_library_destinations statements of library_destinations_sqlite.go. *)
(*                                                                         *)
(* A server's catalogue is reduced to the items it has indexed, each named *)
(* by the book it is an item of, and the collections that carry the title  *)
(* of the one series modelled.                                             *)
(***************************************************************************)
EXTENDS Integers, FiniteSets, Sequences

CONSTANTS
    Books,
    InSeries,        \* books with a series: the same one
    Title,           \* each book's title, as normalizeTitle leaves it
    Within,          \* books whose longer title contains the book's title
    Dests,           \* destinations, numbered in the order they are listed
    Layouts,         \* what servers the enabled destinations may be
    Fans,            \* fan-outs, numbered in the order they start
    MaxConcurrency,  \* workers a fan-out or a sweep runs at once
    Budget,          \* bound: how often each fault may happen
    Sweep, NoBook, Folder

Kinds  == {"plex", "emby", "jellyfin", "abs", "off"}
Ops    == {"scan", "match", "group", "tag"}
Status == {"none", "ok", "failed", "deferred", "existing"}
States == {"pending", "synced", "failed"}
Faults == {"net", "time", "db", "cancel", "crash", "any"}
Visits == Fans \cup {Sweep}
NoItem == NoBook
Items  == Books \cup {NoItem, Folder}

ASSUME MediaServerAssumption ==
    /\ InSeries \subseteq Books /\ IsFiniteSet(Books)
    /\ DOMAIN Title = Books /\ Within \in [Books -> SUBSET Books]
    /\ Dests \subseteq Nat /\ IsFiniteSet(Dests)
    /\ Fans \subseteq Nat /\ IsFiniteSet(Fans) /\ Sweep \notin Fans
    /\ Layouts \subseteq [Dests -> Kinds]
    /\ MaxConcurrency \in Nat \ {0}
    /\ Budget \in [Faults -> Nat]
    /\ NoBook \notin Books /\ Folder \notin Books \cup {NoBook}

VARIABLES
    \* the servers
    kind,       \* what each destination is
    indexed,    \* items in its catalogue
    boxes,      \* its collections of the series, as sets of items
    tagged,     \* items whose metadata names the series: ABS
    \* the database
    complete,   \* books that are complete
    rows,       \* book_library_destinations
    \* the workers: one per visit and destination
    pc, loc,
    cancelled,  \* fan-outs whose context is cancelled
    \* history and bounds
    hurt,       \* destinations where a call of this sweep failed
    budget

serverVars == <<indexed, boxes, tagged>>
workerVars == <<pc, loc>>

NoRow == [state |-> "pending", tries |-> 0, item |-> NoItem, error |-> FALSE,
          ops |-> [o \in Ops |-> "none"]]

(* A worker's locals: the book it works on, the item matched, the          *)
(* collection found, the outcomes so far, the row it read, the listing,    *)
(* the items and books it has still to match, the books it has still to    *)
(* look at, and whether its deadline has passed.                           *)
Fresh == [book |-> NoBook, item |-> NoItem, box |-> 0,
          ops |-> [o \in Ops |-> "none"], row |-> NoRow,
          list |-> {}, pairs |-> {}, todo |-> {}, ids |-> [b \in Books |-> NoItem],
          cut |-> FALSE]

-----------------------------------------------------------------------------
(* Workers *)

Spend(k) ==
    /\ budget[k] > 0 /\ budget["any"] > 0
    /\ budget' = [budget EXCEPT ![k] = @ - 1, !["any"] = @ - 1]

(* The record m, with the fields that f has as f has them.                 *)
With(m, f) == [x \in DOMAIN m |-> IF x \in DOMAIN f THEN f[x] ELSE m[x]]

At(v, d, l, k) == pc[v][d] = l /\ kind[d] = k
Goto(v, d, l)  == pc' = [pc EXCEPT ![v][d] = l]
Set(v, d, f)   == loc' = [loc EXCEPT ![v][d] = With(@, f)]
Stop(v, d, l)  == Goto(v, d, l) /\ loc' = [loc EXCEPT ![v][d] = Fresh]
Me(v, d)       == loc[v][d]

(* The outcomes f of a call, alone or with the item i that it found.       *)
Say(v, d, f)      == Set(v, d, [ops |-> With(Me(v, d).ops, f)])
SayOf(v, d, i, f) == Set(v, d, [ops |-> With(Me(v, d).ops, f), item |-> i])

(* The items and books of a listing come in some fixed order.              *)
FirstOf(S) == CHOOSE b \in S : TRUE

(* A call that succeeds, and one that does not: every call fails once the  *)
(* worker's deadline has passed or its fan-out is cancelled.  Both are     *)
(* read by hurt, a history of the sweep's own failures.                    *)
Ok(v, d) == ~Me(v, d).cut /\ UNCHANGED <<hurt, budget>>
Err(v, d, k) ==
    /\ IF Me(v, d).cut THEN UNCHANGED budget ELSE Spend(k)
    /\ hurt' = IF v = Sweep THEN hurt \cup {d} ELSE hurt

(* The books with the title of b: b and its other editions.                *)
Named(b) == {c \in Books : Title[c] = Title[b]}

(* findAlbum, findItemByTitle, findAudioBookByTitle: the first item listed *)
(* with the title, or else the first whose title contains it.              *)
TitleMatches(d, b) ==
    LET named == Named(b) \cap indexed[d]
    IN  IF named # {} THEN named ELSE Within[b] \cap indexed[d]

(* The complete books grouped by title: each listed item against every     *)
(* book that has its title.                                                *)
ByTitle(items) == {p \in items \X complete : Title[p[1]] = Title[p[2]]}

(* A request whose answer is lost may have been carried out; none is sent  *)
(* after the deadline.                                                     *)
Perhaps(v, d) == IF Me(v, d).cut THEN {FALSE} ELSE BOOLEAN
NewBox(d, items) == boxes' = [boxes EXCEPT ![d] = Append(@, items)]
PutInBox(d, n, i) == boxes' = [boxes EXCEPT ![d][n] = @ \cup {i}]

(* After scan_trigger: a book with no series asks nothing more, except of  *)
(* ABS.                                                                    *)
AfterScan(v, d) ==
    IF Me(v, d).book \in InSeries \/ kind[d] = "abs" THEN "match" ELSE "read"

-----------------------------------------------------------------------------
(* Outcomes and rows *)

(* summarizeOutcomesState                                                  *)
Summary(ops) == IF \E o \in Ops : ops[o] = "failed" THEN "failed" ELSE "synced"

(* recordOutcomes, on the row that was read: the state, the attempt, the   *)
(* outcomes; last_error and server_item_id only when there is a new one.   *)
Recorded(row, ops, item) ==
    [state |-> Summary(ops),
     tries |-> row.tries + 1,
     item  |-> IF item = NoItem THEN row.item ELSE item,
     error |-> Summary(ops) = "failed",
     ops   |-> ops]

(* upsertBookDestinationItem, on the row that was read                     *)
MutKeepItem(row, item) ==
    [row EXCEPT !.item = IF @ = NoItem THEN item ELSE @,
                !.state = IF @ = "pending" THEN "synced" ELSE @]
WithItem(row, item) ==
    [row EXCEPT !.item = item,
                !.state = IF @ = "pending" THEN "synced" ELSE @]

(* loadBookDestinationItemIDs                                              *)
ItemIDs(d) == [b \in Books |-> rows[b][d].item]
=============================================================================
