# A verification of audplexus in TLA+

Audplexus downloads a user's Audible library, decrypts each book, files it in a
media library and tells media servers about it.  This directory models what is
hard to get right in it: work that goroutines, web handlers, timers, foreign
servers, restarts and crashes share through one database, one disk and a few
values in memory.  TLC checks the models on small instances; TLAPS proves, for
every instance, the safety results of all of them.

    tlc -workers 2 -config pipeline_safety.cfg MCPipeline     (any run: see Runs)
    tlapm PipelineProofs.tla      (and each other module of proofs: see Proofs)

## The system

| Part (source) | State | Operations | What makes it correct |
|---|---|---|---|
| Download queue (`internal/database`) | `download_queue` rows, `books` with status and file path | enqueue, claim, update, cancel, retry | a row is claimed once; finished rows stay finished; a row keeps its kind |
| Pipeline (`internal/library/download.go`, `pipeline_stages.go`) | three worker pools, two channels of 100 items, the pause flag, the registry of cancellable stages, the pool's context | claim, download, decrypt, move, record, complete or fail; pause, resume, cancel, stop, start, reconcile | no job is lost or worked on twice; complete means the book is in the library; a stop ends; a cancel reaches the stage it names |
| Live view (`download.go`, `web/server.go`, `base.html`) | three maps of cards, a channel of 32 events per page | emit, subscribe, snapshot | the cards tell where a book is; a page that lost events catches up |
| File scan (`internal/library/library_reconcile.go`) | the files seen, the books listed | walk, match, write back | a book is complete exactly if its file is there |
| Sync (`internal/library/sync.go`, `internal/scheduler`) | `progress`, `sync_history`, what each account listed | fetch and merge accounts, write, prune, scan, queue new books | one run at a time; the catalogue becomes what the accounts list; local state survives |
| Accounts (`internal/library/accounts.go`, `web/accounts_handlers.go`) | `audible_accounts`, loaded clients, pending sign-ins | add, remove, sign in, change region, reload | credentials are filed under the account that signed in; books use their account's client |
| Delivery (`internal/library/destinations.go`, `internal/mediaserver`) | `book_library_destinations`, foreign servers | fan out, scan, reconcile, record | every destination gets an outcome, and the outcome is true |
| HearthShelf (`internal/hearthshelf`) | destination rows, connections with rotating tokens, the app's registration | connect, renew, edit | a renewal never loses the last valid token; a connected server stays usable |
| Files (`internal/library/convert.go`, `metadata_repair.go`, `internal/organizer`) | the files of organized books | convert, move, delete, retag, refresh; a scan meets it all | a book is never lost; the row says where it is |
| Install (`web/server.go`, `setup_handlers.go`, `auth_handlers.go`, `cmd/server/main.go`) | the database file and its safety copies, settings and what goes by them in memory | save, finish setup, change access, reset, restore, start | no database is lost; the pipeline comes back; memory and database agree; somebody can sign in |
| Sessions, throttle, audio tools, metadata lookups, pages, logging, crypto | | | request by request, or pure |

How they meet.  Handlers, scheduler and sync write the two tables that the
workers poll; workers hand items to each other through channels and write with
contexts that a stop or a user cancels under them; fan-outs run on after their
download is complete, beside the reconcile of a sync, on the same rows; a
conversion, a rename and a repair of tags work on the same files with a lock that only
conversions take; a reset or a restore stops the pool and replaces the database
under everybody.  The process can die at any point, and `Start` repairs what is left.

What is hard, then, is almost always the same: a row, a file or a value is read,
something slow happens, and it is written back whole.  PROJECT.json lists the
places under "hazards", with the properties that are about each.

## Modules

Each module is one component; an action is a stretch of one goroutine between two
points where another can see or change what it uses.  Actors that have no program
counter in the code (a request, a push, a fan-out) have one here.  Failures,
crashes and users' requests are bounded by a record `Budget`, an entry per kind
of event, and where it has an entry `any` that many in all.  Each MC module
gives TLC the values.

**Pipeline** is the core: queue tables, disk, workers, channels, cancel registry,
handlers and the life of the process in one state.

- *Database*: `rowSt`, `rowBook`, `nextRow` are `download_queue`; `bookSt` and
  `bookPath` are `books.status` and `books.file_path` ("stale" names no file).
- *Disk*: `enc` (`<asin>.aax[c]` and its json), `dec` (`<asin>.m4b`), `library`.
- *Process*: `pc` and `holding` give each worker's step and the `pipelineItem` in
  its hands; `decryptQ`, `processQ` are the channels; `slot`, `cancelTok`,
  `cancelled` are `activeCancels`, its tokens and the cancelled stage contexts;
  `phase` is the pool's context and the process; `fanning` the fan-out goroutines;
  `request` the step of a running `QueueBook`.
- *History*: `asReorg` (rows inserted as reorganize jobs), `budget`.

A database write with a context is a write only while the context lives
(`SetRow`, `SetBook`); its error is logged and the code goes on, and so does the
action.  `DownloadStep`, `DecryptStep` and `ProcessStep` follow the three stage
handlers; `EndStep` is what they share; `UserStep` is the web handlers;
`ProcessLife` is stop, crash, start and factory reset, with `reconcileStatuses`,
`reconcileLibraryFiles` and `cleanupOrphanedFiles` inside `Start` as in the code.

**JobQueue** is what the pipeline promises the rest of the system: tickets that
one owner at a time holds and settles, and that outlive their owners.
`JobQueueSpec` in Pipeline maps rows to tickets and holders to owners.

**LibraryScan** composes Pipeline with the scan that a sync or
`QueueNewBooksLimit` runs beside the workers, in three phases as in the code:
`Walk` passes the place of each file, `ScanList` reads all books at once,
`ReconcileBook` writes them back from what was seen and listed.  A remembered path
becomes stale when the pipeline moves the file (`PipelineBesideScan`).  `touched`
is history: the books the pipeline changed meanwhile.

**LibrarySync** has the accounts' shelves, the clients loaded for them, and the
runners: the scheduler's and users' syncs, quick or full, and single phases.
`Start` takes the flag; `CreateRecord`, fetching one account after the other with
failures and short listings, barring, `ReadBook` and `WriteBook` (the two halves
of the lost update with the pipeline, which is a job that is queued, delivered or
failed), routing, ownership, the prune's list and its deletions, the file scan,
the repair and the two calls of the media servers follow in the code's order, with
the status of each phase and of the history row.  `clean` is history: the books a
run's accounts listed from its start, while nothing failed.  `unrecorded` has the single
phases that could not write a history row and so close none.

**MediaServer** has what the backends share: servers, rows, workers, calls and
outcomes.  **Plex**, **Emby**, **Jellyfin** and **Audiobookshelf** are the calls of
each: looking for the item and waiting for it, finding or making the collection,
adding, verifying or setting metadata, and for Plex and Emby the reconcile.
**Delivery** composes them: `OnBookOrganized` with its semaphore, deadlines and
cancellation, recording in two steps (read and write of the row), and the sweep in
which a sync asks for scans and reconciles.  The servers are external: they index
new files at some time, and answer or not.

**HearthShelf** has destination rows, the connections (one settings value, copied
and written whole), the registration, and three kinds of actors: pushes that renew
what is due before they use the rows, requests that edit a row, and connect flows.
A refresh token is the newest of its server, the one before (good in a grace
window), or dead; a rotation ages every copy.  `apps` counts the registrations that
HearthShelf has given this install, so that each is a new one.

**Files** has folders and what each file of them holds (nothing, a part, or the
whole of one book), rows, the conversion lock, and the actors of the table above.
A move across devices is a copy that others can meet half done.  Its scan is a walk
and a match, with the order in which `findBestFileForBook` tries stored paths, ASINs
and titles; LibraryScan has the same scan as it interleaves with the pipeline.
A conversion goes by the row it read before it had the lock (`convert.go:35`, 48).
History is `misread`, the books of which somebody took a part for the whole (a scan, a repair
of tags, or a conversion that went by a row another had changed); `shaken`, those that two
worked on at once, or that a conversion worked on by such a row; and `asked`, those whose
files a request was to delete.

**Accounts** and **Install** treat a request as a list of steps, one per access of
the database, the disk or the memory; two requests interleave at every step and
any step may fail.  Accounts has sign-ins, which pass through the user's browser:
a link stands for its verifier and serial, and a callback may come with any of
them.  Install has the database file as a value that is moved, uploaded, emptied,
and read at a start; `live` is what scheduler, pipeline and wizard go by.

**PipelineFeed** has the maps of cards, the events in flight, one page and its
channel.  `emit` is two steps (maps, then channel) and a snapshot two (rows, then
maps), because others emit between them; an item is sent before its waiting event
is emitted, and a row complete before its last one.  `skewed` is history: the books
whose last event did not come from whoever has the book.

**PipelineProofs** (with LibraryScan), **PipelineFeedProofs**, **LibrarySyncProofs**,
**DeliveryProofs**, **HearthShelfProofs**, **AccountsProofs**, **InstallProofs** and
**FilesProofs** are the proofs.

### What the models leave open or out

*Pipeline*: which claimable row has priority; progress, titles, error texts;
whether ffmpeg, the network and moves succeed (always a choice); the early
returns of `Start` when a query fails and database failures other than a dead context.
`handleCancelByASIN` is one step.  A reorganize job whose files another has moved
fails (a behaviour of `MoveFails`).  After a factory reset the next sync
lists the same books.  Pipeline has the scan of `Start`, before there are
workers, in one step.  `QueueBook` passes over directories when it looks for a
book's file, so `FileFound` lets it miss a chapter-split book that is there.  A
file matched to the wrong book by its title is not modelled.

*LibrarySync*: the pipeline is a job per book, the file scan one step, the
requests for details in batches one answer.  An empty listing is a listing: the test
that takes it for a broken session (`sync.go:1183`) looks at the row that the same
sync has just created, and never applies.

*Delivery*: one series; `Title` and `Within` say which titles are equal and which contain
which, after `normalizeTitle`; an item has the title of its book; server settings learnt
once (section ids, library paths) are there from the start. A reconcile writes each listed
item to the row of every complete book of its title, one row at a time and the items of a
title in any order, so that of books with equal titles all rows come to name one item, the
last one listed. The properties say so: of such a title one item is in the collection, the
others are never added. Which collection of the series an item is in they do not ask.
*HearthShelf*: a new introduction invalidates earlier tokens and keys stay good until they
lapse, which are assumptions about the server; a key typed by the user is not modelled. A
read of the identity that fails is taken for no identity, as in `LoadIdentity`, at the start
of a flow and at each poll, and a read of the connections that fails for none. A server may
give no refresh token, or state no lifetime.

*Files*: there is one book (`FilesAssumption`), for templates put no two in one folder and
books share nothing else here; sidecars move and go with their m4b; a temporary file's name
is one that no file has (`os.CreateTemp`); template changes are a new target folder; what is
left of chapters always looks like chapters to a scan, and a scan reads and writes the rows
in one step. *Accounts*: ids are in creation order; the marketplace of a client and the
sealing of blobs are left out. *Install*: a start is one step, two starts are at least a
second apart, -wal and -shm go with their file, of a schedule only whether there is one; who
may call which handler, password checks and sessions are left out. Of single sign-on there
is whether it is enabled, whether its client is configured, and that the provider answers or
does not; that a sealed secret cannot be opened on another machine, and the cookie that a
callback must bring, are left out. *PipelineFeed*: any waiting row may be claimed, a book
has one live row, a cancelled context is a bounded choice; pause events, the banner and a
card frozen as "Cancelling" are left out.

## Runs

| Run | Instance | Properties |
|---|---|---|
| pipeline_safety | 1 book, 2 rows, 2+1+1 workers, channels of 1, a pause, a cancel and a crash, any user | TypeOK, SingleOwner, StageCancellable, KindKept, IInv, TerminalFinal |
| pipeline_progress | the same without cancels, users who leave busy books alone | NothingStranded, CompleteMeansOnDisk, JobsSettle, JobQueueSpec (the refinement) |
| pipeline_stop | 1 book, 2 rows, 1+1+1 workers, a stop, no pause and no crash, any user | JobQueueSpec, StopAndWaitEnds |
| library_scan | 1 book, 1 row, 1+1+1 workers, a crash and a stop, any user, any number of scans | ScanHeals, ScanInv |
| library_sync | 2 accounts that share a book, 2 books of which one is not downloadable, the timer and one user, one event of any kind | SyncTypeOK, OneSync, SparesListed, CatalogueConverges |
| delivery | 3 books of one series, two of them with one title that contains the third's; each backend alone and two at once; a fan-out beside a sweep, one fault | DeliveryTypeOK, TruthfulRow, ReconcilePopulates, FanOutsEnd |
| hearthshelf | 1 server, 2 rows, 2 pushes, an editor and a connect flow, one event | HearthShelfTypeOK, NewestTokenKept, ConnectsWhole, RenewalsSettle |
| files | 1 book, 2 folders, 2 chapters, 2 conversions, one of each other actor and a scan, 4 events | FilesTypeOK, NoAudioLost, OneForm, ConvertsEnd |
| accounts | 2 requests at once, 3 accounts, 2 links, 2 regions, 4 events | AccountsTypeOK, SignInPaired, RightClient |
| install | 2 requests at once, 3 forms, 3 uploads and one that is no database, a database of an earlier version or none, 3 events | InstallTypeOK, DatabaseKept, SettledWell, SomeoneCanSignIn |
| pipeline_feed | 1 book twice through 2+1+1 workers and a conversion, channels of 1, one page, 2 events | FeedTypeOK, CardsTell, PageCatchesUp |
| convert_loses_book | 1 book, two conversions, a crash and a scan | a violation: Recoverable |

*What they show.* The three pipeline runs: no row has two owners, a cancel reaches the stage
it names, rows keep their kind, finished rows stay finished, jobs settle, complete means
delivered, a stop that waits ends, and all this looks from outside like the queue of
JobQueue. library_scan: a scan at any moment does no lasting harm. library_sync: one sync at
a time and none left open; a book on a shelf is not deleted but by a sync in which something
failed, and whatever failed, later syncs bring the catalogue back to the shelves. delivery:
a row that says delivered is true of the server, failures are not shown as success, the
reconcile repairs what fan-outs left, and everything ends though a server never answers.
hearthshelf: tokens and keys survive rotation, edits and faults, and a server that cut us
off is left alone, unless writers with older copies overlap for ever. files: while the
database answers, no conversion, rename, repair, scan, failure or stop loses a book unless a
part of it is taken for the whole or a refresh puts back a stale row (NoAudioLost, within
four events), and as long as each works on the book for itself, the row and the disk agree
on the one form it is in (OneForm). Longer histories in which several work on it at once do
lose it: see the observations. accounts: see the table of parts. install: no database is
lost, a failed request leaves a program that runs by its database, and a password is asked
for only where there is a user or a single sign-on that makes one. pipeline_feed: the view
lags but does not lie, and a page that lost events catches up once things are quiet.

*Bounds.* `MaxRows`, `NumAccounts`, `NumLinks`, `RowIds` end what can be made; `Budget`
bounds events; queues and channels, of 100 and 32 in the code, have one place so that they
are full at once. Books interact only through the workers' time and the channels' space;
every other piece of a pipeline's state is per row or per ASIN, so the smallest interesting
case is two jobs of one book, which share files, record and cancel slot, against two workers
of the pool that claims. Two accounts and two books suffice for a merge in which an account
lists what the other does not. Rivalry over a row written whole needs two actors, and a
third finds nothing that two leave open: it would have to read between the same read and
write. The hearthshelf run has one server, and what it shows of two is limited: a push
writes the whole list, so that one that renews another server can put back an older copy of
the first's connection. The same module with `Servers`, `Linked` = {s1, s2}, `RowIds` = {1,
2}, two pushes, no editor, no connect flow and one revocation (`any` = 1) satisfies all four
properties as well (961 358 states, about three minutes); with editor and connect flow it is
too large. In delivery two equal titles and a containing one are the cases that
`TitleMatches` and the reconcile tell apart. One failure shows whether a step's failure is
handled; Install has two, for the rollback of a restore can fail as well. In library_scan
one job is enough: the book can be renamed, or removed and delivered again, during a scan;
`FilesNamed` is TRUE because the default file name holds the ASIN
(`internal/organizer/naming.go:18`). Conversions in files begin from both layouts.

*What the properties except.*  `CarefulUser` in pipeline_progress is an assumption
about users, not about the code: with a second job for a busy book one job removes
or renames files under the other.  Cancels are excluded there because of the first
observation below.  Elsewhere a history variable says what happened, and the
property which cases it is not about: `disturbed` (Accounts), `excused` (Install),
`shaken` and `misread` (Files), `skewed` (PipelineFeed), `overwrote` (HearthShelf), `hurt` and `stirred`
(Delivery), `touched` (LibraryScan).  Each exception is one of the observations.  OneForm
excepts what happened to a book that two worked on; NoAudioLost excepts only that a part was
taken for the whole, or that a refresh put back a stale row, but it speaks of four events
(`FewEvents`) where two worked on the book, for with more it is false.

`SomeoneCanSignIn` excepts a reset cut between users and settings or beside another request,
and single sign-on that is disabled while nobody is a user, which the code does not refuse
(`off`). `IdentityWhole` excepts a failed statement, `NewestTokenKept` also a server that
gave no token. `StopsAsking` is a disjunction: either older copies of the connections are
written again and again, or the pushes stop asking a server that has revoked the install.

*Fairness.*  Workers, running requests of `QueueBook`, fan-outs, `StopAndWait`, running syncs,
pushes and begun conversions are weakly fair: they are goroutines, and nothing in
the code blocks them but what the guards say.  Downloads end by themselves or by
the stall watchdog, calls of servers by their timeouts.  `Start` is weakly fair because
the container restarts (`compose.yaml:30`) and the handlers that stop the pool start it
again.  The cron tick of LibrarySync is strongly fair: a user does not hold the flag at
every tick.  In PipelineFeed the page's connection to the snapshot and the stream is
strongly fair, for the stream's loop serves both its ticker and its channel; its
workers need no fairness.  Credentials age (HearthShelf).  Users are never fair: nobody
has to resume a paused queue, begin a conversion or edit a row.  Accounts and Install
have no liveness properties and no fairness.

## Observations

What the models showed of the code while they were written; the exceptions above
name them.  The first is the run convert_loses_book.

- *Files*: a scan records an m4b that has other audio beside it as its folder
  (`library_reconcile.go:328`): after a stop among the removals of a conversion to m4b the scan
  of the next start makes the row a folder of chapters again, and the next conversion puts what
  is left of them over the only whole copy, against `convert.go:292`.  The same follows without a
  scan when the m4b's record failed, for that error is only logged (`organizer/plex.go:192`) and still
  costs the chapters.  A copy that the repair of tags is writing, or left at a stop, is other
  audio too.  A repair of tags beside two conversions can put back what
  it read (`metadata_repair.go:180`); a metadata refresh writes back a stale row
  (`server.go:4312`).
- *Files, with more than four events*: TLC finds more ways to lose the book.  A reorganize job that
  ends beside conversions records the layout it began with (`pipeline_stages.go:77`, `plex.go:529`): where that
  was, half of a copy may lie that failed since, and the next conversion puts it over the
  only whole form.  So may a conversion that read its row before it had the lock
  (`convert.go:35`, 48).  A scan that walked before a conversion's record puts the folder of chapters
  back into the row; with a stop while the chapters are dropped, the next conversion joins what is
  left of them over the m4b.
- *Pipeline*: a cancel while decryption waits for metadata or hands over leaves the row
  active and the files in place until the next start (`pipeline_stages.go:366`), against `download.go:255`.
  A paused worker does not look at its context, so `StopAndWait` waits
  for somebody to resume (`download.go:889`).  Two requests for one book give two stages of one ASIN
  at once (`download.go:1273`).  A download is complete before its destinations are told
  (`pipeline_stages.go:837`), against `docs/dev/destinations.md:91`.
- *Scan*: a book delivered between a scan's walk and its list is made new; the next undisturbed scan heals it.
- *Sync*: when one account's fetch fails, the prune deletes the books that only it lists
  (`sync.go:1283`, `1519`).  Books added by a sync whose file scan then fails are never
  auto-queued (`sync.go:650`).
- *Delivery*: a reconcile that read a row before a fan-out recorded a failure writes over it, against
  `destination_ids.go:41`.  Plex's match by a contained title takes another book's item
  when its own is not indexed yet (`plex.go:686`).  Of complete books with one title the reconcile lets every row
name the last item listed (`plex.go:216`, `emby.go:293`, `jellyfin.go:235`), and adds only that one to the collection.  A failed lookup makes a second Jellyfin collection (`jellyfin.go:553`).
- *HearthShelf*: of two pushes that renew one connection at once the later writes the used token back (`renew.go:92`),
  against `client.go:285`.
  A push that renews one server writes back the connection of another as it was when it loaded the list, and
  so can undo a recorded 401, again and again if such pushes go on overlapping (`renew.go:129`).  A failing read
  of the identity makes the flow register over a known one (`store.go:81`, `85`), and a stop between its two writes
  then leaves halves of two registrations, which later flows use.  A failing read of the connections makes
  a connect flow save a list without the others (`store.go:110`).  A connection without a refresh token is never renewed,
  and nothing says that the user must reconnect (`renew.go:80`).
  Two connect flows at once can store the id of one registration with the secret of the other
  (`store.go:101`), and the later save drops what the earlier connected; the proofs say `OneFlow`.
- *Accounts*: the account taken over from `credentials.json` comes back at the start after it was removed
  (`firstboot_accounts.go:29`).  Overlapping requests can lose an update of a row or leave a stale client.
- *Install*: an emptied schedule is given its default again at the next start (`main.go:405`), against
  `settings.html:243`.  Two restores in one run share a file name and can lose the original (`server.go:3810`).  A reset is
  no transaction (`sqlite.go:43`).  Disabling single sign-on, or clearing its client, is not refused while a
  password is asked for and nobody is a user (`oidc_handlers.go:339`).
- *Live view*: the next stage's event can come before the waiting event of the stage before (`pipeline_stages.go:282`);
  a stop drops queued items without an event, and their cards stay until the next one.

## Proofs

All theorems of the pipeline are about `Spec` for arbitrary constants that satisfy
`PipelineAssumption`: a finite set of books, three disjoint sets of workers
(of any size), any number of rows, any capacity above zero, any budgets.

`Invariant` proves `Spec => []IInv`.  `SingleOwner` is not inductive: that
nobody holds a row somebody else holds depends on claims taking only claimable
rows, hence on held rows not being claimable (`JobsInHand`), which recovery
keeps only because no worker outlives its pool (`PoolGone`), and the retries
because a held row is not failed before its worker has recorded the failure
(`HeldClaimed`).  `StageCancellable` needs that a worker entering a stage has
given its last token back (`TokensReturned`).  `KindKept` needs that rows not
yet inserted are blank (`RowsInOrder`).  The proof has one lemma for each part
of the invariant, and under it one step per action that can disturb it:

- types: `TypeInit`, `TypeWorkerStep`, `TypeUserStep`, `TypeProcessLife`;
- ownership: `ClaimOwnership`, `SendOwnership`, `ReceiveOwnership` (the only
  steps that move jobs), `JobsStay` and `JobGone` for all others;
- kinds, held rows, tokens, pools: `KindKeptStep`, `HeldClaimedStep`,
  `TokensStep`, `PoolGoneStep`.

`TypeCorrect`, `OneOwner`, `Cancellation` and `Kinds` follow; `Terminal` is an
action property proved from IInv: a worker only writes the row it holds, which
is claimed, and the handlers write rows that are pending or failed.

The last part of PipelineProofs goes on from it.  `Refinement` proves `Spec => JobQueueSpec`: each
step is one of a ticket's, or none; the part of IInv it turns on is `HeldClaimed`: whoever settles
a ticket still owns it, and no handler has settled it meanwhile.  `Careful` and `DeliveredOnDisk`
prove NothingStranded and CompleteMeansOnDisk under the conditions of the run
pipeline_progress, `CarefulUser` and no cancel, from `CarefulInv`: one live job per book
(`OneLiveRow`), so that its files and record have one hand on them.

Its end is about LibraryScan: `ScanInvariant`, `ScanSpec => []ScanInv`, under
`FilesNamedAssumption` besides.  The scan writes statuses and paths only, of which
IInv asks nothing but the type (`CatalogueFree`), so `ScanIsHarmless`.  `Healing`
(`ScanHeals`) needs `ScanKnows`: for a book the pipeline does not touch, what the
walk saw and the list read is what is there now.  Its one lemma about the
pipeline, `Untouched`, uses no action of Pipeline: a book outside `touched`
has moved no file and changed no record, whichever step was taken.

LibrarySyncProofs is about any number of accounts, books and runners, from SyncInv:
two runners are never in a sync at once (`Exclusive`), a runner is where its kind of run
goes (`KindFits`), a phase is shown as running and the newest history row is open only
while a run is in it (`PhaseHeld`, `RecordHeld`), what a run has still to look at was listed
to it (`EntriesListed`), and a book that every fetch was sure to list is still to be fetched,
still to be looked at, or kept (`CleanKept`).  `SyncAlone` is OneSync, `SyncTypeCorrect` the
types; `ListedSpared` is the action property SparesListed, for the doomed books of the
prune are never among those.

DeliveryProofs is about any number of servers of the four kinds, fan-outs and books, from
DeliveryInv: types, the bound on a fan-out's workers (`Semaphore`), the attempts a row counts
(`Counted`), collections that are there (`Boxed`), what a worker has found out at the place it is
at (`FansHold`, `SweepsHold`), rows that tell the truth whatever is written over them
(`RowsTrue`), and a row wherever a fan-out is done (`Reported`).  `DeliveryTypeCorrect` has types
and bound; `RowsTruthful` is TruthfulRow.  `Populates` (ReconcilePopulates) needs what a worker of the
reconcile has still to add, from the moment it read the rows: FillInv adds `ListsComplete` and `Fills`: as long
as a listed book is still to be matched its pair is there, and afterwards its row names an
item of its title that was listed.  Rows of books with one title tell the truth in that one
of the title's items is in the collection (`Grouped`).

HearthShelfProofs has three invariants.  HearthShelfInv, for any constants: what fits an
actor at its place, that a row belongs to one server and that a connection or a copy
names rows of its own server (`RowsNamed`, `ConnsNamed`, `CopiesTrue`), and that a copy
which is not stale names the stored rows (`Follows`), from which no row is orphaned
(`NothingOrphaned`).  The other two are about one connect flow at a time (`OneFlow`), beside
any number of pushes and requests: IdentityInv, that while no
statement has failed a flow registers only if no secret is stored (`ConnectingIsWhole`), and TokensInv, where the tokens are
while nothing failed.  NewestTokenKept is far from inductive.  A flow may
have a newer token than the stored one, and a push that saved then would lose
it; it does not, because new credentials end those before, so that no push has one the server takes
(`Spent`).  A save must not take the newest token back: a copy that is not stale has it
if the stored connection does (`UpToDate`).  And a push that drops its copy because the
row is gone must drop nothing else: what it has in hand for its own server is for
that row, and for other servers what is stored (`PushesTrue`).  `NewestKept` follows.
Each invariant has a frame (`Frame`, `TokenFrame`): what a step has to show of those who
move, if it leaves the others alone; one lemma per action cites it.

AccountsProofs is about any number of accounts, links and requests at once, from Inv.
What a request has still to do is a list; `Follows` says which step may come after which,
so that a request is known by its first step and its place (`Fits`), never by whole lists.
SignInPaired is not inductive: a request that has read a row, or whose code Amazon has
taken, writes credentials later that no row holds now.  `Paired` counts them: whoever has
the credentials of a link, in a row or about to be written, is the account the link was
made for, it is the only one, and a removed account has no row to write them to
(`SignInsPaired`).  Overlap, failures and restarts change none of this.  `RightClients`
is about histories without overlap or failure.  `Right` has what the one request reports
between two of its steps: until its list and swap the clients may differ from the rows, after
them they do not, and the same for s.audible until it is pointed again; a row that was
read has not changed when it is written back; and an account is made unasked only while
there is none.

PipelineFeedProofs is about any number of books, workers and conversions and channels of any
size.  `FeedTyped` is the types.  `FeedTells` (CardsTell) needs `Items`, that a book is in one
place of the pipeline at most (one queue or one worker's hands) and only while its row is
claimed: a sender that says late that its item waits is right only if no other item of the
book has gone ahead of it.  `Cards` is CardsTell for one book with what it exempts: while a
sender has still to speak the maps may lag, but they never show a queue that the book is not in.
An event is `Becomes` (what the emitter has afterwards) and `Tells` (what it does to the
maps); a step is proved from the two, for the book it is about and for all others.

InstallProofs is about any number of requests at once, any forms, uploads and earlier
databases.  As in Accounts a request is known by its first step (`Follows`, `Fits`).  None of
its results is inductive.  `Kept` (DatabaseKept) needs that a restore has
closed the database before it moves it, that a validated upload is still there when the old
database is put aside, that whoever finds no database in its place has still to install
or to roll back and names the copy, and that the second's name for the next copy is free,
which holds because a start takes a second and a run has one restore.  `Secure`
(SomeoneCanSignIn) adds the safety copies and the upload, which may come back, and the
requests that have counted the users, or found single sign-on ready, and will ask for passwords (`Trusts`).  `Back` and `Follow`
(SettledWell) say who will start the pipeline or end the process, and which request
still owes a setting to the scheduler, the pipeline or the wizard (`OwesCron` and its like):
there is one at most, since two are excused.  Each part has a frame for the requests
that a step leaves alone, and each step a lemma.

FilesProofs is about any number of conversions, jobs, repairs, refreshes, scans and
deletions, any folders, chapters and events.  `FilesTyped` is the types and the lock.
OneForm is far from inductive.  `BooksInOneForm` proves it from IInv, which says of a book
that each worked on for itself (`Apart`) two things.  `Fine`: the book is on the disk in
one form (`Kept`); nobody else is at work on it (`Alone`); the row names files which, if
they are there, are the whole book (`RowRight`); and each actor relies, at each of its
steps, only on what is so (`Own`): a conversion goes by the row as it is and has so much
of the new form in place, and when it drops the old form the row names the new one
(`ConvertRight`); a rename keeps the row it read and knows under which name and in which
folder the book is now (`MoveRight`); a repair, which works beside all others, has the
whole book to write and never another name than an m4b's (`TagRight`); a scan has seen
only what is there (`ScanRight`).  `Exact`, while nothing failed, stopped, was cancelled
or repaired (`Smooth`): every file on the disk is accounted for by the row, or by the
conversion or rename under way, so that none is left over at the end (OneCopy).  There is
a lemma per action for each of types, `Fine` and `Exact`; most go through what a step does
to the disk: it heals (`Heals`: every change writes the whole book), or it touches only
what nobody relies on.

Only model-checked: the liveness properties (JobsSettle, StopAndWaitEnds,
CatalogueConverges, FanOutsEnd, RenewalsSettle, ConvertsEnd, PageCatchesUp: fairness
and ENABLED are beyond the prover), and NoAudioLost.  What it says of books on which each worked for
itself is the first part of OneForm and proved (KeptApart); what it says of the others is true
of four events and not of every number.

## Plan

1. Done: every module above, its run and the proofs named.
2. Done: the refinement of JobQueue, and the safety results of LibrarySync, Delivery,
   HearthShelf, Accounts, Install, PipelineFeed and Files.
3. Pure algorithms against reference definitions: the matching of files and books,
   the window of the login throttle.

## Not modelled, and why

Pages, diagnostics and forms that write one row are rendering over the database.
Sessions and the throttle decide request by request, under one lock; no steps of two actors meet in them.  ffmpeg, the lookups of metadata and
the Audible client have no state here: that they succeed or fail is a choice of
the actions that call them.  The Postgres repository repeats the SQLite one.
Logging, error texts, crypto and contributors are pure helpers; the diagnostic
proxy is a stateless worker deployed apart.
