# mangaSync: verification development

TLA+ models of mangaSync, TLC configurations that check them on small
instances, and theorems whose proofs TLAPS checks. Paths are relative to
the root of the repository.

1. [The system](#1-the-system)
2. [The modules](#2-the-modules)
3. [What the runs check](#3-what-the-runs-check)
4. [What is proved](#4-what-is-proved)
5. [Divergences found](#5-divergences-found)
6. [What is left out, and the plan](#6-what-is-left-out-and-the-plan)

## 1. The system

mangaSync is one Go process with a SQLite database (a single connection, so
every statement and every transaction is one atomic step), a library of
directories on disk, two upstream services (`pica`, `jm`) and a web client. Its
concurrency is inside the process: HTTP handlers, one dispatch loop, one
goroutine per running download, one goroutine per synchronisation run, one
scheduler, one health run, the fetches of the reader. It may be stopped by a
signal or die at any moment and starts again from the database and the disk.

### Inventory

| Component | State | Operations | Must hold |
|---|---|---|---|
| Download queue (`internal/engine/engine.go`, `reliability.go`, `internal/store`) | table `jobs`; `Engine.running` (job → cancel); goroutines; `opMu`, `mu` | Enqueue, Cancel, Retry, DeleteJob, dispatch, runJob, ResetRunningJobs | one active job and one goroutine per comic; no running row without a goroutine; an ended job stays ended; a cancel gets through; a queued job starts |
| Recycle bin (`reliability.go`, `store/features.go`) | tables `trash`, `comics`; directories in the library and in `.mangasync-trash` | DeleteComic, RestoreTrash, InTrash | files never lost, in one place, always restorable, across failed writes and crashes |
| Favourites synchronisation (`engine/sync.go`, `engine.go`, `store/checkpoints.go`) | `syncJobs`, `syncSlots`; tables `sync_items`, `sync_runs` | StartAccountSyncMode, launchSync, syncAccount, boot resume, FinishSync | one run per account; the checkpoint loses no comic; success means done; the history is true; runs end |
| Daily scheduler (`main.go`) | `lastRun`, `schedule.state` | scheduler, SyncAll, SyncAccount | a day is marked only after success; attempts end |
| Library scan (`engine.go`) | table `comics` | ScanLibrary | a comic in the bin is not entered again |
| Health check (`engine/health.go`) | `health.run`, `checking` | StartHealth, CancelHealth, checkComic, RepairHealth | never beside a download or a deletion; a repair acts on what was checked |
| Favourites snapshot (`engine/favorites.go`, `store/snapshots.go`) | `favoriteLoads`; tables `favorite_state`, `favorite_items` | CachedFavorites, RefreshFavorites, InvalidateFavorites | one load per account; replaced only by a complete list; what a fresh one may be wrong about is known |
| Chapter commit and resume (`source/resume.go`, `pica.go`, `jm.go`) | chapter directories, `.resume`, `.previous`, receipts, `.repair` marks | preparePageManifest, seedChapterRepair, commitChapter | a complete copy of a chapter survives a crash anywhere |
| Reader page cache (`api/page_cache.go`, `api/cache.go`) | `pages`, `readerSlots`, files | fetchPage, atomicCache, trim | concurrent readers share a fetch; everyone is answered; slots come back |
| Source clients (`source/*.go`) | transfer pools, cached domains, lists and thresholds | Download, Favorites, ToggleFavorite, Pages, retries, descrambling | a toggle ends as asked; bounded retries; pools never leak; lists have what upstream answered, in order; images are put together exactly |
| Sessions (`api/auth.go`, `store/auth.go`) | tables `users`, `sessions`; login limiter | login, logout, password change | a password change ends the other sessions |
| Reading progress (`api/features.go`, `store/features.go`) | table `reading_progress`; a copy in every browser | SaveReading, resume | the newest position wins |
| Settings (`config/settings.go`, `engine.go` SourceFor) | one JSON file, a copy in memory, the clients of the sources | Load, Update, SourceFor | an accepted change stays; a client follows the settings |
| Events (`engine.go`, `api/api.go`) | subscriber channels | Subscribe, broadcast, Unsubscribe | a slow client blocks nobody |
| Vault and backup (`store/vault.go`, `backup.go`) | key file and ciphertexts; copies of both | initVault; Backup, RestoreBackup | one key opens every row; a backup can be read |
| HTTP API, static assets, front-end node, web client, deployment | none of their own that others rely on | | |

### How they interact

Handlers call the engine. `opMu` serialises Enqueue, Cancel, Retry, DeleteJob,
DeleteComic, RestoreTrash, ScanLibrary, RepairHealth, the reservation of a
comic by a health check and every tick of the dispatch loop. Downloads run
without it: a goroutine reads its context, writes files and updates its row
while all of the above goes on, and what keeps them apart is the status of the
row: a comic with a queued or running job is refused by the bin and by the
health check, a comic in the bin or under a check is refused by the queue.

A synchronisation run enqueues jobs through Enqueue; it is started by a user, by
the resume at start-up or by the scheduler, and all three go through launchSync,
which joins a run of the same account that is still active, whatever its mode.
The scheduler waits for the run it started or joined. `lifeCtx`, cancelled by
SIGTERM, is the parent of every job and of every run; main waits ten seconds for
HTTP handlers and runs, and not at all for downloads.

### What is hard

Steps of goroutines that no lock orders (the end of a job against a retry,
progress callbacks against the final status); three stores that a crash leaves
at odds (bin); work that is resumed from a checkpoint another run may have
replaced; results that are joined rather than computed; timeouts that race with
completion; a shutdown in the middle of all of it. `PROJECT.json` lists the
hazards at their lines with the properties that watch them.

## 2. The modules

| Module | What it is |
|---|---|
| `JobQueue` | the download queue, one action per handler under `opMu` and one per step of a goroutine |
| `JobBoard` | the abstract jobs table: the only ways a row may change |
| `JobQueueProofs` | theorems about `JobQueue` |
| `SyncRuns` | the runs of the favourites synchronisation, their checkpoint and their history |
| `DailySync` | the scheduler; it extends `SyncRuns` and adds its own steps to the steps of the runs |
| `SyncLedger` | the abstract checkpoint and history: who may write them, and what a write may do |
| `SyncProofs` | theorems about `SyncRuns` and `DailySync`, and that they implement `SyncLedger` |
| `Trash` | the recycle bin, its three stores and the handler that holds `opMu` |
| `TrashProofs` | theorems about `Trash` |
| `ChapterCommit` | the directories of one chapter through downloads, crashes, damage and repairs |
| `ChapterShelf` | what a reader may expect of a chapter: replaced at once or not at all, never by a worse copy |
| `ChapterProofs` | theorems about `ChapterCommit`, and that it implements `ChapterShelf` |
| `PageFlight` | the page fetches that readers share |
| `Favourites` | the list upstream, its snapshot in the store and the load all who want it share |
| `ToggleCall` | adding and removing a favourite with an upstream call that turns it on or off |
| `ImageFetch` | image fetches of the workers: attempts, hosts, budget, transfer slots |
| `PageList` | the list of the images of a chapter, read in parts, and its caches |
| `Descramble` | the strips of a page and the threshold they depend on, as functions and a cache |
| `Health` | the run of the library check and the repair on its report |
| `Vault` | the key file, the encrypted rows, backup and restore |
| `Settings` | the settings in file and memory and the clients made from them |
| `Reading` | the reading positions of several devices |
| `FetchProofs` | theorems about `PageFlight`, `ImageFetch` and `PageList` |
| `UpstreamProofs` | theorems about `ToggleCall`, `Favourites` and `Descramble` |
| `StoreProofs` | theorems about `Reading`, `Settings`, `Vault` and `Health` |
| `RecordsProofs` | theorems about the modules of the run `Records` side by side |
| `MCJobQueue`, `MCDailySync`, `MCTrash`, `MCChapterCommit` | instances for TLC: bounds on repeated events, symmetry |
| `MCAnswers`, `MCRecords` | instances for TLC of several modules at once (see section 3) |

A definition whose comment begins "Wrong variant of" is not part of the model:
it is what a plausible mistake in the code would make of the definition that
follows it, and some property fails when it takes that definition's place.

### JobQueue

`status` and `comic` are the rows of `jobs` (ids are handed out in order by
AUTOINCREMENT, which is what `created` counts); `running` is `Engine.running`
with the goroutine in place of its cancel function; `phase`, `jobOf`, `outcome`
and `canceled` are the goroutines of `runJob`; `checking` and `trash` are the
two stores that the queue consults; `diskLow` is `DownloadStatus() # ""`.

A handler under `opMu` is one action. The goroutine is split where it reads
its context (`FailStatus`, `Verify`), writes its row (`ReportProgress`,
`WriteStatus`) and touches the map (`Exit`). The gap between `WriteStatus` and
`Exit` is the code's: the row is final, and visible to Retry, before the deferred
`delete(e.running, job.ID)`. `Dispatch` claims in one step all jobs that one tick
takes, in id order (`ClaimSet`): the loop holds `opMu`, and the map only shrinks
meanwhile, which a later tick takes into account. A duplicate Enqueue returns the
id of the active job and is no step. `asked` is a history variable.

The statement of a restart that cancels duplicate active jobs
(`features.go:21`) is left out of `Restart`: the theorem `ActiveJobUnique` shows that
it finds none in a database this version has written.

### JobBoard

What the rows of the table do, with no process around: `Submit`, `Start`,
`Settle`, `Withdraw`, `Reopen`, `Forget`, `Recover`. `JobQueue` implements it with
the identity on `status` and `comic` (`Board == INSTANCE JobBoard`).

### SyncRuns and DailySync

`run` holds, per run, the goroutine (where it is, the comics it still has to do,
its verdict so far) and its `syncJob` (the progress a client polls); `current` is
`Engine.syncJobs`; `row` is `sync_runs`, `item` is `sync_items`. Upstream calls
answer or fail (`CallFails`); what `syncComic` decides about one comic matters to
the checkpoint only as handled or failed. A list of favourites may name a comic more
than once: JM drops repetitions, Pica does not (`pica.go:308`). `todo` is a set of entries
(`Entries`, a comic and the how manieth time it is named), the checkpoint has one row
for the comic (`checkpoints.go:23`), and the run checks and marks it once for each
entry. The history field `met` has the comics that a run has marked so far; what
`CheckpointOwned` and the ledger say of an item that is settled again rests on it.
Entries leave `todo` in any order, those of one comic in theirs: beyond that the order
of the list plays no part in the properties. `boot` and `owed` are
the goroutine of `Start` that resumes interrupted accounts.

`DailySync` adds the scheduler: an attempt takes the accounts one by one, joins or
launches, waits, and marks the day when nobody failed. The half-minute ticks and
the fifteen minutes after a failure are any delay; the day is a number. `listed` and
`succeeded` are history variables; `left` holds the bounds. When all `MaxRuns` rows are used
up, launching fails, as StartSync may.

### SyncLedger

The two tables `sync_items` and `sync_runs` with no goroutine, slot, context or map
around. A run takes the checkpoint of an account that nobody has (`Take`), replaces it
at once if it brings a list (`Relist`), settles one item at a time and only of the sorts it
took on, or that it has settled itself (`Settle`, `settled`), says how it went (`Conclude`, a
success only if nothing of these sorts is left) and leaves (`Release`), or the process is gone
(`Vanish`) and the next one closes the open rows (`Recover`). `SyncRuns` implements it with
`item` and `row` as they are, and as the holder of a checkpoint the run that `launchSync` has
registered, as long as its goroutine has not ended (`Holders`, `Duties`, `Mets`).

### Trash

`library`, `home`, `bin`, `status`/`comic` are the table of comics, the directories
in the library, the directories in the bin and the trash table; `active` abstracts
the queue to the comics that have an active job. `op` is the handler that holds
`opMu` with its stage; a stage ends at a write or a rename, each of which may fail,
and `Crash` may come between any two. A comic has one directory in the library.
That the health check excludes both is in `JobQueue`; it writes nothing here.

### ChapterCommit and ChapterShelf

`dir` holds the three directories of a chapter: the chapter (`dst`), its staging
directory (`stage`, `.resume`) and the copy that a commit moves away (`prev`,
`.previous`). A directory is a list of pages (`.pages.json`), the bytes of each page,
the sum in each receipt and the repair marks. Bytes are reduced to the list they
belong to, or to two sorts that do not decode (`Undecodable`): "damaged", which the
disk has made of good ones, and "broken", which came with a matching receipt. A page
has one file name. `at` is the next step of
`Download`; a step is one operation on the file system, so that `Crash` and
`StepFails` come between any two. `kind` is chosen at the start: `pica` stages and
swaps, `jm` works in place, and their helpers are the same. The image workers take
pages in any order and each goes through page, receipt and mark (`work`). A failed
request and a canceled context fail pages (`PageFails`, `FetchCanceled`).

`RemoveAll` of `.previous` either succeeds at once or stops with any part left
(`RemoveStops`). Between downloads pages decay (`Decay`), turn out to be bad under a
matching receipt (`StoredBroken`, external: bytes stored by an earlier version) and
are marked (`Repair`). `rotten` and `repair` are history variables: `rotten` has the pages
of which a copy became "broken" and no repair has marked it since, which
`GoodPagesKept` and `DoneIsWhole` except. Chapters without
`.pages.json` that hold pages (an earlier version's) are left out: the code takes
them for any list. A receipt that cannot be written makes `Check` say no; while a
page is seeded or fetched it is a failure of that step.

`ChapterShelf` knows one copy. `ChapterCommit` implements it for `pica` with
`dst`, or `prev` while `dst` is missing, as that copy. A `jm` chapter is rebuilt in
place and promises no such thing.

### PageFlight

`pages` is `Server.pages`; a `flight` is a `pageFlight` with its goroutine; a `reader`
is one call of `readerPage` that has missed the files on disk, from the lookup in
the map to the deferred function. Every section under `pageMu` is one action; the
select of `fetchPage` is two (`Receive`, `HangUp`), with the deferred function
(`Leave`) a step of its own. A flight that is closed and has no readers is
garbage, and its name is used again, so that the run has no bound on the number of
requests. What is on disk is left out: a miss may happen at any time, since
trimming removes any file, and a load that finds the file answers like one that
fetched it.

### Favourites

`upstream` is the list of an account as the service holds it, the newest first;
`load` is `favoriteLoads[id]` with its goroutine (`Begin`, `Login`, one `ListPage` per
request, `Save`, `Finish`); `snap` is `favorite_state` and `favorite_items`, the
times reduced to whether they still count; `caller` is a `RefreshFavorites` of a
synchronisation run that waits, `edit` the comics that a handler has changed upstream and
not yet answered. A handler ends in one of three ways: with `Invalidate`, with an
invalidation that fails (`InvalidateFails`, it answers ok all the same), or with an error
although upstream has changed the list (`EditFails`, `api.go:417`, `439`: the answer was
lost, or a second toggle failed), which skips the invalidation. Pica says how many pages
there are, JM stops at a page that is empty or completes the total, if that is told
(`PicaLast`, `JmLast`). While pages are read, the list changes, through this server (`Edit`) or
elsewhere (`ChangeElsewhere`).
`seen` is a history variable: `doubt` has the comics that the load in progress may miss or
have too many, because they were changed under it or stood behind one that was taken out
and moved up; `stale` has those in which the snapshot may be wrong without anybody
having told it.
Entries are numbers; titles and covers are left out.

### ToggleCall

One comic, several requests. `favourite` is the state upstream, `handler` a request
with the round (Pica may toggle a second time when the first answer shows the
opposite of what is wanted; JM too, and it also compares the second answer) and the attempt. Each
attempt ends in one of `Outcomes`, and for some of them (`MayBeDone`) upstream may have turned
the favourite although nobody learns of it. An answer with status 200 may also not tell what
was done (`AnsweredUnclear`): Pica drops the error of decoding it and says ok (`PicaUnclear`,
`pica.go:499`), JM fails or takes it for the opposite (`JmUnclear`). `PicaRetries` and
`JmRetries` are what each client repeats.

### ImageFetch

`fetch` is one image per worker: the disk guard, the loop of `fetchImageRetry` with
its pauses, the 403 that is tried once with other headers, the next host of JM, and
the budget of time (`over`). `taken` counts the tokens in `pool.slots`; a slot is
taken in `RoundTrip` and goes back with the error, or when the body is closed. The wait
for a slot ends with the budget, and also when the two minutes that the client gives one
request are over (`jm.go:51`, `pica.go:73`); then the loop goes on to the next attempt
with what is left of the budget (`SlotCanceled`). The
length of a pause is left out; that one may be longer than the rest of the budget
is `BudgetEnds`.

### PageList

`images` is what upstream has of a chapter, `unready` the images without an address
(Pica) or with a blank name (JM), and `lister` is a request for the list. Pica's first
part tells how many parts and images there are, or leaves the number of images out; the
other parts are read side by side under a limit, arrive in any order and may fail. A
part may come short in any way (`Docs`: any of its images, in their order). The parts
are joined by number, every image must have an address, and they are counted if there is
a number to count against (`Complete`, `PartsJoined`). `InOrder` says what sorting leads to:
the part in place k is the one with k numbers up to its own; parts have different
numbers, so no choice is left to the sort. JM gives its list at once; blank names are
dropped wherever they are, and the rest is numbered and counted without them
(`JmList`). Upstream adds images (`Grow`) and gives and takes addresses (`Readdress`) at
any time. Resolving the chapter by the details of the comic, which are cached too, is
`AskDetail` and `LookUp`. `shown` is a history field: the images that upstream has
answered this request with. A list is true when it has these, in their order; that it is
the whole chapter follows only when its length is the chapter's.

### Descramble

`SegNum` and `Descrambled` are the functions of the code, copy by copy on rows; a
page is the sequence of its rows. `Scrambled` is what upstream does (external). The
hash of a page is the character it ends with, any hexadecimal digit. Around them:
askers of the threshold of a chapter and the cache (`Learn`), which takes the default
when the answer cannot be read.

### Health

`file` is the history of the versions of a comic's files, each with its damaged
chapters: a fingerprint is the number of a version. `check` is the goroutine of the
run, with the reservation in `Engine.checking`, the first fingerprint, the chapters one
by one, the second fingerprint and the append to the report; `stop` is its context;
`repair` is `RepairHealth` between its checks and the job it creates, under `opMu` and
the lock of the report (`Held`). Downloads and changes by nobody knows whom go on.
The marks of a repair are in `ChapterCommit`.

### Vault

A row holds the number of the key it is encrypted with, or 0 for plain text; the key
file holds a key, nothing, or is missing. `CreateKey`, `WriteKey` and `Encrypt` (one
transaction) are three steps, and `StopServer` may come after any. `TouchKey` is an
operator who removes, replaces or puts back the file, also with an older key of the same
server. `Backup` and `RestoreBackup` are step by step, with a server that goes on beside the
former. A restore is given a key file of its own (`spare`), which it reads twice: to verify
the backup (`VerifyForRestore`, `backup.go:144`) and to copy it (`CopyKey`,
`backup.go:226`); the file may change in between (`TouchSpare`). Two history variables
name what an operator is answerable for: `strayed`, that the key in place was put there
and no row needs it, and `swapped`, that `spare` changed between its two readings.

### Settings

Two fields stand for all: a number that is clamped and a proxy that may be refused.
`Update` holds the lock of the manager from beginning to end, so only one is
under way; its file is written beside the old one and renamed. `taker` is a
`SourceFor` between reading the settings and storing the client, while
`InvalidateSources` may run.

### Reading

Every device stamps a position with its own clock (`Skew`), keeps it (`local`) and
sends it; what is on its way is a set from which anything may arrive, again or never.
`PutReading` is the handler with its check of the stamp and the upsert.

## 3. What the runs check

Bounds are in the `.cfg` files and in the `*Limits` of the `MC` modules: how often
a user retries, how often a write is lost, a call fails, a deadline passes, the
process is stopped or dies. One of each, or two where two interact, is enough for
the interleavings that matter, because every fault may come at every step.

| Run | Instance | Shows |
|---|---|---|
| `JobQueue_faults` | 2 comics, 2 jobs, 3 goroutines, limit 2; a retry, a crash, a lost status write | the files of a comic have one user at a time (`FilesExclusive`: downloads, bin and health check), no orphaned running row, a job is canceled only on request, and the rows change only as `JobBoard` allows |
| `JobQueue_live` | 2 comics, 2 jobs, 2 goroutines, limit 1; a shutdown | `JobsServed`: a queued job starts, and a canceled download ends even when the disk stays full |
| `DailySync_mark` | 1 account, 2 comics that a list names up to twice, 3 runs; two requests, or 2 days and 2 attempts; an error, a timeout, a lost write, a shutdown, a crash | the checkpoint belongs to the one run of its account; the history is true and success leaves nothing; a marked day is a day on which every account succeeded; the two tables change only as `SyncLedger` allows |
| `DailySync_attempt` | 2 accounts, 1 slot, 2 runs, 1 attempt | every run that waits ends; an attempt always returns |
| `Trash` | 2 comics, 3 trash rows; two failures, a crash | files reachable and in one place (`BinIntact`), restorable; library rows explained; restored means back |
| `ChapterCommit` | 2 lists, of 2 pages and of 1; a change of list, two bad pages, a failed call, a crash | a finished chapter is whole and of one list; good pages are kept for the retry; the swap is atomic; no leftover blocks the next download |
| `Answers` | `PageFlight`: 2 readers, 2 pages, 2 flights, 1 slot; `ImageFetch`: 2 workers, 1 slot, 2 attempts, 2 hosts; `Favourites`: 2 comics, pages of one; `Health`: 2 comics, 2 runs | readers share a fetch and do not cancel each other's; slots are taken exactly for open responses; every reader, fetch, caller of a load and health run comes to an end |
| `Records` | `Favourites`: 3 comics, pages of one; `ToggleCall`: 2 requests, 3 tries; `PageList`: 2 requests, 5 images in parts of 2, one without an address; `Descramble`: chapters on both sides of every threshold; `Health`: 2 comics of 2 chapters; `Vault`: 2 accounts, 2 keys; `Settings`: 2 changes, a crash; `Reading`: 2 devices | what the server keeps or tells is true; one line for each property below |
| `JobQueue_limit`, `JobQueue_shutdown`, `DailySync_listed`, `ChapterCommit_repair` | | the divergences of section 5 |

`Records` checks:

| Property | In words |
|---|---|
| `SnapshotWhole` | a snapshot is replaced only by a whole list, wrong at most about comics that changed while it was read page by page and those they moved; a failed load takes nothing away |
| `FreshMeansCurrent` | a snapshot that counts as fresh is wrong at most about comics in a handler's hands, changed elsewhere or behind an error, or that changes met in the load it comes from |
| `ToggleHonest` | requests that want the same and were answered with ok leave the favourite so, although attempts were repeated that were done already; with Pica unless an answer said nothing or was not looked at |
| `ListTruthful` | a list of images has what upstream answered with, no fewer, none twice, none without an address, in order, and as many as it said; a chapter is missing only if it was |
| `RowsRestored` | a page restored by the right threshold has every row once and in its place |
| `RepairJustified` | a report speaks of one version of the files, a repair replaces what is damaged when it begins, once |
| `OneKeyOpensAll` | one key opens every row, and no key of the program's takes the place of the one that is needed, unless an operator puts it there |
| `CopiesOpen` | a published backup can be read, and what is restored from it as well, with the key beside it unless that changed between its two readings |
| `ChangesKept` | an accepted change of settings stays until a later one gives the same field |
| `ClientsFollow` | who asks for a client gets one for settings in force after it asked |
| `NewestPositionWins` | the server has the newest position it took, in whatever order they came |

**Runs of several modules.** The modules in `Answers` and in `Records` share no state and
never wait for each other. `part` chooses one of them for a behaviour, and the others rest
in their first state, where none of their fair actions is enabled; so the run is the
same as one run per module. `Favourites` and `Health` are in both, with smaller
bounds in `Answers`, where liveness is checked.

**Two halves of one run.** In `SyncRuns` and `DailySync` a behaviour chooses its bounds from
the set `Limits`, and `left` is what is left of them. `DailySync_mark` has two: users ask
twice, with every fault, while the scheduler rests; or the scheduler works over two days
with every fault except a failing call, and one end of the process in each behaviour,
by a signal or by a crash; nobody asks, and a favourite is listed alone.
All interleavings of both at once are beyond these bounds; `DailySync_attempt` has a
user and the scheduler together, without faults other than a timeout.

Three goroutines for two jobs are needed because a retried job may run on a second
goroutine while the first has still to leave the map. Two failures in `Trash` make the
shortest history with two unresolved rows of one comic: a move fails, and so
does the write that should abort the row; then the comic is deleted again.

Lists of different lengths make a change of list leave pages that belong to
no page of the new one. Two bad pages are needed for a chapter that is incomplete and
has a page whose receipt matches bad bytes.

Two flights let a canceled one run on beside the one that replaces it under the
same key; with one slot they compete. Pages of one entry and a list of two make a
list change between its pages; three comics leave one to add, and taking out the first of
two moves the second to a page that has been read. Three tries are those
of the code: the first done and its answer lost, the second done again, the third to see.
A comic that is listed twice is marked twice, as handled and as failed in either order;
lists are two entries long at most, and `Copies` is 2 in `DailySync_mark` and 1 in the other
runs, which ask about waiting. Five images in parts of two make three parts, the last one
short, and leave room for the list to grow; one image without an address may be anywhere
in it. Two bounds keep that run small (`ListBounds` of `MCRecords`): both requests are
under way only while the chapter fits into one part, since they meet in the caches
alone, and with a third part every image has its address. One request reads one part at a
time there (`PartSlots`); the orders of arrival remain, as a part that has been
read waits to be appended. The numbers of chapters lie on both sides of every threshold
of the code; heights of 1 to 23 rows include those that the strips divide, that they do
not, and that are less than the strips. Two keys, two stops and two acts of an operator
are a key that is lost, made anew and put back; two changes of the file that a restore is
given are the right key and another one between its two readings. One clock is ahead by more than
the server accepts, so a position may be refused first and taken later.

Deadlock is checked where the system never stops (`JobQueue`, `Trash`, `ChapterCommit`).
`DailySync` comes to rest when the bounded runs are over, and so do the modules
with bounded events in `Answers` and `Records`: these runs say `CHECK_DEADLOCK FALSE`.

No run checks what follows from another property: that a comic has one active job and
that an ended job stays ended are consequences of `ImplementsBoard`, and proved.

### Fairness

`JobQueue!FairSpec` assumes that the ticker keeps firing (`Dispatch`), that goroutines
are scheduled and every upstream request has a timeout (`Progress`), and that a
supervisor restarts the process (`Restart`, the systemd unit). It assumes nothing of a
download while the disk is low: `waitDownload` blocks until there is room or the
context is canceled, so `Progress` is not required to move then, and `JobsServed`
asks that a queued job start only of a disk that has room for good. `SyncRuns!Fairness`
assumes the same of the goroutines of runs and of the resume at start-up. A run that waits for
a slot is served in order by the channel; with finitely many runs weak fairness says no more.
`DailySync` adds the scheduler's own goroutine and nothing about requests, timeouts, faults or
new days. `ChapterCommit!FairSpec` assumes that a chapter is asked for again, by the user or
the next synchronisation, and that a download goes on; the faults of `Limits` are used up at
some point, as in any run in which the disk and the network recover. `FlightFairness` assumes
that goroutines run, that upstream requests end and that two minutes pass; it does not assume
that a waiting goroutine ever gets a slot. `FetchFairness` says the same of image fetches: a
request ends, its wait for a slot included, because the client ends it after two minutes
(`newHTTPClient`), and the budget ends. It says nothing of a fetch that waits for a full disk.
`FavFairness` is the goroutine of a load, whose requests have a timeout; `HealthFairness` is
the goroutine of the run and a repair that has begun, which wait for nothing but locks.

## 4. What is proved

Every safety invariant, action property and refinement that a passing run checks, for
every value of the constants that the assumptions allow: any number of comics, jobs,
goroutines, readers, pages, images, rows of a page, and every bound on faults. There is
no exception. Beside them stand results that no run checks: that loops of retries,
pages and comics come to an end as far as the safety of the matter goes (**Bounded
steps** below), and how far the limit on downloads holds.

`JobQueueProofs` (constants: `MaxJobs \in Nat`, `Concurrency \in 1..8`, `Limits` a
function into `Nat`, `NoComic`, `NoWorker` outside their sets):

| Theorem | Establishes |
|---|---|
| `Invariance` | `IInv` |
| `TypeCorrect` | `TypeOK` |
| `ActiveJobUnique` | `OneActivePerComic` |
| `FilesAlone` | `FilesExclusive`: one download per comic, and none of a comic in the bin or under a check |
| `NoOrphanedRun` | `RunningHasWorker` |
| `EndIsFinal` | `EndedStaysEnded` |
| `CancelOnlyOnRequest` | `CanceledOnRequest` |
| `BoardRefinement` | `ImplementsBoard` |
| `MapLimited` | `MapWithinLimit`: `Engine.running` never has more entries than the setting allows |
| `LimitKept` | `LimitUntilRetry`: until the first retry neither are there more downloads |

Exclusivity is not inductive by itself. A goroutine and a row are two pieces of
state, and the argument goes from one to the other: a goroutine that still
works owns a row that says running, alone (`WorkersOwnRows`); rows of one comic are
active one at a time (`OneActivePerComic`); so goroutines of one comic are one at a
time. `WorkersOwnRows` rests on the order of claims: a fresh goroutine gets a row
that was queued, which no working goroutine owns. `DownIsIdle` keeps the claim
that a restart may requeue every running row; `RowsInOrder` keeps inserts away from
rows that exist; `VerdictChosen` says that what is written at the end is a final
status. `RunningHasWorker` is the converse of `WorkersOwnRows` and holds while no
status write is lost.

`CoreStep` removes `ReportProgress` from the case analysis: under `IInv` it writes
`running` over `running`, so a step of `Next` is a step of the other actions or a
stutter. That is the whole reason why the unconditional status in
`UpdateJobProgress` does no harm, and it depends on the downloads waiting for
the goroutines that report.

The limit is proved in two steps. The entries of the map are counted where the loop of
`dispatch` counts them: the claims of one tick fit into what is free (`ClaimsFit`), a
claim under a key that is there adds nothing, and every other step only removes. That the
goroutines are as many as the entries needs `EntriesInv`: until the first retry every
goroutine is found under its own job, and the job of one that is about to leave is not
queued. A retry breaks exactly this, and section 5 shows what follows.

`CancelOnlyOnRequest` needs a hypothesis, `Limits["shutdown"] = 0`: a shutdown cancels every
context, and the run `JobQueue_shutdown` shows that the claim is false with one.

`TrashProofs` (constants: `MaxRows \in Nat`, `Limits` into `Nat`, `NoComic` outside
`Comics`):

| Theorem | Establishes |
|---|---|
| `TrashInvariance` | `TrashInv` |
| `TrashTypeCorrect` | `TypeOK` |
| `FilesReachable` | `BinReachable` |
| `SingleCopy` | `OneCopy` |
| `BinKept` | `BinIntact`, both of them |
| `BinRecoverable` | `Restorable` |
| `LibraryExplained` | `LibraryTruthful` |
| `RestoreIsComplete` | `RestoredMeansShelved` |

The strengthening is `OpConsistent`: what the handler that holds `opMu` may rely on
at each stage (its row is unresolved, no job is active, the files are where the stage
has left them). With it each store's claim is preserved by each write.

`SyncProofs` (constants: `MaxRuns \in Nat`, `Slots \in Nat \ {0}`, `Limits` a set of
functions into `Nat` that agree on lost writes, `Copies` positive, `NoEntry` no entry):

| Theorem | Establishes |
|---|---|
| `RunInvariance`, `DailyInvariance` | `RunInv` for the runs, `RunInv /\ SchedInv` with the scheduler |
| `SyncTypeCorrect` | `TypeOK` |
| `CheckpointSafe`, `DailyCheckpoint` | `CheckpointOwned`, without and with the scheduler |
| `HistorySafe`, `DailyHistory` | `HistoryTruthful`, the same |
| `DayEarned` | `MarkedMeansSucceeded` |
| `LedgerRefinement`, `DailyLedger` | `ImplementsLedger`, without and with the scheduler |
| `RunIsBounded`, `DailyRunBounded` | `RunBounded` and `RunAdvances`, for a finite set of comics |

The checkpoint is safe because a live run is the entry of its account
(`RunsRegistered`): who launches joins it, so nobody else rewrites its items. What it has
marked stays settled for the same reason, and a comic that its list names again is one of
those (`CheckpointMatches`, `MetLater`).
`NothingForgotten` says that what a run without an error has not in its list is
not unfinished in the checkpoint either, and it is what makes a success truthful;
`RowsFollow` ties the history to the goroutines as long as no write was lost. Whether one
was lost is read from what is left of the bound on lost writes, which is the
reason why the bounds have to agree on it. `DayEarned` goes through the run
that an attempt joined: a success it reports was reported after the attempt had begun
(`WaitTruthful`). Every step, the scheduler's too, has one of five effects on
the runs, and each effect preserves `RunInv`; so the proof for the runs serves for both
specifications.

The refinement maps each effect to one step of `SyncLedger` or to a stutter
(`EffectLedger`). A launch is a `Take` because a live run is the one that is registered
(`RunsRegistered`) and a run that was not launched has no row (`RowsOpen`); a comic that
is marked is on the list of its run (`OnListed`) and what is on the list is for it to settle,
or was settled by it (`CheckpointMatches`), which makes the step a `Settle`; and a `Conclude` with
a success has nothing left by `NothingForgotten`.

`ChapterProofs` (constants: `MaxPages \in Nat`, `Length` of each list in `1..MaxPages`,
`Limits` into `Nat`, the bytes that do not decode and `NoDir` unlike anything else):

| Theorem | Establishes |
|---|---|
| `ChapterTypeCorrect` | `TypeOK` |
| `ChapterWhole` | `DoneIsWhole` |
| `PagesKept` | `GoodPagesKept` |
| `ShelfRefinement` | `ImplementsShelf` |

`ChapterInv` follows the steps of `Download`: which directory it works in and under which
list (`StepFine`), what each page worker has done (`WorkFine`), what a directory may hold
beside its list whatever was interrupted (`DirsFine`), and what is never there
in one way of storing (`KindFine`). Two facts carry the swap. What is put in place
is whole (`Whole(stage, target, rotten)` from "recover" to "install"), and `.previous` is
removed only when the chapter is in its place (`at = "swap" => prev = NoDir`): so a
crash leaves the old chapter or the new one, which is `ShelfRefinement`. Where the
staging directory has bytes that do not decode under a matching receipt, the chapter,
under the same list, has no good page either (`KindFine`): a swap never makes a chapter
worse, and the worst is what `RepairReplaces` of section 5 describes.

`FetchProofs` (constants: `Workers` and `Readers` finite sets, the numbers of slots,
attempts, hosts, images and the size of a part positive, `NoKey`, `NoFlight`, `NoList`
outside their sets):

| Theorem | Establishes |
|---|---|
| `FetchTypeCorrect`, `SlotsAccounted` | `FetchTypeOK`, `SlotsKept` |
| `FlightTypeCorrect`, `FlightShared` | `FlightTypeOK`, `FetchIsShared` |
| `ListTypeCorrect`, `ListsTruthful` | `ListTypeOK`, `ListTruthful` |
| `FetchIsBounded` | `FetchBounded` and `FetchAdvances` |

`SlotsKept` is inductive with the types. `FlightInv` needs that the counter of a flight is
the number of readers that hold it (`Counted`) and that the map offers exactly the flights
that are live and not canceled (`Offered`); what keeps the latter is that the deferred
function of the last reader cancels the flight and takes it from the map in one section
under `pageMu`, and that a flight removes only its own entry when it ends (`Unlisted`).

`ListsTruthful` has two halves. The state machine keeps `Spread`: every part of a request is
waited for, read or there, once; what there is of it lies within its bounds and
rises (`PartFine`); and what has arrived or is coming is what upstream has answered with.
The other half is about data: `Ordered` says that the parts are put one behind the
other by their numbers, and `JoinedList` that parts within bounds that rise from one to
the next make a list that rises and has exactly their images (`PutPart`, by induction over the
parts). The check of the addresses removes the zeros, and the count is what it says.

`UpstreamProofs` (constants: `Tries`, `PageSize`, `MaxPages` positive; the first lists
of favourites without repetitions; thresholds and heights positive):

| Theorem | Establishes |
|---|---|
| `ToggleTypeCorrect`, `TogglesHonest` | `ToggleTypeOK`, `ToggleHonest` |
| `FavTypeCorrect`, `FreshCurrent` | `FavTypeOK`, `FreshMeansCurrent` |
| `SnapshotReplaced` | `SnapshotWhole` |
| `ScrambleTypeCorrect`, `PageRestored` | `ScrambleTypeOK`, `RowsRestored` |
| `LoadIsBounded` | `WaitBounded` and `LoadAdvances` |

A toggle is honest because of whoever toggled last (`LastToggle`). A snapshot is whole because
every entry that is not in doubt has been read, or lies on a page that is still to be
read, with all that was read before it (`PagesRead`): entries that are added move others to
later pages only, and one that is taken out moves up those behind it, which are then in
doubt. `FreshMeansCurrent` needs beside this that a load which fails adds to a fresh
snapshot only what is in the list or known to be wrong (`LoadKnown`). `RowsRestored` is
arithmetic: the strips cover the page (`StripsCover`), and each goes back to where it was
cut (`StripRight`).

`StoreProofs` (constants: clocks off by an integer, `Ahead` natural, `MaxTime` positive;
`MaxUpdates`, `SettingsStops`, `MaxKeys` natural, `VaultLimits` into `Nat`; `Chapters`
positive, `HealthLimits` into `Nat`):

| Theorem | Establishes |
|---|---|
| `ReadingTypeCorrect`, `NewestKept` | `ReadingTypeOK`, `NewestPositionWins` |
| `SettingsTypeCorrect`, `NoChangeLost`, `ClientsCurrent` | `SettingsTypeOK`, `ChangesKept`, `ClientsFollow` |
| `VaultTypeCorrect`, `OneKeyForAll`, `CopiesReadable` | `VaultTypeOK`, `OneKeyOpensAll`, `CopiesOpen` |
| `HealthTypeCorrect`, `RepairsJustified` | `HealthTypeOK`, `RepairJustified` |
| `CheckIsBounded` | `CheckBounded` and `CheckAdvances`, for a finite set of comics |

One key opens every row because the server works with the key that the rows need
(`WorksWith`) and makes one only when none needs any (`NoneNeeded`); what is restored
opens because the key that the manifest names was verified against the rows, and the file
is that key unless `swapped` (`CopyInv`).
A change under way merges its patch into the settings in force (`ChangeMerges`), because
`Update` holds the lock from reading to writing; a caller that has read the settings
has seen some in force since it asked (`SawInForce`). What the goroutine of a health check
has found is the damage of the version it began with, up to the chapter it is
at, as long as the files have not changed (`CheckFine`); it enters the report only if the
second fingerprint agrees; and while a repair is under way the report
is as it was (`RepairFine`).

`RecordsProofs` carries these results over to the run `Records`. `RecordsCompose`: a
behaviour of the modules side by side is a behaviour of each, since a step of another one is a
stutter. So `RecordsTypeCorrect` (`RecordsTypeOK`) and `RecordsTrue`, all properties of the
run, follow from the theorems above.

**Bounded steps.** A liveness property has two parts: that steps are taken, which is
fairness, and that finitely many suffice. The second is a safety property, and it is where a
loop that starts over could go wrong. For each of the four loops a rank is defined on
the state of its goroutine, a number that is proved to have a bound, to be positive while the
goroutine is under way, and to fall with every step of it, while steps of others leave
the goroutine alone:

| Rank | Counts | Behind |
|---|---|---|
| `FetchRank` | attempts left on the hosts left, with five stages each, and whether the budget is over (`fetchImageRetry`); an attempt that the client's deadline ends in the wait for a slot is one of them | `FetchEnds` |
| `LoadRank` | pages that may still be asked for, once more if a new login is still allowed (`favorites.go`) | `CallersAnswered` |
| `CheckRank` | comics left and chapters left of the one under examination (`health.go`) | `HealthEnds` |
| `RunRank` | entries of the list that the run may still take up, a comic again included, two steps each (`syncAccount`) | `AttemptsReturn` |

A rank says nothing of a goroutine that is never scheduled or waits for a slot, a lock or
the disk: that part stays with the fairness of section 3 and with TLC.

Each proof has a lemma per action or per conjunct, and a theorem that combines them by
temporal logic. TLC has checked each inductive invariant on the instances of the runs.

**Recursion.** `FlattenSeq` of the community modules is a recursive function. What it computes for
every sequence is proved without an induction theorem that takes an operator: `LeastNat`
(every set of numbers has a least one) comes from the theorem that `<` is well founded,
`UpTo` is induction for sets, and `Flattened` follows by it.

Only model-checked: every liveness property (`JobsServed`, `AttemptsReturn`, `NeverStuck`,
`EveryoneAnswered`, `FetchEnds`, `CallersAnswered`, `HealthEnds`), since liveness under
fairness and `ENABLED` are out of the prover's reach; and the four divergences of
section 5, of which each is a counterexample. `RECURSIVE` operators are out of reach
too; no module has one.

## 5. Divergences found

**The limit on simultaneous downloads** (`JobQueue_limit`,
`DownloadsWithinLimit`). `README.md:18` describes a configurable limit of 1 to
8. A job is retried after its goroutine has written the final status and before the
goroutine's deferred `delete(e.running, job.ID)`; the next tick claims it under the same
key, so the map does not grow; then the deferred delete takes the new goroutine's
entry away. The map is one entry short for as long as the new goroutine works: one
download more than the limit can start, and Cancel no longer finds the job
(`engine.go:266`, `engine.go:280`). The map itself never exceeds the limit (`MapLimited`);
the downloads do, and only after a retry (`LimitKept`).

**A shutdown cancels downloads** (`JobQueue_shutdown`, `CanceledOnRequest`).
`docs/OPERATIONS.md:7` and `docs/API.md:60` say that created downloads survive a
restart. After a crash they do. After a graceful stop a goroutine that sees its
context canceled stores `canceled` (`engine.go:416`), which ResetRunningJobs
does not take up. Whether it gets that far is a race with the end of the process.

**A day marked without reading the favourites** (`DailySync_listed`,
`MarkedMeansListed`). The comment at `main.go:483` promises a full synchronisation every
day. The scheduler joins a run of any mode: after a crash the run resumed at
start-up, otherwise a user's `resume` or `retry`, works through the old checkpoint;
its success marks the day (`sync.go:35`), and new favourites wait for the next one.

**A repair that does not replace the page** (`ChapterCommit_repair`,
`RepairReplaces`). `docs/OPERATIONS.md:81` says that a marked page is kept until the
download has replaced it. The mark is written beside the page in the library; a
`pica` download works in `.resume`. A page that does not decode under a matching
receipt, once copied to `.resume` by an interrupted download, is valid there: the
commit swaps it in, and the mark goes away with the old directory
(`resume.go:180`). The next health check finds the page again.

### Noted, without a run of their own

Behaviour that the models have and that a reader of the code may not expect. No
document says otherwise, or the statement is too loose to be refuted.

- Pica: what the second toggle did is not looked at, and an answer with status 200 that
  does not tell what was done counts as success (`pica.go:499`), so `ToggleHonest` excepts
  requests that were answered like that (`blind`); JM says that it failed
  (`docs/API.md:80`).
- JM: a list of favourites is cut after 200 pages without an error.
- A favourite removed during a load moves the others up, and the load may miss one.
- An invalidation during a load is undone by the stamp of that load: the snapshot counts as
  fresh for five minutes and may lack the change (`seen.doubt` becomes `seen.stale`). The
  same holds, without a load, after a change whose answer was lost: the handler returns an
  error and does not invalidate (`api.go:417`, `439`), nor does it notice an
  invalidation that fails.
- Pica: a favourite that is listed twice is checked twice in one run, and the second verdict
  replaces the first in the checkpoint.
- JM: a blank name in the middle of a list moves every later page up by one, since names
  are numbered after the blank ones are dropped (`jm.go:551`).
- Pica: a list whose total is left out, or 0, is not counted, so one that came short is kept
  for ten minutes (`pica.go:710`).
- A restore copies the key file without looking at it again (`backup.go:226`): one that is
  changed after its verification lies beside rows that it does not open.
- The default threshold of a chapter is cached like a known one, for good, and may
  replace one that another request has learnt.
- A stop between creating the key file and writing it leaves an empty key; the next
  start is refused until an operator acts, and no row is lost.
- After a 429 and then a network error `fetchImage` goes on to the next host, although
  `image_retry.go:23` speaks of not evading limits.
- An older list of images may replace a newer one in the cache, and a part that was
  answered short passes the count when the last part has grown by as much; the list then
  has a gap.
- A clock that is ahead within the five minutes accepted hides the positions
  of other devices for as long.

## 6. What is left out, and the plan

Done: all the modules above, in the order of the table of section 2, and the proofs of
their safety properties.

Worth doing next, from the most valuable down:

1. An abstract specification of the page fetches, one answer per reader and one fetch per key,
   which `PageFlight` implements.
2. The other half of the liveness properties: that a goroutine with a positive rank always
   has a step it can take, shown without `ENABLED` from the guards; and ranks for the
   goroutines of `JobQueue`, `PageFlight` and `ChapterCommit`.
3. The failed read of `.pages.json` (last entry below) as a step of `ChapterCommit`.

Not modelled:

- The HTTP layer, static assets and the front-end node, views and styling, the
  deployment scripts: no state others rely on.
- Sessions and login: rows written, read and deleted by single statements, and a
  counter under one lock. The event broadcast: a lossy hint whose receivers read the
  state again.
- Wire formats, signatures, decryption and password hashing: pure conversions with
  fixed test vectors.
- What a library scan derives from a directory; trimming the reader's cache by age
  and size, and the index of local files; the creation of tables.
- A failed read of `.pages.json` in `preparePageManifest`, which counts as no list:
  reads are assumed to succeed in `ChapterCommit`.
