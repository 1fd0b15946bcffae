# Tripvault - TLA+ models, checks and proofs

Tripvault is a self-hosted travel planner: a Go service over PostgreSQL and a
directory (or volume) of media files, with a Vue web interface. These modules
are about what its unit and integration tests hardly reach: requests that read
first and write later while others come in between, work that runs *beside* the
requests, spans the database and the disk, survives failures and crashes, and
shares state between goroutines; and the algorithms - marking nights, joining
days by legs, splitting costs, cutting homes out of a page - whose results all
of that must keep in step.

All paths below are relative to the repository; `backend/...` is
`src/backend/internal/...`. `PROJECT.json` lists the parts with their status,
every modelled definition with its lines, and the hazards with the property that
would catch each.

## 1. Inventory

| Part | State it keeps | Operations | What is hard | What makes it correct |
|---|---|---|---|---|
| Whole-instance restore (`backup/restore.go`, `storage/migrations`, `media/store.go`) | the schema called `public` and the staged, previous, failed ones; generation directories and the `.current` link; `restoreMu`; the two stages in memory | `Restore`, `restoreStaged`, `BeginRestore`/`Activate`/`Rollback`/`Finish`/`Close` of both stages | two stores switched one after the other; each call may fail, take effect unanswered, or be the last of the process | both halves change or neither; what is reported is what happened; nothing needed is removed |
| Backup runs (`backup/runner.go`, `scheduler.go`, `storage/postgres/backups.go`) | `active`, `restoring`; `backup_configs`, `backup_runs`; archives at destinations | `Run`, `Start`, `carry`, `rotate`, `HoldForRestore`, `pass` | scheduler, requests and restores decide at once; row and archive change in separate steps; configurations are read early and used late | no two runs of one configuration; history agrees with the destination; retention removes only what it may; a due backup is taken |
| Restore gate (`httpapi/restore.go`) | `restoreGate`, the serving context, `restoreActive`, the hold on backups | `requireAvailable`, `inBackground`, `startRestore`, `runRestore`, `enterMaintenance`, `leaveMaintenance` | two locks and a context taken in opposite orders on the two sides | a restore is alone, gets through, and cancels only what it waits for |
| Preview rendering (`httpapi/previews.go`, `media/preview.go`) | `renders`, the slots, the upload queue and its signal, the wave, `backfillWanted`/`backfillRunning`; files | `previewsFor`, `keepPreviews`, `queuePreviews`, `renderQueuedPreviews`, `requestPreviewBackfill`, `backfillPreviews` | shared work bound to one reader's context; a deletion at any moment; lost wake-ups | no orphan preview, everybody answered, exact progress, one walk |
| Outgoing mail (`mailer/worker.go`, `smtp.go`, `storage/postgres/mail.go`) | `mail_outbox`, `mail_enabled` | `EnqueueMail`, `ExpireMail`, `ClaimMail`, `Send`, `MarkMailSent`, `RetryMail` | acceptance and its record are two steps; claims of dead processes | sent again only when the record was lost; every message ends |
| Sessions and accounts (`auth`, `storage/postgres/users.go`, `sessions.go`, `httpapi/auth.go`, `me.go`, `admin.go`) | `users`, `sessions`; the browser's token and its lock | sign-in, refresh with rotation and grace, sign-out, changing and recovering a password, deactivating, deleting, purging | two tabs refreshing at once, lost answers, a password changed during a sign-in, administrators acting on each other | an administrator remains; live sessions are of the password of now; a browser keeps its session |
| Registration, invitations, password reset (`httpapi/registration.go`, `invitations.go`, `storage/postgres/invitations.go`) | codes, attempts, invitations, reset links | register, confirm, resend, invite, accept, withdraw, reset | checked before the transaction and again inside it, withdrawn or spent in between | a credential works once; a confirmed account is never purged |
| Rate limits (`httpapi/ratelimit.go`) | windows per key | allow, record | boundaries of the window | bounded per window |
| Provider requests (`requestwork`, `routing`, `geocoding`, `staticmap`) | shared calls, requests counted per hour, in flight and per minute, caches | `Group.Do`, `admit`, `Calculate`, `Alternatives`, `Forget`, `Search`, `Tile`, `Expand` | readers leaving shared work, counting in flight, a call that is itself a reader | nobody is handed abandoned work; limits kept; everybody answered |
| Plans: days, places, stays, legs (`domain/document.go`, `plan.go`, `leg.go`, `storage/postgres/documents.go`, `report.go`) | the document of a trip and of its report | every edit of days, places, stays, evenings, legs and their parts; calculating, choosing routes; making a report | rows read before the lock and written under it; derived rows recomputed by every edit; routes arriving late | days follow the trip, marks the nights, legs the days; routes belong to their ends; nothing is lost unasked |
| Media library (`httpapi/media.go`, `sweep.go`, `storage/postgres/media.go`, `storagequota`) | media rows, attachments, photos, galleries; files; two allowances | uploads, copies, removals, galleries, favourites, the sweep of leftovers | file before row, allowances read before and checked under a lock, lists that grow old, statements of two transactions | a row has its bytes; the sweep takes leftovers only; allowances kept; a gallery shows what was asked |
| Trips, members, listing (`httpapi/trips.go`, `storage/postgres/trips.go`) | trips, members, roles | create, change, delete, members, pages of the list | roles asked early and used late; a list read in pages while it changes | a leaver leaves nothing behind; pages miss nothing |
| Packing list (`domain/packing.go`, `storage/postgres/packing.go`) | categories, things, their order and bringers | all edits, templates, moves | order renumbered in two categories at once | dense order, no copy, no absent bringer |
| Costs and budget (`domain/split.go`, `budget.go`, `expense.go`, `stop.go`, `transfer.go`) | costs of places, stops, expenses, transfers, legs, stays; splits and shares | edits, budget, balances, settling | rounding; rows counted once each; travellers changing | parts make up the whole; payments square everybody |
| Lists of ideas and tags (`domain/idea.go`, `storage/postgres/ideas.go`, `tags.go`) | ideas, history, members, tags, invitations | edits, tagging, sharing, leaving | tags put on while their owner leaves | counts and history are true; an invitation lets one person in |
| Sharing and privacy (`domain/privacy.go`, `share.go`, `httpapi/shares.go`, `mediadownload.go`) | links, homes, download addresses | pages behind links, downloads | a page is several reads; an address outlives what it was issued for | nothing of a home or a hidden picture leaves |
| Activity tracks (`track`, `storage/postgres/tracks.go`) | a track per place | import, removal | real geometry | times and ends follow the track |
| Backup archives and destinations | files, SFTP | `Store`, `Remove`, `Open`, `List`, check, encryption | I/O | stored whole or not at all (used by the runner's model) |
| Reports as PDF, translations; settings, profile, themes | rows | forms, layout | - | - |
| HTTP server and process (`cmd`, `httpapi/server.go`) | routing, signal context | start, stop | start and stop order | initial states of the modules |
| Web interface (`frontend/src/api/client.ts`) | token store, lock | views, the shared refresh | several tabs sharing one refresh | one refresh at a time |

How they interact: a request passes `requireAvailable` and so holds a share of
the gate; an upload hands pictures to the preview queue; an accepted restore
takes the only slot, holds backups away, stops everything tied to the serving
context, takes the gate whole, runs `backup.Restore` and winds all of that up
again; the scheduler, the mail worker, the hourly sweep and the sweep of the
store run beside all of it. Registering, inviting and recovering queue mail in
their own transaction. A document asks `routing` for its legs and writes the
answers back under the trip's lock; a report copies a document; members, costs,
packing and tags meet in the rows of a trip; a link or a download address shows
what all of them have stored.

## 2. Modules

| Module | Models | Built on |
|---|---|---|
| `RestoreCutover` | one restore after another, step by step, with failing calls, lost acknowledgements, shutdowns and crashes | - |
| `AtomicRestore` | what a restore promises: both halves or neither, and an answer | - |
| `RestoreRefinement` | the mapping of the first onto the second | EXTENDS `RestoreCutover`, INSTANCE `AtomicRestore` |
| `BackupRuns` | runner, scheduler, requests, retention, history, a restored history | - |
| `ServiceGate` | gate, serving context, slot, hold on backups | - |
| `Previews` | one picture's previews: sharing, slots, storing, deletion | - |
| `PreviewWork` | the upload queue, the wave, the walk | - |
| `MailOutbox` | the outbox and its worker | - |
| `AccountStore` | the transactions on users, sessions, codes, invitations and members | - |
| `Accounts` | the handlers over it, the browser with its tabs, the hourly purge | EXTENDS `AccountStore` |
| `ProviderRequests` | shared calls, limits, caches, slots of the requests to other servers | - |
| `TripLayout` | rows of a document and what is derived of them: marks, legs, order | - |
| `TripDocument` | the transactions on a document | EXTENDS `TripLayout` |
| `Itinerary` | the handlers over it, calculations, imports, the report | EXTENDS `TripDocument` |
| `MediaLibrary` | uploads and removals of every kind, allowances, the sweep, crashes | - |
| `MediaGallery` | galleries and favourites, statement by statement | EXTENDS `MediaLibrary` |
| `PackingList` | the transactions on a packing list | - |
| `CostSplit` | splits, shares, balances, settling | - |
| `TripBudget` | the budget of a document | EXTENDS `CostSplit` |
| `TripListing` | the filter, order and cursor of the list of trips | - |
| `Companions` | people, roles, packing, costs and the list of trips, changing at once | INSTANCE `PackingList`, `TripBudget`, `TripListing` |
| `IdeaNotes` | the form of an idea and its cost | - |
| `IdeaLists` | the transactions on ideas, history, members, tags, invitations | - |
| `OutsideView` | a document as an outsider may see it | - |
| `Sharing` | lists of ideas, invitations, links and downloads, changing at once | INSTANCE `IdeaNotes`, `IdeaLists`, `OutsideView` |
| `MC...` | small instances for TLC: `MCBackupRuns`, `MCAccounts`, `MCProviderRequests`, `MCItinerary`, `MCMediaLibrary`, `MCCompanions`, `MCSharing` | EXTEND the module named |
| `..._proofs` | theorems: `RestoreCutover_proofs` (of `ServiceGate` too), `OutsideServices_proofs` (of `ProviderRequests` and `MailOutbox`), `BackupRuns_proofs`, `Previews_proofs` (of `PreviewWork` too), `Accounts_proofs`, `MediaGallery_proofs` (of `MediaLibrary` too), `Sharing_proofs`, `Itinerary_proofs` | EXTEND the modules and TLAPS |

Two conventions run through the modules about requests. A *transaction* is an
operator from the rows as it finds them to the rows it commits (or a refusal):
it is evaluated in one step, because the code takes the lock of the row or the
trip it works on; where two statements of one transaction can be overtaken,
they are two steps. A *handler* is a process that reads in one or more steps,
keeps what it read, and hands it to the transaction in a later step - whatever
happened to the rows meanwhile. Rows deleted, roles lost and values changed in
between are therefore not cases anybody wrote down but interleavings TLC finds.

### RestoreCutover

`schema[i]` and `generation[i]` are what PostgreSQL and the disk hold of restore
number `i`; number 0 is the installed instance, so the instance is whole when
`Public = current`. `pc` is where `backup.Restore` stands; `dbStage`,
`fileStage` and `restoreMu` are the memory a crash forgets. Each action is one
call of `restoreStaged` or one of its deferred calls: `Validate`,
`BeginDatabase`, `LoadAndUpgrade`, `BeginFiles`, `PutFiles`, `ActivateDatabase`,
`ActivateFiles`, then either `RollbackFiles`, `RollbackDatabase`, `DropFailed`
or `FinishDatabase`, `FinishFiles`, and `CloseFiles`, `CloseDatabase` in the
order of the `defer`s. A call succeeds (`Works`), fails (`Breaks`), is
`Interrupted` by a shutdown if it runs under the caller's context - the
roll-back does not - or takes effect with its answer lost (`LosesAck`).
`ActivateFiles` separates the rename of the link from the sync of its directory
and from reading it back; `unseen` remembers the generations the link was
switched to without either succeeding, so that `Close` takes them for files never
made live. `Crash` may come anywhere. Rows and files are not
represented; a half carries the number of the restore it came from.

### BackupRuns

A *carrier* is the scheduler or a request; `job[k]` is where its goroutine is and
the configuration *as it was when it was read*. `Claim`, `Begin`, `Perform`,
`RecordSuccess`, `Rotate`, `RemoveArchive`, `MarkRotated` and the failure
branches are the statements of `begin`, `carry`, `failRun` and `rotate`, each
with its failure, and each failing statement with both outcomes it may have had.
A failing `Store` of an SFTP destination may leave the archive under its final
name, because the rename may have been done by the time its answer is lost; a
local one removes what it wrote.
A rotation goes through what it found the newest first, as both queries order it.
`SchedulerPass` reads all due configurations, `SchedulerTakes` works them off.
An archive records the database of its snapshot, which `RestoreArchive` puts
back - history and configurations included. Time is counted in periods of the
schedules: a configuration is due once a period. `bound.settings` are the
retentions the configurations begin with and may be edited to.

### ServiceGate

`work[w]` is a request or background worker: away, waiting in `RLock`, admitted
(has the gate, not yet the context), working under serving context `tied`.
`StopsServing`, `AsksForGate` and `EnterMaintenance` split `enterMaintenance`
where another goroutine can get in between (Go's `RWMutex` turns newcomers away
from the moment a writer *asks*); `RenewsServing` and `LeaveMaintenance` do the
same for `leaveMaintenance`; `WindUp` is the first deferred function of
`runRestore`. Work left alone never has to end.

### Previews and PreviewWork

`Previews` follows each reader through `previewsFor`: join the rendering in
flight or register one, wait for a slot, decode, store each width, open the
original again, clear up if it is gone, unregister, close. A follower that is
woken by a cancellation that was not its own starts again. The deletion of the
picture (`DeleteRow`, `DeleteOriginal`, `DeletePreview`) interleaves with every
file operation.

`PreviewWork` keeps the queue length, the one-place signal, the workers, the two
flags of the walk and the wave `total`/`done`. `Counts` and `Pushes` are the
three steps of `queuePreviews`, `SignalPop` the signal a worker passes on,
`TakeWish`, `StopWalking`, `Recheck` and `Contend` the four accesses to the two
flags.

### MailOutbox

`row[m]` is the message's columns as far as the queries tell them apart;
`accepted` and `missed` are history: how often the server accepted a message and
how often that was not recorded. The worker runs `ExpireMail`, `MailSettings`,
`ClaimMail`, `Send`, `MarkMailSent` or `RetryMail`. Time is represented by what it
changes (`TimePasses`). `Send` is bounded by 45 seconds and a claim is taken over
after 10 minutes, so the claim of the message in hand does not grow old.

### AccountStore and Accounts

A table maps identifiers to rows, `None` or `Gone`. A password is the number of
its changes, a token the number of its rotations, a mailed code the number of
its message: what matters is whether it is the one of *now*. `Accounts` gives
each request a record of what it was given and has read; hashing a password is
the time between reading the account and committing. `RefreshGetByHash` to
`RefreshGranted` are `Refresh` with its three reads and its write, grace and
replay included; `store` and `weblock` are the browser's token and whether its
tabs can take turns. `TimePasses` and `GracePasses` end what has a lifetime,
`Sweep` is the hourly purge. `calm` remembers whether the browser was spared
what its grace period is not meant for. Identifiers run out (`HasRoom`), which bounds how
many rows are ever created. `StoreAssumption` says that identifiers are numbers
and nothing else looks like a row; `ScenariosAssumption` that a database to start
from is one the service can leave behind (`Consistent`: an active administrator,
sessions of the password of now, credentials that were used once at most) and
that the browser's token, if it has one, opens a session not yet replayed.

### ProviderRequests

`reader` is an HTTP request with what it still asks for, `call` a goroutine of a
`requestwork.Group`, `open` the groups' maps. `Join`, `Receive`, `Leave`,
`Finish` are `Group.Do` - its two locked sections and its `select` -, `LegJoin`,
`LegReceive`, `LegLeave` the same for the call of a leg, which is itself a
reader of the group that asks the provider. `Admit` and `Release` are admission
and record; `used` is `provider_usage` by service and hour, `sent` what was
really admitted. `Expire`, `MinutePasses`, `HourPasses` and `Restart` interfere.
The names of goroutines are a bound (`HasRoom`): six are never all in use in
the journeys checked.

### TripLayout, TripDocument and Itinerary

A document is its days, items (places and marks), stays and legs, each a
function from identifiers to rows; points and dates are numbers, a route is what
a leg asks for. `AnchorAssignments` gives the marks each night asks for,
`ReconcileLegs` the legs the order asks for, and every transaction of
`TripDocument` ends with the recomputation its Go counterpart ends with.
`UpdateTrip` reshapes the days to the period, which every trip has
(`Trip.Normalize`); `CreateReport` copies table after table, each read at its
own moment. `Itinerary` has a handler per operation; calculations read the leg,
ask the provider, and save against the input they were worked out for. A leg with
parts has a handler of its own (`updateCompositeLeg`): clearing its cost writes
its parts again as they were read. A chosen route is checked against the ends of
the leg as it is read (`PinLegRoute`), and the request keeps what it read.

### MediaLibrary and MediaGallery

`files` is the store, `db` the rows and the bytes kept in rows, `holder` who has
the advisory lock of the instance's allowance. An upload reserves, writes the
file, creates the row under the trip's lock, and undoes in the order of its
`defer`s; a call may fail, be refused, or commit unanswered (`past.doubtful`).
`handleDeleteTrip` and the like list keys before the rows go and delete files
after. A rendering (`renderPreviews`, `keepPreviews`) opens the original before
and after, and deletes it if the second time fails, whether or not the row stands
(`past.doubtful`). The sweep lists names, walks the store, lists again, and
removes what is left and an hour old; `Underway` are the files a request has
stored, or is about to, without a row yet. `MediaGallery` takes `SetLinks` and the favourites
statement by statement, with the row locks PostgreSQL gives them.

### PackingList, CostSplit, TripBudget, TripListing and Companions

The first four are the code of their packages as operators; amounts are cents,
names pairs of a word and its spelling. `Companions` runs requests over one trip:
role and row are read, people named are checked against the members
(`checkBringer`, `CheckCostSplit`), the write comes later. A cost and its shares
are read by two statements (`Item`, `Stop`), and another write may commit between
them; what then comes of them is `past.torn`. Members leave, roles change,
accounts are deleted, travellers are counted anew meanwhile. A budget
that was read is kept in `past.shown` with the content it was made of, a reader
of the list of trips carries the cursor from page to page.

### IdeaNotes, IdeaLists, OutsideView and Sharing

`IdeaNotes` is the form of an idea (`normalize...`, `validate...`, `TotalRange`),
`IdeaLists` the transactions, each with its entry in the history, and
`OutsideView` what `ForShareLink` and the circles around homes leave of a
document: the map is a line, a circle an interval, and what is left of a list
keeps the positions it had. An entry of the history is keyed by the moment its
transaction began, which is the stamp it is told in the order of; a change that
commits while one that began after it has been written already is kept in
`past.overtaken` until the idea is next changed in order. A picture has a kind,
because `hidesLocation` takes the position out of JPEGs alone. `Sharing` makes a page of
several reads - link, document, pictures, homes - with changes in between,
issues download addresses and opens them later. `past.page` is the answer given
last.

## 3. Runs

States are distinct states found by TLC; every run passes.

| Run | Bounds | States | Shows |
|---|---|---|---|
| `restore_cutover` | 3 restores, 3 failing calls, 1 shutdown, 1 crash, lost acknowledgements | 153 135 | halves usable, truthful report, nothing left behind, old database and live files kept, `AtomicRestore` implemented |
| `backup_runs` | 1 configuration with count 2 or days 1, 3 periods, 1 request, 1 hold, 2 of fault/crash/restored history; and 2 configurations with count 1 or days 1, 2 periods, 1 edit; an archive may be in place though storing it failed | 558 073 | exclusive carriers, history and destination agree, one scheduled run a period, retention, due is started |
| `service_gate` | 2 requests, 2 background workers, 1 backup, 3 restores | 8 028 | exclusive maintenance; restores get through and waiting work runs |
| `previews` | 2 pictures, 2 widths, 2 readers, 1 slot, 1 deletion, 1 cancellation, failing write or failing open | 173 634 | no orphan preview; everybody answered, nobody with another's cancellation |
| `preview_work` | 2 uploads, 2 workers, 2 walks of up to 1 file | 498 464 | no worker sleeps on work, exact wave, one walk; every wish seen |
| `mail_outbox` | 2 messages, 3 attempts, 2 switches, 2 of crash/failing statement/failing QUIT | 110 968 | sent again only if missed; every message ends |
| `accounts` | 9 databases, 2 requests at once, up to 9 calls, 2 wrong codes | 139 423 | an administrator remains, sessions are current, credentials work once, confirmed accounts stay, a browser keeps its session |
| `provider_requests` | 3 readers, 2 things asked for, 6 goroutines, 2 requests a day, 1 memo, 1 slot, 2 hours, 1 restart | 164 322 | shared work is live and single, the daily limit is kept; every reader is answered |
| `itinerary` | 4 documents of 3-4 days, every pair of requests, some triples, a leg whose end moves away and back while its route is chosen | 34 536 | days and marks follow the trip, legs and routes fit the days, places survive |
| `media_library` | every pair of storing, growing or gallery requests and renderings, 1 fault, 1 crash, 1 sweep | 531 642 | stored pictures have bytes, once; galleries as asked; sweep and allowances |
| `companions` | 2-3 requests of 5 people, packing list, costs of a plan and a report, 5 trips in pages of 1-3 | 55 865 | the ledger adds up, packing in order, pages miss nothing |
| `sharing` | 3 requests on lists, invitations, links, downloads of JPEG and PNG pictures; 3 moments | 55 260 | figures and history are true, invitations are spent once, answers keep secrets |

What the composed properties say:

* `HalvesAreUsable`: one loaded database is public and the media link names a
  complete generation, whatever failed, but for a switch of the files that could
  neither be flushed nor read back (`unseen`).
* `HistoryIsTrue`: until a history is restored, an archive marked as rotated is
  gone, or was left behind where its configuration pointed before an edit; the
  newest success can be restored or is older than a retention by days allows;
  while no statement fails and nothing crashes, every finished archive has its
  successful row - or, on an SFTP server, one that failed - and every row still
  running its carrier; and the scheduler
  serves no period twice.
* `RotationKeepsTheNewest`: at the moment an archive goes, its row is a success
  not marked, and the retention its remover was started under lets go of it:
  with a count of n there are n newer successes in the history, and all their
  archives are there unless somebody edited a configuration or restored a
  history; with n days it is older.
* `WorkIsSharedOut`: somebody who can take it is awake for every queued picture,
  the wave counts exactly what is left, at most one walk runs, and the flag that
  keeps others from walking is up exactly while one does.
* `MaintenanceIsExclusive`: a restore is alone with the instance, the slot is
  free only after backups resume, and what is cancelled has a restore that waits
  for it.
* `DaysFollowTheTrip`: a trip has one day per date in order, and each day
  carries the marks of the nights around it and no others. `RoutesFitTheDay`:
  one leg between any two neighbours and none elsewhere, and whatever is stored
  of a leg or a part was worked out for the ends and mode it has *now*, but for a
  chosen route checked against ends the leg no longer had when it was stored
  (`StoredUnchecked`).
* `StoredPicturesHaveBytes`: a row has its files, each picture once, but where a
  commit went unanswered or a picture could not be opened after its rendering.
  `SweepTakesOnlyLeftovers`: no file a row names, and none stored for a row still
  to come, goes with a sweep; but an avatar, whose key stays the same, may.
* `LedgerAddsUp`: the parts of each split make up its cost to the cent unless the
  two were read torn apart and written back, a budget
  that was read is the sum of its rows however it is cut, and the payments
  square everybody with fewer payments than people. `PackingInOrder` includes
  that leavers bring nothing.
* `FiguresAreTrue`: the count beside a tag is what its owner sees; an idea is
  kept in its normal form and costs something between its cheapest and dearest
  fare.
* `HistoryTellsTheIdea`: some entry of an idea's history has the title and author
  of now, and it is the newest, unless the change written last was overtaken by
  one that began after it.
* `AnswersKeepSecrets`: what a link shows lies outside every circle and holds
  nothing private, but for where a PNG or WebP sent as a file was taken; an
  address serves no more than its reader may read as it is
  opened.

Where code lets a race through, the property names it and excepts exactly that:
`row.late` (a sign-in that had checked the old password), `unseen` (a media
switch neither flushed nor read back), `past.doubtful` (a commit without an
answer, a picture not opened after its rendering), `past.stale` (a replaced size
that had changed), `past.overlapped` (two transactions on one gallery),
`past.overtaken` (a change of an idea written after one that began later),
`past.torn` (a cost and shares read apart), `StoredUnchecked` (a chosen route
stored against other ends than it was checked for), `past.late` and
`past.raced` (a request on its way when somebody left), `past.repriced` and
`past.bereft` (travellers counted anew, an account gone), pictures hidden while
a page is made. Section 4 says what happens in each.

Why these bounds are enough for the interesting cases to happen:

* A restore's troubles: one makes it roll back, a second hits the roll-back, a
  third hits the clean-up. Three restores let a failed one be followed by one
  that succeeds and one that meets its leftovers.
* Three periods and a request give four archives, so a rotation by days 1 or by
  a count of 2 can remove two of them and stop in between. Two troubles let a
  failing statement precede a crash, or a restored history follow one. Two configurations are
  needed only for the pass that reads both.
* Three restores: one that runs, one that asks while the first winds up, one
  after both. Two requests: one that asks for the restore and one in flight.
* Two readers share a rendering; one slot makes renderings of different pictures
  wait; two widths let a deletion fall between two stored previews.
* Two uploads and two workers are the smallest with a signal that is dropped;
  two requests for a walk are the smallest with the race on the flags.
* Three attempts stand for the six: one first, one in between, one last.
* The races of handlers are between two: one that has read and one that writes.
  Each pair of operations that touch the same rows meets, in every order of
  their steps; three at once are given where a third decides (a member removed
  while two requests of theirs are under way, a newcomer at shared work whose
  last reader leaves).
* Scenarios start from rows an earlier use would have left - a stay over two
  nights, a leg of two parts, a chosen route, a split by shares, an old
  unconfirmed account - so that short runs reach deep cases.
* Two requests a day for three searches, one memo for two answers, one slot for
  two tiles, allowances one picture short: every limit is met.

Every property has a mutant in `PROJECT.json`: a definition changed the way a
plausible mistake in that code would change it - a guard dropped, two calls
swapped, a result ignored - under which the property fails in the same run.

`itinerary`, `media_library`, `companions` and `sharing` check for deadlock: each
has one step of rest that is only allowed once everybody is done, so a request
that could not go on would be found. `CHECK_DEADLOCK FALSE` is said of the
others because their system really may stop: restores, requests, uploads,
messages and calls are bounded and, those done, nobody has anything to do; that
nobody waits for ever is what their liveness properties say (`accounts` has
none: a request may be refused, or fail, at any point anyway).

### Fairness

Assumed is only what the runtime gives:

* A goroutine that can go on does (weak fairness of its steps): restore steps,
  carriers, scheduler, workers, walks, readers and calls. Every call in them
  returns, because each runs under a context, a statement timeout or a network
  deadline; every client of another server has a timeout, so `Answer` comes.
* The scheduler's and the mailer's tickers keep firing (weak fairness of
  `SchedulerPass` and `Deliver`); the API's restore releases backups
  (`ResumeBackups`), which `ServiceGate` shows of its deferred calls.
* A send on a full channel queues, so a waiting rendering is not overtaken for
  ever: strong fairness of `TakesSlot`.
* `ClaimMail` takes the message that has been due longest, so each due message
  has its turn: strong fairness of claiming each one.
* Work whose context was cancelled returns. Work left alone need *not* end; a
  restore gets through all the same.
* `AtomicRestore` promises an answer to every restore (weak fairness of
  `Answer`); the staged restore keeps that promise by the fairness of its steps,
  which takes every path letting `restoreMu` go.

No fairness is assumed of requests, edits, crashes, faults, deletions being
asked for, or a client leaving. `EveryMessageEnds` excuses messages without a
deadline while delivery is switched off.

## 4. Noticed while modelling

Behaviour of the code worth knowing, none of it claimed as correct by a property
above. Restore and backup:

* A process that dies between the two switches of a restore leaves the new
  database with the old files, and nothing at start-up looks for it. The test
  comment at `backup/backup_test.go:1149` says the instance is never half
  restored; that holds for failing calls (`OneTroubleLeavesItWhole`), not for a
  crash.
* When a configuration is moved to another destination, rotation removes its old
  archives at the new one; an absent archive counts as removed, and the file
  stays for good (`backup/runner.go`, `rotate`).
* `HeldArtifacts` counts rows, not archives. When an archive was removed and
  marking its row failed, it goes on counting among those held; if the retention
  is raised afterwards, the next rotation may leave fewer archives than asked
  for. Without an edit it cannot: such a row stays outgrown, so it is never one
  of those a count keeps (`GoneInv`).
* `SFTPDestination.Store` reports a failed rename although the server may have
  renamed (`backup/sftp.go:461`): the run is recorded as failed, and an archive is
  there that no row names and no rotation removes.
* After a switch of the media link that could be neither flushed nor read back,
  `Activate` returns an error with the link switched, the stage is not marked
  activated, and `Close` removes the generation the link names: `NewLocalStore`
  then refuses to start on it. It takes two failing calls (`unseen`).
* A restored history lists the backup it came from as still running, since the
  snapshot is taken before the run is recorded as a success.
* `enterMaintenance`'s comment says that nothing but the restore touches the
  database until `leaveMaintenance`. The mail worker, the hourly sweep of
  `main.go` and the scheduler's reading of configurations do not go through
  `restoreGate`.
* A restore cancels background renderings, but asks for a new walk only when it
  succeeded (`httpapi/restore.go:366`).

Previews, mail, media:

* After storing previews, any error of opening the original again is taken for
  its absence, and the original is deleted though its row stands
  (`httpapi/previews.go`, `keepPreviews`); `StoredPicturesHaveBytes` excepts it.
* A QUIT that fails after the server accepted a message counts as a failed
  attempt (`mailer/smtp.go`), so it is sent up to six times.
* An upload whose commit succeeds unanswered deletes the file of a row that
  stands (`httpapi/media.go`, `storePart`). The favourites' limit can be passed
  by two requests at once, and two overlapping `SetLinks` leave the union of
  both. A failing `SetAvatar` deletes a picture still worn.

Accounts:

* Two reset links asked for at once are both open. A password change in flight
  commits after a recovery. A removed member may come back through an open
  invitation. Signing out while a refresh is in flight leaves the session alive
  under its new token.
* `trip_invitations` and `idea_invitations` have a CHECK that `ON DELETE SET
  NULL` breaks: an account that accepted an invitation cannot be deleted.
* Sign-in limits are checked and counted in separate steps. Invitation and trip,
  and users and codes, are locked in opposite orders by different transactions.

Plans, costs, lists:

* `DeleteDay` reads the position before it locks: of two removals at once, the
  second takes another day's place, and its words are lost.
* A calculation in flight overwrites a route chosen meanwhile; a chosen route of
  an older mode is accepted. A route is checked against the ends of the leg in
  one statement and stored against the input the leg had in another
  (`handlePinLegRoute`): if the ends change before the leg is read, back before
  they are checked and away again before the route is stored, it is kept for ends
  the leg no longer has. `RoutesFitTheDay` excepts exactly that route, and the run
  meets it. Clearing the cost of a leg with parts writes its parts again as they
  were read, over a change made in between (`httpapi/legsegments.go:341`).
  `fillFromTrack` and stale edits of titles, stays and
  places write back what they read. An evening mark goes with its story when a
  stay moves.
* Changing the number of travellers leaves splits by person of a cost per person
  as they were. An account deleted from a split leaves it without payer or
  share, and the next edit of that cost is refused. A thing may keep a bringer
  checked before they left.
* A cost and its shares are read by two statements outside a transaction
  (`DocumentRepository.Item` and `Stop`). A PATCH that leaves the split alone
  writes back what it read: with another's amount and shares committed in between,
  the old amount stands beside the new shares, which no longer "together make up
  the cost" (`domain/split.go`).
* `media/location.go:11` says that a picture sent to a reader from outside must
  not say where it was taken; `hidesLocation` (`httpapi/media.go:799`) takes the
  position out of JPEGs only, and a PNG or WebP is sent as it is stored.
* The order by relevance changes at midnight, so a list read across it may leave
  out a trip; the models except trips that moved.
* Two overlapping `SetTags` leave a union. The history is told "newest
  first" (`storage/postgres/ideas.go:592`, `httpapi/ideasharing.go:168`) by the
  moment transactions began: a change that was overtaken writes last, and is told
  of behind the one it wrote over. A picture hidden while a page
  is made is on that page still.
* A forced recalculation may join a call begun before its `Forget`. Requests in
  flight are uncounted after a crash. Counted hours are whole hours.

## 5. Proofs

TLAPS checks the following for every value of the constants that satisfies the
modules' assumptions; the assumptions are evaluated by TLC in the runs.

**RestoreCutover_proofs.** `IInv` says, at each `pc`, which names the schema of
the running restore and the replaced one carry (`SchemaInv`), that numbers not
yet given out are unused (`FreshInv`), what stage and link know of each other
(`GenerationInv`) and what the outcome says of the two (`OutcomeInv`). It is
needed because "exactly one loaded schema is public" is not inductive: `Rollback`
keeps it only because `dbStage.previous` is still there and still loaded. One
lemma per action preserves it. From it: `TypeCorrect`, `AlwaysOneLoadedDatabase`,
`SuccessMeansInPlace`, `OldDatabaseIsKept`. A second layer, `Inv`, adds what
holds while at most one thing went wrong, again one lemma per action. From it:
`OneTroubleLeavesItWhole`, `FailureIsUndone`, `ReportsAreTrue`, `LiveFilesStay`.
Its last part, `LinkInv`, supposes nothing about troubles: the generation of the
link, and the one it may be taken back to, are complete whatever failed, unless
the link was switched unseen. From it: `MediaLinkIsComplete`, `HalvesStayUsable`.
A third, `TidyInv`, follows
what a restore has made through its roll-back and its deferred calls while no
call fails and nothing crashes, refusals and shutdowns included: at each `pc` it
says which schemas and generations may exist beside the live ones, and that a
roll-back finds the link where it was. From it: `NothingIsLeft`. Finally
`StagedImplementsAtomic`: each step of the staged restore within those bounds is
a step of `AtomicRestore` or leaves what a reader sees unchanged; the mapping
shows the instance as it was before while the cutover is under way, which is
sound because the gate keeps readers out then (`NobodySharesARestore`).

*The gate* (`GateInv` in the same module) says who owns what at each step of a
restore's goroutine: the slot to the end, the hold until backups are resumed, the
gate from asking to unlocking; that working goroutines are tied to the context of
now; and that a stopped context has a restore to answer for it (`OnlyARestoreCancels`, part of
what `NobodySharesARestore` states). From it:
`GateTypeCorrect`, `NobodySharesARestore`, `CancelledByARestore`.

**OutsideServices_proofs.** That nobody waits on cancelled work and that one
thing has one live call are not inductive: a newcomer joins whatever the map
holds. `IInv` adds that the map never lies - the call it holds for an identity
asks for it, has not ended and is not cancelled - and the types of calls,
readers and kept answers. `Shared` is stated of any calls and any map, so that a
step that does two things (a leg goes on and lets the call of its route go) is
proved by two lemmas in turn: `GoingOnKeeps`, `JoiningKeeps`, `LeavingKeeps`,
`EndingKeeps`. From it: `SharedAlive`, for any number of readers, goroutines
and identities.

`LimitIsKept` is about a sum over hours that requests in flight are not part of
yet. `QuotaInv` says that `inflight` counts exactly the admitted requests that
`provider_usage` does not know of - on their way, or never recorded - each in the
hour it was admitted in: recording one moves it from one side to the other, and
`admit` decides on both. The fold over hours is counted as a set of pairs (hour,
number), whose cardinality the library's facts about finite sets reach. Requests
a restart forgot are excepted (`lost`).

*The outbox* (`MailInv` in the same module) says that the worker holds the message in hand
under a fresh claim, which keeps expiry away from it; that an open message at
rest has attempts left or a trouble to account for them; and that an open
message was accepted only as often as an acceptance was missed. From it:
`MailTypeCorrect`, `NeverSentWithoutReason`, `EmptiedWhenClosed`,
`AttemptsAreBounded`.

**BackupRuns_proofs.** `IInv` says that each job carries one configuration, that
no two carry the same, that `active` is exactly what is carried and that nothing
is while backups are held away. It is stated of any jobs, names and hold, with a
lemma for each thing a step does to them: `GoingOnKeeps`, `RestingKeeps`,
`ClaimingKeeps`, `ReleasingKeeps`. From it: `BackupsAreExclusive`.

`HistoryInv` is the second layer: until a history is restored, `Past` holds,
which every other step keeps. Its parts need each other. That a removal leaves
something to restore rests on what `Rotate` saw still being so when the archive
goes (`Excess`), which rests on nobody else carrying the configuration; that
nothing is scheduled twice rests on what the pass has yet to start
(`ScheduleInv`). From it: `HistoryStaysTrue`.

`KeptInv` and `GoneInv` are the third. The first says that the successes a count
keeps, all newer than anything on the list, stay until the rotation is over, and
that holds of restored histories too, because the database in every archive is
in order (`DatabasesInv`) and no history is restored while a carrier works. The
second says that an archive that is gone without being marked had been outgrown,
and still is as long as nobody edits or restores anything; so it is none of
those kept. From them: `RotationIsCareful`.

**Previews_proofs.** That nothing is kept once the deletion and the renderings
are over is not inductive. `IInv` says who will still remove a preview whose
original is gone: the deletion, with that width left to do, or a rendering that
is storing and has the original to check, or is clearing up with that width
left. From it: `NoPreviewIsOrphaned`, with no assumption on who renders.

*The shared work* (`PreviewWork`, in the same module). The four parts of
`WorkIsSharedOut` are inductive
together with the types; that at most one walks rests on `FlagTellsOfWalk`.
That the wave is exact needs one walk at a time. The sizes of the sets counted
and rendered are followed by lemmas on one element more or less. From it:
`WorkIsSharedExactly`, for any number of uploads, workers, walks and files.

**Accounts_proofs.** A transaction of `AccountStore` is looked at by itself first:
it `Leads` from one `Sound` database to another, creates rows or ends them, and
leaves alone what it holds no right to. What a request remembers - the account
it read, the codes it checked, that it counted administrators under the lock -
then stays true until it commits, because every other transaction only ends such
rows or leaves them; one request at most counts administrators. Each step is one
of four: an ordinary one, the end of a transaction that counted (`Governs`), one
of a browser (`Browses`), the end of the grace period. Accounts that administer
are kept by the second kind, and `BrowserInv` (each tab fits the shared token,
each token fits its session) by the third. From it: `InvHolds`,
`OneCanStillAdminister`, `SessionsFollowTheAccount`, `MailsWorkOnce`,
`OwnersOnlyDelete`, `TabsKeepTheSession`, for any accounts, sessions, requests
and starting databases that satisfy the assumptions.

**MediaGallery_proofs.** That a row has its bytes is not inductive: an upload
stores first and inserts later, removals go the other way, and a sweep deletes
with lists it read before either. `LibraryInv` says what keeps them apart. The
keys a request has yet to store are named by nobody else, no row, no other
request and no sweep (`NamesApart`); what it has stored is there and young, so no
sweep takes it (`FilesFirst`); files are only removed once their rows are gone,
or in doubt (`RowsGoFirst`, `TripsListPictures`); and what a sweep has not listed
is too young for it, what it found was named by nobody when it began and will be
by nobody (`SweepKnows`). The sums of bytes the allowances are checked on are
counted as pairs, like the hours of `LimitIsKept`. A rendering removes only what
it has noted as doubtful, or what is named no more. From it: `PicturesHaveBytes`
and `SweepSparesTheNamed`, which speaks of the files underway too.

`GalleryInv` is the second layer, over the statements of the transactions on
galleries. The rows a transaction holds are there, are of what it changes and
are nobody else's (`HeldApart`); a picture that is shown is not one still to be
stored (`ShownBefore`); and while no two transactions overlap, one works at a time
and what it has read is still so when it writes (`Alone`): the marks it carries
over fit, the rows it deletes are the whole gallery, the marks it counted are the
ones it commits. From it: `GalleriesAreAsAsked`. What `Scenes`, the states the run
starts in, have to satisfy is `ScenesAssumption` and `GalleriesAssumption`: what
the schema and the transactions guarantee of rows, that every row has its file,
that names made for new files are new, and that no gallery starts with too many
favourites.

**Sharing_proofs.** `IInv` is about lists. That an invitation lets one person in
rests on its row being spent by whoever it let in, on no identifier coming again
(`Inviting`) and on no account going that accepted one still kept (`InvitesInv`).
That the history tells an idea is not inductive once changes overlap: `Told` says
that some entry has the title and the author of now, and that it is the newest
unless the change written last was overtaken. A change that has begun
holds a stamp nobody else has and no entry bears (`StampsOK`), so an entry it
writes is the only one of its moment; and an entry newer than a change under way
is one noted in `past.written` (`Ordered`), so a change that was not overtaken is
told last. From it: `SharingInvariant`,
`InvitationsLetInOnce`, `HistoryTells`.

`SInv` is about what outsiders see. It says that homes lie in their circles and
those on a trip have accounts (`TablesOK`), what a request has read of a link, a
document and its pictures (`SeenOK`), that nobody holds the identifier of a link
still to be made (`MakersOK`, `TicketsOK`), and that what an address may still
serve was readable as it was opened (`OpenedOK`). Every step but one leaves tables
that are `Tighter`: nobody may read what they could not before, but through a link
just made, which no address names. So what was noted as an address was opened
stays enough (`ServedShrinks`). The one step that is not, somebody joining a trip,
notes anew what the addresses under way may serve. What the circles leave of a
document is proved of any document and any circles: no point of it lies in one,
even where a stop moved to the nearest point of its line (`OutsideHides`,
`NearestIsThere`), and nothing of it is the travellers' own (`OutsideTellsNothing`).
The circles hidden are read last, in the state the answer leaves in, so that a
home that moved while the page was made is hidden too. From it: `SecretsAreKept`.
`ScenesAssumption` asks of the tables at the start what columns, keys and the
transactions guarantee - among them that every idea has an entry that tells it -
and that identifiers of what is to be made are new; `RadiiAssumption` that the
bounds of a radius are numbers.

**Itinerary_proofs.** What `TripDocument` computes by sorting - the order of a
day, the order by time, the copies of a report - is proved from the rank of an
element among the others (`RankIsNumber` to `RankTaken`), so that no place of a
list is lost or met twice, for any finite document. Each write of a table has a
lemma on what it leaves alone, and the stay marks after `syncAnchors` are those
of the nights, whatever stood there before (`syncAnchors` needs `OneMark`, the
unique index on the marks of a day, and keeps it). On these rests one lemma for
each transaction (`AddDayKeeps` to `DeleteTrackKeeps`, `ReportMarks`): from
`Tables` and `DaysFill`, it leaves both, marks that match, and every place but
those it may take. That the days *fill* the period is a matter of counting -
`DaysFill` says that there are as many as dates, each within the period, and
`Distinct`, which the commit checks, that no two share a position. `DeleteDay`
needs that check: it closes the gap behind a position read before the lock, and
when the day has moved since, more days may be left than the shorter period has
positions, which only the commit refuses (`TooMany`). `IInv` adds what
each request has read: of the table it came from, however old it is. From it:
`DaysAlwaysFollowTheTrip` and `PlacesAlwaysSurvive`, for any documents, people
and requests that satisfy `ItineraryAssumption`: rows have the columns and
numbers of the schema, the document at the start is one an earlier use leaves,
and a request is one its handler lets through.

Where a proof goes by induction - over a finite set, or up or down a history -
it takes the least counterexample, or the smallest set that is one (`WFMin`,
which has no operator for a parameter): `Least`, `Greatest`, `FoldingCounts`.

Only model-checked: all liveness (`NobodyWaitsForEver`, `DueIsStarted`,
`EverybodyIsAnswered`, `EveryWishIsSeen`, `EveryMessageEnds`,
`EveryReaderIsAnswered` and the fairness half of the refinement), because TLAPS
does not reason about ENABLED; `RoutesFitTheDay`, which speaks of `FlattenSeq`,
a recursive operator; and, so
far, the allowances of the media (`AllowancesKept`), people, packing and costs (`Companions`)
and the figures beside tags and ideas (`FiguresAreTrue`). What `CostSplit`,
`TripBudget` and `TripListing` compute
by folding over sequences is compared with its definition by TLC only.

## 6. Not modelled, and why

* Rate limits: counters in memory that only refuse. Every call of `Accounts` may
  be refused by them, and nothing here depends on one being refused.
* Reports as PDF, translations, settings, profile and themes: layout, text, and
  forms that write one row in one statement.
* Parsing of tracks, polylines and links, geometry over real numbers, EXIF, type
  detection, scaling, the archive layout, encryption and SFTP: data and I/O, of
  which the models keep what the properties tell apart.
* The drawing of a static map, wire formats of providers, mail templates, the
  SMTP dialogue before the end of DATA: an outcome each.
* The web interface apart from its shared refresh; search text; sending a track
  through a link; the names of files inside a download.

Abstractions inside the modelled parts: schedules are "once a period" rather than
cron expressions, with all configurations due at the same moments; progress and
job wording are left out; a picture is decoded in one step; there is one
currency; points lie on a line; role and row are read in one step, and a budget
in one, where the code takes several queries (a cost and its shares in two);
requests are refused rather than
answered with the status each refusal has.

## 7. Plan

1. Proofs: `AllowancesKept` of the media modules, by the sums already counted in
   `MediaGallery_proofs`; the counts beside tags of `FiguresAreTrue`;
   `PackingInOrder` of `Companions`.
2. Composition of `ServiceGate` and `PreviewWork`, for the walk a failed restore
   does not ask for.
3. Tracks sent through links (`track/outside.go`) over the line of `OutsideView`.

Theorems are kept beside each module in `<Module>_proofs.tla`; modules meant for
proofs declare no RECURSIVE operator and name their constants' assumptions.
