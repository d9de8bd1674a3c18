# Verification of the MAGE server

TLA+ modules that model parts of the MAGE server, the TLC configurations that
check them on small instances, and TLAPS proofs about them. The reference for
every definition is the TypeScript and JavaScript code of this repository;
`PROJECT.json` names, for each definition, the lines it stands for. Paths below
are relative to the repository's root.

## 1. The system

MAGE is a server (Node.js, Express, MongoDB, files on disk) through which field
users share observations with attachments, and their locations, within events.
The process is single-threaded: a handler runs undisturbed from one `await` to
the next, and everything interleaves at the `await`s. There are no
multi-document transactions and no locks. What protects shared state is the
atomicity of a single MongoDB update, the version a mongoose document carries
for its arrays, and atomic `rename` in the file system. Timers drive background
work in the same process: the attachment job, the export sweep and the plugins.

Two facts about failures matter for all the modules. The Express 4 handlers are
`async` functions and nothing turns a rejected promise they return into
`next(err)`; there is no `unhandledRejection` handler either, so a rejection
nobody catches, of a request, a timer or the start of the server, ends the
process. And `README.md:188` of the repository has `forever` restart it. The
modules model such a rejection as a restart, which takes away all the volatile
state of every component. Handlers of domain events are the exception: their
emitter captures rejections and logs them (`service/src/app.ts:672-677`), so the
process goes on, and what the handler had left to do is not done.

### Components

| Component | State | Operations | Interacts with | Where it is hard |
|---|---|---|---|---|
| Attachment content (`main.impl.attachment_processing.ts`, `plugins.api.attachments.ts`, file-system store) | pending and final directories; status, staged id and retries on each attachment | upload, scan, publish, discard, retry, delete | observation document; hooks of plugins (ClamAV) | uploads, the job and edits patch one array from copies read before an `await`; files and document change in separate steps; crashes |
| Observation repository and application layer (`adapters.observations.db.mongoose.ts`, `app.impl.observations.ts`) | the observation document | save, patch attachment, queries; domain events after a save | uploads, job, search index, deletion of removed content | whole-record writes against element patches; document versions |
| Legacy observation model (`models/observation.js`, `routes/observations.js`) | the same document | favourite, important, states, update, archive | the same document, by other means | atomic `$addToSet`-style updates beside read-modify-write saves |
| Exports (`app.impl.exports.ts`, `adapters.export_archive.task.ts`, its store and repository) | record; archive file | create (answers early, goes on in the background), delete, download, expiry sweep, recovery at start | exporters of each format | record and file are two states; a background writer that outlives its request; sweeps over lists that age |
| SFTP plugin | plugin's records; polling loop | cycle, requeue, configure (stop, start) | observation queries, remote server | a page and a moving query time; versions that change while they are sent; loops that overlap |
| ArcGIS plugin | query time, pending updates, layer bindings | cycle, add/update/delete features, configure | observation queries, feature service | paging by a total read earlier; sends that are not awaited; a processor replaced while its answers are out |
| Image plugin | oriented flag and thumbnails on attachments; chain of intervals, watermark | interval, stop, start, configure | attachment patches, files of the attachment store | timer re-armed after a stop; failed interval not re-armed; files replaced while an upload streams |
| Events and teams, users, devices | documents that refer to each other | membership, access lists, cascading removal | all of the above, for authorisation | validation before write; cascades without a transaction |
| Feeds | services, feeds, events that show them | create, assign, remove | external services | removal across two collections |
| Locations | append-only tracks, latest position | add, read | events | none beyond ordering of batches |
| Search index | one row for each form entry; status on the event | index at boot or on request, update on saved observations | observation saves, events | handlers nobody waits for beside jobs; a rejection of a handler is only logged; a claim that outlives its job |
| Authentication, settings, layers, icons, migrations, web client | see `PROJECT.json` | | | exchanges with external services, single-step operations or no state |

What makes each correct:

- *Attachment content*: no unscanned content is readable; an acknowledged upload
  is never forgotten; success means readable content; removed attachments stay
  removed; everything pending settles; the retry limit is honoured.
- *Observations*: concurrent patches and saves do not overwrite each other where
  the code says they do not; what a single update set is undone by no save that
  did not have the observation in hand; states alternate.
- *Exports*: completed means a whole archive; running means somebody works on
  it; what settled stays; expired exports go; no file outlives its record
  except where the code cannot help it.
- *SFTP*: a success record is true; the remote copy never goes back; nothing
  written is forgotten; one polling loop; the rules and the timeout do what the
  plugin's README says.
- *Images*: the newest upload is kept, every image is oriented or given up, a
  disabled plugin stops, no chain of intervals is added but in the known case.
- *ArcGIS*: one feature for each observation, and the layer shows its last version.
- *Search*: a row shows what is stored, what is saved is found, an event is
  indexed by one job, and no claim stays.
- *Not modelled yet*: no dangling references (events, teams, users, feeds).

`PROJECT.json` lists the hazards at their lines, with the properties that watch
each.

## 2. What is modelled

| Module | Models | Extends / uses |
|---|---|---|
| `AttachmentProcessing` | uploads with hooks registered, the job, edits of the attachment array, deletion, restarts | |
| `AttachmentPromise` | abstract: what a client may count on for one attachment | instantiated in `AttachmentProcessing` |
| `AttachmentProcessing_proofs` | theorems, the refinement of `AttachmentPromise` among them | `AttachmentProcessing` |
| `ExportLifecycle` | record and archive of exports, their writers, deletes, downloads and the archive task | |
| `ExportLifecycle_proofs` | theorems | `ExportLifecycle` |
| `SftpSync` | the polling loop of the SFTP plugin, its records, the administrator | |
| `SftpSync_proofs` | theorems: one loop and what it sends, and the pages it reads | `SftpSync` |
| `ObservationRecord` | the save of an observation beside favourites, flag, states and the removal of a user | |
| `ObservationRecord_proofs` | theorems | `ObservationRecord` |
| `SearchIndex` | the search index: handlers of saved observations, indexing jobs, the claim on the event | |
| `SearchIndex_proofs` | theorems | `SearchIndex` |
| `ImageProcessing` | the image plugin's chain of intervals, beside uploads without hooks | |
| `ImageProcessing_proofs` | theorems | `ImageProcessing` |
| `ArcGISSync` | the ArcGIS plugin's cycle, its batches and the feature layer | |
| `ArcGISSync_proofs` | theorems: types and features | `ArcGISSync` |
| `ArcGISEdits_proofs` | theorems: what becomes of an edit | `ArcGISSync_proofs` |
| `MCAttachmentProcessing`, `MCSftpSync`, `MCObservationRecord` | values for the constants, and the symmetry set | the module they check; the others need none |

The observation document is in several modules, each with the part whose writers it
is about. `AttachmentProcessing` has the array of attachments, which uploads, the job
and saves write; `ObservationRecord` has the paths that single updates write;
`ImageProcessing` has the attachment as the image plugin and direct uploads patch it.
They are not composed: the image plugin's patches carry the processing status they read,
so with hooks registered they can overwrite a second upload as the job does in
`attachment_reupload`, and a save of the whole array can undo `oriented`. What `SearchIndex`, `SftpSync` and `ArcGISSync`
see of an observation is that it was written, and when.

Operators whose comment begins with `MUTANT of` are not part of the model: each
is a plausible mistake in the operator named, and shows that a property would
notice it.

### AttachmentProcessing

One observation with several attachments. Only the branch of
`StoreAttachmentContent` for a server with at least one hook is modelled.

| State | Code |
|---|---|
| `doc[a]` | the element of the `attachments` array: `processingStatus`, `stagedContentId`, `processingRetryCount`; `"absent"` when the array has no such element |
| `pendingDir`, `finalDir` | files of `FileSystemAttachmentStore`: `pendingBasePath` by staged id, `relativePath` by attachment |
| `upload[u]` | locals of `StoreAttachmentContent`; `seen` is the attachment it read first |
| `jobAt`, `batch`, `jobAtt`, `jobSeen`, `verdict` | program counter and locals of `processNextBatch` and `processPendingAttachment` |
| `edit[e]` | locals of `SaveObservation` and `save`: `seen` is the copy `prepareObservationMod` worked on, `base` the document `findById` gave, `stale` that its version has moved on |
| `removing` | attachments for which `AttachmentsRemoved` was emitted and the timer has yet to delete |
| `acked`, `scans` | history only: no action reads them |

An upload is `FindForUpload`, `StageContent` or `StagingFails`, `StorePatch`. A
job cycle is `findPendingAttachments`, then for each attachment `FindAttachment`,
`RunPipeline`, one of `SaveContent` / `DeleteStagedContent` / neither,
`PatchProcessed`. `UnexpectedError` is the job's catch. An edit is `PrepareEdit`,
`FindDocument`, `SaveDocument` or `VersionError`; `DeleteContent` runs later.
`ServerRestarts` is what a restart takes away: uploads and edits that were under
way, deletions not yet made, the job's locals. A stream cut short by it may leave
its file. `patchAttachment` is the positional update of the code: it replaces one
element by a record computed from the caller's older copy, and does nothing when
the element is gone; it does not touch the document's version, which is why an
edit does not notice it, while `SaveDocument` both checks and advances it.

Abstracted: an upload is identified with its staged id (`uniqid` makes them
unique) and its content; names, types and sizes are left out; the rest of the
observation is left out; the query for pending attachments has no sort, and the
model takes the natural order of the array.

### AttachmentPromise

Status and readable content of attachments, with nothing of how they come about.
`Publish` before `Confirm` because the code moves the file first. `GiveUp` at any
time while pending: a scanner that fails, or a restart between the move of a file
and the patch, ends in `error`. `KeepsPromise` is the refinement: `status` is the
status in the document, `content` is the file at the final path.

### ExportLifecycle

| State | Code |
|---|---|
| `record[x]` | `status` of the export's document; `"none"` before it is created, `"deleted"` after |
| `file[x]` | what is at the export's path: nothing, a part, or the whole archive |
| `opening` | `createWriteStream` returned its stream, and the file is not open yet |
| `writer[x]` | where `CreateExport`, and its background part, stands |
| `deleting` | `DeleteExport` removed the record and has yet to remove the file |
| `reader[r]` | `GetExportContent`: the record it found and its status then; opening the archive ends the step that matters |
| `task` | `ExportArchiveTask.run` (boot, fail) and `doTask` (expire); `left` is the list it read |
| `listening` | the server accepts requests: `run` is awaited before it listens |
| `strays` | history: deletions that failed, or were overtaken by a crash, a failed sweep or a writer without a file yet |
| `halfway` | history: writers that a crash stopped between the unlink and the update of the catch |

`Crash` covers the end of the process for any reason, a rejected promise at the
start included: `run` has no catch around its recovery. `SweepFails` is the catch
of `doTask`. The update that completes an export is two steps, `MarkCompleted` and
`CompletedAnswered`: the status is stored, and then `populate` asks for the user and the
event. `ExportFails` is a rejection in the background part, before, in or between the
two, and leads to the catch: `DiscardContent`, then `MarkFailed`. Each of the three places that
remove an archive goes through `Unlinked`, which may fail: the store then answers with an
`ExportStoreError`, at which no caller looks.
Expiration dates are abstracted to the moment they pass (`Expire`).

### SftpSync

| State | Code |
|---|---|
| `modified[o]`, `ready` | `lastModified`, and whether the content of all attachments can be read |
| `sync[o]` | the plugin's document: `status`, `lastModified` |
| `remote[o]` | the last version of the observation that was uploaded whole |
| `partial` | observations whose file on the remote server has a part of a version |
| `loop[l]` | one chain of `processAndScheduleNext`: where it is and what it has left to send |
| `isRunning`, `nextTimeout`, `startTime`, `skipDone` | fields of the controller |
| `saving` | requests that are between `stop` and `start` in `POST /configuration` |
| `aborted` | history: `PostFails` dropped the rest of a queue |
| `overlapped` | history: a save of the configuration started a loop beside one that was still alive |
| `torn` | history: partial files of which no outcome was recorded |

A cycle is `Wake`, `skipMissedObservations`, `FindPending`, `FindModified`,
`Connect`, then `createArchive`, `OpenRemote`, `Put`, `PostOutcome` per version, then
`EndCycle`. `client.put` writes the remote file in place, so from `OpenRemote` to `Put` the
file is neither version, and `SendFails` or a `Restart` leaves it so. The versions in a queue are those read when it was gathered, while
`createArchive` reads the attachments when it gets to them. The query for modified
observations names no order; it is read with the index on `lastModified`, oldest
first. A failure while gathering is caught only by the request that awaits the
cycle (`GatherFails`); otherwise it ends the process (`Restart`).

The code multiplies the timeout by 60000 (`controller.ts:447`), so it is in
minutes; the model has it in units of its clock. Every write gets a clock value of
its own, so ties in the same millisecond are not modelled: the query and the
comparison with the record both include equality.

### ObservationRecord

| State | Code |
|---|---|
| `doc` | one observation: whether it is stored, whether it names the user who made it, `favoriteUserIds`, `important`, `states` with the ids of each, the version of the document |
| `save[s]` | a request between the reads of `SaveObservation` and of `MongooseObservationRepository.save`: `seen` is the copy the first one read, `base` the second |
| `userRemoved` | the user was taken off the observations he made |
| `wish` | history: what the last answered updates asked for |
| `exposed` | history: updates a save in hand was about to undo when they came |

A save is `findExisting`, `Refused` or `findBeforeDoc`, then `UpdateDocument`,
`InsertDocument`, `VersionError` or `DuplicateId`. `Written` is what mongoose sends
after `beforeDoc.set(...)`: the paths whose values differ between the two copies, over
what is stored by then. A flag that is not set is not a value to write; an array is
written whole, on the condition that the version is still that of `base`. The other
updates are one `findOneAndUpdate` or `updateMany` each and touch no version. The two
errors are thrown in a handler nothing catches, so they restart the process.

An observation that the first read does not find is, for the request, a new one (`Blank`): it
names the user who asks and has the one state `active`, which gets an id of its own when it is
written (`Pending`, `NewId`). If the second read then finds it, the states differ in that id
at least and are written whole. `removeUser` is the `updateMany` over observations alone: it runs
in parallel with the other steps of the removal of a user, and requests that were
authenticated before it go on, so they may begin, read and insert after it. Abstracted: two creating saves of one
observation are of the same user, and the arrays `properties.forms` and `attachments`, which
a save also writes whole, are left out, so that a save advances the version less often
than the code does.

The four properties about updates name the same window: a save writes an older value
over an update only if it had read the first copy before and either had yet to read the
second, or had found the two to differ already; a first copy of an observation that was not
there yet is such a copy. Outside of that window, and for a save that inserts the
observation, what was asked for last is what is stored. An observation that is inserted after
the removal of its user names him (`exposed` has `"user"` then).

### SearchIndex

| State | Code |
|---|---|
| `doc[o]` | the stored observation: the number of its last save, and its form entries |
| `index[o][e]` | the row of a form entry: the version it shows; rows are unique by the entry's id |
| `status` | `observationSearchStatus` of the event |
| `handler[s]` | what the handler of `ObservationEmitted` of one save has left: delete, then insert entry by entry |
| `job[j]` | `indexEvent`: what it read of the event, the id it has got to, the batch it collects |
| `unsettled` | history: observations two writers had in hand at once, or whose handler was cut short, and which no handler that had them to itself, nor a forced job, has made good |
| `unfound` | history: observations whose handlers crossed or were cut short, or that a job failed to index, since the last job began or an edit alone did |
| `alone`, `robbed` | history: who met whom |

`Save` stores the observation and starts its handler, which nothing awaits. A handler is cut
short (`CutShort`) by the unique index, when another writer has inserted a row since
(`HandlerThrows`), or by the database, which may fail the deletion or an insertion
(`HandlerFails`): the ordered `insertMany` stops there, the emitter logs the rejection, and the
entries left stay without a row, or the old rows in place. A job is `Request`, `ResetStale` or not, `claimIndexing` or `SkipRunning`,
`Clear` when forced, then `ReadNext`, `insertIgnoreDuplicates` and `Flushed` until
`Indexed` or `IndexingFails`. The boot is a job that is not forced and begins again with
every restart. Saves may bring back an entry that another one removed, which is why
entries keep their identity from save to save.

### ImageProcessing

| State | Code |
|---|---|
| `attachment[a]` | `contentLocator` (as: has content), `oriented`, and `lastModified` of its observation |
| `file[a]` | the file at its path: which upload's content, and whether partial, whole or oriented |
| `upload[a]` | `StoreAttachmentContent` without hooks: the stream into that file, then the patch from the copy read before |
| `interval[i]` | one chain of `processAndScheduleNext`: its timer, or where in `processImageAttachments` it is |
| `control` | `stopped`, `runningInterval` and `nextTimeout` of the controller |
| `waiting` | requests that await the interval that was under way in `stop` |
| `watermark` | `latestAttachmentProcessedTimestamp` |

A configuration is `applyConfig`, which includes `stop` and, when no interval is at work,
`start`; otherwise `start` comes with the end of that interval (`Ends`). An interval is
`TimerFires`, `GetConfig`, `FindUnprocessedAttachments`, then for each image `FindById`,
`autoOrient`, `SaveOriented`, `PatchOriented`, `PatchThumbnails`, or `OrientFails` and
`MarkOriented`; then `ScheduleNext`, or `IntervalFails` in any step after `GetConfig`, a patch
after its rename included. `SaveOriented`
is a rename, so a stream that is under way goes on into the file that was replaced
(`FinishStream`). Thumbnails are written one by one by the code and only their patch is
modelled.

### ArcGISSync

| State | Code |
|---|---|
| `doc[o]` | `lastModified`, whether it is archived, and whether its timestamp is before the date of `syncAfterByEventId` (`early`) |
| `layer[o]` | features of an observation in the layer by object id, with the version each shows |
| `config`, `proc` | the stored configuration, and that of `_previousConfig` |
| `link` | `_layerProcessors`: made for `proc`, or empty because the requests for the layer failed, or not made yet |
| `time[p]`, `pending[p]` | `lastTimeStamp` and `_pendingNewAndUpdates` of each processor |
| `loop[l]` | one chain of `processAndScheduleNext`: its timer, the page, the total, what it sends |
| `batch` | calls of `processArcObjects` in flight, with the requests each has yet to make |
| `again`, `doubtful` | history: observations read while one was on its way, or otherwise not read cleanly |

A cycle is `updateConfig`, `processPendingUpdates`, `SendPending`, then `queryAndSend` for
each page, and `EndCycle`. A batch is `processArcObjects`, `SendBatch`, `sendDelete` and a
`queryObservation` for each observation that has a feature; nothing awaits any of them, so
they interleave with each other and with the next cycles. Every request may fail, which is
logged; when it is the sign-in or one for the layer itself (`LayersFail`), there is no processor, and
the configuration counts as the one before, so the next cycles (`NoLayers`) do nothing but arm
their timer. Observations of before the event's date are read, counted and passed over
(`Synced`), archived ones are not. `putConfig` clears the timer and begins a cycle. The total is counted by the first
page and lowered by each, while the list may grow between two pages, so `left` can fall below
zero; the cycle then ends as at zero (`morePages`). Abstracted:

- One event and one layer, with the same date in every configuration, and forms that are not
  edited (they are part of `_previousConfig`). Of the attributes and the geometry of a feature the model keeps the version.
- The requests of `updateConfig` are one step, so no other cycle begins while they are out.
- The query for existing observations (`queryDistinct`) is answered with all of them, or fails.
  The code does not ask for a next page when the server cuts the answer at its limit; the
  model says what happens up to that many observations.

## 3. Runs

Each passing run has, for every property, at least one mutant that violates it
under the run's own configuration.

| Run | Instance | Shows |
|---|---|---|
| `attachment_parallel` | two attachments, an upload each, one of them malware, 2 retries, 2 faults | no acknowledged upload is lost, the retry limit is honoured, the promise is kept with its liveness |
| `attachment_edits` | two attachments, two uploads for one, one editor with two edits, 1 fault | success is readable, removed stays removed, pending settles |
| `attachment_two_editors` | one attachment, two uploads, two editors | only scanned content is published, though everything collides |
| `exports` | two exports, one download, 1 fault (of an unlink, a sweep or the background part), 1 restart | record and archive agree, a running export has a writer, no archive is left behind but in the known cases, a completed one is downloaded whole, settled exports stay settled but for a completion taken back, expired ones go in the end |
| `sftp_loops` | two observations, page of two, two loops, 2 requeues or saves of the configuration, 1 fault | a stop brings the loop to rest, success records are true unless an upload was torn by a restart, nothing slips, the remote copy does not go back, until a loop is started beside another |
| `sftp_uploads` | three observations, page of two | every version is followed by its upload, though the page is too small for all |
| `observation_record` | an observation that is there or not yet, two users, two flags, two saves, 3 updates | no save undoes an update but in the window above; states alternate |
| `search_index` | two observations, one of them edited, two form entries, two saves, a forced job beside that of the boot, 1 failure or crash | rows show what is stored and what is saved is found, unless writers crossed or a handler was cut short and nothing made up for it, one job at a time unless its claim was taken, no claim stays |
| `image_processing` | two images, batches of one, two uploads, 1 change of the configuration, 1 fault | the newest upload is kept, every image is oriented or given up, a disabled plugin stops, a stop costs at most one chain too many |
| `arcgis` | two observations, pages of one, two batches in flight, one edit, 2 upsets | one feature for each observation, and the layer shows its last version, unless it was read while an earlier one was on its way or the requests for the layer failed |

Runs that find a disagreement between the code and what is said of it:

| Run | What TLC shows |
|---|---|
| `attachment_reupload` | upload 2 is acknowledged while the job processes upload 1, whose outcome overwrites it: upload 2 stays staged for ever |
| `arcgis_pages` | an edit between two pages moves an observation out of the second, and no later cycle reads it |

More disagreements were seen while modelling, and have no run of their own. Each is a
behaviour of the modules, or of code they leave out where that is said:

- An unexpected error between the move of the staged file and the patch
  (`main.impl.attachment_processing.ts:51-55`) leaves the attachment pending with its
  staged file gone; the next cycle then ends it in `error`, though the comment in that
  file (`:20-21`) has it "left as-is to be retried on the next cycle".
- Of two saves that overlap, the later one meets a `VersionError` when both write an array
  (`adapters.observations.db.mongoose.ts:66`), and no handler turns that into an answer,
  though `entities.observations.ts:813-816` has the client that saves last win.
- An upload to an attachment that was processed before starts with the retries the
  earlier one used (`app.impl.observations.ts:188` sets the status and the staged id,
  and success and rejection keep the count), so it may be given up after one
  failed scan, though `plugins/clamav/README.md:16` says "retried on the next
  cycle, up to a configured retry limit". With two uploads for one attachment TLC
  violates `RetriesBeforeGivingUp`; with one for each it holds.
- `GetExportContent` opens the archive of any export it finds. A running export is
  downloaded as far as it was written, though `service/src/docs/openapi.yaml:2997`
  says "Download a completed export". `CompletedReadsWhole` states what does hold.
- An export may become completed and then failed: when the update that completes it is stored and
  its `populate` rejects (`adapters.exports.db.mongoose.ts:206-215`), the catch removes the archive
  under a record that says completed, and only then says failed. A crash between the two leaves a
  completed export without an archive for good. `CompletedIsWhole` and `SettledStays` name
  these states.
- An archive whose unlink fails stays after its record is deleted, and no later sweep can find it
  (`adapters.export_store.file_system.ts:49-53`, an error no caller looks at). `OnlyKnownStrays` has it
  among the known ones.
- The SFTP plugin writes the remote file in place (`controller.ts:457`). A restart while the second
  version of an observation is uploaded leaves a part of it there, with the record still telling
  the success of the first. Both were written before the new start, so neither is sent again:
  the remote server keeps a broken archive (`torn`).
- When the database refuses an outcome (`controller.ts:465`), the rest of the queue is dropped;
  what it held may lie behind the time of one that was sent, and is then not read again.
  `NothingSlips` excludes it (`aborted`).
- The SFTP plugin sends an incomplete archive before the timeout and holds it back after
  it (`controller.ts:450`), though `plugins/sftp/README.md:32` says an observation is
  retried "until a configurable timeout is reached, at which point it uploads whatever is
  available".
- A save of its configuration during a cycle (`controller.ts:150`) leaves two polling
  loops, of which `plugins/sftp/README.md:9` knows one: `stop` does not wait for the cycle,
  and after `start` the cycle finds the plugin running and arms its timer again. Such a
  state has `overlapped`; what the module states, it states up to there.
- Under a full page, a pending observation that is sent raises the start of the SFTP query
  past one the page had left out (`controller.ts:356`), which is then not exported as
  `plugins/sftp/README.md:3` has it. With a page of one TLC violates `NothingSlips`.
- Under the `Create` rule of the SFTP plugin, sent observations that are edited keep
  matching the query without raising its start (`controller.ts:359`), so enough of
  them fill every page and a new observation is not read.
- A handler of the search index that rejects is logged and no more (`app.ts:672-677`). If the
  deletion failed, the old rows go on matching; if an insertion failed or met a row of another
  writer, the ordered `insertMany` (`adapters.observations.search.db.mongoose.ts:96`) leaves the
  entries after it without a row. The next save of the observation, or the next job of its
  event, makes up for it: a forced one for both, the one of the boot for missing rows only.
- A save that was begun for a new observation and finds it stored when it reads again sets its
  states to `active` with a new id, so an archive that was asked for in between is undone
  (`adapters.observations.db.mongoose.ts:51-58`, `entities.observations.ts:200-206`).
- A request of a user that was authenticated before he was deleted may store a new observation
  that names him after `removeUser` has passed (`app.impl.observations.ts:398-424`); nothing takes it off again.
- After a failed sign-in or request for a layer the ArcGIS plugin has no processor for it and never
  asks again, until its configuration or a form of its events changes or the server restarts
  (`ObservationProcessor.ts:194`, `380-393`), while `plugins/arcgis/README.md:3` has edits
  reflected "on the next poll cycle". `EditsReachLayer` excludes the time this lasts.
- An observation whose timestamp is edited to lie before the event's `syncAfterByEventId` keeps the
  feature it had, in its old version (`ObservationProcessor.ts:516`).
- `stop` of the image plugin is to "cancel the recurring processing intervals and wait for
  the current interval to finish" (`plugins/image/service/src/processor.ts:139-142`). The
  interval that was under way arms its timer all the same, and the start that follows
  adds a second chain. `NoOtherChain` states the bound that holds, and with `1` in place
  of `1 + interrupted` TLC violates it.
- Saving the image plugin's configuration without `thumbnailSizes` stores an empty list
  (`plugins/image/service/src/index.ts:81-85`), where every other missing setting keeps
  its value. The settings of thumbnails are not in the module.
- A save of the ArcGIS configuration during a cycle begins a second one
  (`ObservationProcessor.ts`, the route and `processAndScheduleNext`). The end of the first
  moves the query time of whichever processor there is then, so the second may skip pages;
  and once its query finds nothing while some are left to count, `queryAndSend` returns the
  same number left again, and the cycle goes on without end.

Bounds, and why they are enough:

- Two attachments, exports or observations are what a collision or an overtaking
  needs; a third observation is there where the page must overflow. Two uploads
  and two editors make every pair of actors meet; the job and the archive task
  exist once.
- `MaxEdits = 2` lets an edit add an attachment and another remove it, and lets two
  editors overlap. `MaxFaults`, `MaxCrashes` and `MaxAdmin` are small since one
  fault at each possible step already gives every partial failure; two let a
  retry be hit as well.
- `RetryLimit = 2` is the least with a retry that is not the last, `BatchSize = 1`
  makes a batch leave attachments out.
- `MaxTime` bounds the writes and ticks of `SftpSync`: five let two observations
  be written twice, and the clock pass the timeout.
- `sftp_loops` has room for two loops, so that a save of the configuration comes in any
  state of a cycle. `UntilOverlap` ends a behaviour where a second loop is started
  beside the first: from there on every property of the run but `TypeOK` says nothing,
  and `TypeOK` is proved without that restriction (section 4). The `SftpSync` runs without
  liveness set `CHECK_DEADLOCK FALSE`: once the clock is at its bound a loop that
  was ended by a failed gather has nothing left to do, as in the code.

- `observation_record`: two saves of which each can have read before or after the other,
  and three updates, so that one is undone and a third asks again; `MaxVersion` bounds
  the saves that write an array, two being what makes a version error possible twice.
- `search_index`: `BatchSize = 1` makes every row a batch, so that a job is interrupted
  between any two; two observations let it pass one and come to the other. Two saves of
  one observation are what handlers need to cross, so only one is saved (`Edited`), and the other
  is there with one entry or not at all (`Existing`). Two entries are the least of which a
  handler inserts one and is cut short at the other. Failures and crashes share a bound of
  one; handlers that meet a row of another writer come on top.
- `image_processing`: `BatchSize = 1` leaves an image for the next interval, two uploads go
  to one image or to two, and one configuration change may come in every state. A chain
  is never reused, and `MaxConfigs + 1` of them suffice.
- `arcgis`: two upsets are a failed request for the layer and the change of the configuration
  that makes good for it. One edit makes an observation `early` or archived; that one of before
  the date comes to lie after it is in the proofs alone. A page of one is what makes the second page of two observations a query of its
  own. `MaxBatches = 2` holds a third page until one of the batches is done. `MaxChains = 1`
  is a restriction: a save of the configuration comes only while no cycle is under way. With
  two chains the state space is beyond a run of minutes; what two cycles at once do is in the
  list above. `OneFeature` is proved for any number of chains (section 4), while what the run
  shows of `EditsReachLayer` is for one.
- `CHECK_DEADLOCK FALSE` in `search_index` and `image_processing`: a system whose requests are
  bounded and whose jobs are done, or whose plugin is disabled, may stop.

`SYMMETRY` is used in runs without liveness properties only: over observations and loops in
`SftpSync`, and over users, flags and saves in `ObservationRecord`, which no definition
orders.

### Fairness

- `AttachmentProcessing`: weak fairness of the job's steps. The loop re-arms its
  timer in a `finally`, and every call it awaits answers or throws. Nothing is
  assumed of clients, who may abandon a request at any step.
- `ExportLifecycle`: weak fairness of the archive task's steps; the timer is
  re-armed whatever a sweep met with. Nothing is assumed of writers, requests and
  readers.
- `SftpSync`: weak fairness of each loop's steps: its timer fires, and the
  database and the remote server answer. `LatestVersionUploaded` carries its own
  premise, that no attachment is outstanding.

- `SearchIndex`: weak fairness of each handler's and job's steps, which the database
  answers, and of the start of the boot job. Nothing is assumed of administrators.
- `ImageProcessing`: weak fairness of each interval's steps. Nothing is assumed of uploads or
  administrators, and an interval that fails is not started again, which is a premise of
  `EventuallyOriented`.
- `ArcGISSync`: weak fairness of each cycle's and each batch's steps; every request is
  answered or fails. Batches are numbered by age, so a batch that stays the oldest goes on.
- `ObservationRecord` has safety properties only, and no fairness.

Faults are bounded, so a liveness property says what happens once they have
stopped, not that it happens in spite of infinitely many.

## 4. Proofs

Eight modules, each for every value of the constants its model admits. A theorem that
needs more than the model's own assumption says so in its ASSUME; each such hypothesis
below comes with what TLC shows when it is dropped.

### AttachmentProcessing

`AttachmentProcessing_proofs` holds for every set of attachments, uploads and
editors, every assignment of uploads to attachments, every retry limit and batch
size, and any bound on edits and faults.

- `TypeCorrect`: `Spec => []TypeOK`. A lemma for each group of actors, with a step
  per action; `patchAttachmentType`, `ProcessedType` and `RecordsType` say what the
  operators return.
- `PublicationCorrect`: `Spec => []OnlyScannedContentPublished`. The property is not
  inductive: nothing in it says what the job is about to move. The invariant
  `PublicationInv` adds `ScannedBeforeMove`: when the job is about to move a file,
  that file, the one in the copy it read before the scan, is clean. It is
  preserved because an upload or an edit changes the document and not the job's
  copy, `RunPipeline` lets only a clean file through, and no other action enters
  that state.
- `RetriesBeforeGivingUpCorrect`, when each attachment gets one upload
  (`OneUploadEach`). The count of failed scans travels: the job writes it to the
  document, edits carry it in the copies they save, an upload takes it over from
  the record it read. `RetryInv` says of each of these places that it counts no more
  than the scans there were (`Counted`), and of the job that what it gives up was scanned
  `RetryLimit` times. With a second upload for an attachment TLC violates it, since the
  count of the first is kept (section 3).
- `SuccessHasContentCorrect` and the action property `RemovedStaysRemovedCorrect`, when one
  client at a time edits the observation (`OneEditor`). `ContentInv` has three parts:
  the copies of an edit agree with the document on which attachments there are
  (`CopyInv`), so that the save brings none back; what is to be deleted is gone from the
  document and from every copy, for good (`EditInv`, `Gone`); the job says success
  only once the content is in place, or to an attachment that is gone (`MovedInv`).
  With two editors TLC violates both properties: the one that saves last brings back what
  the other removed, the content of which is then deleted.

The last part of the module adds that nobody edits (`NobodyEdits`) to `OneUploadEach`.
`TrackInv` ties an attachment to the one upload that was acknowledged for it: it waits for
that upload while pending, its final path has that upload or nothing, the file is staged or
final and never both, and the record the job holds is still the one in the document.

- `AckedUploadTrackedCorrect`: no acknowledged upload is forgotten, whatever other uploads
  and crashes come between. Without `OneUploadEach` this is `attachment_reupload`; with
  one editor TLC violates it too, since an edit saves the status it read before.
- `PromiseRefined`: `Spec => Promise!Spec`, the steps of the abstract attachment, when all
  attachments are there at the start. `StorePatch` maps to `Accept`, `SaveContent` to
  `Publish` (what is moved was scanned, by `PublicationInv`, and nothing was published
  before), `PatchProcessed` to `Confirm`, `Reject` or `GiveUp`, or to none when the scan is
  to be repeated; every other step, a crash included, maps to none. The fairness of
  `AttachmentPromise` is left to `KeepsPromise` and TLC.

### ExportLifecycle

`ExportLifecycle_proofs` holds for every set of exports and readers and any bound on
failures and restarts, under `ExportAssumption`. One inductive invariant,
`LifecycleInv`, carries all its theorems; `LifecycleCorrect` states it. None of the
properties is inductive alone, since each depends on where the actors stand:

- `QuietStart`: before the server listens only the task is at work. That is what makes
  it safe to fail every running export at the start.
- `WriterInv`: where a writer stands tells the status of its record, unless it was
  deleted. A running record without a writer is one that the start has yet to fail.
- `FileInv`: how much of the archive there is, by where its writer stands and whether
  the file was opened. A completed export has none only when its writer has unlinked it in
  the catch and is about to say failed, or was stopped there (`halfway`).
- `TaskInv`: what the task holds was read earlier: records to fail are still running,
  the archive it is about to delete is nobody else's.
- `StrayInv`: what a deleted record may leave behind, before and after the file exists; an
  unlink that fails makes it a known stray.
- `ReaderInv`: the writer of an export that a download found completed writes no more.

`InitLifecycleInv`, `NextTypeOK`, `WriterKeepsExports`, `RequestKeepsExports`,
`TaskKeepsExports` and `StepKeepsReaders` show that it holds at the start and is
preserved, action by action. The theorems that follow from it are `TypeCorrect`,
`CompletedCorrect`, `RunningCorrect`, `StraysCorrect`, `ReadsCorrect` and, for the
action property, `SettledCorrect`. `TypeOK` itself needs the invariant: that no delete
request is at work on an export about to be created follows from `WriterInv`.

### ObservationRecord

`ObservationRecord_proofs` holds for every set of users, flags and saves and any bound on
updates and versions, under `ObservationRecordAssumption`, which keeps the names used in
`exposed` apart. `RecordCorrect` states the inductive invariant `RecordInv`; the properties
are not inductive, since none of them says what a save has in hand:

- `Unset`: an observation that is not stored, and any copy of one, has nothing set but a
  pending active state. So a save that inserts the observation brings nothing old.
- `CopiesInv`: what a save read first was stored when it read the second copy, and still is.
- `FavoriteInv(u)`, `StateInv`, `ImportantInv`: for a part that is not exposed, the stored
  value is what was asked for last, and so is the value in the first copy of every save
  that is yet to write it. The first is stated user by user, so that an update for
  one user leaves the others alone.
- `UserInv`: every copy names the user until he is removed; from then on, unless that is
  exposed, the observation is there without him, and a save that still names him found him
  named in its second copy as well, and so does not write him.
- `StatesInv`: states alternate in the document and in every first copy.

`FindExistingEffect`, `FindBeforeDocEffect`, `WriteEffect` and `InsertEffect` say once what each
step of a save changes; the six `...Preserved` lemmas use them, with a step per action.
`AlternateGrows` is the fact about sequences behind `addState`.

### SearchIndex

`SearchIndex_proofs` holds for any number of observations, every set of form entries and of
requests, every batch size, and any bound on saves and mishaps, of which a mishap may cut a
handler short at any call. `IndexCorrect` states
the inductive invariant `IndexInv`; from it follow `TypeCorrect`, `OneIndexerCorrect` and
`NeverStaleCorrect`:

- `ClaimInv`: a job at work whose claim was not taken away has the event marked running.
  That makes `OneIndexer` inductive: a claim is only given on an event that is not running.
- `HandlerInv(s)`: the handler of a save that met no one has the observation to itself, it is
  the save that was last, and each entry's row is fresh, or gone and still to be inserted.
- `JobInv(j)`: a forced job that met no handler has left no stale row behind it.
- `QuietInv(o)`: of an observation that is not unsettled, every row, and every row of a
  batch on its way, is as stored, unless its one handler is at work. `HandlerSettles` and
  `CutIndexInv` are the two ways in which a handler ends: with the observation to itself, which
  settles it, or cut short, which leaves whatever rows there are.
- `StartedInv` and `BatchInv`: handlers are those of the saves there were, and a job has rows
  in hand only between its clearing and its end.

### SftpSync

`SftpSync_proofs` holds for every set of observations and of loops, both rules, every page
size and timeout, and any bound on time, requests and faults. `SyncCorrect` states `SyncInv`:
types; what a loop holds in each phase (`PhaseInv`); that a version is read after it
was written and sent after it was read (`VersionInv`); and, until loops overlap:

- `AloneInv` and `TimerInv`: one loop is alive, and when it sleeps a stop clears its timer.
- `QueueInv(l)`: a queue has an observation at most twice, as pending and as modified, the
  older version first; nothing in it is older than the version sent or the remote one.
  The two are read at different times, and this order is all that keeps the
  remote copy from going back.
- `SentInv`: `SuccessIsUploaded`, to which that order comes down when an outcome is recorded.

From it follow `TypeCorrect`, `StopClearsTimerCorrect` and the action property
`RemoteNeverRegressesCorrect`; `SuccessIsUploadedCorrect` needs a second invariant as well, `PartInv`: a
partial file of an observation recorded as sent is one that a loop writes, or has yet to
record the failure of, or that was torn.

The second half of the module has `NothingSlipsCorrect`, for finitely many observations that fit
a page.
When they do not fit TLC violates the property (section 3). `MaxExists`, `QueryReach` and
`WholePage` say what the query returns: every observation that was modified at the time of the
last success, or since. `PageInv` follows an observation that falls behind that time
(`Behind`, or `Beyond` once what is in hand is sent): it is in the queue as it is now, or its
record shows pending or failed (`ReachInv`), and what was found pending is still pending
when the page is read (`FoundInv`).

### ImageProcessing

`ImageProcessing_proofs` holds for every finite set of images, every batch size and any bound
on uploads, configurations and faults. `ImageCorrect` states `ImageInv`, from which
`TypeCorrect`, `NoOtherChainCorrect` and `NewestUploadKeptCorrect` follow:

- `ChainInv`: the bound of `NoOtherChain`, and that there is one chain fewer while the plugin is
  stopped, or when neither the interval begun last nor the timer armed last is there. That
  accounts for every `stop` that met an interval and for the `start` that follows.
- `KeptInv`: what an upload wrote is in the file, and is what an interval that is about to
  move an oriented image there has read.
- `WorkInv`: an interval has an attachment at hand while it works on one.

The lemmas about chains count them: a chain that begins, ends, or both, and what that does to
the cardinality.

### ArcGISSync

`ArcGISSync_proofs` holds for any number of observations, every page size, and any bound on
batches and chains of cycles at once, on writes, and on saves of the configuration, failed
requests and crashes. `SyncCorrect` states `SyncInv`, from which `TypeCorrect` and
`OneFeatureCorrect` follow. `OneFeature` says nothing of what is on its way to the layer, so it
is not inductive. `SyncInv` has, besides the types:

- `ClockInv`: no two observations were last modified at the same time, which is what lets the
  list of a page be sorted at all; a save of the configuration that changes it is counted.
- `PhaseInv`: what a batch and a cycle hold in each phase.
- `FeatureInv(o)`, for an observation that is not in `again`: it is held once, by one of all
  batches in flight, the lists processors have pending and the requests of cycles
  (`AloneInv`, `OnceInv`); it has no feature while it is about to be added (`NewInv`), and one
  feature at the most (`SingleInv`).

A step either leaves an observation with who holds it (`FewerHolders`, with `SameBatches` and
`RestHolds` for the two shapes of a step), moves it from a page to the adds or the queries of
its batch (`SortFeature`), from a query to what is pending (`QueryFeature`) and from there to a
cycle (`PendingFeature`), or sends it, after which nothing holds it (`SendFeatures`). A page
takes what nothing holds; what something does hold goes into `again` (`PageFeature`). So the
query for existing observations, made while their adds may be under way, is the one place where
a second feature comes from, and the theorem covers what the run does not: two chains of cycles
at once, after a save of the configuration in the middle of one.

Lists are the other half of the module. `Kept`, the loops that filter, is a recursive function,
and what it returns for every list is proved by the least counterexample (`LeastNatural`,
`KeptPicks`), as are the sorted list of a query (`SortedExists`, over subsets) and the last of
several updates (`GreatestNatural`). `AddedLayer`, `UpdatedLayer` and `DeletedLayer` say what each
request does to the layer, `RestMoves` where the other batches are when one leaves the list.

`ArcGISEdits_proofs` follows an edit, for every value of the constants again. Five theorems:

- `VersionsCorrect`: no version on its way is newer than the stored one; and one version of an
  observation is on its way at a time, no older than what the layer shows, unless the
  observation is in both `again` and `doubtful`: it was read while an earlier version was on
  its way, and not cleanly since.
- `LayerNeverRegressesCorrect`, an action property, under the same condition: no request puts
  an older version over a newer one, though updates are sent without waiting for each other,
  and some of them twice (`processArcObjects` sends what is pending and leaves it there).
- `NothingLostCorrect`: the last version of an observation that is not doubtful is shown, or of
  before the event's date, or on its way, or going to be read, whatever overlaps, fails or
  restarts. While there is no processor, because the server starts or the requests for the
  layer failed, nothing is going to read it; what the theorem says then is `Unlinked`: the
  processor made next begins from nothing. This is what `EditsReachLayer` needs besides
  fairness, and the change of the configuration or restart that its premise waits for.
- `ReadIsShownCorrect`: what was modified before `lastTimeStamp` and is not in flight is shown,
  so that the next cycle may begin there.
- `SafeCorrect`: the invariant they rest on.

`NothingLost` is not inductive: that the last version is on its way is worth nothing if the layer
may drop it, and that it will be read is worth nothing if the page may miss it. `SafeInv` adds,
to the invariant of `ArcGISSync_proofs`:

- `VersionInv(o)`, as in `VersionsCorrect`, for every observation.
- `CleanInv(o)`, for one that is not doubtful, like the rest: it is in one batch, handled in one
  way, asked for only when it has a feature, and updated in a feature it has. So a query always
  finds a feature, an update always one to change, and no deletion comes between.
- `LiveInv(o)`: its last version is sorted by what is stored, and sent unless it is archived.
- `ReadInv`: a processor that was not made yet has read nothing, and a cycle that goes on
  after its first page has some left to read.
- `LinkInv`: a processor that there is none of has read nothing, and a cycle that is under way
  began with the processor there is or an earlier one.
- `Followed(o)`: the last version is on its way (`OnItsWay`), going to be read (`ToRead`), or
  shown, or of before the date, with nothing on its way that could change it (`Settled`).

`ToRead(o)` says that the time of the processor is no later than the edit, and that no cycle is
about to set it later that has not the observation ahead of it; without a processor it says that
the next one starts from nothing (`StartsReads`). `Ahead` counts: the place of
the observation among those modified since (`Place`) is past the pages read and within what is
left. A save of another observation that comes earlier in the list moves the place, which is the finding
of `arcgis_pages`, and makes the observation doubtful; `FoundPlace` and `PagePlace` say
that the sorted list has each observation at its place and a page those whose place is on it.

The steps are shown once in terms of what is to be sorted, added, asked for, updated and
deleted (`Work`): the lemmas named `...Flow` say what each action moves between these sets, and
everything else is proved from them. TLC found `SafeInv`, `NothingLost` and
`LayerNeverRegresses` true in every state and step of the instance of `arcgis`; no run lists them, as
the theorems cover that instance.

### Only model-checked

- Liveness, in every module, and the fairness of `AttachmentPromise`: fairness and `ENABLED`
  are beyond the prover. Of `EditsReachLayer` the safety half is proved, as `NothingLost`.

## 5. What is left out

- Thumbnail files and ranged reads of attachments, form entries and geometry of an
  observation, and their validation.
- Of the ArcGIS plugin: changes of the geometry type, deleted events, attachments of
  features, several layers and events, and the administration of layers in the feature
  service. Its query counts of existing observations, of which a failed one leaves the
  short interval in force, only change how soon the next cycle comes.
- Of the legacy API: removal of devices and of whole observations, and queries.
- Restarts in `ImageProcessing`: one loses the chain and begins the next with a watermark of
  zero, as an interval does that found nothing.
- What an exporter writes, what an archive for SFTP contains, and how a scanner is
  spoken to: each is a step that succeeds or fails.
- Ties of timestamps in one millisecond, and a clock that goes back.
- Several server processes on one database: the job, the sweep and the plugins
  assume to be alone.
- The components that `PROJECT.json` lists as `not_modelled`, each with its reason.

Known limits of what is stated: content of an attachment that is removed while the
job moves its file into place stays on disk, unreachable; a stream that breaks
leaves a partial file in the pending directory. Both states are reachable in
`AttachmentProcessing`, and nothing in the code or its documentation promises that
such files are reclaimed.

## 6. Plan

1. `EventsAndTeams`: creation of an event with its team, membership, and the cascades
   of removing a user, a team or an event. Abstract specification: no reference to
   what is gone, once nothing is under way.
2. `Feeds` and `Locations`: the removal of a service across its feeds and the events
   that show them; the order of a track and the latest position.
3. `ArcGISSync` with several layers and with changes of the geometry type, where a
   feature is removed by one batch and added by another.

Theorems to come: `NothingSlips` for a page that overflows, under the condition that no pending observation is
sent meanwhile; the steps of `AttachmentPromise` with one editor who removes attachments.
