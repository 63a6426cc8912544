# FingCheck: TLA+ verification

FingCheck separates overlapped fingerprints and matches the parts against a
database of registered prints. This directory holds TLA+ models of the program,
the TLC configurations that check them, and TLAPS proofs about them. Paths are
relative to the repository's root, and paths like `services/...` to
`backend/internal/`. Every definition that stands for code is listed with its
lines in `PROJECT.json` under `map`; the places where this code can go wrong are
listed there under `hazards`.

## 1. Inventory

`go/**` is a bundled Go toolchain and `DemoReportFormat/**` a report template;
neither is part of the program. The program itself:

| Component | Code | State it keeps | Operations | Correct when |
|---|---|---|---|---|
| Overlap pipeline | `handlers/overlap_handler.go`, `services/overlap_service.go`, `repository/overlap_repo.go`, `services/cloudinary_service.go` | the `overlaps` collection (status, URLs), images in Cloudinary and under `./uploads`, one goroutine per accepted upload | upload; the goroutine (download, extract, store, record, complete or fail); reads | a record says nothing that is not stored, settles, and once settled never changes; what it lacks, Cloudinary rejected |
| Server process | `backend/cmd/api/main.go` | requests, goroutines, database client | start, serve, graceful shutdown, death | the end of the process costs an accepted upload the work of its goroutine, and never its record or the record's truth |
| User accounts | `middleware/*.go`, `handlers/auth_handler.go`, `handlers/user_handler.go`, `services/user_service.go`, `repository/user_repo.go`, indexes in `database/mongo.go` | the `users` collection (role, active flag, soft deletion), the copy of a user each request keeps | Clerk webhooks, creation on a first visit, role change, activation, soft deletion | no lost deletion, no administrator nobody made, a true audit log; one document per account once the unique indexes exist |
| Fingerprint registry | `handlers/fingerprint_handler.go`, `services/fingerprint_service.go`, `repository/fingerprint_repo.go` | the `fingerprints` collection (template, label, status) and its images | register, change, soft delete, list the active ones | a registered print is whole, but for an image Cloudinary rejected, and keeps its identity |
| Matching | `handlers/match_handler.go`, `services/match_service.go`, `repository/match_repo.go`, `backend/pkg/biometric/sourceAPIS.go` | the `matches` collection | match a completed overlap, match one picture, compare two pictures | nothing active whose template can be read is overlooked, no match is invented, what is answered is saved |
| Separation page | `frontend/src/pages/SeparationPage.jsx` | page state, timers, polling intervals, requests on their way | choose, scan, send, poll, verify, go back, leave | the page always watches what it says it is processing, and shows finished work of the right file |
| HTTP client | `frontend/src/services/api.js` | the token | attach the token, retry once after a 401 | a retry repeats nothing that took effect |
| Audit log | `repository/audit_repo.go`, `MatchService.GetAllAuditLogs` | the `audit_logs` collection | append (errors are discarded), list newest first | it tells only of what happened |
| Separation service | `python_microservice/*.py` | the loaded model, the calls waiting and the one at work | take up a call, decode, detect, separate, answer | one image, two, or an error, as the picture has it |
| Rest | router, CORS, config, response envelopes, statistics, other pages | none | | |

How they interact. The web client calls the Go server over HTTP; handlers call
services, services call repositories (MongoDB) and Cloudinary; the upload
handler starts a goroutine that calls back into the same repositories and the
separation service; Clerk calls the server through webhooks, which may be
delayed, duplicated, reordered and are retried. The server holds no lock: all
coordination is through single-document MongoDB operations. The hard behaviours
are therefore read-modify-write races between requests, goroutines that die or
hang, writes whose error is discarded or whose acknowledgement is lost, failures that
arrive without an error, two writes that are not one, and in the browser callbacks that share one variable.

## 2. Plan

Done, in this order, most important behaviour first:

1. `OverlapPipeline` with its abstract specification `OverlapLifecycle`, and
   `OverlapPipelineProofs`.
2. `UserAccounts` and `UserAccountsProofs`.
3. `FingerprintRegistry`, and `FingerprintMatching`, which extends it; `FingerprintRegistryProofs`
   and `FingerprintMatchingProofs`, likewise one on the other.
4. `SeparationPage`, whose server half is an instance of `OverlapLifecycle`, and `SeparationPageProofs`.
5. `SeparationService` and `OverlapSystem`, the pipeline with the service in place of its
   step `Extract`, and `OverlapSystemProofs`.
6. `AccountLifecycle`, the abstract specification that `UserAccounts` implements, and
   `AccountLifecycleProofs`.

Every invariant and every safety property that a run checks is now a theorem too. Left as a
possible extension: an abstract life cycle of a print, which the registry would implement as
`UserAccounts` implements `AccountLifecycle`.

The composition in use: `FingerprintMatching` EXTENDS `FingerprintRegistry` and
interleaves its steps with the searches'; `OverlapPipeline` implements
`OverlapLifecycle` under a refinement mapping (`LifecycleSpec`), and `SeparationPage`
runs against `OverlapLifecycle`, so that what the page assumes of the server is what
the pipeline was shown, and proved, to provide. `OverlapSystem` EXTENDS `OverlapPipeline` and
`SeparationService` and implements the former (`ImplementsPipeline`): whatever was proved of the
pipeline holds with the service in it. `UserAccounts` implements `AccountLifecycle`
(`AccountsSpec`).

## 3. Modules and the code

Each module has one action per call that reads or changes shared state (a database
operation, a file, a request), named after the code; between two such calls a
goroutine or a request is alone with its locals, so nothing is lost by taking the
code between them together with the call. A database write has three results:
`ok`, `refused` (an error, nothing written) and `unacknowledged` (an error, but
written). Constants named `Faults` list what may fail in a run; a safety run
turns everything on, and a run about progress leaves off what nothing could
progress under.

### OverlapPipeline, OverlapLifecycle

| State | Code |
|---|---|
| `overlaps`, `audits` | collections `overlaps`, `audit_logs` |
| `cloud`, `disk` | images in Cloudinary, by `<<upload, position>>` (0 the original, 1 and 2 the parts), and under `./uploads/overlaps` |
| `rejected` | history: the separated images Cloudinary would not take |
| `handler`, `secureURL` | where `UploadOverlap` stands for each upload, and its local |
| `worker`, `index`, `paths`, `answered` | where `ProcessOverlap` stands, its loop and what Python answered; `gave_up` if its last status write returned an error, `killed` if the process ended under it |
| `server` | the process: up, draining, disconnected, down |

The handler's actions are `ReceiveUpload`, `StoreOriginal`, `StoreLocally`,
`CreateRecord`, `AuditUpload`, `SpawnWorker`, `Respond`; the goroutine's
`MarkProcessing`, `LoadRecord`, `Download`, `Hang`, `Extract`, `StoreSeparated` (once
per image), `RecordImages`, `MarkCompleted`, `AuditProcessed`, and `MarkFailed` for each
return that records a failure, its own error discarded; the process's `Signal`,
`Disconnect`, `Exit`, `ShutdownTimesOut`, `Crash`, `Start`. URLs are reduced to
what the code does with them: where they lead.

Assumptions. `ImageCounts \subseteq Nat \ {0}`: every successful answer of
`python_microservice/main.py` holds an image (lines 79, 106, 121).

`UploadFile` and `UploadBytes` look at `err` and return `resp.SecureURL`
(`services/cloudinary_service.go:61-65, 84-88`). They end in three ways: with a URL (`Upload`); with an
error after four seconds, when the file may have arrived all the same (`GiveUp`); and, because the client
library puts a rejection into `resp.Error` and returns no error, with an empty URL and no error
(`Reject`). The handler then creates a record with an empty original and takes no fallback, and the
goroutine completes a record that lacks the image. `CompletedIsWhole` says exactly which images a
completed record lacks.

`OverlapLifecycle` is what a reader of a record may rely on: absent, pending,
processing, then completed or failed; images are attached once, while
processing; it completes with a set of images a separation may end with (`ImageSets`). The pipeline
implements it with the sets in `Gains`: the first image or both, and any set at all where Cloudinary rejects.

### SeparationService, OverlapSystem

| State | Code |
|---|---|
| `model` | the Python process: down, up without a model (`load_model` failed), loaded |
| `exchange` | each goroutine's HTTP call: queued, at work, given up by its caller (before or during its work), cut off by the service's death, over |
| `picture` | what the service found the upload to be: unreadable, without an overlap, an overlap |

`extract_fingerprint` is an `async` function without an `await`, so the event loop works on one
call at a time (`TakeUp`, `Reply`, `Discard`), in any order, and does not notice that a caller has gone
unless it sees the closed connection before it begins (`Drop`). `ImagesFor` and `Reply` are the paths of the function:
503 without a model, 500 for a picture that cannot be decoded and for any exception, the
upload itself where no overlap is detected, else two prints, from the clusters or from the fallback.
`Die` and `Restart` are the process's end and its next start. There is no clock. The 60 s of `http.Client` (`services/overlap_service.go:132`) cover
connecting, sending the image, other calls' work, its own, stalls of the network and reading the reply, and none of
these is bounded, so `HangUp` is possible at any moment of an exchange.

`OverlapSystem` gives the goroutine's exchange with the service its steps: `AskService`,
`ReceivePrints`, `ExtractFails` (no connection, limit over, status not 200). Everything else is the
pipeline's, with a server that stays alive.

### UserAccounts, AccountLifecycle

Clerk's side (`clerk`, `profile`, `events`) is external: accounts are opened, edited and
closed, each change emits a webhook, and an event stays in `events` until it was
answered 2xx, so that `Deliver` may deliver it late, again, and before an earlier one.
`users` is the collection with its soft-deleted documents, `req` the requests being
handled, each with the copy it has read. `Connect` serves without the two unique indexes when it could not create
them (`database/mongo.go:35`): `indexed` says whether they exist, and `CreateIndexes` is a later
success, which needs a collection without duplicates. `Insert` obeys them where they exist;
`Update` is the `$set` of the whole copy, which leaves `deleted_at` alone because
that field is omitted when empty (`models/user.go`). `first`, `setup` and
`assigned` (the roles that role requests have written) are history.

`AccountLifecycle` is what a reader of the collection may rely on: from the time users are
`unique`, an account gains a user once, loses it once and never has one again; before, it may get several. Its user is an administrator only while there is
one, after the first-user rule or an administrator made it so. A write from a stale copy can restore a
role that was taken away (`Restore`), because the code lets it, and cannot grant one. The mapping
(`Standing`, `Entitled`, `Admins`) reads the documents of each account.

### FingerprintRegistry, FingerprintMatching

`prints` is the collection, `files` the stored images, `admin` the requests of
administrators, `logged` and `told` the audit entries and the 201 answers, `rejected` (history) the prints whose image
Cloudinary would not take; their URL is empty (`"none"`), as `UploadImage` takes no fallback then. A picture is
a value with the template that SourceAFIS would extract from it; those in
`Featureless` give none.

`search` holds each search (its list, the position of its scan, the best so far,
what it will answer), `results` the collection. SourceAFIS is a constant `Score`, zero
or more, of a picture's template and another picture's as it is read back from the database. Choices a reader may wonder about:

- `GetAllActive` is one step, although its cursor reads in batches: the
  properties are about prints that stayed active from the beginning of the search.
- A stored template that cannot be read back (those of `Unreadable`) makes its print invisible to every search:
  `MatchFingerprint` passes over what `json.Unmarshal` refuses (`services/match_service.go:69-72`), `DirectMatch` also
  over empty templates (lines 176-188), neither with an error. `NothingOverlooked` is therefore about readable prints.
- A part's path is a file, a URL, or empty, and then the part is passed over. The pipeline writes URLs; paths of files
  are in older records and still supported by the page
  (`SeparationPage.jsx:75-81`).
- A biometric failure on a part is saved as "no match"
  (`services/match_service.go:107-109`); on a single picture it is an error.
- Reading a matched print again only decides whether its details are shown.
- `DirectMatch` ignores the error of saving its result (line 216), which is why
  `ReportedIsSaved` is about overlaps.

### SeparationPage

JavaScript runs one callback at a time, so an action is what happens from one
`await` to the next. `screen` is what React keeps, `pending` what the browser keeps:
scan timers, uploads, intervals, the one `pollingRef`, polls and verifications on their way.
Nothing that is pending is cancelled by going back to the menu, and leaving the
page clears the interval in `pollingRef` only, as in the code. A poll is
answered with the record's status when the answer arrives: an older answer that is not
settled changes nothing on the page, and a settled one is final (`SettledIsFinal`). The page reads the status and not
which prints are there, so its instances give `ImageSets` the sets `{}` and `{1, 2}` only.

## 4. Runs

| Run | Instance | Shows |
|---|---|---|
| `pipeline_safety` | 2 uploads, 1 or 2 images, every fault, rejections included | the safety properties and the refinement, with crashes, shutdowns and restarts at any step; which accepted uploads are left unsettled, and why |
| `pipeline_steady` | 2 uploads and the separation service; limits over at any moment, deaths, exceptions; all faults outside the server process and the database's writes, hanging downloads and rejections included | the composition implements the pipeline; every unsettled record is attended to; a completed one tells the picture; every accepted upload whose download ends is settled |
| `pipeline_fallback` (violation) | 1 upload, Cloudinary refuses the original | the local fallback is accepted and can only fail |
| `accounts_safety` | 1 account, 2 requests, 2 documents, every fault but missing indexes; creation by webhook and visit, role, activation, removal | true audit log, no deleted user back; the abstract account is implemented, stale roles included |
| `accounts_deletion` | the same, with and without indexes, Clerk failing; webhooks (creation, update, deletion) and visits, one edit of the profile | deletions reach where there are indexes; the abstract account is implemented with and without them |
| `accounts_first` (violation) | 1 account, no fault | the first user's visit overtakes its webhook: no administrator |
| `registry_safety` | 1 print, 2 pictures, 3 requests, every fault, rejections included | whole but for a rejected image, acknowledged, immutable |
| `registry_resurrection` (violation) | 1 print, 2 requests, no fault | a change overlapping a deletion revives the print |
| `searches` | 2 prints, 4 pictures, parts as files or empty, 1 request, 1 search, every fault but Cloudinary's, which change only URLs that no search reads | nothing readable overlooked, matches genuine, answers saved |
| `searches_urls` (violation) | 1 print, 1 picture, 1 search, no fault, parts as URLs | an overlap's search compares nothing |
| `page_watching` | 1 file, 2 uploads, every request may fail | a processing page is watched; what it shows is completed; processing and polling end once the record is settled |
| `page_file` (violation) | 2 files, 2 uploads, no fault | the prints of one file shown for another |

Bounds and why they are enough.

- Two uploads: the pipeline's uploads share only the server process and the sets
  they write under their own keys, so two show every interference, and
  `OverlapPipelineProofs` covers any number. Two images are the most the code
  keeps (`services/overlap_service.go:154`).
- Two calls of the service are enough for one to wait, to be
  abandoned, and to be worked on while a live one waits. `OverlapSystemProofs` covers any number.
- One account with two requests and two documents: enough for every race
  between two requests about one user and for a document after a deleted one.
  The kinds of requests are split over two runs only for size; the proofs take them together.
  `UserAccountsProofs` covers any number of accounts, requests and documents.
  `MaxVersion` bounds profile edits.
- Three registry requests are one registration and two that change and delete,
  the smallest race of interest. In `searches` one request changes the registry while one
  search runs; searches do not interact except through `results`, which they only
  add to. `MaxResults` bounds how many results are saved before no further
  search is started; neither bound limits the proofs, which also cover any number of prints, requests and
  searches, any scores and any threshold. Pictures: one that matches itself well and another just at the threshold,
  one that as a probe matches nothing, one without features, and the last, which would match best, with a template that cannot be read back. Its `VIEW` drops the audit entries, the
  201 answers and the rejections, which no guard and no property of the run reads.
- `MaxPolls` = 2 lets a poll of an interval overtake the end of its interval;
  `MaxTimers` bounds pending scan animations: with one, the stale timer still
  fires after the user has gone back. `SeparationPageProofs` covers any number of files, uploads, timers and polls. Two uploads are needed for two intervals
  and one `pollingRef`. One visit of the page is modelled; a next visit shares with it only
  the intervals left running.
- `CHECK_DEADLOCK FALSE` everywhere: uploads, documents and prints are
  finite, and a system in which all of them are used may stop.

Fairness, and why the code justifies it.

- `pipeline_steady`: weak fairness of each handler, each goroutine, and its exchange with the
  service, which the client's limit ends if nothing else does. The Go scheduler runs what can
  run; every call has a timeout or fails, except `http.Get` (`services/overlap_service.go:92`), for whose end
  (`Unhang`) nothing is assumed: `AcceptedIsSettled` excepts the upload whose own download hangs for ever, and no
  other. Nothing is assumed of the service, neither that it works nor that it starts again.
- `accounts_deletion`: weak fairness of handling a request, strong fairness of
  delivering each event, which is Clerk's retrying. The run has no lasting database
  failure or crash, under which no retry would help.
- `page_watching`: uploads and polls are answered or fail, and intervals tick. Nothing is assumed of the user, nor of
  the server: a record whose download hangs, whose goroutine was cut off or whose status write failed may never settle, and
  polling has no limit. `ProcessingEnds` and `PollingEnds` say what follows once it has settled.

## 5. What the violations show

Each is a disagreement between the code and what it says of itself; the quotations are in
`PROJECT.json` under `findings`.

1. An upload stored locally because Cloudinary refused it is answered
   "Processing started." and always ends failed: its URL is relative and cannot be downloaded.
2. The first user is an ordinary user when its first visit precedes its webhook, and
   then nobody can appoint an administrator.
3. A deleted fingerprint is active again when a change that read it earlier is written later.
4. Matching a completed overlap reads Cloudinary URLs as files, skips every part and
   answers 200 without having compared anything; the page shows this as a negative result.
5. After "back", the interval of the previous file goes on and puts its prints on the
   page of the next.

The models contain further behaviours of this kind that no run singles out: an image that Cloudinary rejects is
taken for stored, so that a record is completed and a print registered with an empty URL, without the fallback that the comment
"Fallback to local storage if Cloudinary upload fails" promises (`handlers/fingerprint_handler.go:79`); a server
that could not create its indexes may give an account several documents, of which a deletion ends one
(`database/mongo.go:35`); a print whose template cannot be read back is passed over in silence
(`services/match_service.go:69`); a page polls a record that never settles for ever; a graceful
shutdown waits for handlers but cuts off the goroutines they started
(`cmd/api/main.go:123`), whose records stay in processing for good; two first webhooks at once make two
administrators (`services/user_service.go:42`); the loser of two racing first visits
is answered 500 (`middleware/auth.go:78`); a role change is undone by a handler
that read the user before it (`services/user_service.go:103`); deleting an
unknown user is answered 200 and logged (`repository/user_repo.go:115`); an
interval whose `pollingRef` was overwritten polls until the tab is closed.

## 6. Proofs

`OverlapPipelineProofs`, for any uploads, any answers of the Python service, any faults:

- `TypeCorrect` proves `TypeOK` with `ControlOK`: where the handler stands decides whether the original
  is stored, the record exists and the goroutine was started. Types depend on it,
  since a write by the goroutine yields a record only if there is one.
- `Invariance` proves `IInv`, a conjunction per upload of what each position of the goroutine
  implies: which images are in Cloudinary, which the locals name, what status the
  record may have and what the audit log may hold. The properties are not inductive
  alone: that a completed record names exactly the stored images follows from what
  the loop had stored, and Cloudinary rejected, when it ended. `UrlsResolve`, `CompletedWhole`,
  `AcceptedAccountedFor` and `AuditsTrue` are its consequences.
- `SettledFinal` and `Refinement` follow step by step: only the goroutine writes an
  existing record, and its position gives the status it writes over. The
  refinement maps initial states to initial states and each step to a step of
  `OverlapLifecycle` or a stutter.
- `NothingLeftBehind`: if no database write fails and the process lives,
  `NoOrphanedWork` and `AuditTrailComplete` hold, whatever else fails. The
  assumption is `Undisturbed`, on the constant `Faults`.

`UserAccountsProofs`, for any accounts, requests, documents and faults: `Inv` adds to the
properties what each handler's copy has to do with the collection (`HandlerTrue`): its
document exists and has the copy's owner and address, and a copy about to be
written has a role somebody granted. Where the indexes exist there are no duplicates. Each step keeps what the other
handlers rely on (`Keeps`). `TypeCorrect`, `AuditsTrue`, `DeletedStays` and `PrivilegeGranted` (that every
administrator was created or appointed as one, which the runs check as part of `AccountsSpec`) follow.

`OverlapSystemProofs`, for any uploads and any troubles:

- `PipelineImplemented`: each step of the composition is a step of the pipeline (`ReceivePrints` and `ExtractFails`
  are `Extract` with one of its outcomes) or leaves its variables alone. `SystemRecordsTrue` and
  `SystemLeavesNothingBehind` carry the pipeline's theorems over; the latter assumes `Undisturbed`, as there.
- `ServiceTypeCorrect`: besides the types, at most one call is at work, and a service that is down holds none.
- `RecordsTellThePicture` joins the two sides: from the reply on, how many images the goroutine holds, has stored and has
  recorded is decided by the picture and by what Cloudinary rejects (`PictureOK`), together with the pipeline's own invariant.

`AccountLifecycleProofs`: `AccountsRefined`, with and without indexes, under the invariant of `UserAccountsProofs`: that
a handler at its insertion holds the copy of a live user, that an account has one document where there are indexes, and that roles in
copies were granted decide which step of `AccountLifecycle` each write is.

`FingerprintRegistryProofs`, for any prints, pictures, requests, changes and faults. None of the
properties is inductive alone, since a document is written back whole from a copy read before.
`RegistryInv` adds:

- `WellFormed` (checked with the types) and `HandlerTrue`: what each position of a handler implies. A copy about to be written
  differs from the document at most in its status, so a stale write can undo a status and
  nothing else; a registration's image is stored or was rejected before its template is extracted, and the template is the picture's.
- `Exclusive`: two registrations on their way never have the same identifier.
- Each step keeps what the other handlers rely on (`KeepsPrints`): prints do not disappear, keep those three
  fields, and files are not removed.

`RegistryTypeCorrect`, `PrintsWhole`, `AcknowledgedRegistered` and `IdentityImmutable` follow.

`FingerprintMatchingProofs`, for any number of searches, and any scores:

- `SearchesOnlyRead`: a step of a search leaves the registry's variables alone, so the whole satisfies `RegistrySpec`, and
  the theorems above hold beside the searches.
- `MatchingInv` adds to `RegistryInv` what a search knows. Its list holds prints of the collection with the templates they have,
  which stays true while requests run because of `KeepsPrints`; every readable print that stayed active is on the list or
  the list is not yet read (`Covers`); the best so far bounds every score up to the position of the scan (`ScanTrue`); what is to be
  saved and answered comes from there (`SaveTrue`). `NothingIsOverlooked`, `MatchesGenuine` and `ReportedSaved` follow.

`SeparationPageProofs`, for any files and uploads, and any interleaving of callbacks. `PageInv` adds
to the properties that the server's variables have their types (`ServerOK`); no step takes a record's completion away (`KeepsCompleted`).

- `ProcessingWatched`: what the page is processing has its last upload on its way or an interval, although several of
  either may be pending: each step that ends the one starts the other or changes what the page says.
- `ShownCompleted`: an answer may arrive late, but what it says of a completed record stays true.
- `ServerIsLifecycle`: no step of the page is a step of the server, so the page runs against exactly the
  specification that `OverlapPipelineProofs` shows the pipeline to implement.

How far the violations of section 5 go. Three theorems assume away the cause that a violation run shows, by an
assumption on a constant that says what may happen, and prove the property that fails there; so nothing else causes it.

- `FirstAdminByWebhook`: if only webhooks come and no count of users fails, the first user is an administrator,
  however webhooks race, repeat and crash. Visits of clients, and a count that fails, are what `accounts_first` is about.
- `DeletionIsFinalWithoutChanges`: if no change of a print occurs, a deleted print stays deleted, however deletions and registrations
  overlap and fail.
- `SearchesCompareFiles`: if parts have paths of files and the disk can be read, a search for an overlap is answered only after it compared a
  part.

The proofs use only the assumptions named in the modules and, for these three and `NothingLeftBehind` and
`SystemLeavesNothingBehind`, the ones the theorem states. Only model-checked: the
liveness properties (`AcceptedIsSettled`, `DeletionReaches`, `ProcessingEnds`, `PollingEnds`), since
liveness under fairness needs `ENABLED`, which the prover does not handle.

## 7. Not modelled

- The match and compare modes of the page: each has at most one request on its way, since its
  button is disabled meanwhile, and changes nothing but its own result. What can go wrong is that the
  result appears with another picture (`SeparationPage.jsx:155`), which nothing in the code prevents.
- The token interceptors and the retry after a 401 (`services/api.js:53`): the middleware refuses a
  request before any handler runs, so a retry repeats nothing that took effect, and the page sees one request.
- Pagination and the listings, the statistics and the reads of stored results: reads without state.
  `CompareTwoFingerprints` is a function of its two pictures.
- The other pages: they fetch and render, and what they get wrong lives until they are loaded again.
- The biometric engine, the detector, the clustering and the image filters: numerical code, of which
  the models keep the outcomes the callers tell apart.
- Router, CORS, configuration and response envelopes keep no state. `HardDelete` has no caller.
- `go/**`, a bundled Go toolchain of some 1.3 million lines, and `DemoReportFormat/**` are third-party. The
  program itself has about 5,200 lines, half of them the markup of pages; the definitions in `PROJECT.json` name the
  lines of it that the models stand for.

## 8. Running

    tlc -config PipelineSafety.cfg MCOverlapPipeline
    tlapm OverlapPipelineProofs.tla
    tlapm OverlapSystemProofs.tla
    tlapm UserAccountsProofs.tla
    tlapm AccountLifecycleProofs.tla
    tlapm FingerprintRegistryProofs.tla
    tlapm FingerprintMatchingProofs.tla
    tlapm SeparationPageProofs.tla

and likewise for each configuration with the module `PROJECT.json` names.
