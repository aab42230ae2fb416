# Verification of notifications-template-preview

Template preview is the service of GOV.UK Notify that turns letters into PDFs
the print provider (DVLA) accepts, and shows previews of them. It has two
faces over the same code: a Flask application, and four Celery processes that
take jobs from the queue `sanitise-letter-tasks` and answer on `letter-tasks`.
This directory holds TLA+ models of it, the TLC configurations that check them
and TLAPS proofs about them.

## Inventory

| Part | Source | State it keeps | Operations | Interacts with |
|---|---|---|---|---|
| Celery tasks | `app/celery/tasks.py` | one message and one PDF per process; the objects of seven S3 buckets | `sanitise_and_upload_letter`, `create_pdf_for_templated_letter`, `recreate_pdf_for_precompiled_letter`, `recreate_pdf_for_template_letter_attachments`, `copy_s3_object` | S3, SQS, notifications-api, the sanitiser |
| Queues and processes | `app/config.py`, `run_celery.py`, `entrypoint.sh` | messages in flight | receive, acknowledge, retry, recycle | Celery, SQS |
| Sanitiser | `app/precompiled.py`, `app/transformation.py`, `app/embedded_fonts.py` | a stream and its position, for the time of one call | `sanitise_file_contents`, `rewrite_pdf`, `normalise_fonts_and_colours`, `get_invalid_pages_with_message` | pypdf, PyMuPDF, Ghostscript, ReportLab |
| Addresses | `PrecompiledPostalAddress` | none | `error_code`, `rewrite_address_block` | notifications_utils |
| Templated letters, attachments | `app/templated.py`, `app/letter_attachments.py` | none | `generate_templated_pdf`, `add_attachment_to_letter` | WeasyPrint, the caches |
| Previews and cache | `app/preview.py`, `app/__init__.py`, `app/utils.py` | the S3 cache bucket; an LRU cache in every process | `png_from_pdf`, `get_pdf`, `init_cache`, `caching_s3download` | S3 |
| Places on a page | `app/precompiled.py`, `hide_notify_tag` | none | the white and the red overlay, the redaction, the new address, the tag and its cover | ReportLab, pypdf, PyMuPDF, Poppler |
| Page counts, page numbers | `app/preview.py` | none | `/get-page-count`, `?page=` | templated letters |
| Endpoints for precompiled letters | `app/precompiled.py` | none | `/precompiled/sanitise`, the overlays | the sanitiser |
| Set-up, status, logging, performance, schemas | the rest of `app/` | none | - | - |

What is hard here:

- **Early acknowledgement.** `task_acks_late` is not set: a process that dies
  (out of memory, recycled, deployed) has lost its job, between any two steps.
- **At-least-once delivery.** The same job may be done twice, at the same time,
  by two processes that write the same objects and send the same callbacks.
- **A task is not atomic.** Upload, backup and callback are three calls to two
  services and each can fail; the backup reads the scan bucket a second time.
- **Three ways of failing.** A `ClientError` of S3 is logged and swallowed, any
  exception inside the sanitiser becomes "unable-to-read-the-file", anything
  else ends the task; WeasyPrint errors are retried three times.
- **Verdicts.** Fifteen messages from checks made in a fixed order, with other
  rules for attachments, for first pages and for letters abroad.
- **Stream positions.** A PDF travels in a `BytesIO` through libraries that
  read it from the position, from the start, or move the position.
- **Caches** of two levels, shared by processes and by the greenlets in each;
  one of them is never invalidated.
- **Rectangles** written by hand, three times over: for the checks, for what
  users are shown, and for what is rewritten.

What makes each part correct: for the tasks, the properties of `LetterTasks`
below; for the sanitiser, that its verdict is the contract its four callers
rely on and that what passes is ready to print; for the previews, that a
preview is the one of the requested letter and page, whatever was cached; for
the rectangles, that what fails is shown to fail and what passes is clean; for
page counts, that the number shown is the number printed.

## Modules

| Module | Models |
|---|---|
| `SanitiseContract` | What sanitising promises: documents reduced to the features the checks look at, the checks in order, the verdict, and the outcomes an unexpected exception adds. Pure operators, shared by `SanitiseFile`, `LetterTasks` and `PageGeometry`. |
| `SanitiseFile` | `sanitise_file_contents` as a step machine over one upload, with the stream's position. Shown to meet the contract. |
| `LetterTasks` | The queue, the processes, S3 and the four tasks. Uses the contract for the sanitising step. |
| `LetterDelivery` | The abstract promise to notifications-api: what is stored and told of each letter. `LetterTasks` is shown to implement it. |
| `LetterTasksProofs` | TLAPS proofs about `LetterTasks`: the inductive invariant, and the properties that follow from it. |
| `LetterJobsProofs` | TLAPS proofs of what becomes of a job: none is lost, none is done twice without a redelivery, and a letter that is made again passes again. |
| `LetterDeliveryProofs` | The TLAPS proof that `LetterTasks` implements `LetterDelivery`. |
| `PreviewService` | The abstract promise of the preview endpoints to the admin app, without caches. |
| `PreviewCache` | Greenlets of several gunicorn processes that make previews through the LRU cache of their process and the shared S3 cache. Shown to implement `PreviewService`. |
| `PageGeometry` | A dot of ink on a page, and every rectangle the code draws or cuts out. Shown to find what `SanitiseContract` says. |
| `PreviewRequests` | The HTTP endpoints, as a user who looks through a letter and sends it uses them. |
| `SanitiseContractProofs`, `SanitiseFileProofs`, `PreviewCacheProofs`, `PageGeometryProofs`, `PreviewRequestsProofs` | TLAPS proofs about the modules they are named for. |
| `MCLetterTasks`, `MCSanitiseFile`, `MCPreviewCache`, `MCPageGeometry`, `MCPreviewRequests` | The small instances. |

### SanitiseContract

A page is its size and orientation (`a4`), where its ink is (`ink`: inside the
printable area, in the strips around the address window, in the margin) and the
words that touch the box of the NOTIFY tag (`box`), as the sequence the code
joins and compares with "NOTIFY". An address is the set of
faults `PostalAddress` would find and the kind of its last line. `Checks` lists
the checks in the order of the code: length, size, bounds, tag, address.
`Verdict` is that of the first one that fails. `SanitiseOutcomes` adds
`Unreadable`, because of the `except Exception` of `sanitise_file_contents`:
a Ghostscript killed for its memory may fail today and not tomorrow.
`Printable` says what the provider can print without using the checks, for
`PassesIffPrintable` and `OnlyPrintableLetters` to compare them with.

### SanitiseFile

| Action | Code |
|---|---|
| `CountPages` | `pdf_page_count`, `is_letter_too_long`, and a file pypdf cannot read |
| `CheckSize`, `CheckBounds`, `CheckTags` | the three checks of `get_invalid_pages_with_message` |
| `LogMetadata`, `ReadAddress`, `Redact`, `WriteAddress` | `log_metadata_for_letter`, `rewrite_address_block` |
| `DetectCMYK`, `DetectRGB`, `Convert` | `does_pdf_contain_cmyk`, `does_pdf_contain_rgb`, `convert_pdf_to_cmyk` |
| `FindFonts`, `EmbedFonts` | `contains_unembedded_fonts`, `embed_fonts` |
| `LookForTag`, `AddTag` | `is_notify_tag_present`, `add_notify_tag_to_letter` |
| `ReturnFile`, `Unexpected` | the last read, the `except Exception` |

`file_data` is the stream: the PDF and whether the position is at the start.
`Parsed` (pypdf) leaves the position anywhere, `Rewound` is a `seek(0)`, `Read`
is a reader that starts at the position and gets a part of the file when that
is not the start. `drawn` and `images` are the colour spaces in use; ReportLab
draws the address in black and the tag in white, both RGB colours.
`unembedded` speaks of the fonts of the upload, not of what ReportLab adds.

### LetterTasks

A process `w` is at step `pc[w]` of the job in `msg[w]`, with the PDF `file[w]`
and the `sanitisation_details` in `details[w]`. S3 is the function `s3` from
objects (bucket and key) to files; a file is what it is made from and whether
it is the original, the sanitised or the printed form.

| Action | Code |
|---|---|
| `Request`, `Redeliver`, `ScanRemoved`, `BackupExpires` | notifications-api, SQS, the life of objects (external) |
| `Receive` | Celery takes, and acknowledges, a message |
| `Download` | `s3download` of the scan or the backup object |
| `SanitiseAccepts`, `SanitiseRejects` | `sanitise_file_contents` and the branch on `message` |
| `Prepare`, `Retry`, `GiveUp` | `_prepare_pdf`: WeasyPrint, CMYK, attachment; `task.retry` and its end |
| `UploadSanitised`, `UploadTemplated`, `UploadRecreated` | the three kinds of `s3upload` |
| `CopyToBackup` | `copy_s3_object` |
| `Send` | `send_task` on `letter-tasks` |
| `BotoError`, `Raise`, `Crash` | the swallowed `ClientError`, the exceptions nothing catches, the killed process |

`told` keeps every callback ever sent and `trouble` how runs of a job ended
without one; neither is read by an action of a process. Each call to S3 or to
the broker is a step of its own, since that is where processes interleave; the
code between two calls is part of the step before or after.

What the surroundings do is assumed as follows. The API stores an upload before
it sends a job about it, asks to recreate only letters that passed, and gives
every letter a name of its own (`NamesAssumption`). It sanitises a letter under
one permission setting (`RequestsAssumption`), but recreates it under any. It
may move a letter out of the scan bucket at any time. Backups are dropped after
a week, which is longer than any run: not between the backup and its callback.
An attachment is never replaced by a different PDF, so its LRU cache does not
matter here; it may be missing from its bucket at the start. Nobody else writes
to or removes from the buckets the tasks fill: a file that was made and is gone
before the letter is printed is outside this model, and `StoredBeforeTold` would
not hold of it.

### PreviewService and PreviewCache

A preview is made of parts: the letter in one or two languages, then its
attachment; a precompiled letter is one part that comes with its request. What
is sent is the PDF, or the picture of a page of it. `PreviewService` has for
each greenlet what it was asked, for each attachment the version in its bucket,
and for each process the versions at its start. Its promise: an answer is an
error, or the page or PDF that was asked for, complete, with no attachment
older than the process and none that was never stored.

| Action of `PreviewCache` | Code |
|---|---|
| `Start` | a request is taken by a process |
| `LruHit`, `Download`, `Insert` | `caching_s3download`: `lru_cache` has the object; or `s3download`, a wait; and the insertion, which may evict |
| `Generate` | `suppress(S3ObjectNotFound)`, then `original_function()` |
| `Upload`, `UploadUnconfirmed` | `s3upload`, and the same when S3's answer is lost |
| `Fail` | any exception: S3, a missing attachment, WeasyPrint, ImageMagick |
| `Replaces`, `CacheExpires`, `Recycle` | an attachment stored again, the bucket's lifecycle, a process that is replaced |

Greenlets interleave where one of them waits for S3, so the look into the LRU
cache and the insertion are two steps, and so are generation and upload. A key
is the folder and the arguments that are hashed (SHA-1 is taken to be free of
collisions). The least recently used entry is any entry, which allows more
than the code does. An LRU cache only ever gets what was downloaded: what a
process generates itself, it downloads the next time.

### PageGeometry

Lengths are integers, thousandths of a millimetre; points are rounded down to
those. The state is a page (size, `/Rotate`, number, attachment or letter), one
dot of ink on it, and what happens to both. That a dot is anywhere makes it
stand for all the ink.

| Action | Code |
|---|---|
| `CheckSize`, `CheckBounds` | `_is_page_A4_portrait`; the white overlay and `_get_out_of_bounds_pages` |
| `Redact`, `WriteAddress` | `redact_precompiled_letter_address_block`, `add_address_to_precompiled_letter` |
| `Normalise` | whether Ghostscript rewrites the page (external) |
| `AddTag`, `HideNotifyTag` | `add_notify_tag_to_letter`, `hide_notify_tag` |
| `OverlayPng`, `OverlayPdf` | the two overlay endpoints |

**Turned pages.** Everything the code draws, it draws on the page as it is
stored; a viewer, and PyMuPDF's words, are of the page as it is turned. `Viewed`
says where a viewer shows the dot, and `turned` how far the page has still to be
turned. Ghostscript writes turned pages upright (`tests/test_transformation.py:69`
and `tests/test_embedded_fonts.py:41` rest on it), and as it runs between the
address and the tag, the tag is usually drawn on an upright page. It does not run
on a letter all of whose images are in CMYK and all of whose fonts are embedded:
that page is still turned when it gets its tag. `Normalise` takes either branch.

Not part of it: antialiasing (a dot has no size) and the shapes of letters (the
extent of the address and of the tag are the ascent and descent of Arial and the
width of "NOTIFY" in it); how far to the right a line of the address reaches,
which the code does not bound; a MediaBox that does not start at (0, 0), or a
CropBox, of which the code only reads width and height; and where PyMuPDF redacts
a turned page, which is left open.

### PreviewRequests

The session: a user opens a letter, admin asks for its page count, then for
the picture of each page, and the letter is printed. In between, any endpoint
may be asked for anything: without a token, with a body that is not valid,
with a `page` that is absent, zero, negative, too large or no number. A page is
known by its part and its number there; a part with a first page of its own and
the same part without are different parts, since `includes_first_page` gives
them different content.

| Action | Code |
|---|---|
| `GetPageCount` | `/get-page-count` |
| `TurnPage`, `ViewsLetter`, `DownloadsLetter` | `/preview.png`, `/preview.pdf` |
| `ViewsAttachment` | `/letter_attachment_preview.png` |
| `ViewsPrecompiled` | `/precompiled-preview.png` |
| `ColoursPage`, `ColoursPdf` | `/precompiled/overlay.png`, `/precompiled/overlay.pdf` |
| `SendToPrint` | `create_pdf_for_templated_letter`, as far as its pages go |

`/precompiled/sanitise` has no action here: it is `SanitiseFile` behind a
status, 400 exactly when there is a message.

## Runs

| Run | Instance | Shows |
|---|---|---|
| `precompiled` | 2 letters, 5 jobs, 2 processes, 1 redelivery | `TypeOK`, `StoredBeforeTold`, `OnlyPrintableLetters`, `VerdictsAgree`, `NoSilentLoss`, `RunOnce`, `PassesAgain`, `MadeStays`, `ImplementsDelivery` for sanitising, rejecting and recreating |
| `templated` | 2 letters, 1 attachment, 1 retry, 1 redelivery | `StoredBeforeTold`, `OnlyPrintableLetters`, `NoSilentLoss`, `MadeStays`, and the inductive invariant `Inv` |
| `retries` | 1 letter too long by its attachment, 3 retries | `RunOnce`, `OnlyPrintableLetters`, `RunsEnd`, `EveryJobEnds`, `ImplementsDelivery` |
| `sanitise` | 2768 uploads | `TypeOK`, `MeetsContract`, `PassesIffPrintable`, `NothingCutOff`, `PassedIsReady`, `RGBIsExplained` |
| `cache` | 2 processes, 2 greenlets, 2 requests, 2 versions of an attachment, LRU caches of 1 entry | `TypeOK`, `CacheSound`, `LruSound`, `ServiceSpec`, `MakesProgress` |
| `geometry` | 64 pages, dots on and beside every boundary | `TypeOK`, `BlamedIsRedOnCanvas`, `RedIsExplained`, `UnturnedMarginsKept`, `AddressReplaced`, `WrittenInPlace`, `SameAsContract` |
| `endpoints` | 72 letters, pages -3 to 4 and no number | `TypeOK`, `EveryPageSeen`, `CountPredictsPrint` |
| `tag_twice`, `rgb_attachment`, `rotated`, `unmarked`, `page_zero` | the same instances | violated: see Findings |

The properties:

- `StoredBeforeTold`: when the API is told of a file, the file is in its bucket.
- `OnlyPrintableLetters`: the bucket that is printed from holds nothing else:
  no letter too long, with a test key, original, or failing the checks. A letter
  that was made again passes them under a permission that was sent with a job to
  make it again, so one whose service may no longer send it abroad is not there.
- `VerdictsAgree`: two callbacks about a letter are the same, unless one of them
  is "unable-to-read-the-file", which is a fact about a run and not the letter.
- `NoSilentLoss`: a job is queued, running, done, or a run of it was in trouble.
  Any end but a callback or a retry is trouble, swallowed errors of S3 too: what
  this catches is a retry that is not sent and a verdict nobody is told.
- `RunOnce`: unless SQS delivers something twice, a job is in one place, one
  process or one message, and reported once. So the contradictions that
  `VerdictsAgree` lets pass take a redelivery.
- `PassesAgain`: a letter that is made again fails the checks only for a
  permission its service has lost since; that Ghostscript fails on it now and
  did not then is no failing of the checks, and allowed. `MadeStays`: a file a
  task has made is never removed, and only ever overwritten by its like.
- `EveryJobEnds`: a job does not stay queued or running for ever. `RunsEnd` is why:
  a run only goes forward, and hands on only its own job, with fewer retries left.
- `ImplementsDelivery`: the whole refines `LetterDelivery`: at the moment of a
  callback everything the API goes on to use is there (the backup of the
  original too, which `StoredBeforeTold` cannot say, since backups expire), and
  no later callback contradicts an earlier one.
- `MeetsContract`: the steps give the verdict of the contract, and a file
  exactly when there is no message. `PassesIffPrintable` says what passes
  without using the checks.
- `NothingCutOff`: no reader gets a part of a file, wherever pypdf leaves the
  position. `PassedIsReady`: fonts, images, address and tag of what passes.
- `RGBIsExplained`: exactly when RGB is left in what passes: as the tag, or
  where there was no conversion because all images were in CMYK. Finding 2 is
  this case, and letters have it too: Notify's own address then stays in RGB.

- `ServiceSpec`: `PreviewCache` refines `PreviewService`. `CacheSound` and
  `LruSound` say of the two caches what that rests on: a hit in S3 is what a
  miss would have generated, so no letter is cached that was rendered without
  its logo, and an LRU cache holds nothing its process may not show.
- `MakesProgress`: every step of a request lowers `StepsLeft`, so that neither
  eviction nor expiry nor another greenlet can send it round in circles. This is
  said instead of a liveness property, since a process that hangs is killed by
  gunicorn after its timeout with all its requests: no request is sure of its
  answer.
- `BlamedIsRedOnCanvas`: what fails is red in the overlay "so users know which
  parts of they letter fail validation", as far as the A4 canvas of the overlay
  reaches: all of a page that is upright or upside down (the 2 mm by which it
  may exceed A4 excepted), and of a page on its side up to 210 mm from its stored
  left edge. Beyond that it is false: Finding 4. `RedIsExplained`: what is red
  and passes is within the millimetre the checks give. Together they say that two
  lists of rectangles agree.
- `UnturnedMarginsKept`: what passes keeps the margins, as the page is viewed.
  `AddressReplaced`: between logo and body, and left of the service's address,
  what was uploaded is gone from an upright page, and nothing is gone anywhere
  else. The 3 mm of the redaction are the 1 mm the checks give and the 2 mm a
  page may be off, exactly: one millimetre less breaks the property.
- `WrittenInPlace`: an address of any number of lines starts and ends inside its
  window on an upright page; the tag is where it is looked for on a page that is
  upright when it gets it, and on no other; a preview covers all that place.
- `SameAsContract`: the geometry finds out of bounds what the contract does.
- `EveryPageSeen`: who looks at as many pages as were counted has seen the
  letter as it is printed; only of a letter in two languages may the count be
  too high, since the English part is counted with a first page it does not
  have. `CountPredictsPrint`: a letter is never too long when it is printed
  that was not when it was counted.

The last two suppose that the database has the right page count of an
attachment (`AttachmentAsCounted`): `/get-page-count` never looks at the PDF.

**Bounds.** Two processes suffice for every race of two runs of a job, and a
single redelivery makes two runs; the properties relate at most two callbacks
and one letter at a time, but for names, where two letters are in a run. The
page limit is 2 (ten in production), which leaves one page inside, at and over
it, with an attachment deciding. `MaxRetries` is 3 in `retries`, as in the
code, and 1 in `templated`. `sanitise` takes every letter of up to two pages over
all 24 kinds of page, one of three pages, an unreadable one, and 15 addresses
(no fault, an early one, a late one, two early, one of each, with each last
line); the colours and fonts are taken in all their combinations on a letter of
two pages. In `cache` an LRU cache of one entry makes every insertion an
eviction, and two versions make a difference between stale and fresh; each of the
two greenlets takes requests for either process, so that both are in one or each
is in its own. In `geometry` the sheets are the
smallest and largest accepted, one in between and one too wide, in all four
rotations, and the dots lie on, just before and just after every boundary;
what lies between two boundaries is treated alike. `endpoints` has the page
limit at 3, which an attachment or the second language reaches. In the runs of
`LetterTasks` and `SanitiseFile` deadlock is not checked: the system stops when
all jobs have been done, and the sanitiser when it has returned.

**Fairness** (only `retries` needs it). Weak fairness of a process's steps: a
living process works on. Weak fairness of its `Receive`: an idle one takes a
message when there is one (long polling). Neither asks that a call succeed, and
nothing is asked of the environment. It does assume that Ghostscript ends:
`communicate()` has no timeout and the tasks have no time limit, so a
Ghostscript that hangs takes its process with it.

Every property of these runs has mutants: the operators named
`<definition>_<bug>` next to the definition they stand in for. Each is a bug one
could write there, and breaks that property in that run.

## Findings

1. `tag_twice`: "Only add it if it's not already there" (`app/precompiled.py:322`).
   The tag is recognised by comparing all the words that touch the box
   (0, 0)-(15.191, 6.149) mm with "NOTIFY", and the printable area begins at
   (15, 5): text in the top left corner of a letter that has its tag already
   gets it a second one. For the same reason `_get_pages_with_notify_tag` does
   not report such a tag on a later page.
2. `rgb_attachment`: attachments are "already in CMYK" (`app/templated.py:28`),
   but only images are looked at: with a CMYK image and no RGB image, RGB text
   and drawings stay.
3. `rotated`: a landscape page with `/Rotate` 90 or 270 is accepted as A4
   portrait, and tests mean it to be, but the white overlay is merged into the
   coordinates of the page before it is turned: it lies across the page, and ink
   at two of its viewed edges passes. "This is so the code can check for a
   presence of non white in the areas outside the printable area"
   (`app/precompiled.py:538`).
4. `unmarked`: the red overlay is drawn on an A4 canvas in the same coordinates.
   On such a landscape page it ends at 210 mm of 297: ink in the other 87 mm
   fails, since the white overlay ends there too, and is never red, where the
   overlay is drawn "so users know which parts of they letter fail validation"
   (`app/precompiled.py:629`).
5. `page_zero`: `/preview.png?page=0` answers with the last page, -1 with the
   one before, where a page out of range is to be answered with 400
   (`tests/test_preview/test_preview_templated.py:514`).

Met on the way, and no contradiction of a doc: the tag of a first page that is
still turned when it gets it (all images in CMYK, all fonts embedded) is in
another corner of the page than the one where it is looked for and where
`hide_notify_tag` covers it (`WrittenInPlace` says that these are the only such
pages); a page up to 2 mm wider than A4 has a strip at its right edge that fails
and is not red; the cover that hides the tag in a preview reaches about 8 mm into
the printable area from the left and 4.5 mm from the top;
`/precompiled/overlay.pdf` takes the first page of an attachment for an address
page; a `page` that is no number is answered with 500.

## Proofs

`LetterTasksProofs`, `LetterJobsProofs` and `LetterDeliveryProofs` prove, for
every set of processes, letters, attachments and jobs and every number of
retries and redeliveries, that

- `InvHolds`: `Spec => []Inv`;
- `TypeCorrect`, `StoredBeforeToldHolds`, `VerdictsAgreeHolds`,
  `OnlyPrintableLettersHolds`, `MadeStaysHolds`, `RunsEndHolds`,
  `NoSilentLossHolds`, `RunOnceHolds`, `PassesAgainHolds`: the properties of the
  same names;
- `DeliveryImplemented`: `Spec => ImplementsDelivery`, and with
  `DeliveryIsReliable`, a theorem about `LetterDelivery` alone, that whatever
  the API was told of a letter fits together and has what it needs for ever
  (`TasksAreReliable`), the backup excepted, which is held for a week.

They rest on the named assumptions of `LetterTasks` and `SanitiseContract`. No
property is inductive: that a callback is true depends on what the process held
when it sent it. `Inv` says so for each place a fact travels through: `QueueOK`
(what waits was asked for, by a job that is in `requested`), `WorkOK` (what a
process holds at each step, and that a process about to tell has stored),
`ObjectOK` (every object is an original under its name, or what some job makes
where that job stores it) and `ToldOK` (every callback is one of a job, which
has stored its file unless the letter failed). The delicate part is that files
stay: an upload of one job must not destroy what another one was told of. This
follows from the names: two jobs that store in the same place make the same file
(`SameTargetSameFile`), which needs `NamesAssumption`. `VerdictsAgree` then
follows since a letter has one job that reports on it, and a job one verdict but
for the exception.

`NoSilentLoss` follows a job on its way: an effect stays (`DoneStays`: what is
told is never untold, and a stored file is only replaced by its equal), trouble
stays, a queued message is taken only into a process, and a process lets go of
its job only with a retry in the queue, with the job's effect, or with trouble
(`RunEndsAccounted`). It needs `Inv` for the effect of an upload, where the
process must hold what its job is to make.

`RunOnce` and `PassesAgain` need to know where jobs come from. `JobsOK` says
that a message or a process is about a job the API could ask for (`PendingOK`),
and that a callback has a sanitising or creating job behind it, whose checks
accept the letter if it says so (`ReportOK`). A letter is made again only after
such a callback, so it was accepted under some permission, and
`PermissionDecides` says what another permission may change: a lemma about the
whole sequence of checks, that a letter accepted before and refused now was for
abroad, was allowed to be and is not. For `RunOnce` each step is followed by
where it puts a job: `Receive` moves it from the queue to one process, `Retry`
back, everything else that ends a run puts it nowhere, and `Request` finds it
nowhere, since the API does not ask for the same thing twice.

The refinement reads `LetterDelivery`'s `stored` off S3, one artefact at a time
(`Has`). An upload adds the artefact of its job and disturbs no other
(`StoreAdds`, `StoreMaps`: what was in its place was the same file), the backup
bucket is about one letter per key, and the scan bucket about none. A callback
is a `Tell` because `Inv` says the file is stored and a further invariant,
`BackupOK`, that the backup still is: the run itself made it, a copy by another
run puts the same original there, and `BackupExpires` waits for the callback.
That no verdict is taken back is `VerdictsAgree` of the next state.

`SanitiseFileProofs` proves `TypeCorrect`, `MeetsContractHolds`,
`PassesIffPrintableHolds`, `NothingCutOffHolds`, `PassedIsReadyHolds` and
`RGBIsExplainedHolds` for documents of any length and any page limit. The
inductive invariant ties the step to what has been found: `CheckedOK` (the
checks before this step have passed), `StreamOK` (where a reader starts at the
position, it is at the start), `FileOK` (what has been done to the PDF by now)
and `ResultOK`. That
the first failing check decides comes from `SanitiseContractProofs`: the checks
of the contract are a sequence, and the lemma `FirstFailureIs` names its first
failure from what precedes it. `RGBIsExplained` has an invariant of its own,
`ColoursOK`: until the conversion the colours are those of the upload and the
address, and the two questions about images leave the conversion out exactly
when they are all in CMYK. `ReturnsAnOutcome` ties the two halves together: what
`LetterTasks` takes sanitising for is what the steps of `SanitiseFile` give.

`PreviewCacheProofs` proves `TypeCorrect`, `CacheSoundHolds`, `LruSoundHolds`,
`ProgressHolds` and the refinement `ImplementsService`, for any number of
processes, greenlets, languages and versions and any size of the LRU caches.
`Inv` adds to the soundness of the caches that versions only grow and that
what a greenlet has stitched together is the beginning of its preview
(`GreenletOK`), as its process may show it; a replaced attachment or process
keeps both.

`PageGeometryProofs` proves the six properties and the type invariant for any
pages and any dots: linear arithmetic over the rectangles, once `Inv` says what
each step has found. `BlamedIsRedOnCanvasHolds` also needs that what lies beyond
the canvas of an upright page is at its edge, as an accepted page exceeds A4 by
at most 2 mm. `WrittenInPlaceHolds` follows from the tag's distance from the
stored corner, which is the viewed corner when `turned` is 0 and another one
otherwise, as the sides of an accepted page are longer than those of the box.
`PreviewRequestsProofs` proves that what a user has seen is at every moment the
beginning of the letter (`SeenOK`), and from it `EveryPageSeenHolds` and
`CountPredictsPrintHolds`, for any page limit and any letters.

Only model-checked: `EveryJobEnds`, since liveness under fairness is out of
reach of the provers used here. Its safety half is proved: by `RunsEnd` a run
has at most five steps and a message at most `MaxRetries` successors. Nor are
the violated properties theorems.

## Not modelled

- Libraries: the extraction of words by PyMuPDF and their grouping, the parsing
  of addresses by notifications_utils, rendering by WeasyPrint, ImageMagick and
  Poppler, what Ghostscript does to colours and fonts. Their results are inputs.
- Errors WeasyPrint only logs (missing fonts, broken CSS), and a logo that is
  replaced under its name: both may make a cached letter differ from one
  rendered now, and `CacheSound` speaks of neither.
- Logging, sizes of files, Sentry, metrics, `/_status`, the start of the
  application, the 404 handler.
- Prefetching, SQS message groups, the limits after which Celery and gunicorn
  recycle a process: the models allow it at any time.
- `/precompiled/sanitise` as an endpoint (see `PreviewRequests`).

## Plan

1. Done: the tasks, the sanitiser, the previews and their caches, the geometry,
   the requests; every safety property and both refinements of the passing runs
   proved.
2. `/precompiled/sanitise` followed by the overlays it leads admin to, page by
   page: composing `SanitiseFile` with `PreviewRequests` and `PageGeometry`.
