# spconnect: a verification development

spconnect is a read-only extractor for legacy SharePoint servers. It walks the
webs of a site, reads the schema of every list, pages through the items by ID,
downloads their files and writes everything to a *landing zone* of plain files.
A crawl takes hours over unreliable servers, so the program's worth lies in
what it promises about interruption, resumption and incremental updates. Those
promises are the subject of this directory.

Paths below are relative to the repository; `crawl.py`, `landing.py` and so on
are in `src/spconnect/`.

## 1. Inventory

| Part | State it keeps | Operations | Hard parts |
|---|---|---|---|
| full crawl (`crawl.py` `crawl_list`) | locals `last_id`, `written`; the list's state entry | skip, resume, reset, page loop, checkpoint, complete | three stores written one after the other (two JSONL files, state file), a stop anywhere, failing saves, a list that changes while it is read |
| incremental sync (`sync_list`, `_prime_change_token`) | `change_token` in the entry; batches in memory | read batches, drop lines, rewrite lines, store token, fall back to a full crawl | several batches per sync, changes during a crawl, a sync that fails between dropping and writing |
| file downloads (`files.py`, `_collect_files`) | the item's directory, one record per file | choose a path, request, stream, hash, give up | a thread pool over one directory, path choice apart from creation, endless bodies |
| landing zone (`landing.py`) | two append-only JSONL files per list, schema, graph, manifest | append, reset, truncate, filter, atomic rewrite | half-written lines, two files that must agree |
| state store (`state.py`) | all entries in memory and on disk | update (memory), save (temporary file, fsync, replace), load | memory ahead of disk after a failed save |
| run orchestration (`crawl.py` `crawl`, `sync`, `discover`, `fetch_schemas`) | report, schema cache | per-web and per-list isolation, abort on an authentication failure | which failure ends what; which lists a resumed run skips |
| web discovery (`services/webs.py`) | queue and seen set of a walk | recursive call, fallback to a breadth-first walk | cycles, depth limit, unreadable subwebs, what "complete" means |
| transport (`transport.py`) | rate limiter, counters, NTLM facts | send, retry with backoff, prime a connection, probe | shared by threads; bounded retries inside retries |
| list service, SOAP (`services/lists.py`, `soap.py`) | none | build a request, parse a page, a change batch or a fault | what an empty or a short page means |
| OData service (`services/odata.py`) | cached entity sets | match a list to an entity set, read pages, map rows | server page limit, `$expand` fallback |
| decoders (`decode.py`) | a warning counter | total functions from `ows_` strings to values | multi-value splitting |
| diagnosing commands (`cli.py` probe, probe-rest, permissions, explore; `permissions.py`; `--diagnose` of the pull script) | what the session knows of its credential; what was denied | a fixed sequence of requests, then a conclusion | a signed-in connection is served without a credential, so a reply proves less than it seems |
| schema, models | none between steps | parse, join, render | none that depends on order |
| pull script (`scripts/pull_tickets_and_comments.py`) | its output files are its state | resume by scanning, page, halve the page, fall back | append after a half-written line, order of rows |
| the rest of the command line (`config.py`, `console.py`, `trace.py`) | settings | options, output, redaction | none |

How they interact: the command line builds one crawler over one transport. A
run discovers webs and lists, fetches schemas, then handles one list at a time
in a single thread. For each row `_write_page` decodes the row, lets the pool of
`_collect_files` download its files, waits for them and appends one line to each
JSONL file. Pages, not rows, are checkpointed in the state file. Requests, the
disk and decoders report failures as exceptions; `crawl()` and `sync()` catch
all but an authentication failure per list, mark the list failed, save, go on.

What makes each part correct: the checkpoint vouches only for rows that are in
both files; no row is in a file twice; `complete` means whole; a change token
vouches for what came before it; a record of a download tells the truth about a
file; a list or web that a run leaves out is named in its report; a decoded value
is the stored one or was warned about; a conclusion of a diagnosis is true of the
farm; every run, list and download ends. Section 4 states these precisely.

## 2. Modules

| Module | What it is |
|---|---|
| `ListCrawl` | the full crawl of one list at the grain of single file operations |
| `ListMirror` | what a full crawl promises, without files, pages or processes |
| `ListCrawlInv` | the inductive invariant of `ListCrawl` |
| `ListCrawlProofs` | the theorems about both |
| `ListSync`, `ListSyncProofs` | sync and its fallbacks over a change log, with crawl and resume in between; its theorems |
| `FileDownload`, `FileDownloadProofs` | the downloads of one item by a thread pool, over several crawls, and its theorems |
| `Transport`, `TransportProofs` | the request path shared by all threads: limiter, retries, priming ladder; its theorems |
| `WebWalk` | the discovery of the webs: recursive call, fallback, breadth-first walk |
| `EntitySets` | operators: the service document, `$metadata`, a list's title matched to a collection |
| `CrawlRun`, `CrawlRunMC`, `CrawlRunProofs` | all commands over one landing zone: discovery, schemas, every list, the state store; extends the two above; its theorems, and those of the walk |
| `PullScript`, `PullScriptMC`, `PullScriptProofs` | the pull script: runs over one output directory, join, attachment survey; its theorems |
| `Diagnostics`, `DiagnosticsMC`, `DiagnosticsProofs` | `probe`, `probe-rest`, `permissions`, `explore` and `--diagnose` against a farm they only know by its replies; its theorems |
| `RowDecode`, `RowDecodeMC`, `RowDecodeProofs` | one item decoded from SOAP and from REST; its theorems |

`CrawlRun` composes: a list is there what `ListCrawl` and `ListSync` make of it (a
status, a checkpoint, a token), a request what `Transport` makes of it (an answer,
a failure, a refused credential). `Diagnostics` uses `Transport`'s ladder in short.
The modules ending in `MC` give the instance its farm, options and items.

### ListCrawl

One process at a time runs `crawl_list` for one list; `pc` is the call it is in.
The files are functions from item ids to numbers of lines, plus the set `torn` of
files that end in a half-written line. A line appended to a torn file is lost,
because fragment and line together do not parse. `disk` is the entry in the
state file, `entry` the one in memory; `update()` changes the second, `save()`
copies it to the first or raises.

| Code | Actions |
|---|---|
| skip / resume / reset, `crawl.py:372-384` | `StartFresh`, `StartResume`, then `UnlinkItems`, `UnlinkRaw` or `TruncateItems`, `TruncateRaw` |
| first save, `crawl.py:386-395` | `Begin` |
| page request and runaway guard, `crawl.py:424-448` | `Fetch` (an empty, a stalling or an advancing page) |
| `_write_page`, `ListWriter.write` | `WriteItems`, `WriteRaw`, once per row |
| checkpoint, `crawl.py:458-460`, and short-page test, `:474` | `Checkpoint` |
| complete, `crawl.py:480-488` | `Finish` |
| any exception but an authentication failure | `Raise`, then `MarkFailed` (`crawl.py:658-666`) |
| kill, Ctrl-C, authentication failure, or a save in the handler that raises | `Interrupt` |

Every save may fail, in which case the memory is ahead of the disk and the
exception handler persists what the memory says: the model keeps this, and the
invariant has a part of its own for it (`HandlerInv`).

Two history variables: `exposed` is true from the unlinking of the files until a
checkpoint of the new run is on disk, if an old checkpoint still vouches for the
unlinked rows; `horizon` is the next id at the last page request.

Abstracted: what a row holds; the two backends (SOAP and OData) differ only in
how a page is obtained. A row without a readable id, which `_write_page` skips
in both files with a log line, is left out. An items file whose last line lacks
only its newline counts as torn: the id of such a line is above the checkpoint,
so truncation drops it either way.

### ListSync

The server is a change log; an item's version is the position of its last change;
a token is a position. The files hold, per item, the versions of its lines. A
batch brings the *current* rows of items changed in its part of the log and the
ids deleted in it. A full crawl appears page by page; what may happen inside a
page is `ListCrawl`'s subject, and half-written lines too: a sync always drops
unparseable lines before it appends, since a repeated batch is never empty.

`FallBack` is a sync without a usable token, `TokenRejected` the SOAP fault or
the invalid-token reply, both followed by a full crawl with `Prime` at its end.
A server too old for change tokens (`crawl.py:712-716`) makes a sync a plain
`StartCrawl`. The token of a batch that reports none is left unchanged in the
code; the model's server always reports one.

History: `fetched` (how long the log was when an item's page was read), `twice`
(ids read in two batches of this sync) and `blurred` (ids that a change between
page and priming, or a second batch, has touched and no later crawl or sync has
put right). `UpToDate` excludes exactly the blurred ids; section 4 says where the
documentation promises more.

### FileDownload

The directory maps paths to inodes, a file is the sequence of its chunks, each
named for the target it belongs to; a write goes to the writer's own offset and
an unlink removes the name only, as on POSIX. `Choose` is `_unique_path` and
`Open` the `open("wb")` after the response has come: between the two the other
threads run. `Kill` and `Escape` leave the records incomplete; `StartRun` crawls
the item again, over the files of the run before, because nothing removes them.

### Transport

Threads make calls, SOAP POSTs or GETs, over one transport. `pc` is where a
thread is inside a request: `acquire` (about to take the limiter's lock), `sleep`
(inside it, holding the lock over the sleep), `send`, `backoff`. `stage` says
which request of the call it is: the call itself, a priming request, or the call
made `again` with `_primed=True`; `rung` numbers the priming requests: 1 the
empty POST, 2 the GET to the endpoint, then the URLs of `_prime_urls`.

| Code | Actions |
|---|---|
| `RateLimiter.acquire`, `transport.py:818-827` | `Lock`, `Grant` |
| what `_send` returns or raises, `:1056-1072`, and the retry loop, `:991-1006` | `Answered`, `Flaky`, `Backoff`, `Refused` |
| `post_soap`'s handler of a refusal, `:1302-1319` | `Refused` (prime or give up), `CallAgain` |
| `_prime_attempt`, `:1105-1148` | `PrimeUnanswered`, `PrimeRefused`, `PrimeCarried`, `PrimeBare`, `PrimeRaises` |
| `_prime_connection`, `:1212-1284` | `Climb` |

Time is discrete and relative: `hold` is how far ahead `next_allowed` lies, `Tick`
lets it and the sleeps run down. A thread may be woken late, in which case the
next interval counts from then (`:826`). The server answers anything at any time,
also inconsistently. `credential_accepted` is one flag of the session, so one
thread's handshake changes how another thread's bare answer is read; it may be
true at the start, because `probe_version` sets it too. A priming request may
die of an exception that `_prime_attempt` does not catch: that exception then
leaves `post_soap` in place of the refusal (`PrimeRaises`).

Abstracted: URLs and bodies, the reason of an error, the legs of an NTLM
handshake (`requests-ntlm` sends them inside one request, uncounted by the
limiter), the length of a backoff. A limiter switched off
(`SP_REQUESTS_PER_SECOND` 0) promises nothing and is left out.

### WebWalk and EntitySets

Webs are numbered in the order of their URLs. `queue` holds webs with their
depths, `seen` the URLs, `titled` those whose title a reply gave: the walk learns
titles from parents' listings, and nobody lists the root (`webs.py:137`), so a
title pattern never meets the root after a walk.

| Code (`services/webs.py`) | Actions |
|---|---|
| the recursive call and its reply | `BeginRecursive`, `RecursiveReply` |
| the walk: start, depth limit, listing, unreadable web | `BeginWalk`, `TooDeep`, `Visit`, `Unreadable` |

`EntitySets` has no state: what each answer of the service comes to
(`ServiceDocument`, `Metadata`, `EntitySets`), and `entity_set_for` on names
reduced to their two foldings, with every letter and with ASCII alone.

### CrawlRun

One landing zone, and commands over it one after the other. `pc` is the phase,
`disk` and `mem` the state store, `report` the `RunReport`, `cached` the lists whose
`list.json` is on disk. `begun` is the run that began a list's files, `readFrom`
where its rows come from (`NoSet` for SOAP, else an entity set).

| Code | Actions |
|---|---|
| the command line's start and the ways it ends (codes 0, 1, 2, 130) | `Start`, `Through`, `Raise`, `Abort`, `Interrupt` |
| `discover`, `crawl.py:220-279`, over `WebWalk` | `AllSubWebs`, `FallBackToWalk`, `StopAtDepth`, `VisitWeb`, `SkipWeb`, `DiscoveryRaises`, `ScopeWebs`, `EnumerateLists`, `EnumerationFails`, `EnumerationRaises`, `Discovered` |
| `fetch_schemas` and its cache | `CachedSchema`, `FetchSchema`, `SchemaFails`, `SchemasRaise`, `BeginLists` |
| the loops of `crawl` and `sync`, `:630-706` | `NoSchema`, `SkipComplete`, `BeginCrawl`, `FullCrawlInSync`, `SyncChanges`, `TokenRejected`, `ListRaises`, `MarkFailed`, `HandlerRaises`, `AbortList`, `Finish` |
| source of the rows, pages, end of a list, token | `ChooseSource`, `SavePage`, `EndOfList`, `Primed` |

A save writes the whole store, so the failure of one list could persist what
memory says of another: `disk` and `mem` are functions of all lists for that
reason. `SetEntry` is `StateStore.update`, in memory; `SaveEntry` is the update and a
save that succeeds. Every save may raise instead (`Raised`), and so may what lies
between an update and the save after it: a rejected token is forgotten in memory
(`crawl.py:747`, `:755`) and saved, if it gets that far, by the `crawl_list` that
follows. The memory is then ahead of the disk until the handler (`pc` is "handler")
has saved, or has raised in its turn and ended the command. The save of a new token
(`:812-813`) is outside the `try` of `_prime_change_token`: if it fails, a list that
was complete on disk is counted and marked as failed. Pages are counted only as
"one or more from this source". A dry run does what `discover` does and is not a
command of its own.

### PullScript

A row is its number, the value of its key. A file is a sequence of lines, each
with the name the key had in the language of the run; `tail` says whether the last
line ends in a newline, is whole without one, or is torn. `server` honours,
refuses or ignores `$filter`; it pages at its own size and, on its own
continuation, in its own order.

| Code (`scripts/pull_tickets_and_comments.py`) | Actions |
|---|---|
| `main` | `Start`, `ReadSets`, `Fails`, `Interrupt` |
| `discover_schema`, the checks before the loop | `ReadSchema`, `SchemaMismatch`, `BeginPull` |
| `pull`'s loop | `PageArrives`, `NoMoreRows`, `EmptyFeed`, `WriteCut` |
| its retries and fallbacks | `Halve`, `DropExpansions`, `FallBack`, `PullFails`, `PageUnreadable` |
| `join`, `detect_parent_key` | `Join` |
| `survey_attachments` | `AskTheTickets`, `CountAttachments`, `FetchSample` |

`NewRow` lets a list grow at any time. History: `merged` (rows of a line that two
runs broke between them), `unordered` (collections with a page in the server's
order), `start` (what there was when the pull of a collection began).

`Listed`, `Ascending` and `Part` filter, sort and cut a list of rows by what the
result is - who is in it, and how many come before - where the libraries compute
it by recursion: the result is the same, and it can be reasoned about.

### Diagnostics

The farm is a record fixed at the start: credential, membership, access to the
services, what the root answers to nobody in particular (its page, a challenge, a
redirect to a page that challenges, a redirect to a sign-in page, a page that names
one), the scheme it asks for, whether POSTs work, what stands at `ListData.svc`, how
a signed-in account that may not read is refused (a 401 or a page served with 200),
what is closed. No action looks at it but through `GetReplies` and `Posts`, which say
what a request is answered and whether the request that got the answer carried a
credential. What makes the diagnosis hard is there:

* with NTLM a handshake signs in a connection, and later requests on it carry
  nothing and are served;
* a redirect after the handshake ends on such a bare request: `probe_version` follows
  redirects and `_authenticated` looks at the last request only, so the session is
  `signedIn` and not `accepted`;
* Basic sends its header unasked: a page served to anybody makes the session
  `accepted`.

`Anybody` is the answer to a GET without a credential, `SignedBy` and `SignedByPost`
are what a request does to the connection. `Steps` gives each command its sequence of
requests.

| Code | Actions |
|---|---|
| `probe_auth_schemes`, `probe_version` | `Reach`, `Moved`, `Authenticate` |
| `diagnose_endpoint_auth`, `report_auth_failure` | `Report` in every action that can be refused |
| `probe` | `EnumerateWebs`, `InventoryOfRoot`, `OtherServices` |
| `probe-rest` | `ReadRest`, `ReadRow`, `AskSoap`, `Compare` |
| `permissions` | `EnumerateWebs`, `Declared`, `AskForAccess`, `AccessDenied`, `EndAccess` |
| `explore` | `EntitySets`, `Count`, `EndExplore` |
| `--diagnose` of the pull script | `Diagnose` |

### RowDecode

A string is a sequence of atoms: the delimiter `;#`, numbers, dates, term GUIDs,
anything else; `Pieces` splits it at its delimiters, the first of them, the second and
so on (`Cut`), and `Join` puts pieces together again. `SoapOf`, `EntityOf` and
`Element` are the servers, written after the fixtures of `tests/`; everything else is
`decode.py` and `services/odata.py`. A behaviour decodes the SOAP row at once (`DecodeSoapRow`)
and the entity property by property in any order (`MapProperty`), because JSON and
Atom promise none; `JoinIds` then puts lookup ids behind their labels, and the
entity's `Id` in the place of an `ID` that is missing.

A property has a `key`, its foldings, the stem before a final "Id" (`base`), the column
it is `of`, and whether it is that column's scalar id (`id`). What `map_row` makes of it
is decided by the names alone, as in the code: `InternalName` finds the first column
that has its folding, whichever column it is of, and an integer whose stem names a
column is taken for that column's id (`IsLookupId`), whether it is one or not.

## 3. Runs

| Run | Instance | Distinct states | Result |
|---|---|---|---|
| `ListCrawl` | ids 1..4, pages of 2, server limit 2 | 145,612 | all properties hold |
| `ListSync` | 2 items, 4 changes, batches of 1, at most 2 batches | 2.7 million | all properties hold |
| `FileDownload` | 2 files of one name, 2 threads, at most 2 chunks, 1 suffix, 2 runs | 257,239 | all properties hold |
| `Transport` | 2 threads with a call each, 2 attempts, interval 2, 2 candidate URLs | 138,810 | all properties hold |
| `CrawlRun` | 5 webs, depth limit 2, 3 lists, 3 setups, 2 commands, 2 failures | 398,622 | all properties hold |
| `PullScript` | ids 1..3, server pages of 2, 3 services, 4 command lines, 2 runs, 3 failures | 189,011 | all properties hold |
| `Diagnostics` | every mixture of nine traits of a farm, partly closed farms, 4 modes, every set of refused options | 1.0 million | all properties hold |
| `RowDecode` | 17 columns, items that vary a few at a time, 16 ways of sending them | 222,944 | all properties hold |
| `ListCrawl_interrupt` | as `ListCrawl` | | `SafeToInterrupt` violated |
| `ListSync_resume` | as `ListSync` | | `NoGapsAtFinish` violated |
| `CrawlRun_resume` | as `CrawlRun`, one setup, 3 commands, 1 failure | | `ResumeFinishesCrawl` violated |
| `PullScript_torn` | as `PullScript` | | `ResumesCorrectly` violated |

**Bounds.** Four ids and pages of two give two full pages, a full page and a
short one, a last page that is exactly full, and a page that follows a deletion
inside an earlier one; starts, failures, interruptions and resumes are not
bounded at all. The proofs of section 5 lift the ids, the page size and the
limit. In `ListSync` four changes suffice for an item that is added, edited, edited
again and deleted beside another one, and two batches of one change for a sync
that is cut short by `MAX_SYNC_PAGES`; three batches per sync are not explored. In
`FileDownload` the second run is what meets earlier files, one suffix is enough to
reach the unchecked name after the last one, and two chunks let one writer be
ahead of the other; its proofs lift all of these. In `Transport` two candidates
are what the code has (`PRIME_CANDIDATE_PATHS`), two attempts give a retry and a
last attempt, and one call per thread (`MaxCalls`) reaches every rung and every
way back; the flag that calls share is free at the start. The proofs lift these
too.

The farm of `CrawlRun` has a chain of sites longer than the depth limit, a web that
lists itself and, as a detour, a web of the chain; two lists in one web whose titles
differ in an umlaut only (over services that keep it and that drop it), a hidden
list, a library, and a web excluded by its title. Two failures (`MaxFaults`) may
fall into one command or one into each; `MaxRuns` commands give every ordered pair
of the five. In `PullScript` two failures are what a drop of expansions and a
fallback take, the third stops the run that did both; two runs (`MaxRuns`) are what
a resume needs; the third comment appears while others are read. `Diagnostics`
bounds nothing but the web (a root and one sub-web) and the lists (two).
`RowDecode` has texts that are empty, look like ids or dates, hold the delimiter
or begin or end with it: all that the splitting can tell apart; two lookups per
multi-value are enough for an orphan, a shift and a pair of errors that cancel out.
Among its columns are two that fold alike, and an integer called `AuftragId` beside a
text `Auftrag`, so both clashes of names happen.
Its proofs lift the length of the strings and of the lists, the columns and the names.

**Deadlock** is checked in `ListCrawl` and `ListSync`, which never run out of steps.
It is not in `FileDownload`, `CrawlRun` and `PullScript` (`MaxRuns`), in `Transport`
(`MaxCalls`), nor in `Diagnostics` and `RowDecode`, where a behaviour is one
command or one item: when the last has ended, nothing is left to do.

**Fairness.** `ListCrawl`: weak fairness of the process as a whole. `crawl_list`
is straight-line code, waits for no other thread, and every request has a timeout
and a bounded number of retries, so a process that can take its next step does.
Nothing is assumed of the environment: the server, exceptions and interruptions
may come always or never. `CrawlRun` and `PullScript`: weak fairness of the
process (`Proceed`), on the same grounds; starting a command, interrupting one and
new rows of the server are outside it. `FileDownload`: weak fairness per thread of
the pool (`timeout_seconds` bounds each read). `Transport`: weak fairness of time
and of each thread: every request has a timeout and every sleep an end. The
limiter's lock is not assumed fair: `CallsEnd` holds although a thread may lose it
to others again and again, because a run makes finitely many calls and each sends
a bounded number of requests. `ListSync`, `Diagnostics` and `RowDecode` check safety
only: the first may repeat commands for ever, the others cannot.

## 4. Properties

Each module's `Consistent` is its type invariant together with a relation between
parts of its state, named below.

`ListCrawl`

* `NoGaps` - every item that exists at or below the checkpoint on disk has its
  line in both files, unless `exposed`.
* `NoDuplicates` - never two lines for one item.
* `CompleteIsWhole` - a list marked complete holds all that existed when its last
  page was asked for, if the server serves pages as large as asked for.
* `CompleteIsLockstep` - its two files hold the same items, and no fragment.
* `RunEnds` - every run ends, whatever the server answers.
* `ImplementsMirror` - refinement: captured are the items in both files that the
  checkpoint on disk covers; the boundary moves only over intervals captured
  whole, and captured items are given up only by starting over.
* `IInv` - the inductive invariant of the proofs, section 5.

`ListSync`

* `UpToDate` - a complete list with a token holds, in both files, exactly the
  current version of every item not changed after the token, but for blurred ids.
* `Consistent` - of what the token covers the two files hold the same lines, also
  for the blurred ids (`BothFilesAgree`).

`FileDownload`

* `TrueRecords` - a download that did not overlap one of the same name is recorded
  truly: the file is there and holds this target's bytes and no others.
* `RecordedFilesStay` - a later run never touches a file an earlier one recorded.
* `Consistent` - a first run that ends by itself leaves no file without a record
  (`NoLitter`).
* `EveryTargetAnswered` - every target gets its answer.

`Transport`

* `Spaced` - all threads and retries and priming requests together, two requests
  are never granted closer than the interval: the lock is held over the sleep.
* `FewLogons` - a SOAP call spends at most three failed logons, a GET one: a
  refusal on the endpoint keeps the ladder from its candidates, a refused
  candidate ends it, and a repeated call is not primed again.
* `RepeatedWhenAccepted` - a refused call is made again only in a session whose
  credential has been accepted.
* `FewRequests` - at most `2 * MaxRetries + 2 + Candidates` requests per call.
* `CallsEnd` - every call ends.

`CrawlRun`

* `NoListLost` - after a command that ends with code 0, every list in scope of
  every web in scope of the farm is complete on disk, or an error names it or its
  web, or a warning a web above it. This spans discovery, scope, schemas and lists.
* `OmissionsExplained` - a web the finished walk did not find lies below one that
  was unreadable or stopped at the limit; and what is within the limit is missed
  only below an unreadable one, because the walk is breadth-first.
* `CountsAddUp` - every list in scope succeeded or failed, and as many failed as
  errors name.
* `Consistent` - of the lists that had a schema, exactly those are `failed` on disk
  that the report names (`FailedIsOnDisk`).
* `NothingLeftInMemory` - a command that ends with code 0 or 2 has saved all it
  decided: what a save failed on, or a rejected token left in memory alone, is
  written by a later save, the handler's if need be.
* `OwnRows` - a list's rows come from its own collection whenever title and names
  can be told apart.
* `RunsEnd` - every command ends, whatever the replies list and whatever fails.

`PullScript`

* `Consistent` - no row of a keyed collection is on disk twice, in whatever language
  and by whichever paging it was read, unless the service ignores `$filter`
  (`NoDuplicates`).
* `NothingSkipped` - below the highest key on disk no row is missing, but for the
  two rows of a merged line and files with a page in the server's order.
* `FinishedPullIsWhole` - a run without `--limit` that ends with code 0 has on disk
  every row there was when it came to the collection, with the same exceptions.
* `ThreadsAreWhole` - where the data can tell the column that names the ticket, the
  joined file has every ticket with all its comments, once each and in order.
* `RunsEnd` - every run ends, also on a service that does not understand `$filter`
  and while the list grows.

`Diagnostics`

* `ConclusionsHold` - what the differential check concludes is true of the farm,
  wherever its two GETs can tell the causes apart: not where anybody is served, not
  in basic mode, and not in a session that was signed in without noticing.
* `ProbeProves` - `probe` and `permissions` end with code 0 only where the account
  can make the calls a crawl is made of.
* `ComparisonsHold` - the same for the comparison of REST with SOAP
  (`ComparisonHolds`) and for the option `--diagnose` names (`DiagnosisFits`). Of a
  REST called absent it is only that the account gets no collections there.
* `CompleteIsReadable` - "everything is readable" is said only if it is.
* `Consistent` - but in basic mode, `credential_accepted` is set only in a session
  whose credential the server took (`AcceptedIsTrue`).

`RowDecode`

* `RoundTrip` - decoding undoes the encoding where the encoding is not ambiguous,
  and keeps the id of a lookup always.
* `WarnedOrWhole` - a multi-value lookup with one thing wrong in it is whole or has
  been warned about.
* `BackendsAgree` - both backends write the same values, in whichever
  representation and order the service sends them, with the exceptions the
  property lists.
* `NoColumnLost` - every property that is not deferred is in the row with its value,
  unless a clash of names disturbs it (`Undisturbed`).
* `Consistent` - either backend reads the same item id (`SameItem`).

**What the violation runs show.** Each checks one sentence of the documentation.

1. `SafeToInterrupt` ("Ctrl-C at any point is safe", `docs/operations.md:273`).
   A crawl without `--resume` unlinks the files of a list first and saves the
   entry with `last_item_id` 0 afterwards. Stopped in between, the state file
   still says `complete`, or vouches for N rows; `--resume` then skips the list or
   goes on after N, over files that are gone. Saving first would close the window.
2. `NoGapsAtFinish` (`docs/operations.md:281`, `:287`). A sync that fails between
   dropping the old lines and writing the new ones marks the list failed; the
   resume that retries it starts above the dropped items and marks it complete.
   The old token is still stored, so a later sync does repair the list.
3. `ResumeFinishesCrawl` ("To retry only the failed lists after a partial run:
   `--resume` does this automatically", `docs/operations.md:286`). A crawl that is
   stopped before it reaches a list, or cannot fetch its schema, leaves the
   `complete` of an earlier crawl in the state file; the resume skips the list and
   reports no error, over rows of the earlier crawl.
4. `ResumesCorrectly` ("a scan that skips unparseable lines resumes correctly",
   `scripts/pull_tickets_and_comments.py:641-646`). The scan does; but the first row
   of the new run is appended to the truncated line, both become one line that
   does not parse, and later rows hide the gap from every later run.

**What the exceptions stand for.** A property that holds "except" for something
states a limit of the code; those limits, and others met while modelling:

*Crawl and sync.*

* A page shorter than asked for ends a list (`crawl.py:474`), and a continuation
  link is never followed. With `SP_PAGE_SIZE` above the server's own limit a list
  is complete after one short page, against `docs/architecture.md:109-110` and
  `services/odata.py:23`. Hence `CompleteIsWhole`'s condition.
* An item in two batches of one sync gets a line per batch, and one deleted in a
  later batch is written back (`crawl.py:760`, against `docs/landing-zone.md:337`,
  "No duplicate lines."). The first token is taken after the crawl (`:721`): what
  was deleted after its page and before the token is never reported, against
  `docs/operations.md:298-300`. These are the blurred ids of `UpToDate`.
* `items_written` after a sync subtracts the removed lines of both files and adds
  those of one (`crawl.py:786`), so the counter drifts; nothing decides on it.
* An authentication failure in `discover` or `fetch_schemas` is no `CrawlAborted`:
  exit code 1 and no manifest; the manifest of an abort says `lists_failed` 0; the
  priming of a token swallows it altogether.
* A sync that falls back to a full crawl reads over REST in `odata` mode, although
  `docs/operations.md` says a sync is always SOAP; a resume may mix raw rows of both.
* With the names a service has stripped of non-ASCII letters a list can be matched
  to its neighbour's collection; `OwnRows` says exactly when it cannot.
* The retry without `$expand` catches `ODataError`; a 500, for which it was
  written, arrives as `RetryableTransportError` and fails the list.

*Downloads.* Two downloads of one item with one name choose one path before either
creates it (`files.py:95`, against the comment at `:53`): `TrueRecords` excludes
them. The name after the last suffix is used without looking.

*Pull script.*

* After a fallback to the server's paging the file is not in key order, and a later
  run resumes after the highest key: `unordered`.
* A service that ignores `$filter` gives the same rows to every run, with code 0.
* The attachments' rows have no key: each `--attachments` run that can enumerate them
  appends all of them again (`:1063-1066`), and the inventory collected from the
  tickets is taken for the whole set next time (`:1068`). A sample's file name has
  the item's id without its list (`:1031`).
* `probe()` reports a refused credential as an unavailable page (`:176`), which costs
  the expansions, then the key, and ends with code 1 and not 2.
* `detect_parent_key` may choose a wrong column over a partial set of tickets
  (`:1242`): hence the condition of `ThreadsAreWhole`.

*Diagnoses.*

* Where anybody may read the root, the suggested mode is `anonymous` and the
  differential check is skipped as a mismatch of modes (`cli.py:276-279`).
* `explore` reports without having asked for the schemes (`cli.py:562`, against the
  comment at `:283-285`), and neither it nor `probe-rest` lets a GET of `ListData.svc`
  set `credential_accepted`: a later 403 is blamed on the credential, although the
  session is signed in (`transport.py:1571-1573`).
* With NTLM a farm that redirects after the handshake leaves `credential_accepted`
  unset (`transport.py:1637-1657`, `:1099`): a later refusal can be reported as
  "nothing in this run has authenticated at any point" (`:1571-1586`) although the
  account has signed in.
* In basic mode the header goes out unasked (`transport.py:967-968`), so a page served
  to anybody sets `credential_accepted` on a wrong password, against the docstring at
  `:1091-1101`, and the differential check then says that the credential is accepted.
* No mode is suggested on a redirect or a sign-in page (`transport.py:744-765`), so the
  differential check runs there (`cli.py:276`), and says "cannot read this web" of an
  account that was never asked.
* A 200 at `ListData.svc` that names no collections, a page saying that the account
  may not read included, is `ODataUnavailable` (`odata.py:345-353`, `:466-480`) as a 404 is, and
  `probe-rest` says that the service is not installed (`cli.py:858-867`) and that the
  credential is not being refused (`:745`). `ComparisonHolds` asks of "absent" only
  what it can mean.
* A wrong password is refused at both GETs and is called a question of permissions;
  "the account is fine" (`cli.py:836`) is wrong where anybody is served.
* `explore` and `permissions` stop at the first 403 of a single list. With
  `--no-probe-items` "Everything discovered is readable" is said of the webs alone,
  and warnings of the discovery do not count against it.

*Decoding.*

* Two surplus delimiters in a multi-value lookup cancel out without a warning, and a
  text that ends in the delimiter loses it. A choice that holds the delimiter, or is
  empty, comes back as several or not at all (`decode.py:217-231`).
* A lookup without an id is its text alone: a text that is empty, holds the delimiter
  or reads like an id is taken for something else (`decode.py:243-265`).
* Over REST a text that is an ISO date becomes a date (`docs/troubleshooting.md:386-389`),
  and so does a choice of several; a calculated number sent as a decimal stays a text,
  because `_coerce` looks at the column's type, which is `Calculated`; a taxonomy value
  has no term; several lookups that were not expanded are missing (`odata.py:613`); an
  empty multi-choice sent as Atom is an empty text; folders have no `FSObjType`.
* The scalar `<name>Id` of a lookup that is null stays in the row under its own name.
* "Losing a column silently is the one unacceptable outcome" (`odata.py:613-615`), but
  two clashes of names lose one. A folding, with every letter or with ASCII alone,
  belongs to the first column that has it: of two columns that share one, both are
  written in the place of the first, the later over the earlier, and the second is
  not in the row (`:632-649`, `:666-667`). An integer column called `<X>Id` beside a
  column `<X>` is taken for its id (`:661-665`): it is not in the row, and `<X>`
  becomes a reference. `Undisturbed` names these properties; `NoColumnLost` and
  `BackendsAgree` are about the others.
* `ows_ID` sent as `42;#42` gives the right item id and no value for the column.

## 5. Proofs

`ListCrawlProofs.MirrorIsWhole`, of the instance `Mirror` that the crawl implements:
in the abstract mirror everything at or below the boundary is captured. Besides the
promise itself the invariant needs that ids are handed out in order and the boundary stays below the next one, so that what
is added later is above it.

`ListCrawlProofs` proves, for every number of ids, page size and server limit
(assumption `ConstantsAssumption`: naturals, the last two not zero),

* `TypeCorrect`: `Spec => []TypeOK`,
* `Invariance`: `Spec => []IInv`,
* from it `NoGapsHolds`, `NoDuplicatesHolds`, `CompleteIsWholeHolds` and
  `CompleteIsLockstepHolds`,
* `MirrorImplemented`: `Spec => ImplementsMirror`, and with `MirrorIsWhole`
  `CapturedIsWhole`: the crawl keeps what the mirror promises.

None of the properties is inductive. `NoGaps` alone says nothing of the files
above the checkpoint, and the checkpoint moves there. `IInv` adds, for every
place the process can be at:

* `ServerInv` - all ids ever seen are below the next id the server gives;
* `ProcessInv` - the entry in memory is the one on disk except between a failed
  save and the handler, and `last_id` follows it;
* `HandlerInv` - what the handler of a failed save is about to persist;
* `CoverInv` - what a checkpoint, in memory or on disk, vouches for is in both
  files with the same number of lines;
* `TailInv`, `PageInv` - above `last_id` the files are empty, but for the rows of
  the page being written, of which at most one is in the first file only;
* `TornInv` - fragments survive only until their file is unlinked or truncated;
* `HorizonInv` - a short page reached past everything that existed.

The proof has one lemma per action and cites in each only the parts that it can
disturb. The refinement proof uses that every step that leaves `Captured` and the
checkpoint alone is a stutter (`Invisible`), and that the only steps that move
the boundary are a checkpoint and the handler after a failed one (`Advances`).

`FileDownloadProofs` proves, for any files and names, size of the pool, size
limit, number of suffixes and of runs (`DownloadAssumption`), `ConsistentHolds`,
`TrueRecordsHolds` and `RecordedFilesStayHolds`, from one inductive invariant
(`Invariance`):

* `PlaceInv` - a target's path is one of its names, a running download has one, a
  record stands only at the end of one;
* `InodeInv` - no two paths lead to one file;
* `KeptInv` - what earlier runs recorded is there, under names no thread holds, in
  files no thread has open. The name after the last suffix is why: it carries the
  run, and no earlier run's record does;
* `NamesakeInv`, `FreshInv`, `StreamInv`, `RecordInv` - a download that has met no
  namesake and has not run out of names has its path to itself: no file there
  before it is opened, its own chunks and no others while it streams, and the
  same file after its record;
* `LitterInv` - in the first run a file is being written, was left by a stopped
  thread, or is on record.

The one induction inside it, that `_unique_path` returns a name that is free or the
last one, takes the least free number (`LeastNumber`, by well-foundedness of the
naturals). Actions that leave directory and data alone share one lemma (`QuietIInv`).
`TrueRecords` alone is not inductive: another thread could unlink or write the
recorded file, which only the ownership of paths and inodes excludes.

`TransportProofs` proves all safety properties of `Transport`, for any set of
threads, interval, number of attempts and of candidates (`TransportAssumption`).
Each has an inductive invariant of its own over `TypeOK`, which contains the
discipline of the lock (a thread is inside `acquire` exactly if it holds the
lock); only the count of requests needs the refusals' and the retries' too:

* `SpacingInv` - `since + hold` is at least the interval, and what is left of the
  sleep of the thread that holds the lock is what is left of `hold`; hence, when
  the sleep is over, an interval has passed. That nobody else can change `hold`
  meanwhile is the lock's doing.
* `LogonInv` - refusals so far against stage and rung: one before the ladder, at
  most one per rung of the first two, none left unless `refused` says so.
* `RequestInv` - requests so far against stage, attempt and rung.
* `RetryInv` - a thread that backs off has an attempt left.

`ListSyncProofs` proves, for any number of ids, changes and pages
(`SyncAssumption`), `ConsistentHolds` and `UpToDateHolds`. `UpToDate` speaks of
complete lists with a token at rest, and every step on the way there breaks it.
`IInv` relates each line to its position in the log and to the token that covers it:

* `VouchInv` - what an entry with some token and checkpoint vouches for, whether
  complete or not, on disk and as the handler of an exception will write it;
* `EntryInv`, `LogInv` - where memory and disk agree, and `last_id` with the
  checkpoint; tokens and page readings are positions of the log;
* `TailInv`, `FreshInv` - above the checkpoint a running crawl has no lines, and
  what a crawl that ends with priming holds, it has read itself;
* `ReadInv` - what a sync has seen so far has changed since the stored token, and
  what it has seen once is current up to its own;
* `WriteInv` - how far the lines of the seen items are dropped and written again,
  the second file one line behind the first.

`DiagnosticsProofs` proves all five properties of `Diagnostics`, for any webs, lists
and farms, in any of the four modes (`DiagnosticsAssumption`, which only gives the
constants their types). `SessionInv` says that only an account that can sign in makes
the session signed in or, but in basic mode, accepted; `ProgressInv` what `probe` and
`permissions` know from having come as far as they have, with NTLM that a connection
is signed in, whether or not it was noticed; `RestInv` what the two
measurements of `probe-rest` mean; `AccessInv` that what is closed to the account
is denied, still to be asked, or in a web whose inventory is still to come.
Whatever one step concludes is then a finite matter of cases over the farm.

`CrawlRunProofs` proves, for any finite farm and any depth limit
(`FarmAssumption`, `RunAssumption`), the five invariants of `CrawlRun` and
`WebWalk` and the action property `NothingLeftInMemory` (`NothingLeft`). The parts of
`IInv`, along the phases of a run:

* `WalkInv` - the queue of the walk holds the rest of one level and a part of the
  next; a web found is queued, warned about, or its children are found; what lies
  within the current depth is found or below an unreadable web;
* `PhaseInv` - the state file is what the process knows, but at the handler of a failed
  list, where the memory may be ahead by that list's entry; and what belongs to a
  later phase is still empty;
* `ScopeInv`, `SchemaInv` - every list in scope of a web in scope is taken up or
  its web is in an error; every list taken up has a schema or an error;
* `LoopInv` - the lists the loop is done with are complete or in an error, and
  counted as the one or the other;
* `RowsInv` - the source of the list at hand is its own collection.

That what the walk leaves out lies below a warning needs facts about the tree:
that the recursively defined levels exist (`Recursion`), and that they are all
reached within as many steps as there are webs (`ReachableIsClosed`, by the pigeonhole
principle). Inductions are written as least counterexamples, with `LeastNumber`.

`PullScriptProofs` proves, for any rows, page size, order and behaviour of the
server, options and number of runs (`PullAssumption`), all four invariants of
`PullScript`. `PullAssumption` gives the constants their types; of substance are only
that the server's order names every row once and that there is a column that
names the ticket. None of the invariants is inductive, because a page is cut,
fetched again at half the size, or asked for in another way. `IInv` adds

* `FileInv`, `SchemaInv` - a keyed file holds rows of the list, under one name of the
  key, each once; a run that has found no key has found no row either;
* `PullInv` - what the marks of a pull vouch for. With a key (`KeyPaging`) everything
  below `last` is on disk and nothing above it; in the server's order
  (`ServerPaging`) what is on disk was there before this pull, up to `seen`, or
  stands before the place `at`, and everything before it is on disk;
* `DoneInv` - a pull that is over keeps what it brought;
* `StageInv`, `TypeInv` - what a pull has been through before its loop.

An append has one lemma for all its endings (`Appended`: at most one old row and one
new one go into a broken line), the two pagings share what is known of a page
(`KeyPage`, `ServerPageFacts`). `ThreadsAreWhole` needs that `detect_parent_key`
takes the column with the most hits, which the condition makes the right one, and
that a thread is listed by its sort key.

`RowDecodeProofs` proves `RoundTripHolds`, `WarnedOrWholeHolds`,
`BackendsAgreeHolds`, `NoColumnLostHolds` and `ConsistentHolds` for any columns,
values, names of properties and ways of sending them, and for strings and lists of any
length. `DecodeAssumption` says that what is stored fits its column's type (`Fits`: of
several lookups and of a term each has an id), that a lookup with a scalar `<name>Id`
has a number for its id, that keys are unique, that `Id` is the item's, and that a
property that no column claims has no column's name for its key. Of which column
claims what it says nothing: names may clash. TLC evaluates it on the instance of the
run. `IInv` is

* `StageInv` - what each stage has in hand is what the one before it made;
* `OriginInv` - what a column of the row holds was written by a property taken for it,
  and an id that waits for a column was such a property's;
* `MapInv` - every property that `map_row` has come to has something where it was taken;
* `TypeOK` and `NoColumnLost`.

For an undisturbed property the property that wrote its column can only be itself or
its lookup's other half: with that `JoinIds` gives every undisturbed property its
value, and `BackendsAgree` follows from `NoColumnLost` and the lemmas on REST below.

Under them are lemmas about strings, then about values.

* *Strings.* `Nth` answers the k-th member of a finite set of numbers (`NthIs`,
  `CutExists`), so that `Pieces` cuts a string where its delimiters are. Of two strings
  with a delimiter between, the pieces are those of the first and then those of the
  second (`PiecesDelimited`); a string without one is its only piece. Hence splitting
  undoes joining, whatever the length. `Join` and the count of `Surplus` are recursive
  functions over a list; that there is one at all is `Recursion`, by the least number
  up to which there is none, and what is shown of them goes the same way (`UpTo`).
* *Decoders.* Whatever the string, each answers a well-formed value (`...Decoded`), and
  a number behind itself splits into itself, which gives the two raw rows of an item
  one id.
* *A list of lookups.* The tokens of its string are twice as many as its members, and
  one more for every delimiter in a text, less one for an empty last text (`ListSplit`).
  With nothing surplus the pairs are the members (`ListWhole`); with one thing wrong
  their number is odd, and an odd number is warned about.
* *Round trip.* One lemma per kind of value: what `SoapOf` makes of it is decoded to it
  (`ListValue`, `ChoicesValue`, `LookupValue`, `TermValue`, `CalculatedValue`, ...).
* *REST.* One lemma per kind of value: what comes through `Element`,
  `parse_atom_value`, `_convert` and `_coerce` is what SOAP decodes to (`SimpleOverRest`,
  `ReferenceOverRest`, `ListOverRest`, ...).

Only model-checked: all liveness (`RunEnds`, `EveryTargetAnswered`, `CallsEnd`,
`RunsEnd` of `CrawlRun` and of `PullScript`), which is out of the prover's reach. Every
safety property of a run that passes has its theorem.

## 6. Not modelled

* Power loss: the state file is fsynced and the JSONL lines are only flushed, so
  after a crash of the machine the checkpoint may be ahead of the rows. The crash
  modelled here is that of the process.
* A second process on the same landing zone.
* A corrupt state file, which is set aside and replaced by an empty one.
* `items_written` after a sync.
* Graph, manifest and access report: written whole, never appended, and read by
  nothing.
* The schema and the lookup graph (`schema.py`, `models.py`): parsing, joining and
  rendering of what one reply holds, in no order that matters.
* The SOAP client: it has no state; its failures are the failing actions of the
  models above it.
* Settings, console, trace, redaction; XML, JSON, TLS and wording.
* Decoders of URL, attachment and display-name columns, which split as those
  modelled do; the three ways of counting a collection, which change nothing.

## 7. Plan

Done, in the order of importance: `ListCrawl` and `ListMirror`; `ListSync`;
`FileDownload`; `Transport`; `CrawlRun` with `WebWalk` and `EntitySets`;
`PullScript`; `Diagnostics`; and `RowDecode`, each with the proofs of its safety
properties. Left to TLC is liveness (section 5).
