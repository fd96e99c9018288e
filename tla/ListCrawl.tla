------------------------------ MODULE ListCrawl ------------------------------
(***************************************************************************)
(* The full, ID-paged crawl of ONE SharePoint list (Crawler.crawl_list     *)
(* in src/spconnect/crawl.py), together with the two JSONL files it        *)
(* appends to (ListWriter in landing.py), the checkpoint it persists after *)
(* every page (StateStore in state.py), and everything that may happen     *)
(* between two of its steps: the list changing on the server, an exception *)
(* in any call, a state file that cannot be written, and the process being *)
(* stopped or killed and later started again, with or without `--resume`.  *)
(*                                                                         *)
(* A file is abstracted to the number of lines it holds for every item id; *)
(* a half-written last line is a member of `torn`.  A line appended to a   *)
(* torn file is glued to the fragment and lost: both are one unparseable   *)
(* line from then on.                                                      *)
(***************************************************************************)
EXTENDS Naturals, FiniteSets

CONSTANTS
    MaxId,      \* bound: the server creates item ids 1..MaxId, ever
    PageSize,   \* SP_PAGE_SIZE, the rows asked for per page
    ServerCap   \* the most rows the server puts in one reply

ASSUME ConstantsAssumption ==
    /\ MaxId \in Nat
    /\ PageSize \in Nat \ {0}
    /\ ServerCap \in Nat \ {0}

VARIABLES
    srv,        \* ids of the items that exist on the server now
    nextId,     \* the id the server gives the next item; ids are never reused
    items,      \* items.jsonl: lines per item id
    raw,        \* items_raw.jsonl: lines per item id
    torn,       \* the files that end in a half-written line
    disk,       \* this list's entry in the state file
    entry,      \* the same entry in memory; a process starts by loading disk
    pc,         \* where the process is; "idle" when none runs
    last,       \* local last_id
    written,    \* local written
    pending,    \* rows of the fetched page not yet appended to both files
    top,        \* the fetched page's max_id
    len,        \* the fetched page's number of rows
    exposed,    \* history: the checkpoint on disk vouches for unlinked lines
    horizon     \* history: nextId when the process last asked for a page

server  == <<srv, nextId>>
files   == <<items, raw, torn>>
page    == <<pending, top, len>>
locals  == <<last, written>>
history == <<exposed, horizon>>
vars    == <<server, files, disk, entry, pc, locals, page, history>>

Ids    == 1..MaxId
Files  == {"items", "raw"}
Status == {"pending", "in_progress", "complete", "failed"}
Entry  == [status : Status, last : Nat, written : Nat]

Steps == {"idle", "unlink_items", "unlink_raw", "trunc_items", "trunc_raw",
          "begin", "fetch", "items", "raw", "finish", "failed"}

NoLines == [i \in Ids |-> 0]
----------------------------------------------------------------------------
(* The server.  It answers `ID > n ORDER BY ID ASC` with the lowest ids    *)
(* above n, as many as it is asked for and willing to give.                *)

Above(n) == {i \in srv : i > n}

RowLimit == IF PageSize <= ServerCap THEN PageSize ELSE ServerCap

IsPage(rows, n) ==
    /\ rows \subseteq Above(n)
    /\ \A i \in rows, j \in Above(n) : j < i => j \in rows
    /\ Cardinality(rows) <= RowLimit
    /\ rows = Above(n) \/ Cardinality(rows) = RowLimit

(* A server that ignores the ID filter serves rows the crawl already has.  *)
IsStalePage(rows, n) ==
    /\ rows # {} /\ rows \subseteq srv \ Above(n)
    /\ Cardinality(rows) <= RowLimit

ServerAdds ==
    /\ nextId <= MaxId
    /\ srv' = srv \cup {nextId}
    /\ nextId' = nextId + 1
    /\ UNCHANGED <<files, disk, entry, pc, locals, page, history>>

ServerDeletes(i) ==
    /\ i \in srv
    /\ srv' = srv \ {i}
    /\ UNCHANGED <<nextId, files, disk, entry, pc, locals, page, history>>
----------------------------------------------------------------------------
(* The landing files.                                                      *)

AppendLine(file, name, i) ==
    IF name \in torn THEN file ELSE [file EXCEPT ![i] = @ + 1]

(* Mutant: the checkpointed item itself is dropped.                        *)
KeepBelow(file, n) == [i \in Ids |-> IF i < n THEN file[i] ELSE 0]

KeepUpTo(file, n) == [i \in Ids |-> IF i <= n THEN file[i] ELSE 0]

(* A process stopped inside a write may leave the first part of its line.  *)
MaybeTorn ==
    \/ torn' = torn
    \/ pc \in Files /\ pending # {} /\ torn' = torn \cup {pc}
----------------------------------------------------------------------------
(* The state file.  update() changes the entry in memory, save() replaces  *)
(* the file or raises; either way the caller is at a definite next step.   *)

Persist(e) ==
    /\ disk' = e
    /\ exposed' = (exposed /\ e.last # 0)

UpdateAndSave(e, next) ==
    /\ entry' = e
    /\ \/ Persist(e) /\ pc' = next
       \/ pc' = "failed" /\ UNCHANGED <<disk, exposed>>

(* What the process kept in memory is gone when crawl_list is left.        *)
LocalsGone ==
    /\ last' = 0 /\ written' = 0
    /\ pending' = {} /\ top' = 0 /\ len' = 0
----------------------------------------------------------------------------
Init ==
    /\ srv = {} /\ nextId = 1
    /\ items = NoLines /\ raw = NoLines /\ torn = {}
    /\ disk = [status |-> "pending", last |-> 0, written |-> 0]
    /\ entry = disk
    /\ pc = "idle"
    /\ last = 0 /\ written = 0
    /\ pending = {} /\ top = 0 /\ len = 0
    /\ exposed = FALSE /\ horizon = 1

(* A run without --resume, or one with it over a list that has no          *)
(* checkpoint yet, starts the list from scratch.                           *)
StartFresh ==
    /\ pc = "idle"
    /\ pc' = "unlink_items"
    /\ last' = 0 /\ written' = 0
    /\ UNCHANGED <<server, files, disk, entry, page, history>>

(* A run with --resume: a complete list is skipped.                        *)
CanResume(e) == e.status # "complete" /\ e.last # 0

StartResume ==
    /\ pc = "idle"
    /\ CanResume(entry)
    /\ pc' = "trunc_items"
    /\ last' = entry.last /\ written' = entry.written
    /\ UNCHANGED <<server, files, disk, entry, page, history>>

UnlinkItems ==
    /\ pc = "unlink_items"
    /\ items' = NoLines
    /\ torn' = torn \ {"items"}
    /\ exposed' = (exposed \/ disk.last # 0)
    /\ pc' = "unlink_raw"
    /\ UNCHANGED <<server, raw, disk, entry, locals, page, horizon>>

UnlinkRaw ==
    /\ pc = "unlink_raw"
    /\ raw' = NoLines
    /\ torn' = torn \ {"raw"}
    /\ pc' = "begin"
    /\ UNCHANGED <<server, items, disk, entry, locals, page, history>>

(* Mutant: nothing is dropped unless the file ends in a fragment.          *)
TruncateItemsIfTorn ==
    /\ pc = "trunc_items"
    /\ items' = IF "items" \in torn THEN KeepUpTo(items, last) ELSE items
    /\ torn' = torn \ {"items"}
    /\ pc' = "trunc_raw"
    /\ UNCHANGED <<server, raw, disk, entry, locals, page, history>>

(* Mutant: the fragment at the end of the file is kept.                    *)
TruncateItemsKeepingFragment ==
    /\ pc = "trunc_items"
    /\ items' = KeepUpTo(items, last)
    /\ pc' = "trunc_raw"
    /\ UNCHANGED <<server, raw, torn, disk, entry, locals, page, history>>

TruncateItems ==
    /\ pc = "trunc_items"
    /\ items' = KeepUpTo(items, last)
    /\ torn' = torn \ {"items"}
    /\ pc' = "trunc_raw"
    /\ UNCHANGED <<server, raw, disk, entry, locals, page, history>>

(* Mutant: no id is recognised in a raw row, so every raw row is dropped.  *)
TruncateRawWipes ==
    /\ pc = "trunc_raw"
    /\ raw' = NoLines
    /\ torn' = torn \ {"raw"}
    /\ pc' = "begin"
    /\ UNCHANGED <<server, items, disk, entry, locals, page, history>>

TruncateRaw ==
    /\ pc = "trunc_raw"
    /\ raw' = KeepUpTo(raw, last)
    /\ torn' = torn \ {"raw"}
    /\ pc' = "begin"
    /\ UNCHANGED <<server, items, disk, entry, locals, page, history>>

Begin ==
    /\ pc = "begin"
    /\ UpdateAndSave([status |-> "in_progress", last |-> last, written |-> written],
                     "fetch")
    /\ UNCHANGED <<server, files, locals, page, horizon>>
----------------------------------------------------------------------------
(* The page loop.                                                          *)

(* The runaway guard: a page that does not advance aborts the list.        *)
Stalled(maxId) == maxId <= last

Reply(rows) == IsPage(rows, last) \/ IsStalePage(rows, last)

FetchNothing ==
    /\ pc = "fetch"
    /\ Reply({})
    /\ horizon' = nextId
    /\ pc' = "finish"
    /\ UNCHANGED <<server, files, disk, entry, locals, page, exposed>>

FetchPage(rows, maxId) ==
    /\ pc = "fetch"
    /\ Reply(rows)
    /\ \A i \in rows : i <= maxId
    /\ horizon' = nextId
    /\ \/ Stalled(maxId) /\ pc' = "failed" /\ UNCHANGED page
       \/ /\ ~Stalled(maxId)
          /\ pc' = "items"
          /\ pending' = rows /\ top' = maxId /\ len' = Cardinality(rows)
    /\ UNCHANGED <<server, files, disk, entry, locals, exposed>>

Fetch ==
    \/ FetchNothing
    \/ \E rows \in SUBSET srv : \E maxId \in rows : FetchPage(rows, maxId)

WriteItems ==
    /\ pc = "items"
    /\ \E i \in pending :
          /\ \A j \in pending : i <= j
          /\ items' = AppendLine(items, "items", i)
    /\ torn' = torn \ {"items"}
    /\ pc' = "raw"
    /\ UNCHANGED <<server, raw, disk, entry, locals, page, history>>

WriteRaw ==
    /\ pc = "raw"
    /\ \E i \in pending :
          /\ \A j \in pending : i <= j
          /\ raw' = AppendLine(raw, "raw", i)
          /\ pending' = pending \ {i}
    /\ torn' = torn \ {"raw"}
    /\ written' = written + 1
    /\ pc' = "items"
    /\ UNCHANGED <<server, items, disk, entry, last, top, len, history>>

(* Mutant: a full page is taken for the last one.                          *)
LastPageOffByOne(n) == n <= PageSize

(* A page shorter than asked for is the last one.                          *)
LastPage(n) == n < PageSize

(* Mutant: the checkpoint is saved while rows of the page are pending.     *)
CheckpointEarly ==
    /\ pc = "items"
    /\ last' = top
    /\ UpdateAndSave([status |-> "in_progress", last |-> top, written |-> written],
                     IF LastPage(len) THEN "finish" ELSE "fetch")
    /\ UNCHANGED <<server, files, written, page, horizon>>

(* Every row is in both files: the page becomes the checkpoint.            *)
Checkpoint ==
    /\ pc = "items"
    /\ pending = {}
    /\ last' = top
    /\ UpdateAndSave([status |-> "in_progress", last |-> top, written |-> written],
                     IF LastPage(len) THEN "finish" ELSE "fetch")
    /\ UNCHANGED <<server, files, written, page, horizon>>

Finish ==
    /\ pc = "finish"
    /\ UpdateAndSave([status |-> "complete", last |-> last, written |-> written],
                     "idle")
    /\ LocalsGone
    /\ UNCHANGED <<server, files, horizon>>
----------------------------------------------------------------------------
(* An exception other than an authentication failure, raised by the call   *)
(* the process is in: the request, the disk, a decoder.  crawl() catches   *)
(* it, marks the list failed and goes on to its next list.                 *)
Raise ==
    /\ pc \notin {"idle", "failed"}
    /\ pc' = "failed"
    /\ MaybeTorn
    /\ UNCHANGED <<server, items, raw, disk, entry, locals, page, history>>

(* Mutant: a failed list is resumed at once, and again whenever it fails.  *)
MarkFailedRetries ==
    /\ pc = "failed"
    /\ LET e == [entry EXCEPT !.status = "failed"] IN
          /\ entry' = e
          /\ Persist(e)
    /\ pc' = "trunc_items"
    /\ last' = entry.last /\ written' = entry.written
    /\ UNCHANGED <<server, files, page, horizon>>

MarkFailed ==
    /\ pc = "failed"
    /\ LET e == [entry EXCEPT !.status = "failed"] IN
          /\ entry' = e
          /\ Persist(e)
    /\ pc' = "idle"
    /\ LocalsGone
    /\ UNCHANGED <<server, files, horizon>>

(* The process ends with no handler touching the state: it is killed, the  *)
(* operator presses Ctrl-C, an AuthenticationError aborts the whole run,   *)
(* or the save inside the exception handler raises in its turn.            *)
Interrupt ==
    /\ pc # "idle"
    /\ pc' = "idle"
    /\ entry' = disk
    /\ LocalsGone
    /\ MaybeTorn
    /\ UNCHANGED <<server, items, raw, disk, history>>
----------------------------------------------------------------------------
Proceed ==
    \/ UnlinkItems \/ UnlinkRaw \/ TruncateItems \/ TruncateRaw \/ Begin
    \/ Fetch \/ WriteItems \/ WriteRaw \/ Checkpoint \/ Finish \/ MarkFailed

Environment ==
    \/ ServerAdds
    \/ \E i \in Ids : ServerDeletes(i)
    \/ StartFresh \/ StartResume
    \/ Raise \/ Interrupt

Next == Proceed \/ Environment

Spec == Init /\ [][Next]_vars

(* A running process takes its next step: crawl_list is straight-line code *)
(* with no wait on another thread, and every request has a timeout.        *)
FairSpec == Spec /\ WF_vars(Proceed)
----------------------------------------------------------------------------
(* Type invariant: every file holds a number of lines per id, and the      *)
(* checkpoint entries have the shape of state.py's ListState.              *)
TypeOK ==
    /\ srv \in SUBSET Ids /\ nextId \in 1..(MaxId + 1)
    /\ items \in [Ids -> Nat] /\ raw \in [Ids -> Nat]
    /\ torn \in SUBSET Files
    /\ disk \in Entry /\ entry \in Entry
    /\ pc \in Steps
    /\ last \in Nat /\ written \in Nat
    /\ pending \in SUBSET Ids /\ top \in Nat /\ len \in Nat
    /\ exposed \in BOOLEAN /\ horizon \in 1..(MaxId + 1)

InBoth(i) == items[i] > 0 /\ raw[i] > 0

(* "items.jsonl contains exactly the items with id <= last_item_id", the   *)
(* invariant resume relies on: whatever was interrupted and resumed, every *)
(* item that exists on the server at or below the persisted checkpoint has *)
(* its line in both files, unless a fresh run has unlinked them and its    *)
(* own first checkpoint is not on disk.                                    *)
NoGaps ==
    ~exposed => \A i \in srv : i <= disk.last => InBoth(i)

(* No interruption, failure or resume ever leaves two lines for one item   *)
(* in either file: what a page wrote past the checkpoint is dropped before *)
(* the page is fetched again.                                              *)
NoDuplicates ==
    \A i \in Ids : items[i] <= 1 /\ raw[i] <= 1

(* A list marked complete holds every item that existed when its last page *)
(* was asked for (and was not deleted since), provided the server serves   *)
(* pages as long as they are asked for: a short page is taken for the end. *)
CompleteIsWhole ==
    (ServerCap >= PageSize /\ disk.status = "complete" /\ ~exposed) =>
        \A i \in srv : i < horizon => InBoth(i)

(* The two files of a list marked complete hold lines for the same items   *)
(* and no half-written line, whatever runs were interrupted before.        *)
CompleteIsLockstep ==
    (disk.status = "complete" /\ ~exposed) => items = raw /\ torn = {}

(* Every run ends: the page loop cannot go round for ever on a list that   *)
(* stops growing, whatever the server answers.                             *)
RunEnds == pc # "idle" ~> pc = "idle"

(* What the operations manual says of Ctrl-C: whenever no process runs,    *)
(* the files hold what the checkpoint on disk says they hold.              *)
SafeToInterrupt ==
    pc = "idle" => \A i \in srv : i <= disk.last => InBoth(i)

----------------------------------------------------------------------------
(* The crawl implements ListMirror: an item is captured when both files    *)
(* hold it and the checkpoint on disk covers it.                           *)
Captured == {i \in Ids : i <= disk.last /\ InBoth(i)}

Mirror == INSTANCE ListMirror WITH
              have <- Captured, upTo <- disk.last,
              status <- disk.status, broken <- exposed

(* Every step of a crawl, crash, failure and restart is a step of the      *)
(* abstract mirror or invisible to it: captured items are never given up   *)
(* by a resume, and the boundary only moves over intervals that were       *)
(* captured whole.                                                         *)
ImplementsMirror == Mirror!Spec
=============================================================================
