------------------------------ MODULE ListSync ------------------------------
(***************************************************************************)
(* Keeping ONE list current with change tokens: Crawler.sync_list in       *)
(* src/spconnect/crawl.py, with the full crawl it falls back to, the       *)
(* priming of a new token after it, and the runs of `crawl` and            *)
(* `crawl --resume` an operator may put in between.                        *)
(*                                                                         *)
(* The server is its change log.  An item's version is the position of its *)
(* last change in the log, a change token is a position in the log.  The   *)
(* files hold, for every item, the versions of its lines in the order they *)
(* were written.  A full crawl is modelled page by page here; what may     *)
(* happen inside a page is ListCrawl's subject.                            *)
(***************************************************************************)
EXTENDS Naturals, Sequences, FiniteSets

CONSTANTS
    MaxId,       \* bound: items 1..MaxId are ever created
    MaxLog,      \* bound: the number of changes the server makes
    RowLimit,    \* SP_PAGE_SIZE: rows per page, changes per batch
    MaxBatches,  \* MAX_SYNC_PAGES, the batches one sync reads at most
    NoToken      \* no change token is stored

ASSUME SyncAssumption ==
    /\ MaxId \in Nat /\ MaxLog \in Nat
    /\ RowLimit \in Nat \ {0} /\ MaxBatches \in Nat \ {0}
    /\ NoToken \notin Nat

VARIABLES
    log,         \* the server's changes: records [id, gone]
    items, raw,  \* the versions each item has lines of, per file
    disk,        \* this list's entry in the state file
    entry,       \* the same entry in memory
    pc,          \* where the process is
    priming,     \* this crawl was started by sync: it ends with priming
    last,        \* local last_id
    token,       \* local token of a sync
    batches,     \* how many batches the loop has read
    rows,        \* changed_rows: the versions read, per item
    deleted,     \* the deleted ids read
    exposed,     \* history: the checkpoint vouches for unlinked lines
    fetched,     \* history: how long the log was when i's page was read
    twice,       \* history: ids this sync read in more than one batch
    blurred      \* history: ids a known weakness of the protocol touched

files   == <<items, raw>>
reading == <<token, batches, rows, deleted, twice>>
history == <<exposed, fetched, blurred>>
locals  == <<priming, last>>
vars    == <<log, files, disk, entry, pc, locals, reading, history>>

Ids    == 1..MaxId
Tokens == Nat \cup {NoToken}
Status == {"pending", "in_progress", "complete", "failed"}
Entry  == [status : Status, last : Nat, token : Tokens]
Steps  == {"idle", "reset", "truncate", "begin", "page", "finish", "prime",
           "changes", "drop_items", "drop_raw", "items", "raw", "save", "failed"}

NoLines == [i \in Ids |-> <<>>]
----------------------------------------------------------------------------
(* The server.                                                             *)

ChangesOf(i) == {k \in 1..Len(log) : log[k].id = i}

Latest(i) == CHOOSE k \in ChangesOf(i) : \A j \in ChangesOf(i) : j <= k

Exists(i) == ChangesOf(i) # {} /\ ~log[Latest(i)].gone

(* What the files should hold of an item.                                  *)
Current(i) == IF Exists(i) THEN <<Latest(i)>> ELSE <<>>

ChangedSince(i, t) == \E k \in ChangesOf(i) : k > t

Change(i, gone) ==
    /\ Len(log) < MaxLog
    /\ log' = Append(log, [id |-> i, gone |-> gone])
    /\ UNCHANGED <<files, disk, entry, pc, locals, reading, history>>

(* Ids are given out in order and never reused.                            *)
Add == \E i \in Ids :
    /\ ChangesOf(i) = {} /\ \A j \in Ids : j < i => ChangesOf(j) # {}
    /\ Change(i, FALSE)

Edit   == \E i \in Ids : Exists(i) /\ Change(i, FALSE)
Delete == \E i \in Ids : Exists(i) /\ Change(i, TRUE)
----------------------------------------------------------------------------
(* The state file: update() changes the entry in memory, save() replaces   *)
(* the file or raises.                                                     *)
UpdateAndSave(e, next) ==
    /\ entry' = e
    /\ \/ disk' = e /\ pc' = next /\ exposed' = (exposed /\ e.last # 0)
       \/ pc' = "failed" /\ UNCHANGED <<disk, exposed>>

NothingRead ==
    /\ token' = NoToken /\ batches' = 0
    /\ rows' = NoLines /\ deleted' = {} /\ twice' = {}

LocalsGone ==
    /\ priming' = FALSE /\ last' = 0
    /\ NothingRead
----------------------------------------------------------------------------
Init ==
    /\ log = <<>>
    /\ items = NoLines /\ raw = NoLines
    /\ disk = [status |-> "pending", last |-> 0, token |-> NoToken]
    /\ entry = disk
    /\ pc = "idle" /\ priming = FALSE /\ last = 0
    /\ token = NoToken /\ batches = 0
    /\ rows = NoLines /\ deleted = {} /\ twice = {}
    /\ exposed = FALSE /\ fetched = [i \in Ids |-> 0] /\ blurred = {}

(* `crawl`, and `crawl --resume` over a list without a checkpoint.         *)
StartCrawl ==
    /\ pc = "idle"
    /\ pc' = "reset" /\ last' = 0 /\ priming' = FALSE
    /\ UNCHANGED <<log, files, disk, entry, reading, history>>

StartResume ==
    /\ pc = "idle"
    /\ entry.status # "complete" /\ entry.last # 0
    /\ pc' = "truncate" /\ last' = entry.last /\ priming' = FALSE
    /\ UNCHANGED <<log, files, disk, entry, reading, history>>

(* `sync`: only a complete list with a token is synced incrementally.      *)
CanSync(e) == e.token # NoToken /\ e.status = "complete"

StartSync ==
    /\ pc = "idle"
    /\ CanSync(entry)
    /\ pc' = "changes"
    /\ last' = entry.last /\ token' = entry.token
    /\ UNCHANGED <<log, files, disk, entry, priming, batches, rows, deleted,
                   twice, history>>

FallBack ==
    /\ pc = "idle"
    /\ ~CanSync(entry)
    /\ pc' = "reset" /\ last' = 0 /\ priming' = TRUE
    /\ UNCHANGED <<log, files, disk, entry, reading, history>>
----------------------------------------------------------------------------
(* The full crawl.                                                         *)

Reset ==
    /\ pc = "reset"
    /\ items' = NoLines /\ raw' = NoLines
    /\ exposed' = (exposed \/ disk.last # 0)
    /\ pc' = "begin"
    /\ UNCHANGED <<log, disk, entry, locals, reading, fetched, blurred>>

KeepUpTo(file, n) == [i \in Ids |-> IF i <= n THEN file[i] ELSE <<>>]

Truncate ==
    /\ pc = "truncate"
    /\ items' = KeepUpTo(items, last) /\ raw' = KeepUpTo(raw, last)
    /\ pc' = "begin"
    /\ UNCHANGED <<log, disk, entry, locals, reading, history>>

(* The change token is no business of crawl_list: the entry keeps it.      *)
Begin ==
    /\ pc = "begin"
    /\ UpdateAndSave([entry EXCEPT !.status = "in_progress", !.last = last], "page")
    /\ UNCHANGED <<log, files, locals, reading, fetched, blurred>>

Above(n) == {i \in Ids : i > n /\ Exists(i)}

IsPage(ids) ==
    /\ ids \subseteq Above(last)
    /\ \A i \in ids, j \in Above(last) : j < i => j \in ids
    /\ Cardinality(ids) <= RowLimit
    /\ ids = Above(last) \/ Cardinality(ids) = RowLimit

(* History: what is above last_id has been looked at afresh.               *)
LookedAt ==
    /\ fetched' = [i \in Ids |-> IF i > last THEN Len(log) ELSE fetched[i]]
    /\ blurred' = blurred \cap 1..last

Page(ids, maxId) ==
    /\ pc = "page"
    /\ IsPage(ids)
    /\ \A i \in ids : i <= maxId
    /\ items' = [i \in Ids |-> IF i \in ids THEN items[i] \o Current(i) ELSE items[i]]
    /\ raw'   = [i \in Ids |-> IF i \in ids THEN raw[i] \o Current(i) ELSE raw[i]]
    /\ last' = maxId
    /\ LookedAt
    /\ UpdateAndSave([entry EXCEPT !.status = "in_progress", !.last = maxId],
                     IF Cardinality(ids) < RowLimit THEN "finish" ELSE "page")
    /\ UNCHANGED <<log, priming, reading>>

LastPage ==
    /\ pc = "page"
    /\ IsPage({})
    /\ LookedAt
    /\ pc' = "finish"
    /\ UNCHANGED <<log, files, disk, entry, locals, reading, exposed>>

Pages ==
    \/ LastPage
    \/ \E ids \in SUBSET Ids : \E maxId \in ids : Page(ids, maxId)

Finish ==
    /\ pc = "finish"
    /\ UpdateAndSave([entry EXCEPT !.status = "complete", !.last = last],
                     IF priming THEN "prime" ELSE "idle")
    /\ LocalsGone
    /\ UNCHANGED <<log, files, fetched, blurred>>
----------------------------------------------------------------------------
(* _prime_change_token asks for a token after the crawl.  A failing call   *)
(* is swallowed, a failing save is not.                                    *)
MissedBy(t) == {i \in Ids : \E k \in ChangesOf(i) : fetched[i] < k /\ k <= t}

Prime ==
    /\ pc = "prime"
    /\ UpdateAndSave([entry EXCEPT !.token = Len(log)], "idle")
    /\ blurred' = blurred \cup MissedBy(Len(log))
    /\ UNCHANGED <<log, files, locals, reading, fetched>>

PrimeFails ==
    /\ pc = "prime"
    /\ pc' = "idle"
    /\ UNCHANGED <<log, files, disk, entry, locals, reading, history>>
----------------------------------------------------------------------------
(* The incremental sync.  A batch covers the changes after the token, at   *)
(* most RowLimit of them: it brings the rows, as they are now, of the      *)
(* changed items that still exist, and the ids deleted in it.              *)
BatchEnd == IF token + RowLimit <= Len(log) THEN token + RowLimit ELSE Len(log)

ChangedIn(from, to) == {i \in Ids : \E k \in ChangesOf(i) : from < k /\ k <= to}

DeletedIn(from, to) ==
    {i \in Ids : \E k \in ChangesOf(i) : from < k /\ k <= to /\ log[k].gone}

Changed == {i \in Ids : rows[i] # <<>>}
Seen    == Changed \cup deleted

ReadBatch ==
    /\ pc = "changes"
    /\ LET ids == ChangedIn(token, BatchEnd) IN
          /\ rows' = [i \in Ids |-> IF i \in ids THEN rows[i] \o Current(i) ELSE rows[i]]
          /\ deleted' = deleted \cup DeletedIn(token, BatchEnd)
          /\ twice' = twice \cup (Seen \cap ids)
    /\ token' = BatchEnd
    /\ batches' = batches + 1
    /\ pc' = IF BatchEnd < Len(log) /\ batches + 1 < MaxBatches
                THEN "changes" ELSE "drop_items"
    /\ UNCHANGED <<log, files, disk, entry, locals, history>>

(* A rejected or expired token: it is forgotten, in memory, and the list   *)
(* is crawled from scratch.                                                *)
TokenRejected ==
    /\ pc = "changes"
    /\ entry' = [entry EXCEPT !.token = NoToken]
    /\ pc' = "reset" /\ last' = 0 /\ priming' = TRUE
    /\ NothingRead
    /\ UNCHANGED <<log, files, disk, history>>

Without(file, ids) == [i \in Ids |-> IF i \in ids THEN <<>> ELSE file[i]]

(* delete_items(changed_ids | deleted), one file after the other.          *)
(* Mutant: the lines of changed items stay, only deleted ones go.          *)
DropItemsDeletedOnly ==
    /\ pc = "drop_items"
    /\ items' = Without(items, deleted)
    /\ pc' = "drop_raw"
    /\ UNCHANGED <<log, raw, disk, entry, locals, reading, history>>

DropItems ==
    /\ pc = "drop_items"
    /\ items' = Without(items, Seen)
    /\ pc' = "drop_raw"
    /\ UNCHANGED <<log, raw, disk, entry, locals, reading, history>>

(* Mutant: no id is recognised in a raw row, so no raw row is dropped.     *)
DropRawNothing ==
    /\ pc = "drop_raw"
    /\ pc' = "items"
    /\ UNCHANGED <<log, files, disk, entry, locals, reading, history>>

DropRaw ==
    /\ pc = "drop_raw"
    /\ raw' = Without(raw, Seen)
    /\ pc' = "items"
    /\ UNCHANGED <<log, items, disk, entry, locals, reading, history>>

(* _write_page(changed_rows): a line in each file per row read.  The files *)
(* held no line of a changed item when it began, so what they hold of one  *)
(* tells how many of its rows are written.                                 *)
WriteItems ==
    /\ pc = "items"
    /\ \E i \in Changed :
          /\ Len(items[i]) < Len(rows[i])
          /\ items' = [items EXCEPT ![i] = Append(@, rows[i][Len(@) + 1])]
    /\ pc' = "raw"
    /\ UNCHANGED <<log, raw, disk, entry, locals, reading, history>>

WriteRaw ==
    /\ pc = "raw"
    /\ \E i \in Changed :
          /\ Len(raw[i]) < Len(items[i])
          /\ raw' = [raw EXCEPT ![i] = Append(@, rows[i][Len(@) + 1])]
    /\ pc' = "items"
    /\ UNCHANGED <<log, items, disk, entry, locals, reading, history>>

Written == \A i \in Changed : Len(items[i]) = Len(rows[i])

Highest(S) == CHOOSE n \in S : \A m \in S : m <= n

SaveSync ==
    /\ pc = "items"
    /\ Written
    /\ UpdateAndSave([status |-> "complete", token |-> token,
                      last |-> Highest({entry.last} \cup Changed)], "idle")
    /\ blurred' = (blurred \ Seen) \cup twice
    /\ LocalsGone
    /\ UNCHANGED <<log, files, fetched>>
----------------------------------------------------------------------------
(* crawl() and sync() mark the list failed after any exception but an      *)
(* authentication failure, which ends the run like a kill does.            *)
Raise ==
    /\ pc \notin {"idle", "prime", "failed"}
    /\ pc' = "failed"
    /\ UNCHANGED <<log, files, disk, entry, locals, reading, history>>

MarkFailed ==
    /\ pc = "failed"
    /\ LET e == [entry EXCEPT !.status = "failed"] IN
          /\ entry' = e /\ disk' = e
          /\ exposed' = (exposed /\ e.last # 0)
    /\ pc' = "idle"
    /\ LocalsGone
    /\ UNCHANGED <<log, files, fetched, blurred>>

Interrupt ==
    /\ pc # "idle"
    /\ pc' = "idle"
    /\ entry' = disk
    /\ LocalsGone
    /\ UNCHANGED <<log, files, disk, history>>
----------------------------------------------------------------------------
Proceed ==
    \/ Reset \/ Truncate \/ Begin \/ Pages \/ Finish \/ Prime \/ PrimeFails
    \/ ReadBatch \/ DropItems \/ DropRaw \/ WriteItems \/ WriteRaw \/ SaveSync
    \/ MarkFailed

Environment ==
    \/ Add \/ Edit \/ Delete
    \/ StartCrawl \/ StartResume \/ StartSync \/ FallBack
    \/ TokenRejected \/ Raise \/ Interrupt

Next == Proceed \/ Environment

Spec == Init /\ [][Next]_vars
----------------------------------------------------------------------------
(* Type invariant: the log, the files as sequences of versions, and the    *)
(* state entries with their tokens.                                        *)
TypeOK ==
    /\ log \in Seq([id : Ids, gone : BOOLEAN])
    /\ items \in [Ids -> Seq(Nat)] /\ raw \in [Ids -> Seq(Nat)]
    /\ disk \in Entry /\ entry \in Entry
    /\ pc \in Steps /\ priming \in BOOLEAN /\ last \in Nat
    /\ token \in Tokens /\ batches \in Nat
    /\ rows \in [Ids -> Seq(Nat)]
    /\ deleted \in SUBSET Ids /\ twice \in SUBSET Ids
    /\ exposed \in BOOLEAN
    /\ fetched \in [Ids -> Nat] /\ blurred \in SUBSET Ids

(* The promise a change token stands for: a complete list with a token     *)
(* holds, in both files, exactly the current version of every item the log *)
(* has no change of after the token, whatever crashes, failures, resumes   *)
(* and fallbacks happened before.  Not promised: the items a change hit    *)
(* between their page and the priming, and those one sync read in two      *)
(* batches (`blurred`), and a list whose files a fresh run has unlinked.   *)
UpToDate ==
    (disk.status = "complete" /\ disk.token # NoToken /\ ~exposed) =>
        \A i \in Ids \ blurred :
            ~ChangedSince(i, disk.token) =>
                items[i] = Current(i) /\ raw[i] = Current(i)

(* Every item appears in both files: of what a complete list's token       *)
(* covers, the two files hold the same lines, also where a sync was killed *)
(* between them, and also of the items UpToDate does not speak for.        *)
BothFilesAgree ==
    (disk.status = "complete" /\ disk.token # NoToken /\ ~exposed) =>
        \A i \in Ids : ~ChangedSince(i, disk.token) => items[i] = raw[i]

(* Types, and the two files in step.                                       *)
Consistent == TypeOK /\ BothFilesAgree

(* What the manual says of `--resume`: failed lists are retried, without a *)
(* gap: when the crawl is about to mark the list complete, every item at   *)
(* or below last_id has a line.                                            *)
NoGapsAtFinish ==
    (pc = "finish" /\ ~exposed) => \A i \in Ids : (i <= last /\ Exists(i)) => items[i] # <<>>

=============================================================================
