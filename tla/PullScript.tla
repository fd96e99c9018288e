----------------------------- MODULE PullScript -----------------------------
(***************************************************************************)
(* scripts/pull_tickets_and_comments.py: one output directory and the runs  *)
(* over it, one after the other.  A run pulls tickets, comments and the     *)
(* user list page by page into JSON-lines files it only appends to, resumes *)
(* after the highest key it finds there, and joins comments to tickets;     *)
(* under --attachments it takes an inventory of the attachments instead.    *)
(* A row is its number: the value of its key, which grows with every row    *)
(* that is created.  Runs may stop anywhere, also inside a line.            *)
(***************************************************************************)
EXTENDS Naturals, Sequences, FiniteSets, SequencesExt, FiniteSetsExt

CONSTANTS Ids,              \* the numbers rows may have
          AtFirst,          \* collection -> rows the server starts with
          MayGrow,          \* collections that get new rows
          ServerOrder,      \* Ids in the order the server pages on its own
          ServerPage,       \* rows of a page, whatever $top asks for
          PageSize, MinPageSize,
          Servers,          \* [paging, users, enumerates]
          Options,          \* [command, language, limit, expand]: command lines
          Columns,          \* foreign keys on a comment, in order of their names
          Housekeeping,     \* those of them that every list carries
          Link,             \* the one that names the comment's ticket
          Value,            \* column -> comment -> what it refers to, 0 for nothing
          Created,          \* comment -> when it was written
          File,             \* attachment row -> [item, suffix]
          MaxRuns, MaxFaults

Keyed == {"tickets", "comments", "users"}
Collections == Keyed \cup {"attachments"}
Pagings == {"taken", "refused", "ignored"}      \* what $filter and $orderby come to
NoKey == "no_key"
NoColumn == "none"
Keys == {"Id", "ID"}        \* KEY_ALIASES: what a language calls the key
KeyIn(language) == IF language = "de" THEN "ID" ELSE "Id"

ASSUME PullAssumption ==
    /\ Ids \subseteq Nat \ {0} /\ IsFiniteSet(Ids)
    /\ ServerOrder \in Seq(Ids) /\ ToSet(ServerOrder) = Ids /\ IsInjective(ServerOrder)
    /\ AtFirst \in [Collections -> SUBSET Ids] /\ MayGrow \subseteq Collections
    /\ ServerPage \in Nat \ {0} /\ PageSize \in Nat \ {0} /\ MinPageSize \in Nat \ {0}
    /\ Servers \subseteq [paging : Pagings, users : BOOLEAN, enumerates : BOOLEAN]
    /\ Options # {}
    /\ Options \subseteq [command : {"pull", "attachments"}, language : {"en", "de"},
                          limit : Nat, expand : SUBSET Collections]
    /\ Columns \in Seq(STRING) /\ NoColumn \notin ToSet(Columns)
    /\ Link \in ToSet(Columns) \ Housekeeping
    /\ Value \in [ToSet(Columns) -> [Ids -> Nat]] /\ Created \in [Ids -> Nat]
    /\ MaxRuns \in Nat /\ MaxFaults \in Nat

VARIABLES
    server, exists,         \* the service, and its rows of each collection
    file, tail,             \* lines on disk; how the last of them ends
    joined, sample,         \* what the run joined; what attachment it fetched
    pc, option, exit,       \* the run: where it is, its command line, its code
    todo, schema, pull,     \* collections left; the key of each; the pull
    runs, faults,           \* how many were started; failures so far
    merged, unordered,      \* history: rows of a broken line; pages in server order
    start                   \* history: what there was as the pull began

settings == <<server>>
disk == <<file, tail>>
run == <<pc, option, exit>>
work == <<todo, schema, pull>>
bounds == <<runs, faults>>
history == <<merged, unordered, start>>
vars == <<settings, exists, disk, joined, sample, run, work, bounds, history>>

NoPull == [mode |-> "none", last |-> 0, seen |-> 0, size |-> 0, expand |-> FALSE,
           pages |-> 0, written |-> 0, at |-> 0]
Broken == [row |-> 0, key |-> NoKey]    \* a line that does not parse

NoSchema == [c \in Collections |-> "unread"]
NoStart == [c \in Collections |-> [rows |-> {}, ordered |-> TRUE]]

Init ==
    /\ server \in Servers /\ exists = AtFirst
    /\ file = [c \in Collections |-> <<>>] /\ tail = [c \in Collections |-> "newline"]
    /\ joined = <<>> /\ sample = "nothing"
    /\ pc = "idle" /\ exit = 0 /\ option = CHOOSE o \in Options : TRUE
    /\ todo = <<>> /\ schema = NoSchema /\ pull = NoPull
    /\ runs = 0 /\ faults = 0
    /\ merged = [c \in Collections |-> {}] /\ unordered = {}
    /\ start = NoStart

-----------------------------------------------------------------------------
\* The members of a set, given which of them come before each; those of a set
\* of numbers; and what a list has at some of its places, in its order.  (What
\* SetToSortSeq and SelectSeq do, in a form that can be reasoned about.)
Listed(S, before) ==
    [n \in 1 .. Cardinality(S) |-> CHOOSE x \in S : Cardinality(before[x]) = n - 1]
Ascending == [S \in SUBSET Nat |-> Listed(S, [x \in S |-> {y \in S : y < x}])]
Part(list, places) ==
    LET at == Ascending[places] IN [n \in 1 .. Cardinality(places) |-> list[at[n]]]

-----------------------------------------------------------------------------
(* Files: read_jsonl, first_row_keys, highest_id_on_disk and appending.     *)

RowsOf(lines) == {lines[i].row : i \in DOMAIN lines} \ {0}
OnDisk(c) == RowsOf(file[c])
Usable(c) == Part(file[c], {i \in DOMAIN file[c] : file[c][i].row # 0})
ReadJsonl(c) == [i \in DOMAIN Usable(c) |-> Usable(c)[i].row]

HighestOnDisk(c, key) ==
    Max({0} \cup {file[c][i].row : i \in {n \in DOMAIN file[c] : file[c][n].key = key}})

\* What the rows are written under: in a keyed collection the key is a property.
Line(c, row) == [row |-> row, key |-> IF c \in Keyed THEN KeyIn(option.language) ELSE NoKey]

\* Append to a file opened with "a": its last line may have no end yet, and a
\* first row that is written then makes one broken line of the two.
AppendRows(c, rows, ending) ==
    LET lines == [i \in DOMAIN rows |-> Line(c, rows[i])]
        fuse == tail[c] # "newline"
        glued == IF fuse THEN Front(file[c]) \o <<Broken>> \o Tail(lines) ELSE file[c] \o lines
    IN  IF rows = <<>> THEN UNCHANGED <<file, tail, merged>>
        ELSE /\ file' = [file EXCEPT ![c] =
                           IF ending = "torn" THEN Front(glued) \o <<Broken>> ELSE glued]
             /\ tail' = [tail EXCEPT ![c] = ending]
             /\ merged' = IF fuse
                          THEN [merged EXCEPT ![c] = @ \cup {Last(file[c]).row, rows[1]}]
                          ELSE merged

-----------------------------------------------------------------------------
(* main(): the start of a run and the ways it ends.                         *)

Start(o) ==
    /\ pc = "idle" /\ runs < MaxRuns
    /\ runs' = runs + 1 /\ pc' = "sets" /\ option' = o /\ exit' = 0
    /\ joined' = <<>> /\ sample' = "nothing" /\ start' = NoStart
    /\ todo' = <<>> /\ schema' = NoSchema /\ pull' = NoPull
    /\ UNCHANGED <<settings, exists, disk, faults, merged, unordered>>

Goto(label) == pc' = label /\ UNCHANGED <<option, exit>>
Exit(code) == pc' = "idle" /\ exit' = code /\ UNCHANGED option
\* The process ends on the way, and what it knew is gone.
Stop(code) ==
    /\ Exit(code)
    /\ todo' = <<>> /\ schema' = NoSchema /\ pull' = NoPull /\ start' = NoStart
Fault == faults < MaxFaults /\ faults' = faults + 1 /\ UNCHANGED runs

\* An error of any layer is code 1; a refused credential is 2 where it is
\* raised as such: the service document and the count, but not probe().
Refusable ==
    \/ pc = "sets"
    \/ pc = "begin" /\ todo # <<>> /\ Head(todo) \in {"tickets", "comments"}
       /\ schema["tickets"] # "unread" /\ schema["comments"] # "unread"
Fails ==
    /\ pc \in {"sets", "begin"}
    /\ Fault
    /\ Stop(1) \/ (Refusable /\ Stop(2))
    /\ UNCHANGED <<settings, exists, disk, joined, sample, merged, unordered>>

Interrupt ==
    /\ pc # "idle"
    /\ Fault
    /\ Stop(130)
    /\ UNCHANGED <<settings, exists, disk, joined, sample, merged, unordered>>

\* resolve_entity_set(): tickets and comments, or the run ends; the other two
\* are optional.
ReadSets ==
    /\ pc = "sets"
    /\ IF option.command = "attachments"
       THEN todo' = <<"attachments">>
       ELSE todo' = IF server.users THEN <<"tickets", "comments", "users">>
                                    ELSE <<"tickets", "comments">>
    /\ Goto("begin")
    /\ UNCHANGED <<settings, exists, disk, joined, sample, schema, pull, bounds, history>>

\* discover_schema(): the property names of one row.  The first two are read
\* before the first pull, the others before their own.
Due ==
    IF Head(todo) = "tickets" /\ schema["tickets"] # "unread" THEN "comments" ELSE Head(todo)
ReadSchema ==
    /\ pc = "begin" /\ todo # <<>> /\ schema[Due] = "unread"
    /\ schema' = [schema EXCEPT ![Due] =
                    IF Due \in Keyed /\ exists[Due] # {} THEN KeyIn(option.language) ELSE NoKey]
    /\ UNCHANGED <<settings, exists, disk, joined, sample, run, todo, pull, bounds, history>>

-----------------------------------------------------------------------------
(* pull(): before the loop.                                                 *)

Coll == Head(todo)
Ready == pc = "begin" /\ todo # <<>> /\ schema[Due] # "unread"

\* first_row_keys(): the rows on disk have another name for the key.
Mismatch ==
    schema[Coll] # NoKey /\ Usable(Coll) # <<>> /\ Usable(Coll)[1].key # schema[Coll]

SchemaMismatch ==
    /\ Ready /\ Mismatch
    /\ Stop(1)
    /\ UNCHANGED <<settings, exists, disk, joined, sample, bounds, merged, unordered>>

OpenFile ==
    LET key == schema[Coll]
        last == IF key = NoKey THEN 0 ELSE HighestOnDisk(Coll, key)
    IN  /\ Ready
        /\ pull' = [NoPull EXCEPT !.mode = IF key = NoKey THEN "server" ELSE "key",
                                  !.last = last, !.seen = last, !.size = PageSize,
                                  !.expand = key # NoKey /\ Coll \in option.expand]
        /\ start' = [start EXCEPT ![Coll] = [rows |-> exists[Coll],
                                             ordered |-> Coll \notin unordered]]
        /\ Goto("page")
        /\ UNCHANGED <<settings, exists, disk, joined, sample, todo, schema, bounds,
                       merged, unordered>>
\* Mutant: a file written in another language is resumed.
ResumeAnyway == OpenFile
BeginPull == OpenFile /\ ~Mismatch

-----------------------------------------------------------------------------
(* pull(): the loop.  Key paging asks for the rows above the last one, in   *)
(* order; a service may refuse that, or not understand it.  Server-driven   *)
(* paging follows the service's own continuation, in the service's order.   *)

Asked == {i \in exists[Coll] : server.paging # "ignored" => i > pull.last}
Ahead == {n \in pull.at + 1 .. Len(ServerOrder) : ServerOrder[n] \in exists[Coll]}
Remaining == Part(ServerOrder, Ahead)
AtMost(n, rows) == SubSeq(rows, 1, Min({n, Len(rows)}))

\* Mutant: the page is asked for without $orderby.
UnorderedPage ==
    IF pull.mode = "key"
    THEN AtMost(Min({pull.size, ServerPage}),
                Part(ServerOrder, {n \in DOMAIN ServerOrder : ServerOrder[n] \in Asked}))
    ELSE AtMost(ServerPage, Remaining)
Page ==
    IF pull.mode = "key"
    THEN AtMost(Min({pull.size, ServerPage}), Ascending[Asked])
    ELSE AtMost(ServerPage, Remaining)

Answers ==
    /\ pc = "page"
    /\ ~(pull.mode = "key" /\ server.paging = "refused")
    /\ ~(Coll = "attachments" /\ ~server.enumerates)
Continuation == Len(Remaining) > Len(Page)

\* The rows of the page that are written: after falling back, the rows an
\* earlier run has reached are dropped.
Fresh ==
    IF pull.mode = "server" /\ schema[Coll] # NoKey
    THEN Part(Page, {n \in DOMAIN Page : Page[n] > pull.seen}) ELSE Page

Ended == pull' = NoPull /\ todo' = Tail(todo) /\ Goto("begin")

Unordered(rows) ==
    unordered' = IF pull.mode = "server" /\ rows # <<>> THEN unordered \cup {Coll} ELSE unordered

NoMoreRows ==
    /\ Answers /\ Page = <<>>
    /\ Ended
    /\ UNCHANGED <<settings, exists, disk, joined, sample, schema, bounds, history>>
\* The feed of a set that cannot be enumerated.
EmptyFeed ==
    /\ pc = "page" /\ Coll = "attachments" /\ ~server.enumerates
    /\ Ended
    /\ UNCHANGED <<settings, exists, disk, joined, sample, schema, bounds, history>>

Position == CHOOSE n \in pull.at + 1 .. Len(ServerOrder) : ServerOrder[n] = Last(Page)
Advanced ==
    [pull EXCEPT !.pages = @ + 1, !.written = @ + Len(Fresh),
                 !.last = IF pull.mode = "key" THEN Max(ToSet(Page)) ELSE @,
                 !.at = IF pull.mode = "server" THEN Position ELSE @]
LimitReached == option.limit # 0 /\ Coll \in {"tickets", "comments"}
                /\ Advanced.written >= option.limit

PageArrives ==
    /\ Answers /\ Page # <<>>
    /\ AppendRows(Coll, Fresh, "newline") /\ Unordered(Fresh)
    /\ IF \/ LimitReached
          \/ pull.mode = "key" /\ Advanced.last <= pull.last
          \/ pull.mode = "server" /\ ~Continuation
       THEN Ended
       ELSE pull' = Advanced /\ UNCHANGED <<todo, run>>
    /\ UNCHANGED <<settings, exists, joined, sample, schema, bounds, start>>

\* The run ends while the rows of a page are written: killed, interrupted, or
\* the disk is full.  What has reached the file may end inside a row.
WriteCut ==
    /\ Answers /\ Fresh # <<>>
    /\ Fault
    /\ \E n \in 1 .. Len(Fresh), ending \in {"newline", "row", "torn"} :
          AppendRows(Coll, AtMost(n, Fresh), ending)
    /\ Unordered(Fresh)
    /\ Stop(1) \/ Stop(130)
    /\ UNCHANGED <<settings, exists, joined, sample>>

(***************************************************************************)
(* A page that does not come: `lost` is one that never completed (status 0),*)
(* otherwise the service refused it.  The page is halved, or on the first   *)
(* page the expansions are given up, and then the key; else the pull fails. *)
(***************************************************************************)
NoPage(lost) ==
    /\ pc = "page"
    /\ IF ~lost /\ pull.mode = "key" /\ server.paging = "refused"
       THEN UNCHANGED bounds ELSE Fault
Halvable(lost) == lost /\ pull.mode = "key" /\ pull.size \div 2 >= MinPageSize
Retrying == UNCHANGED <<settings, exists, disk, joined, sample, run, todo, schema, history>>

Halve == /\ NoPage(TRUE) /\ Halvable(TRUE)
         /\ pull' = [pull EXCEPT !.size = @ \div 2]
         /\ Retrying
DropExpansions(lost) ==
    /\ NoPage(lost) /\ ~Halvable(lost)
    /\ pull.pages = 0 /\ pull.expand
    /\ pull' = [pull EXCEPT !.expand = FALSE]
    /\ Retrying
KeyRefused(lost) ==
    /\ NoPage(lost) /\ ~Halvable(lost)
    /\ pull.pages = 0 /\ ~pull.expand /\ pull.mode = "key"
    /\ Retrying
\* Mutant: the key is asked for again.
AskAgain(lost) == KeyRefused(lost) /\ UNCHANGED pull
FallBack(lost) == KeyRefused(lost) /\ pull' = [pull EXCEPT !.mode = "server"]
GiveUp(lost) ==
    /\ NoPage(lost) /\ ~Halvable(lost)
    /\ pull.pages > 0 \/ (~pull.expand /\ pull.mode = "server")
    /\ UNCHANGED <<settings, exists, disk, joined, sample, merged, unordered>>
\* Mutant: a page that is refused on the way is taken for the end.
TakenForEnd(lost) == GiveUp(lost) /\ Ended /\ UNCHANGED <<schema, start>>
PullFails(lost) == GiveUp(lost) /\ Stop(1)
\* A body that is neither JSON nor XML is no ODataError.
PageUnreadable ==
    /\ pc = "page" /\ Fault /\ Stop(1)
    /\ UNCHANGED <<settings, exists, disk, joined, sample, merged, unordered>>

-----------------------------------------------------------------------------
(* join(): which column names the ticket is decided by the data.            *)

Rank(column) == CHOOSE n \in DOMAIN Columns : Columns[n] = column
\* Mutant: the columns every list carries are candidates too.
AllColumns == ToSet(Columns)
CandidateKeys == ToSet(Columns) \ Housekeeping

\* The rows whose column refers to something, and to a ticket on disk.
Filled(column, comments) == {i \in DOMAIN comments : Value[column][comments[i]] # 0}
Hits(column, comments, tickets) ==
    IF tickets = {} THEN Filled(column, comments)
    ELSE {i \in Filled(column, comments) : Value[column][comments[i]] \in tickets}

DetectParentKey(comments, tickets) ==
    LET score(k) == <<Cardinality(Hits(k, comments, tickets)),
                      Cardinality(Filled(k, comments)), Rank(k)>>
        below(s, t) == \E n \in 1 .. 3 : s[n] < t[n] /\ \A m \in 1 .. n - 1 : s[m] = t[m]
        scored == {k \in CandidateKeys : Hits(k, comments, tickets) # {}}
    IN  IF scored = {} THEN NoColumn
        ELSE CHOOSE k \in scored : \A other \in scored \ {k} : below(score(other), score(k))

\* sort_key(): by the time of writing, then by the key; the sort is stable.
Earlier(a, b) == Created[a] < Created[b] \/ (Created[a] = Created[b] /\ a < b)
Thread(comments, key, t) ==
    LET of == {n \in DOMAIN comments : Value[key][comments[n]] = t}
        before(m, n) == \/ Earlier(comments[m], comments[n])
                        \/ comments[m] = comments[n] /\ m < n
        order == Listed(of, [n \in of |-> {m \in of : before(m, n)}])
    IN  [n \in 1 .. Cardinality(of) |-> comments[order[n]]]

\* (What is read back is bound, not defined, so that TLC reads it once.)
Join ==
    /\ pc = "begin" /\ todo = <<>> /\ option.command = "pull"
    /\ \E comments \in {ReadJsonl("comments")}, tickets \in {ReadJsonl("tickets")} :
       \E key \in {DetectParentKey(comments, ToSet(tickets))} :
          joined' = IF comments = <<>> \/ key = NoColumn THEN joined
                    ELSE [i \in DOMAIN tickets |->
                            [ticket |-> tickets[i],
                             comments |-> Thread(comments, key, tickets[i])]]
    /\ Exit(0)
    /\ UNCHANGED <<settings, exists, disk, sample, work, bounds, history>>

-----------------------------------------------------------------------------
(* survey_attachments(): the inventory, and a sample that is fetched.       *)

Surveying == pc = "begin" /\ todo = <<>> /\ option.command = "attachments"

\* Nothing on disk: ask the tickets on disk for theirs, skipping the ones that
\* cannot be read; what is found replaces the file.
AskTheTickets ==
    /\ Surveying /\ Usable("attachments") = <<>>
    /\ \E readable \in SUBSET OnDisk("tickets") :
          LET found == {a \in exists["attachments"] : File[a].item \in readable}
          IN  /\ file' = [file EXCEPT !["attachments"] =
                            IF found = {} THEN @
                            ELSE LET rows == Ascending[found]
                                 IN  [i \in DOMAIN rows |-> Line("attachments", rows[i])]]
              /\ tail' = [tail EXCEPT !["attachments"] = IF found = {} THEN @ ELSE "newline"]
              /\ IF found = {} THEN Exit(0) ELSE Goto("fetch")
    /\ UNCHANGED <<settings, exists, joined, sample, work, bounds, history>>
CountAttachments ==
    /\ Surveying /\ Usable("attachments") # <<>>
    /\ Goto("fetch")
    /\ UNCHANGED <<settings, exists, disk, joined, sample, work, bounds, history>>

(***************************************************************************)
(* fetch_attachment(): the two addresses in turn, until one gives what      *)
(* looks like the file.  A 200 may be an OData envelope or a sign-in page.  *)
(***************************************************************************)
Bodies == {"bytes", "json", "html"}
Replies == Bodies \cup {"failure", "error_status", "empty"}
LooksLikeFile(reply, suffix) == reply = "bytes" \/ (reply \in Bodies /\ reply = suffix)
Retrieved(suffix, media, direct) ==
    IF LooksLikeFile(media, suffix) THEN media
    ELSE IF LooksLikeFile(direct, suffix) THEN direct ELSE "nothing"

\* One of the attachments of the sample, and what is kept of it.
FetchSample ==
    /\ pc = "fetch"
    /\ \E a \in OnDisk("attachments"), media, direct \in Replies :
          LET got == Retrieved(File[a].suffix, media, direct)
          IN  sample' = got
    /\ Exit(0)
    /\ UNCHANGED <<settings, exists, disk, joined, work, bounds, history>>

-----------------------------------------------------------------------------
\* The list grows while it is read: a new row has the highest number.
NewRow ==
    /\ \E c \in MayGrow : \E i \in Ids :
          /\ \A j \in exists[c] : i > j
          /\ exists' = [exists EXCEPT ![c] = @ \cup {i}]
    /\ UNCHANGED <<settings, disk, joined, sample, run, work, bounds, history>>

Proceed ==
    \/ ReadSets \/ ReadSchema \/ SchemaMismatch \/ BeginPull
    \/ NoMoreRows \/ EmptyFeed \/ PageArrives \/ WriteCut
    \/ Halve
    \/ \E lost \in BOOLEAN : DropExpansions(lost) \/ FallBack(lost) \/ PullFails(lost)
    \/ PageUnreadable \/ Fails
    \/ Join \/ AskTheTickets \/ CountAttachments \/ FetchSample

Next == Proceed \/ Interrupt \/ NewRow \/ \E o \in Options : Start(o)

Spec == Init /\ [][Next]_vars
FairSpec == Spec /\ WF_vars(Proceed)
-----------------------------------------------------------------------------
Lines == [row : Ids \cup {0}, key : Keys \cup {NoKey}]

TypeOK ==
    /\ server \in Servers /\ exists \in [Collections -> SUBSET Ids]
    /\ \A c \in Collections :
          /\ ToSet(file[c]) \subseteq Lines /\ tail[c] \in {"newline", "row", "torn"}
          /\ tail[c] # "newline" => file[c] # <<>>
          /\ schema[c] \in Keys \cup {NoKey, "unread"}
    /\ pc \in {"idle", "sets", "begin", "page", "fetch"} /\ exit \in {0, 1, 2, 130}
    /\ option \in Options /\ ToSet(todo) \subseteq Collections
    /\ pull.mode \in {"none", "key", "server"} /\ pull.size \in 0 .. PageSize
    /\ runs \in 0 .. MaxRuns /\ faults \in 0 .. MaxFaults

Through == pc = "idle" /\ exit = 0 /\ runs > 0 /\ option.command = "pull"

(***************************************************************************)
(* No row of a keyed collection is on disk twice, however often the script  *)
(* is stopped and started again, in whatever language it asks and whichever *)
(* paging it falls back to, on a service that understands $filter           *)
(* (pull() with highest_id_on_disk and first_row_keys).                     *)
(***************************************************************************)
NoDuplicates ==
    server.paging # "ignored" =>
        \A c \in Keyed : Cardinality(OnDisk(c)) = Len(Usable(c))

\* Types, and files without duplicates.
Consistent == TypeOK /\ NoDuplicates

(***************************************************************************)
(* Below the highest key on disk no row is missing, so that resuming after  *)
(* it skips nothing: except the rows of a line that two runs have broken    *)
(* between them, and in a file that has pages in the service's own order.   *)
(***************************************************************************)
NothingSkipped ==
    \A c \in Keyed \ unordered :
        \A i \in exists[c], j \in OnDisk(c) : i < j => i \in OnDisk(c) \cup merged[c]

(***************************************************************************)
(* A run without --limit that ends with code 0 has on disk every row that   *)
(* its collections had when it came to them, whatever failed, was halved or *)
(* given up on the way, in this run and before it; with the two exceptions  *)
(* of NothingSkipped, of which the second matters only to a later run.      *)
(***************************************************************************)
FinishedPullIsWhole ==
    Through /\ option.limit = 0 /\ server.paging # "ignored" =>
        \A c \in Keyed : start[c].ordered => start[c].rows \subseteq OnDisk(c) \cup merged[c]

(***************************************************************************)
(* Where the data can tell the column that names the ticket, because all of *)
(* its values are tickets on disk and those of no other candidate are, the  *)
(* joined file has a line for every ticket with its comments on disk, each  *)
(* once and in the order they were written (detect_parent_key and join).    *)
(***************************************************************************)
Telling(comments, tickets) ==
    \A k \in ToSet(Columns) \ Housekeeping :
        (\A i \in comments : Value[k][i] \in tickets) <=> k = Link
ThreadsAreWhole ==
    LET comments == OnDisk("comments")
        of(t) == {i \in comments : Value[Link][i] = t}
    IN  Through /\ server.paging # "ignored" /\ comments # {}
        /\ Telling(comments, OnDisk("tickets")) =>
            /\ [i \in DOMAIN joined |-> joined[i].ticket] = ReadJsonl("tickets")
            /\ \A i \in DOMAIN joined :
                  LET thread == joined[i].comments
                  IN  /\ ToSet(thread) = of(joined[i].ticket)
                      /\ \A m, n \in DOMAIN thread : m < n => Earlier(thread[m], thread[n])

(***************************************************************************)
(* Every run ends: the page is halved only so often, a service that does    *)
(* not understand $filter is not asked for the same page for ever, and a    *)
(* list that grows is read to its end.                                      *)
(***************************************************************************)
RunsEnd == pc # "idle" ~> pc = "idle"

(***************************************************************************)
(* highest_id_on_disk (641-646): "A run killed mid-write can leave a        *)
(* truncated final line; a scan that skips unparseable lines resumes        *)
(* correctly".  So a later run that goes through has every row again.  It   *)
(* does not hold: the first row it appends joins the truncated line.        *)
(***************************************************************************)
ResumesCorrectly ==
    Through /\ option.limit = 0 /\ server.paging = "taken" =>
        \A c \in Keyed : start[c].ordered => start[c].rows \subseteq OnDisk(c)
=============================================================================
