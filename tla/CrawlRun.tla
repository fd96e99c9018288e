------------------------------ MODULE CrawlRun ------------------------------
(***************************************************************************)
(* One landing zone and the commands run over it, one after the other:      *)
(* discover, schema, crawl, crawl --resume and sync of cli.py, and what     *)
(* crawl.py does under them for all webs and lists.  What happens inside    *)
(* one list (rows, checkpoints, files) is ListCrawl's and ListSync's        *)
(* subject; here a list has a status, a checkpoint or none, a token or      *)
(* none, and the number of the run that began its files.                    *)
(***************************************************************************)
EXTENDS WebWalk, EntitySets

CONSTANTS Lists,        \* every list, numbered in the order of webs and replies
          WebOf,        \* list -> its web
          Info,         \* list -> what list_in_scope looks at
          Title,        \* list -> its title, by its foldings
          WebInclude, WebExclude,   \* which web matches a pattern, and by what
          Setups,       \* [version, api_mode, mangled]: servers and settings
          MaxRuns, MaxFaults

ASSUME RunAssumption ==
    /\ Lists \subseteq Nat /\ IsFiniteSet(Lists)
    /\ WebOf \in [Lists -> Webs]
    /\ \A l, m \in Lists : l < m => WebOf[l] <= WebOf[m]
    /\ MaxRuns \in Nat /\ MaxFaults \in Nat

\* A --dry-run of any command does what discover does, and writes less.
Commands == {"discover", "schema", "crawl", "resume", "sync"}
Statuses == {"pending", "in_progress", "complete", "failed"}

VARIABLES
    version, api_mode,          \* the server's build; SP_API_MODE
    mangled,                    \* the server's names keep no letter but ASCII
    command, pc, exit,          \* the running command, where it is, its code
    runs, faults,               \* how many were started; failures so far
    websLeft, inScope,          \* webs to enumerate; lists_by_web
    schemasLeft, schemas,       \* lists to fetch; lists with a schema
    todo, prime,                \* lists to crawl; ask for a token afterwards?
    source, sets,               \* this list's entity set; the service's cache
    report,                     \* RunReport: counters, errors, fallbacks
    cached, disk, mem,          \* list.json files; _state.json; the store
    begun, readFrom,            \* run that began a list's files; its rows' source
    lastCrawl                   \* the last run of `crawl` (history, read by no action)

settings == <<version, api_mode, mangled>>
process == <<command, pc, exit, runs>>
scope == <<websLeft, inScope, schemasLeft, schemas>>
store == <<disk, mem>>
landing == <<cached, begun, readFrom>>
list == <<todo, prime, source, sets>>
vars == <<discovery, settings, process, faults, scope, list, report, store, landing, lastCrawl>>

NoReport == [succeeded |-> 0, failed |-> 0, skipped |-> 0, errors |-> {}, fallbacks |-> {}]
NoEntry == [status |-> "pending", checkpoint |-> FALSE, token |-> FALSE]

\* ServerVersion: what a build supports.
SupportsTokens == version \in {"12", "14"}
SupportsAllSub == version \in {"unknown", "12", "14"}

First(S) == CHOOSE x \in S : \A y \in S : x <= y
Web == First(websLeft)
Schema == First(schemasLeft)
List == First(todo)

-----------------------------------------------------------------------------
(* Scope: webs by URL or title, lists by kind and then by title or GUID.    *)

Matches(w, patterns) ==
    \/ <<w, "url">> \in patterns
    \/ w \in titled /\ <<w, "title">> \in patterns

WebInScope(w) ==
    /\ WebInclude = {} \/ Matches(w, WebInclude)
    /\ ~Matches(w, WebExclude)

ListInScope(l) ==
    /\ ~Info[l].system
    /\ Info[l].hidden => Info[l].include_hidden
    /\ Info[l].library => Info[l].include_libraries
    /\ Info[l].included
    /\ ~Info[l].excluded

-----------------------------------------------------------------------------
Init ==
    /\ NoDiscovery
    /\ \E s \in Setups :
          version = s.version /\ api_mode = s.api_mode /\ mangled = s.mangled
    /\ command = "none" /\ pc = "idle" /\ exit = 0
    /\ runs = 0 /\ faults = 0
    /\ websLeft = {} /\ inScope = {} /\ schemasLeft = {} /\ schemas = {}
    /\ todo = {} /\ prime = FALSE /\ source = NoSet /\ sets = {}
    /\ report = NoReport /\ lastCrawl = 0
    /\ cached = {}
    /\ disk = [l \in Lists |-> NoEntry] /\ mem = disk
    /\ begun = [l \in Lists |-> 0] /\ readFrom = [l \in Lists |-> {}]

\* The bound on failures: something went wrong once more.
Fault == faults < MaxFaults /\ faults' = faults + 1

\* A new process: settings read, the state file loaded, nothing cached.
Start(c) ==
    /\ pc = "idle" /\ runs < MaxRuns
    /\ command' = c /\ runs' = runs + 1 /\ exit' = 0
    /\ lastCrawl' = IF c = "crawl" THEN runs' ELSE lastCrawl
    /\ mem' = disk
    /\ report' = NoReport
    /\ websLeft' = {} /\ inScope' = {} /\ schemasLeft' = {} /\ schemas' = {}
    /\ todo' = {} /\ prime' = FALSE /\ source' = NoSet /\ sets' = {}
    /\ pc' = "discover"
    /\ IF SupportsAllSub THEN BeginRecursive ELSE BeginWalk
    /\ UNCHANGED <<settings, faults, disk, landing>>

Goto(label) == pc' = label /\ UNCHANGED <<command, exit, runs>>

-----------------------------------------------------------------------------
(* The ways a command ends.  Code 0 leaves the report on the screen and in  *)
(* _manifest.json (a dry run only on the screen), and so does code 2;       *)
(* _manifest.json is a copy of the report that no command decides on.       *)

Exit(code) ==
    /\ pc' = "idle" /\ exit' = code
    /\ mem' = disk
    /\ UNCHANGED <<command, runs>>

Through == Exit(0) /\ UNCHANGED <<discovery, settings, faults, scope, list, report, disk, landing>>

\* The process is gone and what it knew with it; the report of an abort is kept
\* in the manifest, which nothing reads.
Gone ==
    /\ Fault
    /\ Forget
    /\ websLeft' = {} /\ inScope' = {} /\ schemasLeft' = {} /\ schemas' = {}
    /\ todo' = {} /\ prime' = FALSE /\ source' = NoSet /\ sets' = {}
    /\ report' = NoReport
    /\ UNCHANGED <<settings, disk, landing>>

(***************************************************************************)
(* What discover() and fetch_schemas() let through, an authentication       *)
(* failure among it, is no CrawlAborted: no manifest, exit code 1.          *)
(***************************************************************************)
Raise == Exit(1) /\ Gone

\* An authentication failure inside the loop over the lists is one.
Abort == Exit(2) /\ Gone

\* Ctrl-C, or the process is killed.
Interrupt ==
    /\ pc # "idle"
    /\ Exit(130) /\ Gone

-----------------------------------------------------------------------------
(* 1. discover()                                                            *)

AtDiscover == pc = "discover" /\ seen = {}
AtWalk == pc = "discover" /\ seen # {}
InDiscovery == UNCHANGED <<settings, process, scope, list, report, store, landing>>

AllSubWebs == AtDiscover /\ RecursiveReply /\ InDiscovery /\ UNCHANGED faults
\* A SOAP fault or a body that is no SOAP reply: walk instead.
FallBackToWalk == AtDiscover /\ Fault /\ BeginWalk /\ InDiscovery
StopAtDepth == AtWalk /\ TooDeep /\ InDiscovery /\ UNCHANGED faults
VisitWeb == AtWalk /\ Visit /\ InDiscovery /\ UNCHANGED faults
SkipWeb == AtWalk /\ Unreadable /\ Fault /\ InDiscovery

\* Transport and authentication errors at the recursive call or at any web of
\* the walk, everything at the walk's root, and the version probe before it.
DiscoveryRaises ==
    /\ pc = "discover"
    /\ seen = {} \/ (queue # <<>> /\ Depth < MaxDepth)
    /\ Raise

ScopeWebs ==
    /\ AtWalk /\ queue = <<>>
    /\ Goto("webs") /\ websLeft' = {w \in seen : WebInScope(w)}
    /\ UNCHANGED <<inScope, schemasLeft, schemas>>
    /\ UNCHANGED <<discovery, settings, faults, list, report, store, landing>>

EnumerateLists ==
    /\ pc = "webs" /\ websLeft # {}
    /\ inScope' = inScope \cup {l \in Lists : WebOf[l] = Web /\ ListInScope(l)}
    /\ websLeft' = websLeft \ {Web}
    /\ UNCHANGED <<schemasLeft, schemas>>
    /\ UNCHANGED <<discovery, settings, process, faults, list, report, store, landing>>

\* Any other exception is this web's error, and its lists are not seen.
EnumerationFails ==
    /\ pc = "webs" /\ websLeft # {}
    /\ Fault
    /\ report' = [report EXCEPT !.errors = @ \cup {<<"discover", Web>>}]
    /\ websLeft' = websLeft \ {Web}
    /\ UNCHANGED <<inScope, schemasLeft, schemas>>
    /\ UNCHANGED <<discovery, settings, process, list, store, landing>>

\* An authentication failure, or web.json cannot be written.
EnumerationRaises == pc = "webs" /\ Raise

Discovered ==
    /\ pc = "webs" /\ websLeft = {}
    /\ \/ command = "discover" /\ Through
       \/ /\ command # "discover"
          /\ Goto("schemas") /\ schemasLeft' = inScope
          /\ UNCHANGED <<websLeft, inScope, schemas>>
          /\ UNCHANGED <<discovery, settings, faults, list, report, store, landing>>

-----------------------------------------------------------------------------
(* 2. fetch_schemas(); only crawl and schema always ask the server.         *)

UseCache == command \in {"resume", "sync"}

CachedSchema ==
    /\ pc = "schemas" /\ schemasLeft # {}
    /\ UseCache /\ Schema \in cached
    /\ schemas' = schemas \cup {Schema} /\ schemasLeft' = schemasLeft \ {Schema}
    /\ UNCHANGED <<websLeft, inScope>>
    /\ UNCHANGED <<discovery, settings, process, faults, list, report, store, landing>>

FetchSchema ==
    /\ pc = "schemas" /\ schemasLeft # {}
    /\ ~(UseCache /\ Schema \in cached)
    /\ cached' = cached \cup {Schema}
    /\ schemas' = schemas \cup {Schema} /\ schemasLeft' = schemasLeft \ {Schema}
    /\ UNCHANGED <<websLeft, inScope, begun, readFrom>>
    /\ UNCHANGED <<discovery, settings, process, faults, list, report, store>>

SchemaFails ==
    /\ pc = "schemas" /\ schemasLeft # {}
    /\ ~(UseCache /\ Schema \in cached)
    /\ Fault
    /\ report' = [report EXCEPT !.errors = @ \cup {<<"schema", Schema>>}]
    /\ schemasLeft' = schemasLeft \ {Schema}
    /\ UNCHANGED <<websLeft, inScope, schemas>>
    /\ UNCHANGED <<discovery, settings, process, list, store, landing>>

\* An authentication failure, or list.json or graph.json cannot be written.
SchemasRaise == pc = "schemas" /\ Raise

BeginLists ==
    /\ pc = "schemas" /\ schemasLeft = {}
    /\ IF command = "schema"
       THEN /\ Through
            /\ UNCHANGED todo
       ELSE /\ pc' = "lists" /\ todo' = inScope
            /\ UNCHANGED <<command, exit, runs>>
    /\ UNCHANGED <<prime, source, sets>>
    /\ UNCHANGED <<discovery, settings, faults, scope, report, store, landing>>

-----------------------------------------------------------------------------
(* The server's side of the REST backend: every list of a web has a set,    *)
(* named after its title with or without its non-ASCII letters, a digit     *)
(* behind the name that is taken.                                           *)

SiteLists(w) == {l \in Lists : WebOf[l] = w}
NameOf(l) ==
    IF ~mangled THEN Title[l]
    ELSE LET short == Title[l].ascii
             taken == \E m \in SiteLists(WebOf[l]) : m < l /\ Title[m].ascii = short
             name == IF taken THEN short \o "0" ELSE short
         IN  [uni |-> name, ascii |-> name]
Candidates(w) ==
    LET Upto[n \in 0 .. Cardinality(Lists)] ==
            IF n = 0 THEN <<>>
            ELSE LET l == CHOOSE m \in Lists : Cardinality({k \in Lists : k <= m}) = n
                 IN  IF WebOf[l] = w THEN Append(Upto[n - 1], NameOf(l)) ELSE Upto[n - 1]
    IN  Upto[Cardinality(Lists)]

-----------------------------------------------------------------------------
(* 3. The loops of crawl() and sync() over the lists.                       *)

Running == UNCHANGED <<discovery, settings, scope>>

\* StateStore.update, which touches the memory only, and with it
\* StateStore.save, which writes the whole store, every entry of it.
SetEntry(l, entry) == mem' = [mem EXCEPT ![l] = entry]
SaveEntry(l, entry) == SetEntry(l, entry) /\ disk' = mem'

\* An exception on its way to the handlers of the list, what was updated
\* before it in memory and nowhere else.
Raised(entry) ==
    /\ Fault
    /\ SetEntry(List, entry) /\ UNCHANGED disk
    /\ Goto("handler")
    /\ UNCHANGED <<list, report, cached>> /\ Running

NextList == Goto("lists") /\ todo' = todo \ {List} /\ prime' = FALSE /\ source' = NoSet

\* No schema, no crawl: counted, and nothing written to the state.
WithoutSchema ==
    /\ pc = "lists" /\ todo # {}
    /\ List \notin schemas
    /\ NextList
    /\ UNCHANGED <<faults, sets, store, landing>> /\ Running
\* Mutant: the list is left out of the counts.
NoSchemaUncounted == WithoutSchema /\ UNCHANGED report
NoSchema == WithoutSchema /\ report' = [report EXCEPT !.failed = @ + 1]

AtList == pc = "lists" /\ todo # {} /\ List \in schemas

\* crawl_list() under --resume leaves a complete list alone, as a success.
Skip ==
    /\ AtList /\ command = "resume"
    /\ NextList
    /\ report' = [report EXCEPT !.skipped = @ + 1, !.succeeded = @ + 1]
    /\ UNCHANGED <<faults, sets, store, landing>> /\ Running
\* Mutant: any list an earlier run has begun is taken for a complete one.
SkipBegun == Skip /\ mem[List].status # "pending"
SkipComplete == Skip /\ mem[List].status = "complete"

\* crawl_list() up to the page loop: files kept or begun, the entry updated,
\* and saved unless that fails.
CrawlList(resume, thenPrime, entry) ==
    LET goesOn == resume /\ entry.checkpoint
        inProgress == [entry EXCEPT !.status = "in_progress", !.checkpoint = goesOn]
    IN  /\ IF goesOn
           THEN UNCHANGED <<begun, readFrom>>
           ELSE /\ begun' = [begun EXCEPT ![List] = runs]
                /\ readFrom' = [readFrom EXCEPT ![List] = {}]
        /\ \/ /\ SaveEntry(List, inProgress)
              /\ prime' = thenPrime
              /\ Goto(IF api_mode = "odata" THEN "source" ELSE "pages")
              /\ UNCHANGED <<faults, todo, source, sets, report, cached>> /\ Running
           \/ Raised(inProgress)

BeginCrawl ==
    /\ AtList
    /\ \/ command = "crawl" /\ CrawlList(FALSE, FALSE, mem[List])
       \/ /\ command = "resume" /\ mem[List].status # "complete"
          /\ CrawlList(TRUE, FALSE, mem[List])

\* sync_list() without what an incremental sync needs is a full crawl, after
\* which a token is asked for if the build has tokens.
CanSync(entry) == entry.token /\ entry.status = "complete"
FullCrawlInSync ==
    /\ AtList /\ command = "sync"
    /\ ~SupportsTokens \/ ~CanSync(mem[List])
    /\ CrawlList(FALSE, SupportsTokens, mem[List])

\* The batches were read and both files rewritten: up to date as of this run.
SyncChanges ==
    /\ AtList /\ command = "sync" /\ SupportsTokens /\ CanSync(mem[List])
    /\ begun' = [begun EXCEPT ![List] = runs]
    /\ readFrom' = [readFrom EXCEPT ![List] = @ \cup {NoSet}]
    /\ \/ /\ SaveEntry(List, mem[List])
          /\ NextList
          /\ report' = [report EXCEPT !.succeeded = @ + 1]
          /\ UNCHANGED <<faults, sets, cached>> /\ Running
       \/ Raised(mem[List])

\* The token is forgotten in memory; it is crawl_list() that saves, if it gets
\* the files of the list out of the way.
TokenRejected ==
    LET dropped == [mem[List] EXCEPT !.token = FALSE]
    IN  /\ AtList /\ command = "sync" /\ SupportsTokens /\ CanSync(mem[List])
        /\ \/ CrawlList(FALSE, TRUE, dropped)
           \/ Raised(dropped) /\ UNCHANGED <<begun, readFrom>>

-----------------------------------------------------------------------------
(* One list: where its rows come from, its pages, its token.                *)

\* entity_set_for(): an OData error is no candidate at all; the names once
\* read are kept by the service of the web.
ChooseSource ==
    /\ pc = "source"
    /\ \E doc, meta \in Answers :
          LET web == WebOf[List]
              got == IF web \in sets THEN "names" ELSE EntitySets(doc, meta)
              set == IF got = "names" THEN EntitySetFor(Title[List], Candidates(web)) ELSE NoSet
          IN  /\ got \in {"names", "odata"}
              /\ source' = set
              /\ sets' = IF got = "names" THEN sets \cup {web} ELSE sets
              /\ report' = IF set = NoSet
                           THEN [report EXCEPT !.fallbacks = @ \cup {List}] ELSE report
    /\ Goto("pages")
    /\ UNCHANGED <<faults, todo, prime, store, landing>> /\ Running

(***************************************************************************)
(* _odata_page(): a request with a wide $expand that is answered with an    *)
(* OData error is made again without it.  A 500 comes as "retryable", which *)
(* is none, and fails the list as any other exception does.                 *)
(***************************************************************************)
OdataPage(expanded, plain) ==
    \/ expanded \in {"json", "atom"}
    \/ ServiceDocument(expanded) # expanded /\ plain \in {"json", "atom"}

\* A page was written and checkpointed; more may follow.
AtCheckpoint == [mem[List] EXCEPT !.checkpoint = TRUE]
SavePage ==
    /\ pc = "pages" /\ source \notin readFrom[List]
    /\ source # NoSet => \E expanded, plain \in Answers : OdataPage(expanded, plain)
    /\ readFrom' = [readFrom EXCEPT ![List] = @ \cup {source}]
    /\ UNCHANGED begun
    /\ \/ /\ SaveEntry(List, AtCheckpoint)
          /\ UNCHANGED <<process, faults, list, report, cached>> /\ Running
       \/ Raised(AtCheckpoint)

Complete == [mem[List] EXCEPT !.status = "complete"]
EndOfList ==
    /\ pc = "pages"
    /\ \/ /\ SaveEntry(List, Complete)
          /\ IF prime
             THEN /\ Goto("token")
                  /\ UNCHANGED <<todo, prime, source, report>>
             ELSE /\ NextList
                  /\ report' = [report EXCEPT !.succeeded = @ + 1]
          /\ UNCHANGED <<faults, sets, landing>> /\ Running
       \/ Raised(Complete) /\ UNCHANGED <<begun, readFrom>>

\* _prime_change_token(): whatever goes wrong with the request is logged, even
\* a refusal of the credential, and the list stays complete without a token.
\* The save of a token is outside of that.
AfterCrawl ==
    /\ NextList
    /\ report' = [report EXCEPT !.succeeded = @ + 1]
    /\ UNCHANGED <<faults, sets, landing>> /\ Running
WithToken == [mem[List] EXCEPT !.token = TRUE]
\* Mutant: the token is not saved.
PrimedUnsaved == pc = "token" /\ SetEntry(List, WithToken) /\ UNCHANGED disk /\ AfterCrawl
\* Mutant: without a token the list is crawled on.
PrimedAgain ==
    /\ pc = "token"
    /\ \/ SaveEntry(List, WithToken) /\ AfterCrawl
       \/ Goto("pages") /\ UNCHANGED <<faults, list, report, store, landing>> /\ Running
Primed ==
    /\ pc = "token"
    /\ \/ (SaveEntry(List, WithToken) \/ UNCHANGED store) /\ AfterCrawl
       \/ Raised(WithToken) /\ UNCHANGED <<begun, readFrom>>

-----------------------------------------------------------------------------
(* The handlers around one list.                                            *)

InList ==
    \/ pc \in {"source", "pages"}
    \/ AtList /\ ~(command = "resume" /\ mem[List].status = "complete")
Scope == IF command = "sync" THEN "sync" ELSE "crawl"

\* Anything but a save raises.
ListRaises == InList /\ Raised(mem[List]) /\ UNCHANGED <<begun, readFrom>>

\* except Exception: this list's failure, and only this list's.
Failed == [mem[List] EXCEPT !.status = "failed"]
FailList ==
    /\ pc = "handler"
    /\ report' = [report EXCEPT !.failed = @ + 1, !.errors = @ \cup {<<Scope, List>>}]
    /\ NextList
    /\ UNCHANGED <<faults, sets, landing>> /\ Running
\* Mutant: the store is updated and not saved.
MarkFailedUnsaved == FailList /\ SetEntry(List, Failed) /\ UNCHANGED disk
MarkFailed == FailList /\ SaveEntry(List, Failed)

\* The handler's own save raises: the exception leaves the command.
HandlerRaises == pc = "handler" /\ Raise

\* except AuthenticationError: CrawlAborted.  Nothing is asked of the server
\* before crawl_list() has saved the entry, and sync_list() asks for changes.
Asking ==
    \/ pc \in {"source", "pages"}
    \/ AtList /\ command = "sync" /\ SupportsTokens /\ CanSync(mem[List])
AbortList == Asking /\ Abort

Finish ==
    /\ pc = "lists" /\ todo = {}
    /\ Through

-----------------------------------------------------------------------------
Discover ==
    \/ AllSubWebs \/ FallBackToWalk \/ StopAtDepth \/ VisitWeb \/ SkipWeb
    \/ DiscoveryRaises \/ ScopeWebs
    \/ EnumerateLists \/ EnumerationFails \/ EnumerationRaises \/ Discovered
FetchSchemas ==
    CachedSchema \/ FetchSchema \/ SchemaFails \/ SchemasRaise \/ BeginLists
CrawlLists ==
    \/ NoSchema \/ SkipComplete \/ BeginCrawl \/ FullCrawlInSync \/ SyncChanges
    \/ TokenRejected \/ ChooseSource \/ SavePage \/ EndOfList \/ Primed
    \/ ListRaises \/ MarkFailed \/ HandlerRaises \/ AbortList \/ Finish

Proceed == (Discover \/ FetchSchemas \/ CrawlLists) /\ UNCHANGED lastCrawl
Next ==
    \/ Proceed
    \/ Interrupt /\ UNCHANGED lastCrawl
    \/ \E c \in Commands : Start(c)

Spec == Init /\ [][Next]_vars
FairSpec == Spec /\ WF_vars(Proceed)
-----------------------------------------------------------------------------
Errors == ({"discover"} \X Webs) \cup ({"schema", "crawl", "sync"} \X Lists)
Entries == [status : Statuses, checkpoint : BOOLEAN, token : BOOLEAN]
Sets == {NoSet} \cup {NameOf(l) : l \in Lists}

TypeOK ==
    /\ WalkTypeOK
    /\ command \in Commands \cup {"none"} /\ exit \in {0, 1, 2, 130}
    /\ pc \in {"idle", "discover", "webs", "schemas", "lists", "source", "pages", "token",
              "handler"}
    /\ runs \in 0 .. MaxRuns /\ faults \in 0 .. MaxFaults
    /\ websLeft \subseteq Webs /\ inScope \subseteq Lists
    /\ schemasLeft \subseteq Lists /\ schemas \subseteq inScope
    /\ todo \subseteq inScope /\ prime \in BOOLEAN
    /\ source \in Sets /\ sets \subseteq Webs
    /\ report.errors \subseteq Errors /\ report.fallbacks \subseteq inScope
    /\ cached \subseteq Lists
    /\ disk \in [Lists -> Entries] /\ mem \in [Lists -> Entries]
    /\ begun \in [Lists -> 0 .. runs] /\ readFrom \in [Lists -> SUBSET Sets]

ItemCommands == {"crawl", "resume", "sync"}
WentThrough == pc = "idle" /\ exit = 0 /\ command \in ItemCommands
FailedIn(scopes) == {l \in Lists : \E s \in scopes : <<s, l>> \in report.errors}

\* The webs an operator means by the patterns: those that match by URL or by
\* the title they have.  The walk never learns the root's title (webs.py:137).
Meant(w) ==
    LET match(P) == <<w, "url">> \in P \/ <<w, "title">> \in P
    IN  (WebInclude = {} \/ match(WebInclude)) /\ ~match(WebExclude)

(***************************************************************************)
(* A command that goes through with exit code 0 has left no list behind     *)
(* unsaid: each in-scope list of each in-scope web of the farm is complete  *)
(* in the state file, or the report names it, or its web, in an error, or   *)
(* a warning names a web above it that was not enumerated (crawl.py:220-279,*)
(* 630-706 and webs.py:134-184 together).                                   *)
(***************************************************************************)
NoListLost ==
    WentThrough =>
        \A l \in Lists :
            LET w == WebOf[l]
            IN  /\ ListInScope(l) /\ w \in Reachable(Root) /\ Meant(w)
                /\ w = Root => w \in titled \/ WebInScope(w)
                =>
                  \/ disk[l].status = "complete"
                  \/ l \in FailedIn({"schema", "crawl", "sync"})
                  \/ <<"discover", w>> \in report.errors
                  \/ w \notin seen /\ \E v \in Warned : w \in Reachable(v)

(***************************************************************************)
(* The numbers of the summary are about the same lists as its errors: every *)
(* list in scope succeeded or failed, and as many failed as errors name     *)
(* (crawl.py:220-279 counts the scope, 630-706 the outcomes).               *)
(***************************************************************************)
CountsAddUp ==
    WentThrough =>
        /\ report.succeeded + report.failed = Cardinality(inScope)
        /\ report.failed = Cardinality(FailedIn({"schema", "crawl", "sync"}))
        /\ report.skipped <= report.succeeded

(***************************************************************************)
(* What the run reports as failed while its items were read is what the     *)
(* state file calls failed, so that a resume takes it up again, and nothing *)
(* the run reached is called failed that it did not report: the failures of *)
(* one list neither hide nor touch those of another (crawl.py:653-666).     *)
(***************************************************************************)
FailedIsOnDisk ==
    WentThrough =>
        \A l \in schemas : disk[l].status = "failed" <=> l \in FailedIn({"crawl", "sync"})

(* Types, and a state file that says of failures what the report says.      *)
Consistent == TypeOK /\ FailedIsOnDisk

(***************************************************************************)
(* A command that reports an outcome has persisted all it decided.  A save  *)
(* may fail, and a rejected token is dropped in memory alone: what the      *)
(* memory is ahead by is written by a later save, the handler's if need be, *)
(* before the process ends with code 0 or 2 (state.py:68-90; crawl.py:386-  *)
(* 395, 459-460, 480-488, 653-663, 691-697, 747, 755, 812-813).             *)
(***************************************************************************)
NothingLeftInMemory ==
    [][pc # "idle" /\ pc' = "idle" /\ exit' \in {0, 2} => disk = mem]_vars

(***************************************************************************)
(* The rows of a list come from its own collection whenever its title can   *)
(* be told from the names of its site's other collections: no other name    *)
(* has the same letters, and the list's own name has kept them or no other  *)
(* name has the same ASCII letters (odata.py:507-526, crawl.py:407-419).    *)
(***************************************************************************)
Distinguishable(l) ==
    LET others == {NameOf(m) : m \in SiteLists(WebOf[l]) \ {l}}
    IN  /\ \A n \in others : n.uni # Title[l].uni
        /\ NameOf(l).uni = Title[l].uni \/ \A n \in others : n.ascii # Title[l].ascii
OwnRows ==
    \A l \in Lists : Distinguishable(l) => readFrom[l] \subseteq {NoSet, NameOf(l)}

(***************************************************************************)
(* Every command that is started ends: the walk whatever the replies list,  *)
(* the loops over webs and lists whatever fails in them.                    *)
(***************************************************************************)
RunsEnd == pc # "idle" ~> pc = "idle"

(***************************************************************************)
(* docs/operations.md:286: "To retry only the failed lists after a partial  *)
(* run: `--resume` does this automatically".  So a resume that goes through *)
(* without an error leaves every list in scope with files no older than the *)
(* last full crawl it finishes.  It does not hold: a list the crawl did not *)
(* reach, or whose schema it could not fetch, keeps the `complete` of an    *)
(* earlier run and is skipped (crawl.py:372, 643).                          *)
(***************************************************************************)
ResumeFinishesCrawl ==
    WentThrough /\ command = "resume" /\ report.errors = {} =>
        \A l \in inScope : begun[l] >= lastCrawl

=============================================================================
