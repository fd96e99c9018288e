------------------------------ MODULE Diagnostics ------------------------------
(***************************************************************************)
(* The commands that explain a farm instead of crawling it: probe,          *)
(* probe-rest, permissions and explore of cli.py, with the requests and the *)
(* conclusions transport.py draws from them (probe_auth_schemes,            *)
(* probe_version, diagnose_endpoint_auth), and --diagnose of the pull       *)
(* script.  The farm is what the command is to find out: it is fixed, and   *)
(* no action looks at it but through a reply.                               *)
(*                                                                         *)
(* What NTLM makes hard is in GetReplies: a handshake signs in a            *)
(* connection, and later requests on it carry no credential and are served. *)
(* Basic does the opposite: every request carries the credential, asked for *)
(* or not.                                                                  *)
(***************************************************************************)
EXTENDS Naturals, Sequences, FiniteSets

CONSTANTS
    Farms,      \* records: what is true of a farm and an account on it
    Modes,      \* SP_AUTH_MODE
    Priming,    \* SP_NTLM_PRIME_CONNECTION
    Lists,      \* the lists of each web
    Services    \* what the pull script's collection refuses: sets of options

Webs == {"root", "sub"}
Commands == {"probe", "probe-rest", "permissions", "explore", "diagnose"}
Options == {"bare", "select", "sort", "filter", "both", "size"}
NtlmModes == {"ntlm", "integrated"}
Running == 9

(***************************************************************************)
(* right     the credential is the account's                                *)
(* member    the account may read the web; services: and use _vti_bin       *)
(* root      what a GET of the base URL without a credential is answered:   *)
(*           its page ("open"), a challenge ("closed"), a redirect to a     *)
(*           page that challenges ("moved"), a redirect to a sign-in page    *)
(*           ("forms"), or a page that names one ("login")                   *)
(* openBin   a bodyless GET in _vti_bin is served to anybody                *)
(* offers    the scheme a challenge names                                   *)
(* posts     a POST with a body: "work", "primed" if its connection is      *)
(*           signed in already, "fail"                                      *)
(* rest      what stands at ListData.svc: a service that names its          *)
(*           collections, something else, or nothing                        *)
(* refusal   a signed-in account that may not read: "401" or a "page"       *)
(* closed    the inventories <<web, "lists">> and the lists <<web, list>>   *)
(*           the account cannot read; deny: by a "fault" or a "403"         *)
(***************************************************************************)
ASSUME DiagnosticsAssumption ==
    /\ Farms \subseteq [right : BOOLEAN, member : BOOLEAN, services : BOOLEAN,
                        root : {"open", "closed", "moved", "forms", "login"},
                        openBin : BOOLEAN,
                        offers : {"ntlm", "basic", "other"},
                        posts : {"work", "primed", "fail"},
                        rest : {"collections", "other", "missing"},
                        refusal : {"401", "page"},
                        closed : SUBSET (Webs \X (Lists \cup {"lists"})),
                        deny : {"fault", "403"}]
    /\ Modes \subseteq {"ntlm", "integrated", "basic", "anonymous"}
    /\ Farms # {} /\ Modes # {}
    /\ Priming \in BOOLEAN
    /\ "lists" \notin Lists
    /\ Services \subseteq SUBSET Options

VARIABLES
    farm, mode, command,
    probeItems,     \* permissions: --probe-items
    refuses,        \* diagnose: the options the service refuses
    pc, exit,
    suggested,      \* AuthProbe.suggested_mode, "unasked" before it is asked
    accepted,       \* Transport.credential_accepted
    signedIn,       \* a connection of the session has completed a handshake
    rest, soap,     \* probe-rest: what either backend answered
    left, denied,   \* permissions, explore: still to ask; not readable
    results,        \* diagnose: rungs that were answered 2xx
    verdict         \* the conclusion printed

world == <<farm, mode, command, probeItems, refuses>>
session == <<accepted, signedIn>>
findings == <<rest, soap, left, denied, results, verdict>>
vars == <<world, pc, exit, suggested, session, findings>>

Steps == [c \in Commands |->
    CASE c = "probe" -> <<"reach", "authenticate", "webs", "lists", "listdata">>
      [] c = "probe-rest" -> <<"reach", "rest", "row", "soap", "verdict">>
      [] c = "permissions" -> <<"reach", "authenticate", "webs", "declared", "access">>
      [] c = "explore" -> <<"sets", "counts">>
      [] c = "diagnose" -> <<"ladder">>]

Init ==
    /\ command \in Commands
    /\ farm \in IF command = "diagnose" THEN {CHOOSE f \in Farms : TRUE} ELSE Farms
    /\ mode \in IF command = "diagnose" THEN {CHOOSE m \in Modes : TRUE} ELSE Modes
    /\ probeItems \in IF command = "permissions" THEN BOOLEAN ELSE {TRUE}
    /\ refuses \in IF command = "diagnose" THEN Services ELSE {{}}
    /\ pc = 1 /\ exit = Running
    /\ suggested = "unasked"
    /\ accepted = FALSE /\ signedIn = FALSE
    /\ rest = "none" /\ soap = "none"
    /\ left = {} /\ denied = {}
    /\ results = {} /\ verdict = "none"

At(step) == exit = Running /\ Steps[command][pc] = step

Advance ==
    IF pc < Len(Steps[command])
    THEN pc' = pc + 1 /\ UNCHANGED exit
    ELSE exit' = 0 /\ UNCHANGED pc
Ends(code) == exit' = code /\ UNCHANGED pc
Stays == UNCHANGED <<pc, exit>>

-----------------------------------------------------------------------------
(* The farm's side of a request.                                            *)

Signs ==
    /\ farm.right
    /\ \/ mode \in NtlmModes /\ farm.offers = "ntlm"
       \/ mode = "basic" /\ farm.offers = "basic"

\* What a GET without a credential is answered.  "root" is the base URL itself,
\* "home" where its redirects lead, "page" one of the pages for priming.
Anybody(place) ==
    CASE place = "root" /\ farm.root = "forms" -> "page"
      [] place = "root" /\ farm.root \in {"open", "moved", "login"} -> "served"
      [] place = "home" /\ farm.root = "forms" -> "page"
      [] place = "home" /\ farm.root \in {"open", "login"} -> "served"
      [] place \in {"bin", "rest"} /\ farm.openBin -> "served"
      [] OTHER -> "challenge"
Open(place) == Anybody(place) # "challenge"
Admits(place) ==
    /\ place \in {"bin", "rest"} => farm.services
    /\ place # "bin" => farm.member

\* The replies to a bodyless GET, and whether the request that got the reply
\* carried a credential.  With NTLM the one that ends a handshake does; later
\* ones on the signed-in connection do not, nor does the last hop of a redirect
\* that follows the handshake.  Basic sends it always, and one that is wrong may
\* be refused where none at all is served.
GetReplies(place, signed) ==
    IF Open(place)
    THEN {[reply |-> Anybody(place), header |-> mode = "basic"]}
         \cup IF mode = "basic" /\ ~farm.right THEN {[reply |-> "401", header |-> TRUE]} ELSE {}
    ELSE IF ~Signs
    THEN {[reply |-> "401",
           header |-> mode = "basic" \/ (mode \in NtlmModes /\ farm.offers = "ntlm")]}
    ELSE [reply : IF Admits(place) THEN {"served"} ELSE {"401", farm.refusal},
          header : {TRUE} \cup IF signed \/ place = "home" THEN {FALSE} ELSE {}]

SignedBy(place) == signedIn \/ (mode \in NtlmModes /\ Signs /\ ~Open(place))

\* _authenticated(), asked about what was not refused.
\* Mutant: a refused request that carried the credential counts as well.
AcceptedByAny(r) == accepted \/ r.header
AcceptedBy(r) == accepted \/ (r.header /\ r.reply # "401")

-----------------------------------------------------------------------------
(* A SOAP POST with its priming ladder, in short: Transport has it in full. *)

Works == Signs /\ farm.member /\ farm.services
Eligible == Priming /\ mode \in NtlmModes
Refused == [ok |-> FALSE, accepted |-> accepted]
Again == [ok |-> Works /\ farm.posts = "primed", accepted |-> TRUE]

Climb(e, p) ==
    CASE e.reply = "401" -> Refused
      [] e.reply # "401" /\ AcceptedBy(e) -> Again
      [] OTHER -> IF p.reply # "401" /\ p.header THEN Again ELSE Refused
Posts ==
    IF Works /\ farm.posts = "work" THEN {[ok |-> TRUE, accepted |-> accepted]}
    ELSE IF Eligible
    THEN {Climb(e, p) : e \in GetReplies("bin", signedIn),
                        p \in GetReplies("page", SignedBy("bin"))}
    ELSE {Refused}

\* The ladder ends on a page that challenges, if nothing before it does.
SignedByPost(p) == signedIn \/ (mode \in NtlmModes /\ Signs /\ (p.ok \/ Eligible))
Posted(p) == accepted' = p.accepted /\ signedIn' = SignedByPost(p)

-----------------------------------------------------------------------------
(* Ways out.                                                                *)

\* No answer, an answer that is not SOAP, a fault nobody catches.
Fails ==
    /\ exit = Running /\ command # "diagnose"
    /\ ~At("verdict") /\ ~At("listdata")
    /\ Ends(1)
    /\ UNCHANGED <<world, suggested, session, findings>>

\* RedirectRefused: the farm, or one of its SOAP services, is elsewhere.
Moved ==
    /\ \E step \in {"reach", "webs", "lists"} : At(step)
    /\ Ends(2)
    /\ UNCHANGED <<world, suggested, session, findings>>

\* _status_of(): a 401 may well have carried the credential.
Reached(r) == r.reply = "served"

(***************************************************************************)
(* diagnose_endpoint_auth(): two GETs, and what they say of the refusal.    *)
(* Mutant: two GETs that are served are taken for a working credential.     *)
(***************************************************************************)
ConclusionFromStatus(root, endpoint, known) ==
    CASE Reached(root) /\ Reached(endpoint) -> "post"
      [] Reached(root) /\ ~Reached(endpoint) -> "services"
      [] OTHER -> "web"
Conclusion(root, endpoint, known) ==
    CASE Reached(root) /\ Reached(endpoint) /\ ~known -> "credential"
      [] Reached(root) /\ Reached(endpoint) /\ known -> "post"
      [] Reached(root) /\ ~Reached(endpoint) -> "services"
      [] OTHER -> "web"
Differential(acc, signed) ==
    /\ \E root \in GetReplies("root", signed), endpoint \in GetReplies("bin", signed) :
          /\ accepted' = (acc \/ AcceptedBy(root) \/ AcceptedBy(endpoint))
          /\ verdict' = Conclusion(root, endpoint, accepted')
    /\ signedIn' = (signed \/ SignedBy("root") \/ SignedBy("bin"))

\* report_auth_failure(): with another scheme than the server's every request
\* fails alike, and nothing is concluded.  explore has not asked for it.
Report(acc, signed) ==
    /\ Ends(2)
    /\ IF suggested \in {"unasked", "none", mode}
       THEN Differential(acc, signed)
       ELSE verdict' = "other_mode" /\ accepted' = acc /\ signedIn' = signed
    /\ UNCHANGED <<world, suggested, rest, soap, left, denied, results>>

-----------------------------------------------------------------------------
(* probe_auth_schemes(): one GET without a credential.                      *)

\* AuthProbe.suggested_mode: none on a redirect, a sign-in page, or a scheme it
\* does not know.
Suggestion ==
    CASE farm.root = "open" -> "anonymous"
      [] farm.root = "closed" /\ farm.offers = "ntlm" ->
            IF mode = "integrated" THEN mode ELSE "ntlm"
      [] farm.root = "closed" /\ farm.offers = "basic" -> "basic"
      [] OTHER -> "none"

Reach ==
    /\ At("reach")
    /\ suggested' = Suggestion
    /\ Advance
    /\ UNCHANGED <<world, session, findings>>

\* probe_version(), and what probe makes of an access-denied page: a 200 that
\* proves the login and no access.  permissions goes on.
Authenticate ==
    /\ At("authenticate")
    /\ \E r \in GetReplies("home", signedIn) :
          IF r.reply = "401" \/ (r.reply = "page" /\ command = "probe")
          THEN Report(AcceptedBy(r), SignedBy("home"))
          ELSE /\ accepted' = AcceptedBy(r)
               /\ signedIn' = SignedBy("home")
               /\ Advance
               /\ UNCHANGED <<world, suggested, findings>>

\* discover_all_webs(): a SOAP POST whichever operation the build has.
\* Mutant: a refusal is one more warning of the discovery.
EnumerateWebsAnyway ==
    /\ At("webs")
    /\ \E p \in Posts : Posted(p)
    /\ Advance
    /\ left' = IF command = "permissions" THEN {<<w, "lists">> : w \in Webs} ELSE {}
    /\ UNCHANGED <<world, suggested, rest, soap, denied, results, verdict>>
EnumerateWebs ==
    /\ At("webs")
    /\ \E p \in Posts :
          IF p.ok
          THEN /\ Posted(p) /\ Advance
               /\ left' = IF command = "permissions" THEN {<<w, "lists">> : w \in Webs} ELSE {}
               /\ UNCHANGED <<world, suggested, rest, soap, denied, results, verdict>>
          ELSE Report(p.accepted, SignedByPost(p))

-----------------------------------------------------------------------------
(* probe: the inventory of the first web, then two services that are named  *)
(* and never fail the command (SiteData, ListData.svc).                     *)

InventoryOfRoot ==
    /\ At("lists")
    /\ IF <<"root", "lists">> \notin farm.closed
       THEN Advance /\ UNCHANGED <<world, suggested, session, findings>>
       ELSE IF farm.deny = "403" THEN Report(accepted, signedIn)
       ELSE Ends(1) /\ UNCHANGED <<world, suggested, session, findings>>

OtherServices ==
    /\ At("listdata")
    /\ Advance
    /\ UNCHANGED <<world, suggested, session, findings>>

-----------------------------------------------------------------------------
(* probe-rest: the same directory by a GET and by a POST.                   *)

\* entity_sets().  A refusal is recorded, not raised; a 404 is none, nor is
\* whatever else is answered 200 and names no collections, a page that says the
\* account may not read included.  What claims to be JSON and is not is an error.
\* Mutant: whatever is not a list of collections is a refusal.
RestFindingRefused(r) ==
    IF r.reply = "served" /\ farm.rest = "collections" THEN "ok" ELSE "denied"
RestFinding(r) ==
    CASE r.reply = "401" -> "denied"
      [] r.reply = "served" /\ farm.rest = "collections" -> "ok"
      [] OTHER -> "absent"

ReadRest ==
    /\ At("rest")
    /\ \E r \in GetReplies("rest", signedIn) : rest' \in {RestFinding(r), "error"}
    /\ signedIn' = SignedBy("rest")
    /\ Advance
    /\ UNCHANGED <<world, suggested, accepted, soap, left, denied, results, verdict>>

\* _first_readable_collection(): one collection after the other until one has
\* rows; one that is refused before that stops the command.
Barred == {l \in Lists : <<"root", l>> \in farm.closed /\ farm.deny = "403"}
ReadRow ==
    /\ At("row")
    /\ \/ rest = "ok" /\ Barred # {} /\ Report(accepted, signedIn)
       \/ /\ rest # "ok" \/ Barred = {} \/ Barred # Lists
          /\ Advance /\ UNCHANGED <<world, suggested, session, findings>>

\* get_all_sub_web_collection(): every failure is the measurement.
AskSoap ==
    /\ At("soap")
    /\ \E p \in Posts :
          /\ Posted(p)
          /\ soap' \in {IF p.ok THEN "ok" ELSE "failed", "failed"}
    /\ Advance
    /\ UNCHANGED <<world, suggested, rest, left, denied, results, verdict>>

\* _rest_vs_soap_verdict()
Compared ==
    CASE rest = "ok" /\ soap = "ok" -> "both_work"
      [] rest = "ok" /\ soap = "failed" -> "only_posts_fail"
      [] rest # "ok" /\ soap = "ok" -> "no_rest"
      [] rest = "denied" /\ soap = "failed" -> "not_the_method"
      [] OTHER -> "inconclusive"
Compare ==
    /\ At("verdict")
    /\ verdict' = Compared
    /\ Ends(IF rest = "ok" THEN 0 ELSE 1)
    /\ UNCHANGED <<world, suggested, session, rest, soap, left, denied, results>>

-----------------------------------------------------------------------------
(* permissions: what the account is granted, then what it can read.         *)

\* describe(): a fault is an answer, a refusal is not.
Declared ==
    /\ At("declared")
    /\ \/ Advance /\ UNCHANGED <<world, suggested, session, findings>>
       \/ Report(accepted, signedIn)

\* probe_access(): each web's inventory, one row of each of its lists.  What is
\* refused by a fault is a finding, and so is what got no answer; a 401 or a
\* 403 ends the report.
Asked == CHOOSE x \in left : TRUE
Inside(x) == IF x[2] = "lists" THEN {<<x[1], l>> : l \in Lists} ELSE {}

\* Mutant: an inventory that cannot be read has no lists to be denied.
NotReadableUnsaid(x) == denied
NotReadable(x) == denied \cup {x}

AccessDenied ==
    /\ At("access") /\ left # {}
    /\ left' = left \ {Asked}
    /\ denied' = NotReadable(Asked)
    /\ Stays
    /\ UNCHANGED <<world, suggested, session, rest, soap, results, verdict>>

AskForAccess ==
    /\ At("access") /\ left # {}
    /\ IF Asked \in farm.closed /\ (probeItems \/ Asked[2] = "lists")
       THEN farm.deny = "403" /\ Report(accepted, signedIn)
       ELSE /\ left' = (left \ {Asked}) \cup Inside(Asked)
            /\ Stays
            /\ UNCHANGED <<world, suggested, session, rest, soap, denied, results, verdict>>

\* AccessReport.complete
EndAccess ==
    /\ At("access") /\ left = {}
    /\ verdict' = IF denied = {} THEN "complete" ELSE "incomplete"
    /\ Advance
    /\ UNCHANGED <<world, suggested, session, rest, soap, left, denied, results>>

-----------------------------------------------------------------------------
(* explore: the collections of one web, counted over REST alone.            *)

EntitySets ==
    /\ At("sets")
    /\ \E r \in GetReplies("rest", signedIn) :
          IF RestFinding(r) = "denied" THEN Report(accepted, SignedBy("rest"))
          ELSE IF RestFinding(r) = "absent"
          THEN Ends(1) /\ UNCHANGED <<world, suggested, session, findings>>
          ELSE /\ left' = {<<"root", l>> : l \in Lists}
               /\ signedIn' = SignedBy("rest") /\ Advance
               /\ UNCHANGED <<world, suggested, accepted, rest, soap, denied, results, verdict>>

\* _count_collections(): a refusal stops it, any other failure is noted.
Count ==
    /\ At("counts") /\ left # {}
    /\ IF Asked \in farm.closed /\ farm.deny = "403" THEN Report(accepted, signedIn)
       ELSE /\ left' = left \ {Asked}
            /\ denied' \in {NotReadable(Asked)} \cup IF Asked \in farm.closed THEN {} ELSE {denied}
            /\ Stays
            /\ UNCHANGED <<world, suggested, session, rest, soap, results, verdict>>

EndExplore ==
    /\ At("counts") /\ left = {}
    /\ Ends(IF denied = {<<"root", l>> : l \in Lists} THEN 1 ELSE 0)
    /\ UNCHANGED <<world, suggested, session, findings>>

-----------------------------------------------------------------------------
(* --diagnose: the pull's query, one option at a time.  A rung that got no  *)
(* answer counts as refused.                                                *)

Needs == [bare |-> {"bare"}, select |-> {"select"}, sort |-> {"bare", "sort"},
          filter |-> {"bare", "filter"}, both |-> {"bare", "sort", "filter", "both"},
          full |-> {"bare", "sort", "filter", "both", "size"}]
Rungs == DOMAIN Needs

Finding(ok) ==
    CASE "bare" \in ok /\ "select" \notin ok /\ "filter" \notin ok -> "key"
      [] "bare" \notin ok -> "plain_read"
      [] OTHER -> IF "sort" \notin ok THEN "sort" ELSE IF "filter" \notin ok THEN "filter"
                  ELSE IF "full" \notin ok THEN "combination" ELSE "passes"

Diagnose ==
    /\ At("ladder")
    /\ \E unanswered \in SUBSET Rungs :
          /\ results' = {r \in Rungs \ unanswered : Needs[r] \cap refuses = {}}
          /\ denied' = unanswered
    /\ verdict' = Finding(results')
    /\ Advance
    /\ UNCHANGED <<world, suggested, session, rest, soap, left>>

-----------------------------------------------------------------------------
Next ==
    \/ Fails \/ Moved \/ Reach \/ Authenticate \/ EnumerateWebs
    \/ InventoryOfRoot \/ OtherServices
    \/ ReadRest \/ ReadRow \/ AskSoap \/ Compare
    \/ Declared \/ AccessDenied \/ AskForAccess \/ EndAccess
    \/ EntitySets \/ Count \/ EndExplore
    \/ Diagnose

Spec == Init /\ [][Next]_vars
-----------------------------------------------------------------------------
TypeOK ==
    /\ farm \in Farms /\ mode \in Modes /\ command \in Commands
    /\ probeItems \in BOOLEAN /\ refuses \in Services \cup {{}}
    /\ pc \in 1 .. Len(Steps[command]) /\ exit \in {0, 1, 2, Running}
    /\ suggested \in {"unasked", "none", "anonymous", "ntlm", "integrated", "basic"}
    /\ accepted \in BOOLEAN /\ signedIn \in BOOLEAN
    /\ rest \in {"none", "ok", "denied", "absent", "error"}
    /\ soap \in {"none", "ok", "failed"}
    /\ command # "diagnose" => left \cup denied \subseteq Webs \X (Lists \cup {"lists"})
    /\ results \subseteq Rungs
    /\ verdict \in {"none", "other_mode", "credential", "post", "services", "web",
                    "both_work", "only_posts_fail", "no_rest", "not_the_method", "inconclusive",
                    "complete", "incomplete", "key", "plain_read", "sort", "filter",
                    "combination", "passes"}

(***************************************************************************)
(* credential_accepted is proof: but with Basic, whose header goes out      *)
(* unasked, it is set only in a session whose credential the server has     *)
(* taken (transport.py:1080-1103, 1450-1454).                               *)
(***************************************************************************)
AcceptedIsTrue == accepted /\ mode # "basic" => Signs

\* Types, and a session that knows of itself only what is so.
Consistent == TypeOK /\ AcceptedIsTrue

(***************************************************************************)
(* What the differential check concludes is so, wherever its two GETs tell  *)
(* the causes apart (transport.py:1516-1606, cli.py:267-302):               *)
(*   "only the POST fails": unless the mode is Basic, the credential is     *)
(*     right, and so is the access of the account to what a GET had to sign *)
(*     in for;                                                              *)
(*   "reaches the site but not _vti_bin": so it is, unless anybody reaches  *)
(*     the site;                                                            *)
(*   "cannot read this web": the credential is wrong or the account no      *)
(*     member, if the session speaks the scheme the server asks for;        *)
(*   "nothing has authenticated, read this as the credential": the ladder   *)
(*     had its chance at a page that challenges, and the credential signs   *)
(*     in nowhere - unless a connection was signed in already, by a request *)
(*     whose last hop went out bare.                                        *)
(***************************************************************************)
OpenSite == farm.root \in {"open", "moved", "login"}
ConclusionsHold ==
    /\ verdict = "post" /\ mode # "basic" =>
          /\ Signs
          /\ OpenSite \/ farm.member
          /\ farm.openBin \/ farm.services
    /\ verdict = "services" => OpenSite \/ (Signs /\ farm.member /\ ~farm.services)
    /\ verdict = "web" /\ suggested = mode => ~farm.right \/ ~farm.member
    /\ verdict = "credential" /\ command \in {"probe", "permissions"} /\ Eligible /\ ~signedIn =>
          ~Signs

(***************************************************************************)
(* probe ends well only where the account can make the calls a crawl is     *)
(* made of, and permissions likewise (cli.py:311-478, 881-1024).            *)
(***************************************************************************)
ProbeProves ==
    exit = 0 /\ command \in {"probe", "permissions"} =>
        /\ Works /\ farm.posts # "fail"
        /\ command = "probe" => <<"root", "lists">> \notin farm.closed

(***************************************************************************)
(* What probe-rest concludes from a GET and a POST is so (cli.py:675-878):  *)
(* REST is not called absent where it would serve the account its           *)
(* collections, both being refused is not the POSTs' doing, and if only the *)
(* POST fails the account is not to blame unless anybody may read there.    *)
(***************************************************************************)
ComparisonHolds ==
    command = "probe-rest" =>
        /\ rest = "absent" => farm.rest # "collections" \/ ~(farm.openBin \/ Works)
        /\ verdict = "not_the_method" => ~Works
        /\ verdict = "only_posts_fail" =>
              farm.rest = "collections" /\ (farm.openBin \/ Works)
        /\ verdict = "both_work" => farm.rest = "collections" /\ Works

(***************************************************************************)
(* If every rung was answered, the option --diagnose names is one the       *)
(* service refuses, and it names none only if none is refused               *)
(* (pull_tickets_and_comments.py:360-392).                                  *)
(***************************************************************************)
DiagnosisFits ==
    command = "diagnose" /\ exit = 0 /\ denied = {} =>
        CASE verdict = "key" -> {"select", "filter"} \subseteq refuses
          [] verdict = "plain_read" -> "bare" \in refuses
          [] verdict \in {"sort", "filter"} -> verdict \in refuses /\ "bare" \notin refuses
          [] verdict = "combination" -> {"both", "size"} \cap refuses # {}
          [] OTHER -> refuses \subseteq {"select"}

(* What either comparison concludes holds, of methods and of queries.       *)
ComparisonsHold == ComparisonHolds /\ DiagnosisFits

(***************************************************************************)
(* "Everything discovered is readable by this credential" is said only if   *)
(* every web lists its lists and every list gives up a row; with            *)
(* --no-probe-items the lists are not read, and the sentence is about the   *)
(* webs alone (permissions.py:107-175, cli.py:1008-1016).                   *)
(***************************************************************************)
CompleteIsReadable ==
    verdict = "complete" =>
        \A x \in farm.closed : ~probeItems /\ x[2] # "lists"
=============================================================================
