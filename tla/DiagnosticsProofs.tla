-------------------------- MODULE DiagnosticsProofs --------------------------
(***************************************************************************)
(* For every set of farms, modes, lists and services: what the diagnosing   *)
(* commands conclude is so.                                                 *)
(***************************************************************************)
EXTENDS Diagnostics, TLAPS

(* Nothing in the session is signed in that cannot be, and a verdict is the *)
(* last thing a command comes to.                                           *)
SessionInv ==
    /\ AcceptedIsTrue
    /\ signedIn => Signs /\ mode \in NtlmModes
    /\ suggested \in {"unasked", Suggestion}
    /\ verdict # "none" => exit # Running

(* What probe and permissions know from having got as far as they have: a   *)
(* POST that was answered, or primed, has signed in.                        *)
ProgressInv ==
    command \in {"probe", "permissions"} =>
        /\ pc > 3 => Works /\ farm.posts # "fail"
        /\ pc > 3 /\ mode \in NtlmModes => signedIn
        /\ command = "probe" /\ pc > 4 => <<"root", "lists">> \notin farm.closed
        /\ exit = 0 => pc = 5

(* The two measurements of probe-rest mean what they say.                   *)
RestInv ==
    /\ rest = "absent" => farm.rest # "collections" \/ ~(farm.openBin \/ Works)
    /\ rest = "ok" => farm.rest = "collections" /\ (farm.openBin \/ Works)
    /\ rest = "denied" => ~Works
    /\ soap = "ok" => Works

(* What is closed to the account is denied, still to be asked, or in a web  *)
(* whose inventory is still to be asked.                                    *)
AccessInv ==
    command = "permissions" /\ pc > 3 /\ exit = Running =>
        \A x \in farm.closed : probeItems \/ x[2] = "lists" =>
            denied # {} \/ x \in left \/ <<x[1], "lists">> \in left

IInv ==
    /\ TypeOK /\ SessionInv /\ ProgressInv /\ RestInv /\ AccessInv
    /\ ConclusionsHold /\ ComparisonsHold /\ CompleteIsReadable

-----------------------------------------------------------------------------
(* Which command is at which step.                                          *)
LEMMA Where ==
  ASSUME TypeOK
  PROVE  /\ At("reach") => command \in {"probe", "probe-rest", "permissions"} /\ pc = 1
         /\ At("authenticate") => command \in {"probe", "permissions"} /\ pc = 2
         /\ At("webs") => command \in {"probe", "permissions"} /\ pc = 3
         /\ At("lists") => command = "probe" /\ pc = 4
         /\ At("listdata") => command = "probe" /\ pc = 5
         /\ At("rest") => command = "probe-rest" /\ pc = 2
         /\ At("row") => command = "probe-rest" /\ pc = 3
         /\ At("soap") => command = "probe-rest" /\ pc = 4
         /\ At("verdict") => command = "probe-rest" /\ pc = 5
         /\ At("declared") => command = "permissions" /\ pc = 4
         /\ At("access") => command = "permissions" /\ pc = 5
         /\ At("sets") => command = "explore" /\ pc = 1
         /\ At("counts") => command = "explore" /\ pc = 2
         /\ At("ladder") => command = "diagnose" /\ pc = 1
         /\ Len(Steps[command]) = CASE command = "explore" -> 2 [] command = "diagnose" -> 1 [] OTHER -> 5
         /\ pc \in Nat
<1>1. /\ Steps["probe"] = <<"reach", "authenticate", "webs", "lists", "listdata">>
      /\ Steps["probe-rest"] = <<"reach", "rest", "row", "soap", "verdict">>
      /\ Steps["permissions"] = <<"reach", "authenticate", "webs", "declared", "access">>
      /\ Steps["explore"] = <<"sets", "counts">>
      /\ Steps["diagnose"] = <<"ladder">>
  BY DEF Steps, Commands
<1>2. CASE command = "probe"
  <2>1. Len(Steps[command]) = 5 /\ pc \in 1 .. 5
    BY <1>1, <1>2 DEF TypeOK
  <2>2. \/ (pc = 1 /\ Steps[command][pc] = "reach")
        \/ (pc = 2 /\ Steps[command][pc] = "authenticate")
        \/ (pc = 3 /\ Steps[command][pc] = "webs")
        \/ (pc = 4 /\ Steps[command][pc] = "lists")
        \/ (pc = 5 /\ Steps[command][pc] = "listdata")
    BY <1>1, <1>2, <2>1
  <2> QED
    BY <1>2, <2>1, <2>2 DEF At
<1>3. CASE command = "probe-rest"
  <2>1. Len(Steps[command]) = 5 /\ pc \in 1 .. 5
    BY <1>1, <1>3 DEF TypeOK
  <2>2. \/ (pc = 1 /\ Steps[command][pc] = "reach")
        \/ (pc = 2 /\ Steps[command][pc] = "rest")
        \/ (pc = 3 /\ Steps[command][pc] = "row")
        \/ (pc = 4 /\ Steps[command][pc] = "soap")
        \/ (pc = 5 /\ Steps[command][pc] = "verdict")
    BY <1>1, <1>3, <2>1
  <2> QED
    BY <1>3, <2>1, <2>2 DEF At
<1>4. CASE command = "permissions"
  <2>1. Len(Steps[command]) = 5 /\ pc \in 1 .. 5
    BY <1>1, <1>4 DEF TypeOK
  <2>2. \/ (pc = 1 /\ Steps[command][pc] = "reach")
        \/ (pc = 2 /\ Steps[command][pc] = "authenticate")
        \/ (pc = 3 /\ Steps[command][pc] = "webs")
        \/ (pc = 4 /\ Steps[command][pc] = "declared")
        \/ (pc = 5 /\ Steps[command][pc] = "access")
    BY <1>1, <1>4, <2>1
  <2> QED
    BY <1>4, <2>1, <2>2 DEF At
<1>5. CASE command = "explore"
  <2>1. Len(Steps[command]) = 2 /\ pc \in 1 .. 2
    BY <1>1, <1>5 DEF TypeOK
  <2>2. \/ (pc = 1 /\ Steps[command][pc] = "sets")
        \/ (pc = 2 /\ Steps[command][pc] = "counts")
    BY <1>1, <1>5, <2>1
  <2> QED
    BY <1>5, <2>1, <2>2 DEF At
<1>6. CASE command = "diagnose"
  <2>1. Len(Steps[command]) = 1 /\ pc \in 1 .. 1
    BY <1>1, <1>6 DEF TypeOK
  <2>2. (pc = 1 /\ Steps[command][pc] = "ladder")
    BY <1>1, <1>6, <2>1
  <2> QED
    BY <1>6, <2>1, <2>2 DEF At
<1> QED
  BY <1>2, <1>3, <1>4, <1>5, <1>6 DEF TypeOK, Commands

(* What is true of a farm.                                                  *)
LEMMA FarmIs ==
  ASSUME TypeOK
  PROVE  /\ farm.member \in BOOLEAN /\ farm.services \in BOOLEAN /\ farm.right \in BOOLEAN
         /\ farm.root \in {"open", "closed", "moved", "forms", "login"}
         /\ farm.openBin \in BOOLEAN /\ farm.offers \in {"ntlm", "basic", "other"}
         /\ farm.rest \in {"collections", "other", "missing"}
         /\ farm.refusal \in {"401", "page"} /\ farm.posts \in {"work", "primed", "fail"}
         /\ farm.closed \subseteq Webs \X (Lists \cup {"lists"})
         /\ mode \in {"ntlm", "integrated", "basic", "anonymous"}
  BY DiagnosticsAssumption DEF TypeOK

(* What anybody is answered.                                                *)
LEMMA AnybodyIs ==
  ASSUME TypeOK
  PROVE  /\ Anybody("root") = IF farm.root = "forms" THEN "page"
                              ELSE IF OpenSite THEN "served" ELSE "challenge"
         /\ Anybody("home") = IF farm.root = "forms" THEN "page"
                              ELSE IF farm.root \in {"open", "login"} THEN "served" ELSE "challenge"
         /\ Anybody("bin") = IF farm.openBin THEN "served" ELSE "challenge"
         /\ Anybody("rest") = IF farm.openBin THEN "served" ELSE "challenge"
         /\ Anybody("page") = "challenge"
  BY FarmIs DEF Anybody, OpenSite

(* What a GET that is served says of the farm.                              *)
LEMMA Replies ==
  ASSUME TypeOK, NEW place \in {"root", "home", "bin", "rest", "page"}, NEW signed \in BOOLEAN,
         NEW r \in GetReplies(place, signed)
  PROVE  /\ r.reply \in {"served", "401", "page"} /\ r.header \in BOOLEAN
         /\ r.reply = "served" => Anybody(place) = "served" \/ (~Open(place) /\ Signs /\ Admits(place))
         /\ r.reply # "served" =>
               \/ Anybody(place) = "page" \/ ~farm.right
               \/ ~Open(place) /\ ~(Signs /\ Admits(place))
         /\ r.reply = "page" /\ Open(place) => Anybody(place) = "page"
         /\ r.header /\ r.reply # "401" /\ mode # "basic" => Signs
<1>1. CASE Open(place)
  <2>1. Anybody(place) \in {"served", "page"}
    BY <1>1, AnybodyIs DEF Open
  <2>2. \/ r = [reply |-> Anybody(place), header |-> mode = "basic"]
        \/ r = [reply |-> "401", header |-> TRUE] /\ mode = "basic" /\ ~farm.right
    BY <1>1 DEF GetReplies
  <2>3. CASE r = [reply |-> Anybody(place), header |-> mode = "basic"]
    <3>1. r.reply = Anybody(place) /\ (r.header <=> mode = "basic") /\ r.header \in BOOLEAN
      BY <2>3
    <3> QED
      BY <2>1, <3>1
  <2>4. CASE r = [reply |-> "401", header |-> TRUE] /\ mode = "basic" /\ ~farm.right
    <3>1. r.reply = "401" /\ r.header = TRUE
      BY <2>4
    <3> QED
      BY <2>4, <3>1
  <2> QED
    BY <2>2, <2>3, <2>4
<1>2. CASE ~Open(place) /\ ~Signs
  <2> DEFINE h == mode = "basic" \/ (mode \in NtlmModes /\ farm.offers = "ntlm")
  <2>0. GetReplies(place, signed) = {[reply |-> "401", header |-> h]} /\ h \in BOOLEAN
    BY <1>2 DEF GetReplies
  <2> HIDE DEF h
  <2>1. r.reply = "401" /\ r.header \in BOOLEAN
    BY <2>0
  <2> QED
    BY <1>2, <2>1
<1>3. CASE ~Open(place) /\ Signs
  <2>1. /\ r.reply \in IF Admits(place) THEN {"served"} ELSE {"401", farm.refusal}
        /\ r.header \in {TRUE} \cup IF signed \/ place = "home" THEN {FALSE} ELSE {}
    BY <1>3 DEF GetReplies
  <2>2. r.header \in BOOLEAN
    BY <2>1
  <2>3. farm.refusal \in {"401", "page"}
    BY FarmIs
  <2>4. Admits(place) => r.reply = "served"
    BY <2>1
  <2>5. ~Admits(place) => r.reply \in {"401", "page"}
    BY <2>1, <2>3
  <2> QED
    BY <1>3, <2>2, <2>4, <2>5
<1> QED
  BY <1>1, <1>2, <1>3

(* A request signs in only a session that can sign in.                      *)
LEMMA SigningIn ==
  ASSUME TypeOK, SessionInv
  PROVE  \A place \in {"root", "home", "bin", "rest", "page"} :
            /\ SignedBy(place) \in BOOLEAN
            /\ signedIn => SignedBy(place)
            /\ SignedBy(place) => Signs /\ mode \in NtlmModes
  BY DEF TypeOK, SessionInv, SignedBy

(* What a POST says of the farm, whatever priming it took.                  *)
LEMMA PostSays ==
  ASSUME TypeOK, SessionInv, NEW p \in Posts
  PROVE  /\ p.ok \in BOOLEAN /\ p.accepted \in BOOLEAN
         /\ p.ok => Works /\ farm.posts # "fail"
         /\ accepted => p.accepted
         /\ p.accepted /\ mode # "basic" => Signs
         /\ SignedByPost(p) \in BOOLEAN
         /\ SignedByPost(p) => Signs /\ mode \in NtlmModes
         /\ mode \in NtlmModes /\ (p.ok \/ (Signs /\ Eligible)) => SignedByPost(p)
<1>0. signedIn \in BOOLEAN /\ SignedBy("bin") \in BOOLEAN
  BY SigningIn DEF TypeOK
<1>1. \A e \in GetReplies("bin", signedIn), g \in GetReplies("page", SignedBy("bin")) :
         LET c == Climb(e, g) IN c = Refused \/ (c = Again /\ (mode # "basic" => Signs))
  <2> SUFFICES ASSUME NEW e \in GetReplies("bin", signedIn),
                      NEW g \in GetReplies("page", SignedBy("bin"))
               PROVE  Climb(e, g) = Refused \/ (Climb(e, g) = Again /\ (mode # "basic" => Signs))
    OBVIOUS
  <2>1. e.header /\ e.reply # "401" /\ mode # "basic" => Signs
    BY <1>0, Replies
  <2>2. g.header /\ g.reply # "401" /\ mode # "basic" => Signs
    BY <1>0, Replies
  <2>3. CASE e.reply = "401"
    BY <2>3 DEF Climb
  <2>4. CASE e.reply # "401" /\ AcceptedBy(e)
    <3>1. mode # "basic" => Signs
      BY <2>1, <2>4 DEF AcceptedBy, SessionInv, AcceptedIsTrue
    <3> QED
      BY <2>4, <3>1 DEF Climb
  <2>5. CASE e.reply # "401" /\ ~AcceptedBy(e)
    <3>1. Climb(e, g) = IF g.reply # "401" /\ g.header THEN Again ELSE Refused
      BY <2>5 DEF Climb
    <3> QED
      BY <2>2, <3>1
  <2> QED
    BY <2>3, <2>4, <2>5
<1>2. Refused.ok = FALSE /\ Refused.accepted = accepted
  BY DEF Refused
<1>3. Again.ok = (Works /\ farm.posts = "primed") /\ Again.accepted = TRUE
  BY DEF Again
<1>4. \/ p = Refused
      \/ p = Again /\ (mode # "basic" => Signs)
      \/ p = [ok |-> TRUE, accepted |-> accepted] /\ Works /\ farm.posts = "work"
  <2>1. CASE Works /\ farm.posts = "work"
    BY <2>1 DEF Posts
  <2>2. CASE ~(Works /\ farm.posts = "work") /\ Eligible
    <3>1. PICK e \in GetReplies("bin", signedIn), g \in GetReplies("page", SignedBy("bin")) :
             p = Climb(e, g)
      BY <2>2 DEF Posts
    <3> QED
      BY <1>1, <3>1
  <2>3. CASE ~(Works /\ farm.posts = "work") /\ ~Eligible
    BY <2>3 DEF Posts
  <2> QED
    BY <2>1, <2>2, <2>3
<1>5. accepted \in BOOLEAN /\ (accepted /\ mode # "basic" => Signs)
  BY DEF TypeOK, SessionInv, AcceptedIsTrue
<1>6. /\ p.ok \in BOOLEAN /\ p.accepted \in BOOLEAN
      /\ p.ok => Works /\ farm.posts # "fail"
      /\ accepted => p.accepted
      /\ p.accepted /\ mode # "basic" => Signs
  <2>1. CASE p = Refused
    BY <1>2, <1>5, <2>1
  <2>2. CASE p = Again /\ (mode # "basic" => Signs)
    <3>1. Works \in BOOLEAN
      BY FarmIs DEF Works, Signs
    <3> QED
      BY <1>3, <1>5, <2>2, <3>1
  <2>3. CASE p = [ok |-> TRUE, accepted |-> accepted] /\ Works /\ farm.posts = "work"
    BY <1>5, <2>3
  <2> QED
    BY <1>4, <2>1, <2>2, <2>3
<1>7. p.ok => Signs
  BY <1>6 DEF Works
<1> QED
  BY <1>0, <1>6, <1>7 DEF SignedByPost, SessionInv

-----------------------------------------------------------------------------
LEMMA InitIInv == Init => IInv
<1> SUFFICES ASSUME Init PROVE IInv
  OBVIOUS
<1>1. farm \in Farms /\ mode \in Modes
  BY DiagnosticsAssumption DEF Init
<1>2. pc = 1 /\ exit = Running /\ pc \in 1 .. Len(Steps[command])
  BY DEF Init, Steps, Commands
<1>3. TypeOK
  BY <1>1, <1>2 DEF Init, TypeOK, Running, Rungs
<1> QED
  BY <1>2, <1>3 DEF Init, IInv, SessionInv, ProgressInv, RestInv, AccessInv, ConclusionsHold,
     AcceptedIsTrue, ComparisonsHold, ComparisonHolds, DiagnosisFits, CompleteIsReadable, Running

-----------------------------------------------------------------------------
(* The world stays as it is.                                                *)
LEMMA SameWorld ==
  ASSUME UNCHANGED world
  PROVE  /\ farm' = farm /\ mode' = mode /\ command' = command
         /\ probeItems' = probeItems /\ refuses' = refuses
         /\ (Signs' <=> Signs) /\ (Works' <=> Works) /\ Suggestion' = Suggestion
         /\ (Eligible' <=> Eligible) /\ (OpenSite' <=> OpenSite)
<1>1. /\ farm' = farm /\ mode' = mode /\ command' = command
      /\ probeItems' = probeItems /\ refuses' = refuses
  BY DEF world
<1> QED
  BY <1>1 DEF Signs, Works, Suggestion, Eligible, OpenSite

LEMMA AdvanceSays ==
  ASSUME TypeOK, Advance, UNCHANGED command
  PROVE  /\ pc' \in 1 .. Len(Steps[command])
         /\ \/ pc' = pc + 1 /\ exit' = exit /\ pc < Len(Steps[command])
            \/ pc' = pc /\ exit' = 0 /\ pc = Len(Steps[command])
         /\ pc \in Nat /\ Len(Steps[command]) \in Nat
<1>1. pc \in Nat /\ pc \in 1 .. Len(Steps[command])
  BY Where DEF TypeOK
<1>2. Len(Steps[command]) \in Nat
  BY Where
<1> QED
  BY <1>1, <1>2 DEF Advance

(* Without a verdict nothing is claimed but what was measured.              *)
LEMMA NoVerdict ==
  ASSUME IInv, exit = Running, command # "diagnose", UNCHANGED <<farm, command, verdict>>, RestInv'
  PROVE  ConclusionsHold' /\ ComparisonsHold' /\ CompleteIsReadable'
<1>1. verdict' = "none"
  BY DEF IInv, SessionInv
<1> QED
  BY <1>1 DEF ConclusionsHold, ComparisonsHold, ComparisonHolds, DiagnosisFits, CompleteIsReadable, RestInv

(* A command ends without a conclusion.                                     *)
LEMMA EndsIInv ==
  ASSUME IInv, exit = Running, command # "diagnose",
         NEW code \in {0, 1, 2}, code = 0 => command = "explore", Ends(code),
         UNCHANGED <<world, suggested, session, findings>>
  PROVE  IInv'
<1> USE DEF IInv
<1>1. /\ farm' = farm /\ mode' = mode /\ command' = command
      /\ probeItems' = probeItems /\ refuses' = refuses
      /\ (Signs' <=> Signs) /\ (Works' <=> Works) /\ Suggestion' = Suggestion
      /\ (Eligible' <=> Eligible) /\ (OpenSite' <=> OpenSite)
  BY SameWorld
<1>2. UNCHANGED <<suggested, accepted, signedIn, rest, soap, left, denied, results, verdict, pc>>
      /\ exit' = code /\ code # Running
  BY DEF session, findings, Ends, Running
<1>3. TypeOK'
  BY <1>1, <1>2 DEF TypeOK
<1>4. SessionInv'
  BY <1>1, <1>2 DEF SessionInv, AcceptedIsTrue
<1>5. ProgressInv'
  BY <1>1, <1>2 DEF ProgressInv
<1>6. RestInv' /\ AccessInv'
  BY <1>1, <1>2 DEF RestInv, AccessInv
<1> QED
  BY <1>1, <1>2, <1>3, <1>4, <1>5, <1>6, NoVerdict

(* A request is answered as it should be, and nothing is learnt from it but *)
(* that the inventory of the first web can be read.                         *)
LEMMA PassIInv ==
  ASSUME IInv, exit = Running, Advance, UNCHANGED <<world, suggested, session, findings>>,
         \/ command = "probe-rest" /\ pc < 5
         \/ command = "probe" /\ pc = 4 /\ <<"root", "lists">> \notin farm.closed
         \/ command = "probe" /\ pc = 5
         \/ command = "permissions" /\ pc = 4
  PROVE  IInv'
<1> USE DEF IInv
<1>1. /\ farm' = farm /\ mode' = mode /\ command' = command
      /\ probeItems' = probeItems /\ refuses' = refuses
      /\ (Signs' <=> Signs) /\ (Works' <=> Works) /\ Suggestion' = Suggestion
      /\ (Eligible' <=> Eligible) /\ (OpenSite' <=> OpenSite)
  BY SameWorld
<1>2. UNCHANGED <<suggested, accepted, signedIn, rest, soap, left, denied, results, verdict>>
  BY DEF session, findings
<1>3. /\ pc' \in 1 .. Len(Steps[command]) /\ pc \in Nat
      /\ \/ pc' = pc + 1 /\ exit' = exit /\ pc < 5
         \/ pc' = pc /\ exit' = 0 /\ pc = 5
  <2>1. Len(Steps[command]) = 5
    BY Where
  <2> QED
    BY <1>1, <2>1, AdvanceSays
<1>4. TypeOK'
  BY <1>1, <1>2, <1>3 DEF TypeOK
<1>5. SessionInv'
  BY <1>1, <1>2, <1>3 DEF SessionInv, AcceptedIsTrue, Running
<1>6. ProgressInv'
  BY <1>1, <1>2, <1>3 DEF ProgressInv, Running
<1>7. RestInv' /\ AccessInv'
  BY <1>1, <1>2, <1>3 DEF RestInv, AccessInv
<1> QED
  BY <1>1, <1>2, <1>4, <1>5, <1>6, <1>7, NoVerdict

(* The differential check: what its two GETs say of the cause.              *)
LEMMA DifferentialSays ==
  ASSUME IInv, NEW acc \in BOOLEAN, acc /\ mode # "basic" => Signs, accepted => acc,
         NEW signed \in BOOLEAN, signed => Signs /\ mode \in NtlmModes, Differential(acc, signed)
  PROVE  /\ accepted' \in BOOLEAN /\ (accepted' /\ mode # "basic" => Signs)
         /\ signedIn' \in BOOLEAN /\ (signedIn' => Signs /\ mode \in NtlmModes) /\ (signed => signedIn')
         /\ verdict' \in {"credential", "post", "services", "web"}
         /\ verdict' = "post" /\ mode # "basic" =>
               /\ Signs
               /\ OpenSite \/ farm.member
               /\ farm.openBin \/ farm.services
         /\ verdict' = "services" => OpenSite \/ (Signs /\ farm.member /\ ~farm.services)
         /\ verdict' = "web" /\ suggested = mode => ~farm.right \/ ~farm.member
         /\ verdict' = "credential" => farm.root # "forms"
<1> USE DEF IInv
<1>1. PICK root \in GetReplies("root", signed), endpoint \in GetReplies("bin", signed) :
         /\ accepted' = (acc \/ AcceptedBy(root) \/ AcceptedBy(endpoint))
         /\ verdict' = Conclusion(root, endpoint, accepted')
  BY DEF Differential
<1>2. /\ root.reply = "served" => OpenSite \/ (Signs /\ farm.member)
      /\ root.reply = "served" => farm.root # "forms"
      /\ root.reply # "served" =>
            farm.root = "forms" \/ ~farm.right \/ (~OpenSite /\ ~(Signs /\ farm.member))
      /\ root.header /\ root.reply # "401" /\ mode # "basic" => Signs
  BY Replies, AnybodyIs, FarmIs DEF Open, OpenSite, Admits
<1>3. /\ endpoint.reply = "served" => farm.openBin \/ (Signs /\ farm.services)
      /\ endpoint.reply # "served" => ~farm.right \/ (~farm.openBin /\ ~(Signs /\ farm.services))
      /\ endpoint.header /\ endpoint.reply # "401" /\ mode # "basic" => Signs
  BY Replies, AnybodyIs, FarmIs DEF Open, Admits
<1>4. accepted' \in BOOLEAN /\ (accepted' /\ mode # "basic" => Signs)
  BY <1>1, <1>2, <1>3 DEF AcceptedBy
<1>5. signedIn' \in BOOLEAN /\ (signedIn' => Signs /\ mode \in NtlmModes) /\ (signed => signedIn')
  <2>1. signedIn' = (signed \/ SignedBy("root") \/ SignedBy("bin"))
    BY DEF Differential
  <2> QED
    BY <2>1, SigningIn
<1>6. CASE Reached(root) /\ Reached(endpoint) /\ ~accepted'
  <2>1. verdict' = "credential"
    BY <1>1, <1>6 DEF Conclusion
  <2> QED
    BY <1>2, <1>4, <1>5, <1>6, <2>1 DEF Reached
<1>7. CASE Reached(root) /\ Reached(endpoint) /\ accepted'
  <2>1. verdict' = "post"
    BY <1>1, <1>7 DEF Conclusion
  <2> QED
    BY <1>2, <1>3, <1>4, <1>5, <1>7, <2>1 DEF Reached
<1>8. CASE Reached(root) /\ ~Reached(endpoint)
  <2>1. verdict' = "services"
    BY <1>1, <1>8 DEF Conclusion
  <2>2. Signs => farm.right
    BY DEF Signs
  <2> QED
    BY <1>2, <1>3, <1>4, <1>5, <1>8, <2>1, <2>2 DEF Reached
<1>9. CASE ~Reached(root)
  <2>1. verdict' = "web"
    BY <1>1, <1>9 DEF Conclusion
  <2>2. suggested = mode => ~farm.right \/ ~farm.member
    <3> SUFFICES ASSUME suggested = mode, farm.right, farm.member PROVE FALSE
      OBVIOUS
    <3>1. farm.root = "forms" \/ (~OpenSite /\ ~Signs)
      BY <1>2, <1>9 DEF Reached
    <3>2. suggested = Suggestion
      BY FarmIs DEF SessionInv
    <3>3. farm.root \notin {"open", "forms", "moved", "login"}
      BY <3>1, <3>2, FarmIs DEF Suggestion, OpenSite
    <3>4. farm.root = "closed"
      BY <3>3, FarmIs
    <3>5. \/ farm.offers = "ntlm" /\ mode \in NtlmModes
          \/ farm.offers = "basic" /\ mode = "basic"
      BY <3>2, <3>4, FarmIs DEF Suggestion, NtlmModes
    <3> QED
      BY <3>1, <3>4, <3>5 DEF Signs, OpenSite
  <2> QED
    BY <1>4, <1>5, <2>1, <2>2
<1> QED
  BY <1>6, <1>7, <1>8, <1>9

LEMMA ReportIInv ==
  ASSUME IInv, NEW acc \in BOOLEAN, acc /\ mode # "basic" => Signs, accepted => acc,
         NEW signed \in BOOLEAN, signed => Signs /\ mode \in NtlmModes, signedIn => signed,
         exit = Running, command # "diagnose", Report(acc, signed),
         command \in {"probe", "permissions"} /\ Signs /\ Eligible =>
            signed \/ farm.root = "forms"
  PROVE  IInv'
<1> USE DEF IInv
<1>1. /\ farm' = farm /\ mode' = mode /\ command' = command
      /\ probeItems' = probeItems /\ refuses' = refuses
      /\ (Signs' <=> Signs) /\ (Works' <=> Works) /\ Suggestion' = Suggestion
      /\ (Eligible' <=> Eligible) /\ (OpenSite' <=> OpenSite)
  BY SameWorld DEF Report
<1>2. UNCHANGED <<suggested, rest, soap, left, denied, results, pc>> /\ exit' = 2
  BY DEF Report, Ends
<1>3. /\ accepted' \in BOOLEAN /\ (accepted' /\ mode # "basic" => Signs)
      /\ signedIn' \in BOOLEAN /\ (signedIn' => Signs /\ mode \in NtlmModes) /\ (signed => signedIn')
      /\ verdict' \in {"other_mode", "credential", "post", "services", "web"}
      /\ verdict' = "post" /\ mode # "basic" =>
            /\ Signs
            /\ OpenSite \/ farm.member
            /\ farm.openBin \/ farm.services
      /\ verdict' = "services" => OpenSite \/ (Signs /\ farm.member /\ ~farm.services)
      /\ verdict' = "web" /\ suggested = mode => ~farm.right \/ ~farm.member
      /\ verdict' = "credential" => farm.root # "forms"
  <2>1. CASE suggested \in {"unasked", "none", mode}
    <3>1. Differential(acc, signed)
      BY <2>1 DEF Report
    <3> QED
      BY <3>1, DifferentialSays
  <2>2. CASE suggested \notin {"unasked", "none", mode}
    <3>1. verdict' = "other_mode" /\ accepted' = acc /\ signedIn' = signed
      BY <2>2 DEF Report
    <3> QED
      BY <3>1
  <2> QED
    BY <2>1, <2>2
<1>4. verdict' = "credential" /\ command \in {"probe", "permissions"} /\ Eligible /\ ~signedIn' => ~Signs
  BY <1>3
<1>5. TypeOK'
  BY <1>1, <1>2, <1>3 DEF TypeOK
<1>6. SessionInv'
  BY <1>1, <1>2, <1>3 DEF SessionInv, AcceptedIsTrue, Running
<1>7. ProgressInv'
  BY <1>1, <1>2, <1>3 DEF ProgressInv, Running
<1>8. RestInv' /\ AccessInv'
  BY <1>1, <1>2 DEF RestInv, AccessInv, Running
<1>9. ConclusionsHold'
  BY <1>1, <1>2, <1>3, <1>4 DEF ConclusionsHold
<1>10. ComparisonsHold' /\ CompleteIsReadable'
  BY <1>1, <1>2, <1>3 DEF ComparisonsHold, ComparisonHolds, DiagnosisFits, CompleteIsReadable, RestInv
<1> QED
  BY <1>5, <1>6, <1>7, <1>8, <1>9, <1>10

(* Past the POSTs, and in the commands that make none, a report needs       *)
(* nothing of the session but what it is.                                   *)
LEMMA LateReport ==
  ASSUME IInv, exit = Running, command # "diagnose",
         command \in {"probe", "permissions"} => pc > 3,
         NEW signed \in {signedIn, SignedBy("rest")}, Report(accepted, signed)
  PROVE  IInv'
<1> USE DEF IInv
<1>1. accepted \in BOOLEAN /\ (accepted /\ mode # "basic" => Signs)
  BY DEF TypeOK, SessionInv, AcceptedIsTrue
<1>2. /\ signed \in BOOLEAN /\ (signed => Signs /\ mode \in NtlmModes) /\ (signedIn => signed)
  <2>1. signedIn \in BOOLEAN /\ (signedIn => Signs /\ mode \in NtlmModes)
    BY DEF TypeOK, SessionInv
  <2> QED
    BY <2>1, SigningIn
<1>3. command \in {"probe", "permissions"} /\ Signs /\ Eligible => signed
  BY <1>2 DEF ProgressInv, Eligible
<1> QED
  BY <1>1, <1>2, <1>3, ReportIInv

-----------------------------------------------------------------------------
LEMMA EndingIInv == IInv /\ (Fails \/ Moved \/ EndExplore) => IInv'
<1> SUFFICES ASSUME IInv, Fails \/ Moved \/ EndExplore PROVE IInv'
  OBVIOUS
<1> USE DEF IInv
<1>1. CASE Fails
  <2>1. exit = Running /\ command # "diagnose" /\ Ends(1) /\ UNCHANGED <<world, suggested, session, findings>>
    BY <1>1 DEF Fails
  <2> QED
    BY <2>1, EndsIInv
<1>2. CASE Moved
  <2>0. PICK step \in {"reach", "webs", "lists"} : At(step)
    BY <1>2 DEF Moved
  <2>1. /\ exit = Running /\ command # "diagnose" /\ Ends(2)
        /\ UNCHANGED <<world, suggested, session, findings>>
    BY <1>2, <2>0, Where DEF Moved, At
  <2> QED
    BY <2>1, EndsIInv
<1>3. CASE EndExplore
  <2>1. /\ exit = Running /\ command = "explore"
        /\ Ends(IF denied = {<<"root", l>> : l \in Lists} THEN 1 ELSE 0)
        /\ UNCHANGED <<world, suggested, session, findings>>
    BY <1>3, Where DEF EndExplore, At
  <2>2. (IF denied = {<<"root", l>> : l \in Lists} THEN 1 ELSE 0) \in {0, 1, 2}
    OBVIOUS
  <2>3. command # "diagnose"
    BY <2>1
  <2> QED
    BY <2>1, <2>2, <2>3, EndsIInv
<1> QED
  BY <1>1, <1>2, <1>3

(* The challenge names a scheme; nothing is signed in by asking for it.     *)
LEMMA ReachIInv == IInv /\ Reach => IInv'
<1> SUFFICES ASSUME IInv, Reach PROVE IInv'
  OBVIOUS
<1> USE DEF IInv
<1>1. /\ farm' = farm /\ mode' = mode /\ command' = command
      /\ probeItems' = probeItems /\ refuses' = refuses
      /\ (Signs' <=> Signs) /\ (Works' <=> Works) /\ Suggestion' = Suggestion
      /\ (Eligible' <=> Eligible) /\ (OpenSite' <=> OpenSite)
  BY SameWorld DEF Reach
<1>2. /\ UNCHANGED <<accepted, signedIn, rest, soap, left, denied, results, verdict>>
      /\ suggested' = Suggestion
      /\ command \in {"probe", "probe-rest", "permissions"} /\ pc = 1 /\ exit = Running
  BY Where DEF Reach, session, findings, At
<1>3. pc' \in 1 .. Len(Steps[command]) /\ pc' = 2 /\ exit' = exit
  <2>1. Len(Steps[command]) = 5
    BY <1>2, Where
  <2> QED
    BY <1>1, <1>2, <2>1, AdvanceSays DEF Reach
<1>4. TypeOK'
  <2>1. suggested' \in {"unasked", "none", "anonymous", "ntlm", "integrated", "basic"}
    BY <1>2, FarmIs DEF Suggestion
  <2> QED
    BY <1>1, <1>2, <1>3, <2>1 DEF TypeOK
<1>5. SessionInv'
  BY <1>1, <1>2, <1>3 DEF SessionInv, AcceptedIsTrue
<1>6. ProgressInv'
  BY <1>1, <1>2, <1>3 DEF ProgressInv, Running
<1>7. RestInv' /\ AccessInv'
  BY <1>1, <1>2, <1>3 DEF RestInv, AccessInv
<1> QED
  BY <1>1, <1>2, <1>4, <1>5, <1>6, <1>7, NoVerdict

(* The first request that may sign in.  If it is refused, the session is    *)
(* signed in where it can be, or was sent to a sign-in page.                *)
LEMMA AuthenticateIInv == IInv /\ Authenticate => IInv'
<1> SUFFICES ASSUME IInv, Authenticate PROVE IInv'
  OBVIOUS
<1> USE DEF IInv
<1>1. /\ command \in {"probe", "permissions"} /\ pc = 2 /\ exit = Running
      /\ accepted \in BOOLEAN /\ signedIn \in BOOLEAN
  BY Where DEF Authenticate, At, TypeOK
<1>2. PICK r \in GetReplies("home", signedIn) :
         IF r.reply = "401" \/ (r.reply = "page" /\ command = "probe")
         THEN Report(AcceptedBy(r), SignedBy("home"))
         ELSE /\ accepted' = AcceptedBy(r)
              /\ signedIn' = SignedBy("home")
              /\ Advance
              /\ UNCHANGED <<world, suggested, findings>>
  BY DEF Authenticate
<1>3. /\ r.header \in BOOLEAN
      /\ r.header /\ r.reply # "401" /\ mode # "basic" => Signs
      /\ r.reply # "served" => farm.root = "forms" \/ ~farm.right \/ ~Open("home")
  BY <1>1, Replies, AnybodyIs DEF Open
<1>4. /\ AcceptedBy(r) \in BOOLEAN
      /\ AcceptedBy(r) /\ mode # "basic" => Signs
      /\ accepted => AcceptedBy(r)
  BY <1>1, <1>3 DEF AcceptedBy, SessionInv, AcceptedIsTrue
<1>5. /\ SignedBy("home") \in BOOLEAN
      /\ signedIn => SignedBy("home")
      /\ SignedBy("home") => Signs /\ mode \in NtlmModes
  BY SigningIn
<1>6. CASE r.reply # "served" /\ Report(AcceptedBy(r), SignedBy("home"))
  <2>1. Signs /\ Eligible => SignedBy("home") \/ farm.root = "forms"
    BY <1>3, <1>6 DEF SignedBy, Signs, Eligible
  <2> QED
    BY <1>1, <1>4, <1>5, <1>6, <2>1, ReportIInv
<1>7. CASE /\ accepted' = AcceptedBy(r)
           /\ signedIn' = SignedBy("home")
           /\ Advance
           /\ UNCHANGED <<world, suggested, findings>>
  <2>1. /\ farm' = farm /\ mode' = mode /\ command' = command
        /\ probeItems' = probeItems /\ refuses' = refuses
        /\ (Signs' <=> Signs) /\ (Works' <=> Works) /\ Suggestion' = Suggestion
        /\ (Eligible' <=> Eligible) /\ (OpenSite' <=> OpenSite)
    BY <1>7, SameWorld
  <2>2. UNCHANGED <<suggested, rest, soap, left, denied, results, verdict>>
    BY <1>7 DEF findings
  <2>3. pc' \in 1 .. Len(Steps[command]) /\ pc' = 3 /\ exit' = exit
    <3>1. Len(Steps[command]) = 5
      BY <1>1, Where
    <3> QED
      BY <1>1, <1>7, <2>1, <3>1, AdvanceSays
  <2>4. TypeOK'
    BY <1>4, <1>5, <1>7, <2>1, <2>2, <2>3 DEF TypeOK
  <2>5. SessionInv'
    BY <1>4, <1>5, <1>7, <2>1, <2>2, <2>3 DEF SessionInv, AcceptedIsTrue
  <2>6. ProgressInv'
    BY <1>1, <2>1, <2>2, <2>3 DEF ProgressInv, Running
  <2>7. RestInv' /\ AccessInv'
    BY <1>1, <2>1, <2>2, <2>3 DEF RestInv, AccessInv
  <2> QED
    BY <1>1, <2>1, <2>2, <2>4, <2>5, <2>6, <2>7, NoVerdict
<1> QED
  BY <1>2, <1>6, <1>7

(* A POST that was answered is the proof that the account works.            *)
LEMMA EnumerateWebsIInv == IInv /\ EnumerateWebs => IInv'
<1> SUFFICES ASSUME IInv, EnumerateWebs PROVE IInv'
  OBVIOUS
<1> USE DEF IInv
<1>1. command \in {"probe", "permissions"} /\ pc = 3 /\ exit = Running /\ accepted \in BOOLEAN
  BY Where DEF EnumerateWebs, At, TypeOK
<1>2. PICK p \in Posts :
         IF p.ok
         THEN /\ Posted(p) /\ Advance
              /\ left' = IF command = "permissions" THEN {<<w, "lists">> : w \in Webs} ELSE {}
              /\ UNCHANGED <<world, suggested, rest, soap, denied, results, verdict>>
         ELSE Report(p.accepted, SignedByPost(p))
  BY DEF EnumerateWebs
<1>3. /\ p.ok \in BOOLEAN /\ p.accepted \in BOOLEAN
      /\ p.ok => Works /\ farm.posts # "fail"
      /\ accepted => p.accepted
      /\ p.accepted /\ mode # "basic" => Signs
      /\ SignedByPost(p) \in BOOLEAN
      /\ SignedByPost(p) => Signs /\ mode \in NtlmModes
      /\ mode \in NtlmModes /\ (p.ok \/ (Signs /\ Eligible)) => SignedByPost(p)
      /\ signedIn => SignedByPost(p)
  BY PostSays DEF SignedByPost
<1>4. CASE ~p.ok
  <2>1. Signs /\ Eligible => SignedByPost(p)
    BY <1>3 DEF Eligible
  <2> QED
    BY <1>1, <1>2, <1>3, <1>4, <2>1, ReportIInv
<1>5. CASE p.ok
  <2>1. /\ farm' = farm /\ mode' = mode /\ command' = command
        /\ probeItems' = probeItems /\ refuses' = refuses
        /\ (Signs' <=> Signs) /\ (Works' <=> Works) /\ Suggestion' = Suggestion
        /\ (Eligible' <=> Eligible) /\ (OpenSite' <=> OpenSite)
    BY <1>2, <1>5, SameWorld
  <2>2. /\ UNCHANGED <<suggested, rest, soap, denied, results, verdict>>
        /\ left' = IF command = "permissions" THEN {<<w, "lists">> : w \in Webs} ELSE {}
        /\ accepted' = p.accepted /\ signedIn' = SignedByPost(p)
    BY <1>2, <1>5 DEF Posted
  <2>3. /\ signedIn' \in BOOLEAN /\ (signedIn' => Signs /\ mode \in NtlmModes)
        /\ mode \in NtlmModes => signedIn'
    BY <1>3, <1>5, <2>2
  <2>4. pc' \in 1 .. Len(Steps[command]) /\ pc' = 4 /\ exit' = exit
    <3>1. Len(Steps[command]) = 5
      BY <1>1, Where
    <3> QED
      BY <1>1, <1>2, <1>5, <2>1, <3>1, AdvanceSays
  <2>5. left' \subseteq Webs \X (Lists \cup {"lists"})
    BY <2>2
  <2>6. TypeOK'
    BY <1>3, <2>1, <2>2, <2>3, <2>4, <2>5 DEF TypeOK
  <2>7. SessionInv'
    BY <1>3, <2>1, <2>2, <2>3, <2>4 DEF SessionInv, AcceptedIsTrue
  <2>8. ProgressInv'
    BY <1>1, <1>3, <1>5, <2>1, <2>2, <2>3, <2>4 DEF ProgressInv, Running
  <2>9. RestInv'
    BY <2>1, <2>2 DEF RestInv
  <2>10. AccessInv'
    <3> SUFFICES ASSUME command = "permissions", NEW x \in farm.closed
                 PROVE  <<x[1], "lists">> \in left'
      BY <2>1 DEF AccessInv
    <3>1. x[1] \in Webs
      BY FarmIs
    <3> QED
      BY <2>2, <3>1
  <2> QED
    BY <1>1, <2>1, <2>2, <2>6, <2>7, <2>8, <2>9, <2>10, NoVerdict
<1> QED
  BY <1>4, <1>5

(* The requests that only have to be served.                                *)
LEMMA PassingIInv == IInv /\ (InventoryOfRoot \/ OtherServices \/ ReadRow \/ Declared) => IInv'
<1> SUFFICES ASSUME IInv, InventoryOfRoot \/ OtherServices \/ ReadRow \/ Declared PROVE IInv'
  OBVIOUS
<1> USE DEF IInv
<1>2. CASE InventoryOfRoot
  <2>1. command = "probe" /\ pc = 4 /\ exit = Running
    BY <1>2, Where DEF InventoryOfRoot, At
  <2>2. CASE <<"root", "lists">> \notin farm.closed
    BY <1>2, <2>1, <2>2, PassIInv DEF InventoryOfRoot
  <2>3. CASE Report(accepted, signedIn)
    BY <2>1, <2>3, LateReport
  <2>4. CASE Ends(1) /\ UNCHANGED <<world, suggested, session, findings>>
    BY <2>1, <2>4, EndsIInv
  <2> QED
    BY <1>2, <2>2, <2>3, <2>4 DEF InventoryOfRoot
<1>3. CASE OtherServices
  <2>1. command = "probe" /\ pc = 5 /\ exit = Running
    BY <1>3, Where DEF OtherServices, At
  <2> QED
    BY <1>3, <2>1, PassIInv DEF OtherServices
<1>4. CASE ReadRow
  <2>1. command = "probe-rest" /\ pc = 3 /\ exit = Running
    BY <1>4, Where DEF ReadRow, At
  <2>2. CASE Report(accepted, signedIn)
    BY <2>1, <2>2, LateReport
  <2>3. CASE Advance /\ UNCHANGED <<world, suggested, session, findings>>
    BY <2>1, <2>3, PassIInv
  <2> QED
    BY <1>4, <2>2, <2>3 DEF ReadRow
<1>5. CASE Declared
  <2>1. command = "permissions" /\ pc = 4 /\ exit = Running
    BY <1>5, Where DEF Declared, At
  <2>2. CASE Report(accepted, signedIn)
    BY <2>1, <2>2, LateReport
  <2>3. CASE Advance /\ UNCHANGED <<world, suggested, session, findings>>
    BY <2>1, <2>3, PassIInv
  <2> QED
    BY <1>5, <2>2, <2>3 DEF Declared
<1> QED
  BY <1>2, <1>3, <1>4, <1>5

(* probe-rest measures: what GET and POST answer is what the farm is like.  *)
LEMMA ReadRestIInv == IInv /\ ReadRest => IInv'
<1> SUFFICES ASSUME IInv, ReadRest PROVE IInv'
  OBVIOUS
<1> USE DEF IInv
<1>1. /\ farm' = farm /\ mode' = mode /\ command' = command
      /\ probeItems' = probeItems /\ refuses' = refuses
      /\ (Signs' <=> Signs) /\ (Works' <=> Works) /\ Suggestion' = Suggestion
      /\ (Eligible' <=> Eligible) /\ (OpenSite' <=> OpenSite)
  BY SameWorld DEF ReadRest
<1>2. /\ UNCHANGED <<suggested, accepted, soap, left, denied, results, verdict>>
      /\ command = "probe-rest" /\ pc = 2 /\ exit = Running
  BY Where DEF ReadRest, At
<1>3. pc' \in 1 .. Len(Steps[command]) /\ pc' = 3 /\ exit' = exit
  <2>1. Len(Steps[command]) = 5
    BY <1>2, Where
  <2> QED
    BY <1>1, <1>2, <2>1, AdvanceSays DEF ReadRest
<1>4. signedIn' \in BOOLEAN /\ (signedIn' => Signs /\ mode \in NtlmModes)
  BY SigningIn DEF ReadRest
<1>5. /\ rest' \in {"ok", "denied", "absent", "error"}
      /\ rest' = "absent" => farm.rest # "collections" \/ ~(farm.openBin \/ Works)
      /\ rest' = "ok" => farm.rest = "collections" /\ (farm.openBin \/ Works)
      /\ rest' = "denied" => ~Works
  <2>1. PICK r \in GetReplies("rest", signedIn) : rest' \in {RestFinding(r), "error"}
    BY DEF ReadRest
  <2>2. /\ r.reply \in {"served", "401", "page"}
        /\ r.reply = "served" => farm.openBin \/ Works
        /\ r.reply # "served" => ~Works
        /\ r.reply = "page" => ~(farm.openBin \/ Works)
    <3>1. signedIn \in BOOLEAN
      BY DEF TypeOK
    <3>2. /\ r.reply \in {"served", "401", "page"}
          /\ r.reply = "served" => farm.openBin \/ (Signs /\ Admits("rest"))
          /\ r.reply # "served" => ~farm.right \/ (~farm.openBin /\ ~(Signs /\ Admits("rest")))
      BY <3>1, Replies, AnybodyIs DEF Open
    <3>3. (Signs /\ Admits("rest")) <=> Works
      BY FarmIs DEF Admits, Works
    <3>4. Works => farm.right
      BY DEF Works, Signs
    <3>5. r.reply = "page" => ~farm.openBin
      BY <3>1, Replies, AnybodyIs DEF Open
    <3> QED
      BY <3>2, <3>3, <3>4, <3>5
  <2>3. CASE r.reply = "401"
    <3>1. RestFinding(r) = "denied"
      BY <2>3 DEF RestFinding
    <3> QED
      BY <2>1, <2>2, <2>3, <3>1
  <2>4. CASE r.reply = "served" /\ farm.rest = "collections"
    <3>1. RestFinding(r) = "ok"
      BY <2>4 DEF RestFinding
    <3> QED
      BY <2>1, <2>2, <2>4, <3>1
  <2>5. CASE r.reply # "401" /\ ~(r.reply = "served" /\ farm.rest = "collections")
    <3>1. RestFinding(r) = "absent"
      BY <2>5 DEF RestFinding
    <3> QED
      BY <2>1, <2>2, <2>5, <3>1
  <2> QED
    BY <2>3, <2>4, <2>5
<1>6. TypeOK'
  BY <1>1, <1>2, <1>3, <1>4, <1>5 DEF TypeOK
<1>7. SessionInv'
  BY <1>1, <1>2, <1>3, <1>4 DEF SessionInv, AcceptedIsTrue
<1>8. RestInv'
  BY <1>1, <1>2, <1>5 DEF RestInv
<1>9. ProgressInv' /\ AccessInv'
  BY <1>1, <1>2 DEF ProgressInv, AccessInv
<1> QED
  BY <1>1, <1>2, <1>6, <1>7, <1>8, <1>9, NoVerdict

LEMMA AskSoapIInv == IInv /\ AskSoap => IInv'
<1> SUFFICES ASSUME IInv, AskSoap PROVE IInv'
  OBVIOUS
<1> USE DEF IInv
<1>1. /\ farm' = farm /\ mode' = mode /\ command' = command
      /\ probeItems' = probeItems /\ refuses' = refuses
      /\ (Signs' <=> Signs) /\ (Works' <=> Works) /\ Suggestion' = Suggestion
      /\ (Eligible' <=> Eligible) /\ (OpenSite' <=> OpenSite)
  BY SameWorld DEF AskSoap
<1>2. /\ UNCHANGED <<suggested, rest, left, denied, results, verdict>>
      /\ command = "probe-rest" /\ pc = 4 /\ exit = Running /\ accepted \in BOOLEAN
  BY Where DEF AskSoap, At, TypeOK
<1>3. pc' \in 1 .. Len(Steps[command]) /\ exit' = exit
  <2>1. Len(Steps[command]) = 5
    BY <1>2, Where
  <2> QED
    BY <1>1, <1>2, <2>1, AdvanceSays DEF AskSoap
<1>4. PICK p \in Posts :
         /\ Posted(p)
         /\ soap' \in {IF p.ok THEN "ok" ELSE "failed", "failed"}
  BY DEF AskSoap
<1>5. /\ p.ok \in BOOLEAN /\ p.accepted \in BOOLEAN
      /\ p.ok => Works
      /\ p.accepted /\ mode # "basic" => Signs
      /\ SignedByPost(p) \in BOOLEAN /\ (SignedByPost(p) => Signs /\ mode \in NtlmModes)
  BY PostSays
<1>6. /\ accepted' \in BOOLEAN /\ signedIn' \in BOOLEAN
      /\ (accepted' /\ mode # "basic" => Signs) /\ (signedIn' => Signs /\ mode \in NtlmModes)
  BY <1>4, <1>5 DEF Posted
<1>7. soap' \in {"ok", "failed"} /\ (soap' = "ok" => Works)
  BY <1>4, <1>5
<1>8. TypeOK'
  BY <1>1, <1>2, <1>3, <1>6, <1>7 DEF TypeOK
<1>9. SessionInv'
  BY <1>1, <1>2, <1>3, <1>6 DEF SessionInv, AcceptedIsTrue
<1>10. RestInv'
  BY <1>1, <1>2, <1>7 DEF RestInv
<1>11. ProgressInv' /\ AccessInv'
  BY <1>1, <1>2 DEF ProgressInv, AccessInv
<1> QED
  BY <1>1, <1>2, <1>8, <1>9, <1>10, <1>11, NoVerdict

LEMMA CompareIInv == IInv /\ Compare => IInv'
<1> SUFFICES ASSUME IInv, Compare PROVE IInv'
  OBVIOUS
<1> USE DEF IInv
<1>1. /\ farm' = farm /\ mode' = mode /\ command' = command
      /\ probeItems' = probeItems /\ refuses' = refuses
      /\ (Signs' <=> Signs) /\ (Works' <=> Works) /\ Suggestion' = Suggestion
      /\ (Eligible' <=> Eligible) /\ (OpenSite' <=> OpenSite)
  BY SameWorld DEF Compare
<1>2. /\ UNCHANGED <<suggested, accepted, signedIn, rest, soap, left, denied, results, pc>>
      /\ command = "probe-rest" /\ verdict' = Compared /\ exit' \in {0, 1}
  BY Where DEF Compare, At, Ends, session
<1>3. /\ verdict' \in {"both_work", "only_posts_fail", "no_rest", "not_the_method", "inconclusive"}
      /\ verdict' = "not_the_method" => rest = "denied"
      /\ verdict' = "only_posts_fail" => rest = "ok"
      /\ verdict' = "both_work" => rest = "ok" /\ soap = "ok"
  BY <1>2 DEF Compared
<1>4. TypeOK'
  BY <1>1, <1>2, <1>3 DEF TypeOK
<1>5. SessionInv'
  BY <1>1, <1>2 DEF SessionInv, AcceptedIsTrue, Running
<1>6. RestInv'
  BY <1>1, <1>2 DEF RestInv
<1>7. ProgressInv' /\ AccessInv'
  BY <1>1, <1>2 DEF ProgressInv, AccessInv
<1>8. ComparisonsHold'
  BY <1>1, <1>2, <1>3 DEF ComparisonsHold, ComparisonHolds, DiagnosisFits, RestInv
<1>9. ConclusionsHold' /\ CompleteIsReadable'
  BY <1>1, <1>3 DEF ConclusionsHold, CompleteIsReadable
<1> QED
  BY <1>4, <1>5, <1>6, <1>7, <1>8, <1>9

-----------------------------------------------------------------------------
LEMMA AskedIs ==
  ASSUME TypeOK, left # {}, command # "diagnose"
  PROVE  Asked \in left /\ Asked \in Webs \X (Lists \cup {"lists"}) /\ Inside(Asked) \subseteq Webs \X (Lists \cup {"lists"})
<1>1. Asked \in left
  BY DEF Asked
<1>2. Asked \in Webs \X (Lists \cup {"lists"})
  BY <1>1 DEF TypeOK
<1> QED
  BY <1>1, <1>2 DEF Inside

(* What is closed is not crossed off without being noted.                   *)
LEMMA AccessDeniedIInv == IInv /\ AccessDenied => IInv'
<1> SUFFICES ASSUME IInv, AccessDenied PROVE IInv'
  OBVIOUS
<1> USE DEF IInv
<1>1. /\ farm' = farm /\ mode' = mode /\ command' = command
      /\ probeItems' = probeItems /\ refuses' = refuses
      /\ (Signs' <=> Signs) /\ (Works' <=> Works) /\ Suggestion' = Suggestion
      /\ (Eligible' <=> Eligible) /\ (OpenSite' <=> OpenSite)
  BY SameWorld DEF AccessDenied
<1>2. /\ UNCHANGED <<suggested, accepted, signedIn, rest, soap, results, verdict, pc, exit>>
      /\ command = "permissions" /\ exit = Running /\ left # {}
      /\ left' = left \ {Asked} /\ denied' = denied \cup {Asked}
  BY Where DEF AccessDenied, At, Stays, session, NotReadable
<1>3. TypeOK'
  <2>1. left' \cup denied' \subseteq Webs \X (Lists \cup {"lists"})
    BY <1>2, AskedIs DEF TypeOK
  <2> QED
    BY <1>1, <1>2, <2>1 DEF TypeOK
<1>4. SessionInv' /\ ProgressInv' /\ RestInv'
  BY <1>1, <1>2 DEF SessionInv, AcceptedIsTrue, ProgressInv, RestInv
<1>5. AccessInv'
  BY <1>2 DEF AccessInv
<1> QED
  BY <1>1, <1>2, <1>3, <1>4, <1>5, NoVerdict

LEMMA AskForAccessIInv == IInv /\ AskForAccess => IInv'
<1> SUFFICES ASSUME IInv, AskForAccess PROVE IInv'
  OBVIOUS
<1> USE DEF IInv
<1>1. /\ command = "permissions" /\ exit = Running /\ left # {} /\ pc = 5
     
  BY Where DEF AskForAccess, At, TypeOK, SessionInv
<1>2. CASE Report(accepted, signedIn)
  BY <1>1, <1>2, LateReport
<1>3. CASE /\ ~(Asked \in farm.closed /\ (probeItems \/ Asked[2] = "lists"))
           /\ left' = (left \ {Asked}) \cup Inside(Asked)
           /\ Stays
           /\ UNCHANGED <<world, suggested, session, rest, soap, denied, results, verdict>>
  <2>1. /\ farm' = farm /\ mode' = mode /\ command' = command
        /\ probeItems' = probeItems /\ refuses' = refuses
        /\ (Signs' <=> Signs) /\ (Works' <=> Works) /\ Suggestion' = Suggestion
        /\ (Eligible' <=> Eligible) /\ (OpenSite' <=> OpenSite)
    BY <1>3, SameWorld
  <2>2. UNCHANGED <<suggested, accepted, signedIn, rest, soap, denied, results, verdict, pc, exit>>
    BY <1>3 DEF Stays, session
  <2>3. TypeOK'
    <3>1. left' \cup denied' \subseteq Webs \X (Lists \cup {"lists"})
      BY <1>1, <1>3, <2>2, AskedIs DEF TypeOK
    <3> QED
      BY <2>1, <2>2, <3>1 DEF TypeOK
  <2>4. SessionInv' /\ ProgressInv' /\ RestInv'
    BY <2>1, <2>2 DEF SessionInv, AcceptedIsTrue, ProgressInv, RestInv
  <2>5. AccessInv'
    <3> SUFFICES ASSUME NEW x \in farm.closed, probeItems \/ x[2] = "lists", denied = {}
                 PROVE  x \in left' \/ <<x[1], "lists">> \in left'
      BY <2>1, <2>2 DEF AccessInv
    <3>1. x # Asked
      BY <1>3
    <3>2. x \in left \/ <<x[1], "lists">> \in left
      BY <1>1 DEF AccessInv
    <3>3. CASE x \in left
      BY <1>3, <3>1, <3>3
    <3>4. CASE <<x[1], "lists">> \in left /\ <<x[1], "lists">> # Asked
      BY <1>3, <3>4
    <3>5. CASE <<x[1], "lists">> = Asked
      <4>1. x \in Webs \X (Lists \cup {"lists"})
        BY FarmIs
      <4>2. x[2] \in Lists /\ x = <<x[1], x[2]>>
        BY <3>1, <3>5, <4>1
      <4>3. x \in Inside(Asked)
        BY <3>5, <4>2 DEF Inside
      <4> QED
        BY <1>3, <4>3
    <3> QED
      BY <3>2, <3>3, <3>4, <3>5
  <2> QED
    BY <1>1, <2>1, <2>2, <2>3, <2>4, <2>5, NoVerdict
<1> QED
  BY <1>2, <1>3 DEF AskForAccess

LEMMA EndAccessIInv == IInv /\ EndAccess => IInv'
<1> SUFFICES ASSUME IInv, EndAccess PROVE IInv'
  OBVIOUS
<1> USE DEF IInv
<1>1. /\ farm' = farm /\ mode' = mode /\ command' = command
      /\ probeItems' = probeItems /\ refuses' = refuses
      /\ (Signs' <=> Signs) /\ (Works' <=> Works) /\ Suggestion' = Suggestion
      /\ (Eligible' <=> Eligible) /\ (OpenSite' <=> OpenSite)
  BY SameWorld DEF EndAccess
<1>2. /\ UNCHANGED <<suggested, accepted, signedIn, rest, soap, left, denied, results>>
      /\ command = "permissions" /\ pc = 5 /\ exit = Running /\ left = {}
      /\ verdict' \in {"complete", "incomplete"} /\ (verdict' = "complete" => denied = {})
  BY Where DEF EndAccess, At, session
<1>3. pc' = 5 /\ exit' = 0
  <2>1. Len(Steps[command]) = 5
    BY <1>2, Where
  <2> QED
    BY <1>1, <1>2, <2>1, AdvanceSays DEF EndAccess
<1>4. TypeOK'
  BY <1>1, <1>2, <1>3 DEF TypeOK
<1>5. SessionInv' /\ AccessInv'
  BY <1>1, <1>2, <1>3 DEF SessionInv, AcceptedIsTrue, AccessInv, Running
<1>6. ProgressInv' /\ RestInv'
  BY <1>1, <1>2, <1>3 DEF ProgressInv, RestInv, Running
<1>7. CompleteIsReadable'
  BY <1>1, <1>2 DEF CompleteIsReadable, AccessInv
<1>8. ConclusionsHold' /\ ComparisonsHold'
  BY <1>1, <1>2, <1>6 DEF ConclusionsHold, ComparisonsHold, ComparisonHolds, DiagnosisFits
<1> QED
  BY <1>4, <1>5, <1>6, <1>7, <1>8

-----------------------------------------------------------------------------
(* explore and diagnose.                                                    *)
LEMMA EntitySetsIInv == IInv /\ EntitySets => IInv'
<1> SUFFICES ASSUME IInv, EntitySets PROVE IInv'
  OBVIOUS
<1> USE DEF IInv
<1>1. command = "explore" /\ pc = 1 /\ exit = Running
  BY Where DEF EntitySets, At, TypeOK, SessionInv
<1>2. CASE Report(accepted, SignedBy("rest"))
  BY <1>1, <1>2, LateReport
<1>3. CASE Ends(1) /\ UNCHANGED <<world, suggested, session, findings>>
  BY <1>1, <1>3, EndsIInv
<1>4. CASE /\ left' = {<<"root", l>> : l \in Lists}
           /\ signedIn' = SignedBy("rest") /\ Advance
           /\ UNCHANGED <<world, suggested, accepted, rest, soap, denied, results, verdict>>
  <2>1. /\ farm' = farm /\ mode' = mode /\ command' = command
        /\ probeItems' = probeItems /\ refuses' = refuses
        /\ (Signs' <=> Signs) /\ (Works' <=> Works) /\ Suggestion' = Suggestion
        /\ (Eligible' <=> Eligible) /\ (OpenSite' <=> OpenSite)
    BY <1>4, SameWorld
  <2>2. signedIn' \in BOOLEAN /\ (signedIn' => Signs /\ mode \in NtlmModes)
    BY <1>4, SigningIn
  <2>3. pc' \in 1 .. Len(Steps[command]) /\ exit' = exit
    <3>1. Len(Steps[command]) = 2
      BY <1>1, Where
    <3> QED
      BY <1>1, <1>4, <2>1, <3>1, AdvanceSays
  <2>4. TypeOK'
    <3>1. left' \cup denied' \subseteq Webs \X (Lists \cup {"lists"})
      BY <1>1, <1>4 DEF TypeOK, Webs
    <3> QED
      BY <1>4, <2>1, <2>2, <2>3, <3>1 DEF TypeOK
  <2>5. SessionInv' /\ RestInv'
    BY <1>4, <2>1, <2>2, <2>3 DEF SessionInv, AcceptedIsTrue, RestInv
  <2>6. ProgressInv' /\ AccessInv'
    BY <1>1, <2>1 DEF ProgressInv, AccessInv
  <2> QED
    BY <1>1, <1>4, <2>1, <2>4, <2>5, <2>6, NoVerdict
<1> QED
  BY <1>2, <1>3, <1>4 DEF EntitySets

LEMMA CountIInv == IInv /\ Count => IInv'
<1> SUFFICES ASSUME IInv, Count PROVE IInv'
  OBVIOUS
<1> USE DEF IInv
<1>1. command = "explore" /\ exit = Running /\ left # {}
  BY Where DEF Count, At, TypeOK, SessionInv
<1>2. CASE Report(accepted, signedIn)
  BY <1>1, <1>2, LateReport
<1>3. CASE /\ left' = left \ {Asked}
           /\ denied' \in {NotReadable(Asked)} \cup IF Asked \in farm.closed THEN {} ELSE {denied}
           /\ Stays
           /\ UNCHANGED <<world, suggested, session, rest, soap, results, verdict>>
  <2>1. /\ farm' = farm /\ mode' = mode /\ command' = command
        /\ probeItems' = probeItems /\ refuses' = refuses
        /\ (Signs' <=> Signs) /\ (Works' <=> Works) /\ Suggestion' = Suggestion
        /\ (Eligible' <=> Eligible) /\ (OpenSite' <=> OpenSite)
    BY <1>3, SameWorld
  <2>2. UNCHANGED <<suggested, accepted, signedIn, rest, soap, results, verdict, pc, exit>>
    BY <1>3 DEF Stays, session
  <2>3. TypeOK'
    <3>1. denied' = denied \cup {Asked} \/ denied' = denied
      BY <1>3 DEF NotReadable
    <3>2. left' \cup denied' \subseteq Webs \X (Lists \cup {"lists"})
      BY <1>1, <1>3, <3>1, AskedIs DEF TypeOK
    <3> QED
      BY <2>1, <2>2, <3>2 DEF TypeOK
  <2>4. SessionInv' /\ RestInv'
    BY <2>1, <2>2 DEF SessionInv, AcceptedIsTrue, RestInv
  <2>5. ProgressInv' /\ AccessInv'
    BY <1>1, <2>1 DEF ProgressInv, AccessInv
  <2> QED
    BY <1>1, <2>1, <2>2, <2>3, <2>4, <2>5, NoVerdict
<1> QED
  BY <1>2, <1>3 DEF Count

(* What a ladder answered in full says of the service.                      *)
LEMMA LadderSays ==
  ASSUME refuses \subseteq Options, NEW ok, ok = {r \in Rungs : Needs[r] \cap refuses = {}}
  PROVE  CASE Finding(ok) = "key" -> {"select", "filter"} \subseteq refuses
           [] Finding(ok) = "plain_read" -> "bare" \in refuses
           [] Finding(ok) \in {"sort", "filter"} -> Finding(ok) \in refuses /\ "bare" \notin refuses
           [] Finding(ok) = "combination" -> {"both", "size"} \cap refuses # {}
           [] OTHER -> refuses \subseteq {"select"}
<1>1. /\ "bare" \in ok <=> "bare" \notin refuses
      /\ "select" \in ok <=> "select" \notin refuses
      /\ "sort" \in ok <=> "bare" \notin refuses /\ "sort" \notin refuses
      /\ "filter" \in ok <=> "bare" \notin refuses /\ "filter" \notin refuses
      /\ "full" \in ok <=> {"bare", "sort", "filter", "both", "size"} \cap refuses = {}
  BY DEF Rungs, Needs
<1>2. CASE "bare" \in ok /\ "select" \notin ok /\ "filter" \notin ok
  <2>1. Finding(ok) = "key"
    BY <1>2 DEF Finding
  <2> QED
    BY <1>1, <1>2, <2>1
<1>3. CASE "bare" \notin ok
  <2>1. Finding(ok) = "plain_read"
    BY <1>3 DEF Finding
  <2> QED
    BY <1>1, <1>3, <2>1
<1>4. CASE "bare" \in ok /\ ("select" \in ok \/ "filter" \in ok) /\ "sort" \notin ok
  <2>1. Finding(ok) = "sort"
    BY <1>4 DEF Finding
  <2> QED
    BY <1>1, <1>4, <2>1
<1>5. CASE "bare" \in ok /\ ("select" \in ok \/ "filter" \in ok) /\ "sort" \in ok /\ "filter" \notin ok
  <2>1. Finding(ok) = "filter"
    BY <1>5 DEF Finding
  <2> QED
    BY <1>1, <1>5, <2>1
<1>6. CASE "bare" \in ok /\ "sort" \in ok /\ "filter" \in ok /\ "full" \notin ok
  <2>1. Finding(ok) = "combination"
    BY <1>6 DEF Finding
  <2> QED
    BY <1>1, <1>6, <2>1
<1>7. CASE "bare" \in ok /\ "sort" \in ok /\ "filter" \in ok /\ "full" \in ok
  <2>1. Finding(ok) = "passes"
    BY <1>7 DEF Finding
  <2>2. refuses \subseteq {"select"}
    BY <1>1, <1>7 DEF Options
  <2> QED
    BY <2>1, <2>2
<1> QED
  BY <1>2, <1>3, <1>4, <1>5, <1>6, <1>7

LEMMA DiagnoseIInv == IInv /\ Diagnose => IInv'
<1> SUFFICES ASSUME IInv, Diagnose PROVE IInv'
  OBVIOUS
<1> USE DEF IInv
<1>1. /\ farm' = farm /\ mode' = mode /\ command' = command
      /\ probeItems' = probeItems /\ refuses' = refuses
      /\ (Signs' <=> Signs) /\ (Works' <=> Works) /\ Suggestion' = Suggestion
      /\ (Eligible' <=> Eligible) /\ (OpenSite' <=> OpenSite)
  BY SameWorld DEF Diagnose
<1>2. /\ UNCHANGED <<suggested, accepted, signedIn, rest, soap, left>>
      /\ command = "diagnose" /\ pc = 1 /\ exit = Running
      /\ results' \subseteq Rungs /\ (denied' = {} => results' = {r \in Rungs : Needs[r] \cap refuses = {}})
      /\ verdict' = Finding(results')
  BY Where DEF Diagnose, At, session
<1>3. pc' = 1 /\ exit' = 0
  <2>1. Len(Steps[command]) = 1
    BY <1>2, Where
  <2> QED
    BY <1>1, <1>2, <2>1, AdvanceSays DEF Diagnose
<1>4. verdict' \in {"key", "plain_read", "sort", "filter", "combination", "passes"}
  BY <1>2 DEF Finding
<1>5. TypeOK'
  BY <1>1, <1>2, <1>3, <1>4 DEF TypeOK
<1>6. SessionInv' /\ RestInv'
  BY <1>1, <1>2, <1>3 DEF SessionInv, AcceptedIsTrue, RestInv, Running
<1>7. ProgressInv' /\ AccessInv'
  BY <1>1, <1>2 DEF ProgressInv, AccessInv
<1>8. ComparisonsHold'
  <2>1. refuses \subseteq Options
    BY DiagnosticsAssumption DEF TypeOK
  <2>2. denied' = {} => DiagnosisFits'
    BY <1>1, <1>2, <2>1, LadderSays DEF DiagnosisFits
  <2> QED
    BY <1>1, <1>2, <2>2 DEF ComparisonsHold, ComparisonHolds, DiagnosisFits
<1>9. ConclusionsHold' /\ CompleteIsReadable'
  BY <1>4 DEF ConclusionsHold, CompleteIsReadable
<1> QED
  BY <1>5, <1>6, <1>7, <1>8, <1>9

LEMMA StutterIInv == IInv /\ UNCHANGED vars => IInv'
<1> SUFFICES ASSUME IInv, UNCHANGED vars PROVE IInv'
  OBVIOUS
<1> USE DEF IInv
<1>1. /\ farm' = farm /\ mode' = mode /\ command' = command
      /\ probeItems' = probeItems /\ refuses' = refuses
      /\ (Signs' <=> Signs) /\ (Works' <=> Works) /\ Suggestion' = Suggestion
      /\ (Eligible' <=> Eligible) /\ (OpenSite' <=> OpenSite)
  BY SameWorld DEF vars
<1>2. UNCHANGED <<pc, exit, suggested, accepted, signedIn, rest, soap, left, denied, results, verdict>>
  BY DEF vars, session, findings
<1>3. TypeOK'
  BY <1>1, <1>2 DEF TypeOK
<1>4. SessionInv' /\ ProgressInv' /\ RestInv' /\ AccessInv'
  BY <1>1, <1>2 DEF SessionInv, AcceptedIsTrue, ProgressInv, RestInv, AccessInv
<1>5. ConclusionsHold' /\ CompleteIsReadable'
  BY <1>1, <1>2 DEF ConclusionsHold, CompleteIsReadable
<1>6. ComparisonsHold'
  BY <1>1, <1>2 DEF ComparisonsHold, ComparisonHolds, DiagnosisFits
<1> QED
  BY <1>3, <1>4, <1>5, <1>6

-----------------------------------------------------------------------------
LEMMA NextIInv == IInv /\ [Next]_vars => IInv'
<1> SUFFICES ASSUME IInv, [Next]_vars PROVE IInv'
  OBVIOUS
<1>1. CASE Fails \/ Moved \/ EndExplore
  BY <1>1, EndingIInv
<1>2. CASE Reach \/ Authenticate \/ EnumerateWebs
  BY <1>2, ReachIInv, AuthenticateIInv, EnumerateWebsIInv
<1>3. CASE InventoryOfRoot \/ OtherServices \/ ReadRow \/ Declared
  BY <1>3, PassingIInv
<1>4. CASE ReadRest \/ AskSoap \/ Compare
  BY <1>4, ReadRestIInv, AskSoapIInv, CompareIInv
<1>5. CASE AccessDenied \/ AskForAccess \/ EndAccess
  BY <1>5, AccessDeniedIInv, AskForAccessIInv, EndAccessIInv
<1>6. CASE EntitySets \/ Count \/ Diagnose
  BY <1>6, EntitySetsIInv, CountIInv, DiagnoseIInv
<1>7. CASE UNCHANGED vars
  BY <1>7, StutterIInv
<1> QED
  BY <1>1, <1>2, <1>3, <1>4, <1>5, <1>6, <1>7 DEF Next

(* The invariant the theorems rest on: what a command has been through, and *)
(* what it is therefore entitled to say.                                    *)
THEOREM Invariance == Spec => []IInv
<1> QED
  BY InitIInv, NextIInv, PTL DEF Spec

(* Types, and outside Basic Transport.credential_accepted is proof: it is   *)
(* set only where the server takes the credential.                          *)
THEOREM ConsistentHolds == Spec => []Consistent
<1>1. IInv => Consistent
  BY DEF IInv, SessionInv, Consistent
<1> QED
  BY <1>1, Invariance, PTL

(* What diagnose_endpoint_auth() concludes of a refusal is so, of what its  *)
(* two GETs tell apart; the property names what they do not: Basic, a site  *)
(* anybody may read, a scheme that was not asked for, and a connection that *)
(* was signed in by a request which ended bare.                             *)
THEOREM ConclusionsHoldAlways == Spec => []ConclusionsHold
<1>1. IInv => ConclusionsHold
  BY DEF IInv
<1> QED
  BY <1>1, Invariance, PTL

(* probe and permissions end with code 0 only where the account can make    *)
(* the calls a crawl is made of.                                            *)
THEOREM ProbeProvesHolds == Spec => []ProbeProves
<1>1. IInv => ProbeProves
  <2> SUFFICES ASSUME IInv, exit = 0, command \in {"probe", "permissions"}
               PROVE  /\ Works /\ farm.posts # "fail"
                      /\ command = "probe" => <<"root", "lists">> \notin farm.closed
    BY DEF ProbeProves
  <2>1. pc = 5
    BY DEF IInv, ProgressInv
  <2> QED
    BY <2>1 DEF IInv, ProgressInv
<1> QED
  BY <1>1, Invariance, PTL

(* What probe-rest concludes from a GET and a POST, and --diagnose from its *)
(* ladder, is so; "absent" says only that no collections come, not why.     *)
THEOREM ComparisonsHoldAlways == Spec => []ComparisonsHold
<1>1. IInv => ComparisonsHold
  BY DEF IInv
<1> QED
  BY <1>1, Invariance, PTL

(* "Everything discovered is readable by this credential" is said only if   *)
(* it is, in whatever order webs and lists are asked.                       *)
THEOREM CompleteIsReadableHolds == Spec => []CompleteIsReadable
<1>1. IInv => CompleteIsReadable
  BY DEF IInv
<1> QED
  BY <1>1, Invariance, PTL
=============================================================================
