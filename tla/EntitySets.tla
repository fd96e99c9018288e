----------------------------- MODULE EntitySets -----------------------------
(***************************************************************************)
(* How the REST backend finds a list's collection, services/odata.py: the   *)
(* service document of a web, $metadata behind it, and the matching of list *)
(* titles to collection names.  A title or a name is a record of its two    *)
(* foldings: `uni` keeps every letter, `ascii` drops the others.            *)
(***************************************************************************)
EXTENDS Integers, Sequences

NoSet == [uni |-> "", ascii |-> ""]

\* normalise_name: what is left of a title or of a name for comparing.
Folded(name, ascii_only) == IF ascii_only THEN name.ascii ELSE name.uni

(***************************************************************************)
(* What one GET of the service can come to.  A 404 is ODataUnavailable, and *)
(* so is a body that is neither JSON nor XML; another status >= 400 and     *)
(* JSON without an envelope are ODataError.  A 429 or 5xx that outlived its *)
(* retries and an authentication failure are no OData errors at all.        *)
(***************************************************************************)
Answers == {"json", "atom", "empty json", "empty atom", "not json", "garbage",
            "absent", "refused", "retryable", "auth"}
OutlivesOData(answer) == answer \in {"retryable", "auth"}

(***************************************************************************)
(* entity_sets(): names, or the failure that leaves it.  Only a 404 and an  *)
(* empty document go on to $metadata; an undecodable one is raised.         *)
(***************************************************************************)
ServiceDocument(doc) ==
    IF doc \in {"json", "atom"} THEN "names"
    ELSE IF doc \in {"absent", "empty json", "empty atom"} THEN "escalate"
    ELSE IF OutlivesOData(doc) THEN doc
    ELSE "odata"                    \* not json, garbage, refused

Metadata(meta) ==
    IF meta = "atom" THEN "names"
    ELSE IF OutlivesOData(meta) THEN meta
    ELSE "odata"

EntitySets(doc, meta) ==
    IF ServiceDocument(doc) = "escalate" THEN Metadata(meta) ELSE ServiceDocument(doc)

(***************************************************************************)
(* entity_set_for(): the first candidate that folds as the title does, with *)
(* every letter kept and, only when there is none, with ASCII alone.        *)
(***************************************************************************)
Matching(title, candidates, ascii_only) ==
    {i \in DOMAIN candidates :
        Folded(candidates[i], ascii_only) = Folded(title, ascii_only)}

FirstOf(S) == CHOOSE i \in S : \A j \in S : i <= j

\* Mutant: ASCII letters are all that is compared.
EntitySetForAscii(title, candidates) ==
    LET ascii == Matching(title, candidates, TRUE)
    IN  IF ascii # {} THEN candidates[FirstOf(ascii)] ELSE NoSet
EntitySetFor(title, candidates) ==
    LET exact == Matching(title, candidates, FALSE)
        ascii == Matching(title, candidates, TRUE)
    IN  IF exact # {} THEN candidates[FirstOf(exact)]
        ELSE IF ascii # {} THEN candidates[FirstOf(ascii)]
        ELSE NoSet
=============================================================================
