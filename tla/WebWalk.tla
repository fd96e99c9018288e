------------------------------ MODULE WebWalk ------------------------------
(***************************************************************************)
(* The discovery of the webs of a farm, services/webs.py: one recursive     *)
(* call where the build has it, and otherwise a breadth-first walk with one *)
(* call per web.  Webs are numbered in the order of their URLs, so that     *)
(* sorting by URL is sorting by number.  A web's title is known only when   *)
(* some reply listed the web; the scope filters look at it later.           *)
(***************************************************************************)
EXTENDS Integers, Sequences, FiniteSets

CONSTANTS Webs,       \* every web of the farm
          Root,       \* SP_BASE_URL
          Children,   \* web -> the webs its GetWebCollection reply lists, in order
          MaxDepth    \* DEFAULT_MAX_DEPTH

ASSUME FarmAssumption ==
    /\ Webs \subseteq Nat /\ IsFiniteSet(Webs)
    /\ Root \in Webs
    /\ Children \in [Webs -> Seq(Webs)]
    /\ MaxDepth \in Nat

VARIABLES method,       \* the operation the inventory came from
          queue,        \* webs still to visit, with their depths
          seen,         \* URLs found so far
          titled,       \* those whose title some reply gave
          unreadable,   \* webs whose children could not be enumerated
          stopped       \* webs the depth limit kept from being visited

discovery == <<method, queue, seen, titled, unreadable, stopped>>

-----------------------------------------------------------------------------
Listed(w) == {Children[w][i] : i \in DOMAIN Children[w]}

(***************************************************************************)
(* What there is to find, as the reference the walk is compared with: the   *)
(* webs a chain of at most n listings leads to from one web.                *)
(***************************************************************************)
Within(from) ==
    LET W[n \in 0 .. Cardinality(Webs) + MaxDepth] ==
            IF n = 0 THEN {from} ELSE W[n - 1] \cup UNION {Listed(w) : w \in W[n - 1]}
    IN  W
Reachable(from) == Within(from)[Cardinality(Webs)]

-----------------------------------------------------------------------------
NoDiscovery ==
    /\ method = "none" /\ queue = <<>> /\ seen = {} /\ titled = {}
    /\ unreadable = {} /\ stopped = {}

Forget ==
    /\ method' = "none" /\ queue' = <<>> /\ seen' = {} /\ titled' = {}
    /\ unreadable' = {} /\ stopped' = {}

\* A build from WSS 3.0 on, or an unknown one, is asked for everything at once.
BeginRecursive ==
    /\ method' = "GetAllSubWebCollection"
    /\ queue' = <<>>
    /\ seen' = {} /\ titled' = {} /\ unreadable' = {} /\ stopped' = {}

\* The walk starts over with the root alone, whose title no reply has given.
BeginWalk ==
    /\ method' = "GetWebCollection"
    /\ queue' = << <<Root, 0>> >>
    /\ seen' = {Root}
    /\ titled' = {} /\ unreadable' = {} /\ stopped' = {}

\* The reply lists the called web too: its title comes with it.
RecursiveReply ==
    /\ seen' = {Root} \cup Reachable(Root)
    /\ titled' = Reachable(Root)
    /\ UNCHANGED <<method, queue, unreadable, stopped>>

Here == Head(queue)[1]
Depth == Head(queue)[2]

\* At the limit the web is warned about and left; it is not an unreadable one.
Stop ==
    /\ queue # <<>>
    /\ queue' = Tail(queue)
    /\ stopped' = stopped \cup {Here}
    /\ UNCHANGED <<method, seen, titled, unreadable>>
\* Mutant: the limit bites one level too early.
TooDeepByOne == Stop /\ Depth >= MaxDepth - 1
TooDeep == Stop /\ Depth >= MaxDepth

\* The children not met before, in the reply's order and each once.
Fresh(w) ==
    LET new(i) == /\ Children[w][i] \notin seen
                  /\ \A j \in 1 .. i - 1 : Children[w][j] # Children[w][i]
        Keep[i \in 0 .. Len(Children[w])] ==
            IF i = 0 THEN <<>>
            ELSE IF new(i) THEN Append(Keep[i - 1], <<Children[w][i], Depth + 1>>)
            ELSE Keep[i - 1]
    IN  Keep[Len(Children[w])]

Visit ==
    /\ queue # <<>> /\ Depth < MaxDepth
    /\ queue' = Tail(queue) \o Fresh(Here)
    /\ seen' = seen \cup Listed(Here)
    /\ titled' = titled \cup Listed(Here)
    /\ UNCHANGED <<method, unreadable, stopped>>

\* One unreadable web below the root costs its own subtree only.
Leave ==
    /\ queue # <<>> /\ Depth \in 1 .. MaxDepth - 1
    /\ queue' = Tail(queue)
    /\ UNCHANGED <<method, seen, titled, stopped>>
Unreadable == Leave /\ unreadable' = unreadable \cup {Here}

-----------------------------------------------------------------------------
WalkTypeOK ==
    /\ method \in {"none", "GetAllSubWebCollection", "GetWebCollection"}
    /\ queue \in Seq(Webs \X (0 .. MaxDepth))
    /\ seen \subseteq Webs
    /\ titled \subseteq seen
    /\ unreadable \subseteq seen
    /\ stopped \subseteq seen

\* What the operator is told is missing: unreadable webs and depth warnings.
Warned == unreadable \cup stopped

(***************************************************************************)
(* A web of the farm that the finished walk did not find lies below a web   *)
(* the operator was told about: one that could not be enumerated, or one    *)
(* the depth limit stopped at (webs.py:134-184).                            *)
(***************************************************************************)
MissingIsBelowWarned ==
    queue = <<>> /\ seen # {} =>
        \A w \in Reachable(Root) \ seen : \E v \in Warned : w \in Reachable(v)

(***************************************************************************)
(* The depth limit alone costs only what is deeper: a web at most MaxDepth  *)
(* listings away from the root is found by the finished walk unless it lies *)
(* below a web that could not be enumerated.  The walk is breadth-first, so *)
(* no web is first met, and stopped at, by a detour (webs.py:134-182).      *)
(***************************************************************************)
WithinLimitFound ==
    queue = <<>> /\ seen # {} =>
        \A w \in Within(Root)[MaxDepth] \ seen : \E v \in unreadable : w \in Reachable(v)

(* What the finished walk leaves out has one of the two reasons it states.  *)
OmissionsExplained == MissingIsBelowWarned /\ WithinLimitFound
=============================================================================
