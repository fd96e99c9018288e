--------------------------- MODULE CrawlRunProofs ---------------------------
(***************************************************************************)
(* For any farm and any lists: what a command that goes through has left    *)
(* out, and that it says so.                                                *)
(***************************************************************************)
EXTENDS CrawlRun, FiniteSetTheorems, SequenceTheorems, WellFoundedInduction, TLAPS

(* The walk.  What lies below a web that could not be enumerated.           *)
Below == {w \in Webs : \E v \in unreadable : w \in Reachable(v)}
Queued == {queue[k][1] : k \in 1 .. Len(queue)}

(* Only webs found are queued.  A web found is still to be visited, or was  *)
(* warned about, or its children are found.                                 *)
VisitInv ==
    /\ seen # {} => Root \in seen
    /\ queue # <<>> => seen # {}
    /\ Queued \subseteq seen
    /\ seen \subseteq titled \cup {Root}
    /\ \A w \in seen : w \in Queued \/ w \in Warned \/ Listed(w) \subseteq seen

(* Breadth first: the queue holds the rest of one level and a part of the   *)
(* next; everything on a level above the next is found, or lies below a web *)
(* that was not enumerated; and no web is queued deeper than it lies.       *)
LevelInv ==
    /\ \A j, k \in 1 .. Len(queue) : j <= k =>
          queue[j][2] <= queue[k][2] /\ queue[k][2] <= queue[j][2] + 1
    /\ queue # <<>> =>
          /\ Within(Root)[Depth] \subseteq seen \cup Below
          /\ \A k \in 1 .. Len(queue) :
                queue[k][2] > Depth /\ queue[k][1] \in Within(Root)[Depth] =>
                    queue[k][1] \in Below
          /\ Depth < MaxDepth => stopped = {}
    /\ queue = <<>> /\ seen # {} => Within(Root)[MaxDepth] \subseteq seen \cup Below

WalkInv == WalkTypeOK /\ VisitInv /\ LevelInv

(* A run.                                                                   *)
InLoop  == {"lists", "source", "pages", "token", "handler"}
AtItem  == {"source", "pages", "token", "handler"}
Looping == pc \in InLoop \/ WentThrough

Reports == [succeeded : Nat, failed : Nat, skipped : Nat,
            errors : SUBSET Errors, fallbacks : SUBSET Lists]

SchemaErrors == FailedIn({"schema"})
ItemErrors == FailedIn({"crawl", "sync"})
ListErrors == FailedIn({"schema", "crawl", "sync"})

(* The state file is what the process knows, but for the list an exception  *)
(* left, and the walk is over when anything else begins.                    *)
PhaseInv ==
    /\ pc # "handler" => disk = mem
    /\ report \in Reports
    /\ pc = "discover" =>
          /\ report = NoReport /\ inScope = {} /\ schemas = {}
          /\ schemasLeft = {} /\ todo = {} /\ websLeft = {}
    /\ pc = "webs" => schemas = {} /\ todo = {} /\ schemasLeft = {}
    /\ pc \in {"webs", "schemas"} \cup InLoop \/ WentThrough => queue = <<>> /\ seen # {}
    /\ pc = "schemas" \/ Looping => websLeft = {}
    /\ pc \in {"discover", "webs", "schemas"} => source = NoSet
    /\ pc \in {"webs", "schemas"} =>
          report.succeeded = 0 /\ report.failed = 0 /\ report.skipped = 0

(* Every list of a web in scope is in scope, or its web is in an error.     *)
ScopeInv ==
    pc \in {"webs", "schemas"} \/ Looping =>
        \A l \in Lists :
            ListInScope(l) /\ WebOf[l] \in seen /\ WebInScope(WebOf[l]) =>
                \/ l \in inScope
                \/ WebOf[l] \in websLeft
                \/ <<"discover", WebOf[l]>> \in report.errors

(* Every list in scope has a schema or an error.                            *)
SchemaInv ==
    /\ schemasLeft \subseteq inScope
    /\ pc = "webs" => ListErrors = {}
    /\ pc = "schemas" =>
          /\ ItemErrors = {} /\ todo = {} /\ schemas \cap schemasLeft = {}
          /\ SchemaErrors = inScope \ (schemas \cup schemasLeft)
    /\ Looping => SchemaErrors = inScope \ schemas

(* Every list the loop is done with is complete or in an error, and counted *)
(* as the one or the other.                                                 *)
LoopInv ==
    Looping =>
        /\ ItemErrors \subseteq schemas \ todo
        /\ \A l \in schemas \ todo :
              disk[l].status = IF l \in ItemErrors THEN "failed" ELSE "complete"
        /\ report.succeeded + report.failed = Cardinality(inScope \ todo)
        /\ report.failed = Cardinality(ListErrors \ todo)
        /\ report.skipped <= report.succeeded
        /\ pc = "idle" => todo = {}
        /\ pc = "lists" => source = NoSet
        /\ pc \in AtItem => todo # {} /\ List \in schemas
        /\ pc = "token" => disk[List].status = "complete"
        /\ pc = "handler" => \A l \in Lists \ {List} : disk[l] = mem[l]

(* The rows of a list that can be told from the others are its own.         *)
RowsInv ==
    /\ OwnRows
    /\ pc \in AtItem => (Distinguishable(List) => source \in {NoSet, NameOf(List)})

IInv ==
    /\ TypeOK /\ WalkInv /\ PhaseInv
    /\ ScopeInv /\ SchemaInv /\ LoopInv /\ RowsInv

-----------------------------------------------------------------------------
(* Numbers and recursive definitions.                                       *)

(* A set of numbers has a least one: induction by least counterexample.     *)
LEMMA LeastNumber ==
  ASSUME NEW S \in SUBSET Nat, S # {}
  PROVE  \E x \in S : \A y \in S : x <= y
<1> DEFINE Less == {ss \in Nat \X Nat : ss[1] < ss[2]}
<1>1. IsWellFoundedOn(Less, Nat)
  BY NatLessThanWellFounded DEF OpToRel
<1> HIDE DEF Less
<1>2. PICK x \in S : \A y \in S : ~ (<<y, x>> \in Less)
  BY <1>1, WFMin
<1>3. \A y \in S : ~ (y < x)
  BY <1>2 DEF Less
<1> QED
  BY <1>3

(* What the loops take next.                                                *)
LEMMA FirstIs ==
  ASSUME NEW S \in SUBSET Nat, S # {}
  PROVE  First(S) \in S /\ \A y \in S : First(S) <= y
<1>1. \E x \in S : \A y \in S : x <= y
  BY LeastNumber
<1> QED
  BY <1>1 DEF First

(* Induction up to n, for a set.                                            *)
LEMMA UpTo ==
  ASSUME NEW n \in Nat, NEW S, 0 \in S, \A i \in 1 .. n : i - 1 \in S => i \in S
  PROVE  \A i \in 0 .. n : i \in S
<1> SUFFICES ASSUME (0 .. n) \ S # {} PROVE FALSE
  OBVIOUS
<1> DEFINE T == (0 .. n) \ S
<1>1. T \in SUBSET Nat /\ T # {}
  OBVIOUS
<1> HIDE DEF T
<1>2. PICK k \in T : \A y \in T : k <= y
  BY <1>1, LeastNumber
<1>3. k \in 1 .. n
  BY <1>2 DEF T
<1>4. k - 1 \in S
  BY <1>2, <1>3 DEF T
<1> QED
  BY <1>2, <1>3, <1>4 DEF T

(* A function is defined by its first value and by what follows a value.    *)
Follows(f, n, V, a, F) ==
    f \in [0 .. n -> V] /\ f[0] = a /\ \A i \in 1 .. n : f[i] = F[i][f[i - 1]]

LEMMA Recursion ==
  ASSUME NEW n \in Nat, NEW V, NEW a \in V, NEW F \in [1 .. n -> [V -> V]]
  PROVE  \E f : Follows(f, n, V, a, F)
<1> DEFINE Good(f, m) == f[0] = a /\ \A i \in 1 .. m : f[i] = F[i][f[i - 1]]
           S == {m \in 0 .. n : \E f \in [0 .. n -> V] : Good(f, m)}
<1>1. 0 \in S
  <2> DEFINE c == [i \in 0 .. n |-> a]
  <2>1. c \in [0 .. n -> V] /\ c[0] = a
    OBVIOUS
  <2> HIDE DEF c
  <2>2. Good(c, 0)
    BY <2>1
  <2>3. \E f \in [0 .. n -> V] : Good(f, 0)
    BY <2>1, <2>2
  <2> QED
    BY <2>3
<1>2. ASSUME NEW i \in 1 .. n, i - 1 \in S PROVE i \in S
  <2>1. PICK f \in [0 .. n -> V] : Good(f, i - 1)
    BY <1>2
  <2> DEFINE v == F[i][f[i - 1]]
             g == [f EXCEPT ![i] = v]
  <2>2. v \in V
    OBVIOUS
  <2> HIDE DEF v
  <2>3. g \in [0 .. n -> V]
    BY <2>2
  <2>4. \A j \in 0 .. i - 1 : g[j] = f[j]
    OBVIOUS
  <2>5. g[i] = v
    OBVIOUS
  <2> HIDE DEF g
  <2>6. Good(g, i)
    <3>1. g[0] = a
      BY <2>1, <2>4
    <3>2. ASSUME NEW j \in 1 .. i PROVE g[j] = F[j][g[j - 1]]
      <4>1. CASE j = i
        <5>1. i - 1 \in 0 .. i - 1
          OBVIOUS
        <5>2. g[i - 1] = f[i - 1]
          BY <2>4, <5>1
        <5> QED
          BY <4>1, <2>5, <5>2 DEF v
      <4>2. CASE j # i
        <5>1. j \in 1 .. i - 1 /\ j - 1 \in 0 .. i - 1 /\ j \in 0 .. i - 1
          BY <4>2
        <5> QED
          BY <2>1, <2>4, <5>1
      <4> QED
        BY <4>1, <4>2
    <3> QED
      BY <3>1, <3>2
  <2> QED
    BY <2>3, <2>6
<1> HIDE DEF S
<1>3. \A i \in 0 .. n : i \in S
  BY <1>1, <1>2, UpTo
<1>4. n \in S
  BY <1>3
<1> QED
  BY <1>4 DEF S, Follows

-----------------------------------------------------------------------------
(* The farm: what a chain of listings leads to.                             *)

Longest == Cardinality(Webs) + MaxDepth

(* What the assumptions say of the farm.                                    *)
LEMMA Sizes ==
  /\ Cardinality(Webs) \in Nat /\ MaxDepth \in Nat /\ Longest \in Nat
  /\ Root \in Webs
  /\ \A w \in Webs : Listed(w) \subseteq Webs
<1>1. Cardinality(Webs) \in Nat /\ MaxDepth \in Nat /\ Root \in Webs
  BY FS_CardinalityType, FarmAssumption
<1>2. ASSUME NEW w \in Webs PROVE Listed(w) \subseteq Webs
  <2>1. Children[w] \in Seq(Webs)
    BY FarmAssumption
  <2> QED
    BY <2>1 DEF Listed
<1> QED
  BY <1>1, <1>2 DEF Longest

(* The recursive definition of what n listings lead to.                     *)
LEMMA WithinIs ==
  ASSUME NEW from \in Webs
  PROVE  /\ Within(from)[0] = {from}
         /\ \A n \in 1 .. Longest :
               Within(from)[n] =
                  Within(from)[n - 1] \cup UNION {Listed(w) : w \in Within(from)[n - 1]}
         /\ \A n \in 0 .. Longest : Within(from)[n] \subseteq Webs
<1> DEFINE After(ws) == ws \cup UNION {Listed(w) : w \in ws}
           F == [n \in 1 .. Longest |-> [ws \in SUBSET Webs |-> After(ws)]]
           W[n \in 0 .. Longest] ==
              IF n = 0 THEN {from} ELSE W[n - 1] \cup UNION {Listed(w) : w \in W[n - 1]}
<1>1. \A ws \in SUBSET Webs : After(ws) \in SUBSET Webs
  BY Sizes
<1>2. F \in [1 .. Longest -> [SUBSET Webs -> SUBSET Webs]]
  BY <1>1
<1>3. \A n \in 1 .. Longest : \A ws \in SUBSET Webs : F[n][ws] = After(ws)
  OBVIOUS
<1>4. PICK f : Follows(f, Longest, SUBSET Webs, {from}, F)
  BY <1>2, Sizes, Recursion, Zenon
<1>5. \A n \in 1 .. Longest : f[n] = After(f[n - 1])
  <2>1. \A n \in 1 .. Longest : f[n - 1] \in SUBSET Webs
    BY <1>4, Sizes DEF Follows
  <2> HIDE DEF F, After
  <2> QED
    BY <1>3, <1>4, <2>1 DEF Follows
<1>6. f = [n \in 0 .. Longest |->
              IF n = 0 THEN {from} ELSE f[n - 1] \cup UNION {Listed(w) : w \in f[n - 1]}]
  <2>1. \A n \in 0 .. Longest : n = 0 \/ n \in 1 .. Longest
    OBVIOUS
  <2> QED
    BY <1>4, <1>5, <2>1 DEF Follows
<1>7. Within(from) = W
  BY DEF Within, Longest
<1>8. W = [n \in 0 .. Longest |->
              IF n = 0 THEN {from} ELSE W[n - 1] \cup UNION {Listed(w) : w \in W[n - 1]}]
  BY <1>6, Zenon
<1> HIDE DEF W, F
<1>9. /\ W[0] = {from}
      /\ \A n \in 1 .. Longest : W[n] = After(W[n - 1])
  <2>1. 0 \in 0 .. Longest
    BY Sizes
  <2>2. \A n \in 1 .. Longest : n \in 0 .. Longest /\ n # 0
    OBVIOUS
  <2> QED
    BY <1>8, <2>1, <2>2
<1>10. \A n \in 0 .. Longest : W[n] \subseteq Webs
  <2> DEFINE S == {n \in 0 .. Longest : W[n] \in SUBSET Webs}
  <2>1. 0 \in S
    BY <1>9, Sizes
  <2>2. \A n \in 1 .. Longest : n - 1 \in S => n \in S
    <3> HIDE DEF After
    <3> QED
      BY <1>1, <1>9
  <2> HIDE DEF S
  <2>3. \A n \in 0 .. Longest : n \in S
    BY <2>1, <2>2, Sizes, UpTo
  <2> QED
    BY <2>3 DEF S
<1> QED
  BY <1>7, <1>9, <1>10

(* A set that is closed under listings holds all they lead to.              *)
LEMMA ClosedHolds ==
  ASSUME NEW from \in Webs, NEW S, from \in S, \A w \in S : Listed(w) \subseteq S
  PROVE  \A n \in 0 .. Longest : Within(from)[n] \subseteq S
<1> DEFINE T == {n \in 0 .. Longest : Within(from)[n] \subseteq S}
<1>1. 0 \in T
  BY WithinIs, Sizes
<1>2. \A n \in 1 .. Longest : n - 1 \in T => n \in T
  BY WithinIs
<1> HIDE DEF T
<1>3. \A n \in 0 .. Longest : n \in T
  BY <1>1, <1>2, Sizes, UpTo
<1> QED
  BY <1>3 DEF T

(* Each step that leads further adds a web, so that no chain is longer than *)
(* there are webs: what is reachable is closed.                             *)
LEMMA ReachableIsClosed ==
  ASSUME NEW from \in Webs
  PROVE  /\ Reachable(from) \subseteq Webs
         /\ from \in Reachable(from)
         /\ \A w \in Reachable(from) : Listed(w) \subseteq Reachable(from)
<1> DEFINE C == Cardinality(Webs)
           W == Within(from)
           Closed(n) == \A w \in W[n] : Listed(w) \subseteq W[n]
           T == {n \in 0 .. C : Closed(n) \/ Cardinality(W[n]) >= n + 1}
<1>1. /\ C \in Nat /\ C \in 0 .. Longest
      /\ \A n \in 0 .. C : n \in 0 .. Longest
      /\ \A n \in 1 .. C : n \in 1 .. Longest
  BY Sizes DEF Longest
<1>2. /\ W[0] = {from}
      /\ \A n \in 1 .. C : W[n] = W[n - 1] \cup UNION {Listed(w) : w \in W[n - 1]}
      /\ \A n \in 0 .. C : W[n] \subseteq Webs
  BY <1>1, WithinIs
<1> HIDE DEF W
<1>3. \A n \in 0 .. C : IsFiniteSet(W[n]) /\ Cardinality(W[n]) \in Nat
  BY <1>2, FS_Subset, FS_CardinalityType, FarmAssumption
<1>4. 0 \in T
  <2>1. Cardinality(W[0]) = 1
    BY <1>2, FS_Singleton
  <2> QED
    BY <1>1, <2>1
<1>5. ASSUME NEW n \in 1 .. C, n - 1 \in T PROVE n \in T
  <2>1. n - 1 \in 0 .. C /\ n \in 0 .. C
    BY <1>1
  <2>2. CASE Closed(n - 1)
    <3>1. W[n] = W[n - 1]
      <4>1. W[n] \subseteq W[n - 1]
        BY <1>2, <2>2
      <4> QED
        BY <1>2, <4>1
    <3>2. Closed(n)
      BY <2>2, <3>1
    <3> QED
      BY <2>1, <3>2
  <2>3. CASE ~Closed(n - 1)
    <3>1. W[n - 1] \subseteq W[n] /\ W[n - 1] # W[n]
      BY <1>2, <2>3
    <3>2. Cardinality(W[n - 1]) < Cardinality(W[n])
      BY <1>3, <2>1, <3>1, FS_Subset
    <3> QED
      BY <1>3, <1>5, <2>1, <2>3, <3>2
  <2> QED
    BY <2>2, <2>3
<1>6. C \in T
  <2> HIDE DEF T, C
  <2> QED
    BY <1>1, <1>4, <1>5, UpTo
<1>7. Cardinality(W[C]) <= C
  BY <1>1, <1>2, FS_Subset, FarmAssumption
<1>8. Closed(C)
  BY <1>1, <1>3, <1>6, <1>7
<1>9. from \in W[C]
  <2> DEFINE R == {n \in 0 .. C : from \in W[n]}
  <2>1. 0 \in R
    BY <1>1, <1>2
  <2>2. \A n \in 1 .. C : n - 1 \in R => n \in R
    BY <1>2
  <2> HIDE DEF R, C
  <2>3. C \in R
    BY <1>1, <2>1, <2>2, UpTo
  <2> QED
    BY <2>3 DEF R
<1> QED
  BY <1>1, <1>2, <1>8, <1>9 DEF Reachable, W

(* No number of listings leads out of what is reachable.                    *)
LEMMA WithinIsReachable ==
  ASSUME NEW from \in Webs, NEW n \in 0 .. Longest
  PROVE  Within(from)[n] \subseteq Reachable(from)
BY ReachableIsClosed, ClosedHolds

(* The children a visit appends: those not met before, one level deeper.    *)
LEMMA FreshIs ==
  ASSUME NEW w \in Webs
  PROVE  /\ Fresh(w) \in Seq((Listed(w) \ seen) \X {Depth + 1})
         /\ \A c \in Listed(w) \ seen :
               \E k \in 1 .. Len(Fresh(w)) : Fresh(w)[k] = <<c, Depth + 1>>
<1> DEFINE D == Depth + 1
           n == Len(Children[w])
           V == Seq((Listed(w) \ seen) \X {D})
           new(i) == /\ Children[w][i] \notin seen
                     /\ \A j \in 1 .. i - 1 : Children[w][j] # Children[w][i]
           Step(i, s) == IF new(i) THEN Append(s, <<Children[w][i], D>>) ELSE s
           F == [i \in 1 .. n |-> [s \in V |-> Step(i, s)]]
           Keep[i \in 0 .. Len(Children[w])] ==
              IF i = 0 THEN <<>>
              ELSE IF new(i) THEN Append(Keep[i - 1], <<Children[w][i], Depth + 1>>)
              ELSE Keep[i - 1]
<1>1. Fresh(w) = Keep[n]
  BY DEF Fresh
<1>2. n \in Nat /\ \A i \in 1 .. n : Children[w][i] \in Listed(w)
  <2>1. Children[w] \in Seq(Webs)
    BY FarmAssumption
  <2> QED
    BY <2>1 DEF Listed
<1>3. <<>> \in V
  BY EmptySeq
<1> HIDE DEF D
<1>4. \A i \in 1 .. n : \A s \in V :
         /\ Step(i, s) \in V
         /\ Len(s) \in Nat /\ Len(Step(i, s)) \in Nat /\ Len(s) <= Len(Step(i, s))
         /\ \A k \in 1 .. Len(s) : Step(i, s)[k] = s[k]
         /\ new(i) => Len(Step(i, s)) = Len(s) + 1
         /\ new(i) => Step(i, s)[Len(s) + 1] = <<Children[w][i], D>>
  <2> SUFFICES ASSUME NEW i \in 1 .. n, NEW s \in V
               PROVE  /\ Step(i, s) \in V
                      /\ Len(s) \in Nat /\ Len(Step(i, s)) \in Nat /\ Len(s) <= Len(Step(i, s))
                      /\ \A k \in 1 .. Len(s) : Step(i, s)[k] = s[k]
                      /\ new(i) => Len(Step(i, s)) = Len(s) + 1
                      /\ new(i) => Step(i, s)[Len(s) + 1] = <<Children[w][i], D>>
    OBVIOUS
  <2>1. Len(s) \in Nat
    OBVIOUS
  <2>2. CASE new(i)
    <3>1. <<Children[w][i], D>> \in (Listed(w) \ seen) \X {D}
      BY <1>2, <2>2
    <3> DEFINE e == <<Children[w][i], D>>
               E == (Listed(w) \ seen) \X {D}
    <3>2. e \in E /\ s \in Seq(E)
      BY <3>1
    <3> HIDE DEF e, E
    <3>3. /\ Append(s, e) \in Seq(E)
          /\ Len(Append(s, e)) = Len(s) + 1
          /\ \A k \in 1 .. Len(s) : Append(s, e)[k] = s[k]
          /\ Append(s, e)[Len(s) + 1] = e
      BY <3>2
    <3> QED
      BY <2>1, <2>2, <3>3 DEF e, E
  <2>3. CASE ~new(i)
    BY <2>1, <2>3
  <2> QED
    BY <2>2, <2>3
<1>5. F \in [1 .. n -> [V -> V]]
  <2> HIDE DEF V, Step
  <2> QED
    BY <1>4
<1>6. PICK f : Follows(f, n, V, <<>>, F)
  <2> HIDE DEF F, V, n
  <2> QED
    BY <1>2, <1>3, <1>5, Recursion, Zenon
<1>7. f = [i \in 0 .. n |->
              IF i = 0 THEN <<>>
              ELSE IF new(i) THEN Append(f[i - 1], <<Children[w][i], D>>)
              ELSE f[i - 1]]
  <2>1. f \in [0 .. n -> V] /\ f[0] = <<>> /\ \A i \in 1 .. n : f[i] = F[i][f[i - 1]]
    BY <1>6 DEF Follows
  <2>2. \A i \in 1 .. n : f[i - 1] \in V
    <3> HIDE DEF V
    <3> QED
      BY <1>2, <2>1
  <2>3. \A i \in 1 .. n : f[i] = Step(i, f[i - 1])
    <3> HIDE DEF V, Step
    <3> QED
      BY <2>1, <2>2
  <2>4. \A i \in 0 .. n : i = 0 \/ i \in 1 .. n
    BY <1>2
  <2> HIDE DEF V, n
  <2> QED
    BY <2>1, <2>3, <2>4
<1>8. Keep = [i \in 0 .. n |->
              IF i = 0 THEN <<>>
              ELSE IF new(i) THEN Append(Keep[i - 1], <<Children[w][i], D>>)
              ELSE Keep[i - 1]]
  BY <1>7, Zenon DEF D
<1> HIDE DEF Keep, F
<1>9. Keep[0] = <<>> /\ \A i \in 1 .. n : Keep[i] = Step(i, Keep[i - 1])
  <2>1. 0 \in 0 .. n /\ \A i \in 1 .. n : i \in 0 .. n /\ i # 0
    BY <1>2
  <2> HIDE DEF n
  <2> QED
    BY <1>8, <2>1
<1> DEFINE Has(i) == \A j \in 1 .. i : Children[w][j] \notin seen =>
                        \E k \in 1 .. Len(Keep[i]) : Keep[i][k] = <<Children[w][j], D>>
           S == {i \in 0 .. n : Keep[i] \in V /\ Has(i)}
<1>10. 0 \in S
  <2> HIDE DEF V
  <2>1. Keep[0] \in V /\ Has(0)
    BY <1>3, <1>9
  <2>2. 0 \in 0 .. n
    BY <1>2
  <2> QED
    BY <2>1, <2>2
<1>11. ASSUME NEW i \in 1 .. n, i - 1 \in S PROVE i \in S
  <2> DEFINE s == Keep[i - 1]
  <2>1. s \in V /\ Has(i - 1)
    BY <1>11
  <2>2. Keep[i] = Step(i, s)
    BY <1>9
  <2> HIDE DEF V, Step, s, n
  <2>3. /\ Keep[i] \in V
        /\ Len(s) \in Nat /\ Len(Keep[i]) \in Nat /\ Len(s) <= Len(Keep[i])
        /\ \A k \in 1 .. Len(s) : Keep[i][k] = s[k]
        /\ new(i) => Len(Keep[i]) = Len(s) + 1 /\ Keep[i][Len(s) + 1] = <<Children[w][i], D>>
    BY <1>4, <2>1, <2>2
  <2>4. ASSUME NEW j \in 1 .. i - 1, Children[w][j] \notin seen
        PROVE  \E k \in 1 .. Len(Keep[i]) : Keep[i][k] = <<Children[w][j], D>>
    <3>1. PICK k \in 1 .. Len(s) : s[k] = <<Children[w][j], D>>
      BY <2>1, <2>4 DEF s
    <3> QED
      BY <2>3, <3>1
  <2>5. ASSUME Children[w][i] \notin seen
        PROVE  \E k \in 1 .. Len(Keep[i]) : Keep[i][k] = <<Children[w][i], D>>
    <3>1. CASE new(i)
      BY <2>3, <3>1
    <3>2. CASE ~new(i)
      <4>1. PICK j \in 1 .. i - 1 : Children[w][j] = Children[w][i]
        BY <2>5, <3>2
      <4>2. \E k \in 1 .. Len(Keep[i]) : Keep[i][k] = <<Children[w][j], D>>
        BY <2>4, <2>5, <4>1
      <4> QED
        BY <4>1, <4>2
    <3> QED
      BY <3>1, <3>2
  <2>6. Has(i)
    <3>1. \A j \in 1 .. i : j = i \/ j \in 1 .. i - 1
      BY <1>2 DEF n
    <3> QED
      BY <2>4, <2>5, <3>1
  <2>7. i \in 0 .. n
    BY <1>2 DEF n
  <2> QED
    BY <2>3, <2>6, <2>7
<1>12. \A i \in 0 .. n : i \in S
  <2> HIDE DEF S, n
  <2> QED
    BY <1>2, <1>10, <1>11, UpTo
<1>13. Keep[n] \in V /\ Has(n)
  <2>1. n \in S
    <3> HIDE DEF S, n
    <3> QED
      BY <1>2, <1>12
  <2> QED
    BY <2>1
<1>14. ASSUME NEW c \in Listed(w) \ seen
       PROVE  \E k \in 1 .. Len(Keep[n]) : Keep[n][k] = <<c, D>>
  <2>1. PICK j \in 1 .. n : Children[w][j] = c
    <3>1. Children[w] \in Seq(Webs)
      BY FarmAssumption
    <3> QED
      BY <3>1 DEF Listed
  <2> QED
    BY <1>13, <2>1
<1> QED
  BY <1>1, <1>13, <1>14 DEF D

-----------------------------------------------------------------------------
(* A service names every list of its web, and nothing else.                 *)

Rank(m) == Cardinality({k \in Lists : k <= m})
Count == Cardinality(Lists)

(* The lists are numbered without gaps by how many are not above them.      *)
LEMMA RankIs ==
  /\ Count \in Nat
  /\ \A m \in Lists : Rank(m) \in 1 .. Count
  /\ \A l, m \in Lists : Rank(l) = Rank(m) => l = m
  /\ \A n \in 1 .. Count : \E m \in Lists : Rank(m) = n
<1> DEFINE Upto(m) == {k \in Lists : k <= m}
<1>1. Count \in Nat /\ IsFiniteSet(Lists) /\ Lists \subseteq Nat
  BY FS_CardinalityType, RunAssumption DEF Count
<1>2. ASSUME NEW m \in Lists
      PROVE  /\ IsFiniteSet(Upto(m)) /\ Rank(m) \in Nat
             /\ Rank(m) <= Count /\ Rank(m) # 0 /\ Upto(m) # {}
  <2> DEFINE U == Upto(m)
  <2>1. U \in SUBSET Lists /\ m \in U
    BY <1>1
  <2>2. Rank(m) = Cardinality(U)
    BY DEF Rank
  <2> HIDE DEF U
  <2>3. IsFiniteSet(U) /\ Cardinality(U) \in Nat /\ Cardinality(U) <= Count
    BY <1>1, <2>1, FS_Subset, FS_CardinalityType DEF Count
  <2>4. Cardinality(U) # 0
    BY <2>1, <2>3, FS_EmptySet
  <2> QED
    BY <2>1, <2>2, <2>3, <2>4 DEF U
<1>3. ASSUME NEW l \in Lists, NEW m \in Lists, l < m PROVE Rank(l) < Rank(m)
  <2> DEFINE T == Upto(l)
             U == Upto(m)
  <2>1. T \in SUBSET U /\ m \in U /\ m \notin T
    <3>1. l \in Nat /\ m \in Nat /\ \A k \in Lists : k \in Nat
      BY <1>1
    <3>2. \A k \in Lists : k <= l => k <= m
      BY <1>3, <3>1
    <3>3. m <= m /\ ~(m <= l)
      BY <1>3, <3>1
    <3> QED
      BY <3>2, <3>3
  <2>2. Rank(l) = Cardinality(T) /\ Rank(m) = Cardinality(U)
    BY DEF Rank
  <2>3. IsFiniteSet(U) /\ Rank(l) \in Nat /\ Rank(m) \in Nat
    BY <1>2
  <2> HIDE DEF T, U
  <2>4. Cardinality(T) <= Cardinality(U) /\ (Cardinality(U) = Cardinality(T) => U = T)
    BY <2>1, <2>3, FS_Subset
  <2> QED
    BY <2>1, <2>2, <2>3, <2>4
<1>4. \A l, m \in Lists : Rank(l) = Rank(m) => l = m
  <2> HIDE DEF Upto
  <2> SUFFICES ASSUME NEW l \in Lists, NEW m \in Lists, l # m PROVE Rank(l) # Rank(m)
    OBVIOUS
  <2>1. l < m \/ m < l
    BY <1>1
  <2>2. Rank(l) < Rank(m) \/ Rank(m) < Rank(l)
    BY <1>3, <2>1
  <2>3. Rank(l) \in Nat /\ Rank(m) \in Nat
    BY <1>2
  <2> QED
    BY <2>2, <2>3
<1>5. \A m \in Lists : Rank(m) \in 1 .. Count
  <2> HIDE DEF Upto
  <2>1. \A m \in Lists : Rank(m) \in Nat /\ Rank(m) <= Count /\ Rank(m) # 0
    BY <1>2
  <2> QED
    BY <1>1, <2>1
<1> DEFINE f == [m \in Lists |-> Rank(m)]
<1>6. f \in Injection(Lists, 1 .. Count)
  <2>1. f \in [Lists -> 1 .. Count]
    BY <1>5
  <2>2. \A l, m \in Lists : f[l] = f[m] => l = m
    BY <1>4
  <2> HIDE DEF f
  <2> QED
    BY <2>1, <2>2 DEF Injection, IsInjective
<1>7. \A m \in Lists : f[m] = Rank(m)
  OBVIOUS
<1> HIDE DEF f
<1>8. IsFiniteSet(1 .. Count) /\ Cardinality(1 .. Count) = Count
  BY <1>1, FS_Interval
<1>9. f \in Surjection(Lists, 1 .. Count)
  BY <1>6, <1>8, FS_Injection DEF Count
<1>10. \A n \in 1 .. Count : \E m \in Lists : Rank(m) = n
  BY <1>7, <1>9 DEF Surjection
<1> QED
  BY <1>1, <1>4, <1>5, <1>10

(* The candidates of a web are the names of its lists.                      *)
LEMMA CandidatesAre ==
  ASSUME NEW w
  PROVE  /\ Candidates(w) \in Seq({NameOf(l) : l \in SiteLists(w)})
         /\ \A l \in SiteLists(w) :
               \E k \in 1 .. Len(Candidates(w)) : Candidates(w)[k] = NameOf(l)
<1> DEFINE Names == {NameOf(l) : l \in SiteLists(w)}
           V == Seq(Names)
           At(n) == CHOOSE m \in Lists : Cardinality({k \in Lists : k <= m}) = n
           Step(n, s) == IF WebOf[At(n)] = w THEN Append(s, NameOf(At(n))) ELSE s
           F == [n \in 1 .. Count |-> [s \in V |-> Step(n, s)]]
           Upto[n \in 0 .. Cardinality(Lists)] ==
              IF n = 0 THEN <<>>
              ELSE LET l == CHOOSE m \in Lists : Cardinality({k \in Lists : k <= m}) = n
                   IN  IF WebOf[l] = w THEN Append(Upto[n - 1], NameOf(l)) ELSE Upto[n - 1]
<1>1. Candidates(w) = Upto[Count]
  BY DEF Candidates, Count
<1>2. \A n \in 1 .. Count : At(n) \in Lists /\ Rank(At(n)) = n
  BY RankIs DEF Rank
<1>3. \A l \in Lists : Rank(l) \in 1 .. Count /\ At(Rank(l)) = l
  <2> SUFFICES ASSUME NEW l \in Lists PROVE Rank(l) \in 1 .. Count /\ At(Rank(l)) = l
    OBVIOUS
  <2> HIDE DEF At
  <2>1. Rank(l) \in 1 .. Count
    BY RankIs
  <2>2. At(Rank(l)) \in Lists /\ Rank(At(Rank(l))) = Rank(l)
    BY <1>2, <2>1
  <2> QED
    BY <2>1, <2>2, RankIs
<1>4. <<>> \in V
  BY EmptySeq
<1>5. \A n \in 1 .. Count : \A s \in V :
         /\ Step(n, s) \in V
         /\ Len(s) \in Nat /\ Len(Step(n, s)) \in Nat /\ Len(s) <= Len(Step(n, s))
         /\ \A k \in 1 .. Len(s) : Step(n, s)[k] = s[k]
         /\ WebOf[At(n)] = w =>
               Len(Step(n, s)) = Len(s) + 1 /\ Step(n, s)[Len(s) + 1] = NameOf(At(n))
  <2> HIDE DEF At, Names
  <2> SUFFICES ASSUME NEW n \in 1 .. Count, NEW s \in V
               PROVE  /\ Step(n, s) \in V
                      /\ Len(s) \in Nat /\ Len(Step(n, s)) \in Nat
                      /\ Len(s) <= Len(Step(n, s))
                      /\ \A k \in 1 .. Len(s) : Step(n, s)[k] = s[k]
                      /\ WebOf[At(n)] = w =>
                            /\ Len(Step(n, s)) = Len(s) + 1
                            /\ Step(n, s)[Len(s) + 1] = NameOf(At(n))
    OBVIOUS
  <2>1. Len(s) \in Nat
    OBVIOUS
  <2>2. CASE WebOf[At(n)] = w
    <3> DEFINE e == NameOf(At(n))
    <3>1. e \in Names
      BY <1>2, <2>2 DEF Names, SiteLists
    <3> HIDE DEF e
    <3>2. /\ Append(s, e) \in Seq(Names)
          /\ Len(Append(s, e)) = Len(s) + 1
          /\ \A k \in 1 .. Len(s) : Append(s, e)[k] = s[k]
          /\ Append(s, e)[Len(s) + 1] = e
      BY <3>1
    <3> QED
      BY <2>1, <2>2, <3>2 DEF e
  <2>3. CASE WebOf[At(n)] # w
    BY <2>1, <2>3
  <2> QED
    BY <2>2, <2>3
<1>6. F \in [1 .. Count -> [V -> V]]
  <2> HIDE DEF V, Step
  <2> QED
    BY <1>5
<1>7. PICK f : Follows(f, Count, V, <<>>, F)
  <2> HIDE DEF F, V
  <2> QED
    BY <1>4, <1>6, RankIs, Recursion, Zenon
<1>8. f = [n \in 0 .. Count |->
              IF n = 0 THEN <<>>
              ELSE IF WebOf[At(n)] = w THEN Append(f[n - 1], NameOf(At(n))) ELSE f[n - 1]]
  <2>1. f \in [0 .. Count -> V] /\ f[0] = <<>> /\ \A n \in 1 .. Count : f[n] = F[n][f[n - 1]]
    BY <1>7 DEF Follows
  <2>2. \A n \in 1 .. Count : f[n - 1] \in V
    <3> HIDE DEF V
    <3> QED
      BY <2>1, RankIs
  <2>3. \A n \in 1 .. Count : f[n] = Step(n, f[n - 1])
    <3> HIDE DEF V, Step
    <3> QED
      BY <2>1, <2>2
  <2>4. \A n \in 0 .. Count : n = 0 \/ n \in 1 .. Count
    BY RankIs
  <2> HIDE DEF V, At
  <2> QED
    BY <2>1, <2>3, <2>4
<1>9. Upto = [n \in 0 .. Count |->
              IF n = 0 THEN <<>>
              ELSE IF WebOf[At(n)] = w THEN Append(Upto[n - 1], NameOf(At(n)))
              ELSE Upto[n - 1]]
  BY <1>8, Zenon DEF Count
<1> HIDE DEF Upto, F, At
<1>10. Upto[0] = <<>> /\ \A n \in 1 .. Count : Upto[n] = Step(n, Upto[n - 1])
  <2>1. 0 \in 0 .. Count /\ \A n \in 1 .. Count : n \in 0 .. Count /\ n # 0
    BY RankIs
  <2> QED
    BY <1>9, <2>1
<1> DEFINE Has(n) == \A l \in SiteLists(w) : Rank(l) <= n =>
                        \E k \in 1 .. Len(Upto[n]) : Upto[n][k] = NameOf(l)
           S == {n \in 0 .. Count : Upto[n] \in V /\ Has(n)}
<1>11. 0 \in S
  <2> HIDE DEF V
  <2>1. \A l \in SiteLists(w) : Rank(l) \in 1 .. Count
    BY <1>3 DEF SiteLists
  <2>2. Upto[0] \in V /\ Has(0)
    BY <1>4, <1>10, <2>1
  <2>3. 0 \in 0 .. Count
    BY RankIs
  <2> QED
    BY <2>2, <2>3
<1>12. ASSUME NEW n \in 1 .. Count, n - 1 \in S PROVE n \in S
  <2> DEFINE s == Upto[n - 1]
  <2>1. s \in V /\ Has(n - 1)
    BY <1>12
  <2>2. Upto[n] = Step(n, s)
    BY <1>10
  <2> HIDE DEF V, Step, s
  <2>3. /\ Upto[n] \in V
        /\ Len(s) \in Nat /\ Len(Upto[n]) \in Nat /\ Len(s) <= Len(Upto[n])
        /\ \A k \in 1 .. Len(s) : Upto[n][k] = s[k]
        /\ WebOf[At(n)] = w =>
              Len(Upto[n]) = Len(s) + 1 /\ Upto[n][Len(s) + 1] = NameOf(At(n))
    BY <1>5, <2>1, <2>2
  <2>4. ASSUME NEW l \in SiteLists(w), Rank(l) <= n
        PROVE  \E k \in 1 .. Len(Upto[n]) : Upto[n][k] = NameOf(l)
    <3>1. l \in Lists /\ WebOf[l] = w /\ Rank(l) \in 1 .. Count /\ At(Rank(l)) = l
      BY <1>3 DEF SiteLists
    <3>2. CASE Rank(l) = n
      <4>1. Upto[n][Len(s) + 1] = NameOf(l) /\ Len(Upto[n]) = Len(s) + 1
        BY <2>3, <3>1, <3>2
      <4>2. Len(s) + 1 \in 1 .. Len(Upto[n])
        BY <2>3, <4>1
      <4> QED
        BY <4>1, <4>2
    <3>3. CASE Rank(l) # n
      <4>1. Rank(l) <= n - 1
        BY <2>4, <3>1, <3>3
      <4>2. PICK k \in 1 .. Len(s) : s[k] = NameOf(l)
        BY <2>1, <4>1 DEF s
      <4>3. k \in 1 .. Len(Upto[n]) /\ Upto[n][k] = NameOf(l)
        BY <2>3, <4>2
      <4> QED
        BY <4>3
    <3> QED
      BY <3>2, <3>3
  <2>5. n \in 0 .. Count
    BY RankIs
  <2> QED
    BY <2>3, <2>4, <2>5
<1>13. \A n \in 0 .. Count : n \in S
  <2> HIDE DEF S
  <2> QED
    BY <1>11, <1>12, RankIs, UpTo
<1>14. Upto[Count] \in V /\ Has(Count)
  <2>1. Count \in S
    <3> HIDE DEF S
    <3> QED
      BY <1>13, RankIs
  <2> QED
    BY <2>1
<1>15. \A l \in SiteLists(w) : Rank(l) <= Count
  BY <1>3, RankIs DEF SiteLists
<1> QED
  BY <1>1, <1>14, <1>15

(* What the REST backend reads a list from: a collection of its web, and    *)
(* its own where the titles and names can be told apart.                    *)
LEMMA SourceIs ==
  ASSUME NEW l \in Lists
  PROVE  LET chosen == EntitySetFor(Title[l], Candidates(WebOf[l]))
         IN  /\ chosen \in Sets
             /\ Distinguishable(l) => chosen \in {NoSet, NameOf(l)}
<1> DEFINE w == WebOf[l]
           c == Candidates(w)
           t == Title[l]
           exact == Matching(t, c, FALSE)
           ascii == Matching(t, c, TRUE)
           chosen == EntitySetFor(t, c)
<1>1. l \in SiteLists(w)
  BY DEF SiteLists
<1> HIDE DEF w
<1>2. /\ Len(c) \in Nat /\ DOMAIN c = 1 .. Len(c)
      /\ \A k \in 1 .. Len(c) : \E m \in SiteLists(w) : c[k] = NameOf(m)
      /\ \E k \in 1 .. Len(c) : c[k] = NameOf(l)
  <2> DEFINE Names == {NameOf(m) : m \in SiteLists(w)}
  <2>1. c \in Seq(Names) /\ \E k \in 1 .. Len(c) : c[k] = NameOf(l)
    BY <1>1, CandidatesAre
  <2> HIDE DEF c, Names
  <2>2. Len(c) \in Nat /\ DOMAIN c = 1 .. Len(c) /\ \A k \in 1 .. Len(c) : c[k] \in Names
    BY <2>1
  <2> QED
    BY <2>1, <2>2 DEF Names
<1> HIDE DEF c, t
<1>3. /\ exact = {k \in 1 .. Len(c) : c[k].uni = t.uni}
      /\ ascii = {k \in 1 .. Len(c) : c[k].ascii = t.ascii}
  BY <1>2 DEF Matching, Folded
<1> HIDE DEF exact, ascii
<1>4. /\ exact # {} => FirstOf(exact) \in exact
      /\ ascii # {} => FirstOf(ascii) \in ascii
  <2>1. exact \in SUBSET Nat /\ ascii \in SUBSET Nat
    BY <1>3
  <2>2. exact # {} => \E x \in exact : \A y \in exact : x <= y
    BY <2>1, LeastNumber
  <2>3. ascii # {} => \E x \in ascii : \A y \in ascii : x <= y
    BY <2>1, LeastNumber
  <2> QED
    BY <2>2, <2>3 DEF FirstOf
<1>5. chosen = IF exact # {} THEN c[FirstOf(exact)]
               ELSE IF ascii # {} THEN c[FirstOf(ascii)] ELSE NoSet
  BY DEF EntitySetFor, exact, ascii
<1> HIDE DEF chosen
<1>6. chosen \in Sets
  <2>1. \A m \in SiteLists(w) : NameOf(m) \in Sets
    BY DEF Sets, SiteLists
  <2>2. NoSet \in Sets
    BY DEF Sets
  <2>3. \A k \in 1 .. Len(c) : c[k] \in Sets
    BY <1>2, <2>1
  <2> QED
    BY <1>3, <1>4, <1>5, <2>2, <2>3
<1>7. ASSUME Distinguishable(l) PROVE chosen \in {NoSet, NameOf(l)}
  <2> DEFINE own == NameOf(l)
  <2>1. /\ \A m \in SiteLists(w) \ {l} : NameOf(m).uni # t.uni
        /\ own.uni = t.uni \/ \A m \in SiteLists(w) \ {l} : NameOf(m).ascii # t.ascii
    BY <1>7 DEF Distinguishable, w, t
  <2> HIDE DEF own
  <2>2. \A k \in 1 .. Len(c) :
           c[k] = own \/ \E m \in SiteLists(w) \ {l} : c[k] = NameOf(m)
    BY <1>2 DEF own
  <2>3. CASE exact # {}
    <3>1. FirstOf(exact) \in 1 .. Len(c) /\ c[FirstOf(exact)].uni = t.uni
      BY <1>3, <1>4, <2>3
    <3> QED
      BY <1>5, <2>1, <2>2, <2>3, <3>1 DEF own
  <2>4. CASE exact = {} /\ ascii # {}
    <3>1. FirstOf(ascii) \in 1 .. Len(c) /\ c[FirstOf(ascii)].ascii = t.ascii
      BY <1>3, <1>4, <2>4
    <3>2. own.uni # t.uni
      BY <1>2, <1>3, <2>4 DEF own
    <3> QED
      BY <1>5, <2>1, <2>2, <2>4, <3>1, <3>2 DEF own
  <2>5. CASE exact = {} /\ ascii = {}
    BY <1>5, <2>5
  <2> QED
    BY <2>3, <2>4, <2>5
<1> QED
  BY <1>6, <1>7 DEF chosen, c, t, w

-----------------------------------------------------------------------------
(* The walk keeps its invariants.                                           *)

(* The queue and the web at its head.                                       *)
LEMMA QueueIs ==
  ASSUME WalkTypeOK, queue # <<>>
  PROVE  /\ Len(queue) \in Nat \ {0}
         /\ Here = queue[1][1] /\ Depth = queue[1][2]
         /\ Here \in Webs /\ Depth \in 0 .. MaxDepth
         /\ \A k \in 1 .. Len(queue) : queue[k][1] \in Webs /\ queue[k][2] \in 0 .. MaxDepth
         /\ Tail(queue) \in Seq(Webs \X (0 .. MaxDepth))
         /\ Len(Tail(queue)) = Len(queue) - 1
         /\ \A k \in 1 .. Len(queue) - 1 : Tail(queue)[k] = queue[k + 1]
<1> DEFINE E == Webs \X (0 .. MaxDepth)
<1>1. queue \in Seq(E)
  BY DEF WalkTypeOK
<1> HIDE DEF E
<1>2. /\ Len(queue) \in Nat \ {0}
      /\ Head(queue) = queue[1]
      /\ \A k \in 1 .. Len(queue) : queue[k] \in E
  BY <1>1
<1>3. /\ Tail(queue) \in Seq(E)
      /\ Len(Tail(queue)) = Len(queue) - 1
      /\ \A k \in 1 .. Len(queue) - 1 : Tail(queue)[k] = queue[k + 1]
  BY <1>1, HeadTailProperties
<1>4. 1 \in 1 .. Len(queue)
  BY <1>2
<1>5. \A k \in 1 .. Len(queue) : queue[k][1] \in Webs /\ queue[k][2] \in 0 .. MaxDepth
  BY <1>2 DEF E
<1> QED
  BY <1>2, <1>3, <1>4, <1>5 DEF Here, Depth, E

(* One web leaves the queue, and those first met are put behind the others. *)
Onward(new) ==
    /\ new \in Seq(Webs \X {Depth + 1})
    /\ queue' = Tail(queue) \o new
    /\ seen \subseteq seen' /\ seen' \subseteq titled' \cup {Root}
    /\ unreadable \subseteq unreadable' /\ stopped \subseteq stopped'
    /\ \A k \in 1 .. Len(new) : new[k][1] \in seen' \ seen
    /\ \A c \in seen' \ seen : \E k \in 1 .. Len(new) : new[k][1] = c
    /\ Here \in Warned' \/ Listed(Here) \subseteq seen'
    /\ Depth < MaxDepth => stopped' = stopped

LEMMA BreadthFirst ==
  ASSUME WalkTypeOK, VisitInv, LevelInv, queue # <<>>, WalkTypeOK', NEW new, Onward(new)
  PROVE  VisitInv' /\ LevelInv'
<1> DEFINE L == Len(queue)
           M == Len(queue')
           d == Depth
           d1 == queue'[1][2]
<1>1. /\ L \in Nat \ {0} /\ d \in Nat /\ d <= MaxDepth /\ MaxDepth \in Nat
      /\ Here = queue[1][1] /\ d = queue[1][2]
      /\ \A k \in 1 .. L : queue[k][2] \in Nat
      /\ Len(new) \in Nat
      /\ \A k \in 1 .. Len(new) : new[k][2] = d + 1
  <2>1. new \in Seq(Webs \X {Depth + 1})
    BY DEF Onward
  <2>2. Len(new) \in Nat /\ \A k \in 1 .. Len(new) : new[k] \in Webs \X {Depth + 1}
    BY <2>1
  <2> QED
    BY <2>2, QueueIs, Sizes
<1>2. /\ M = L - 1 + Len(new)
      /\ \A k \in 1 .. M : queue'[k] = IF k <= L - 1 THEN queue[k + 1] ELSE new[k - (L - 1)]
  <2> DEFINE E == Webs \X Nat
             t == Tail(queue)
  <2>1. new \in Seq(E)
    <3>1. Webs \X {Depth + 1} \subseteq E
      BY <1>1
    <3>2. new \in Seq(Webs \X {Depth + 1})
      BY DEF Onward
    <3> QED
      BY <3>1, <3>2, SeqMonotonic
  <2>2. t \in Seq(E)
    <3>1. Webs \X (0 .. MaxDepth) \subseteq E
      OBVIOUS
    <3> QED
      BY <3>1, QueueIs, SeqMonotonic
  <2>3. Len(t) = L - 1 /\ \A k \in 1 .. L - 1 : t[k] = queue[k + 1]
    BY QueueIs
  <2> HIDE DEF t, E
  <2>4. /\ Len(t \o new) = Len(t) + Len(new)
        /\ \A k \in 1 .. Len(t) + Len(new) :
              (t \o new)[k] = IF k <= Len(t) THEN t[k] ELSE new[k - Len(t)]
    BY <2>1, <2>2, ConcatProperties
  <2>5. queue' = t \o new
    BY DEF t, Onward
  <2> QED
    BY <1>1, <2>3, <2>4, <2>5
<1> DEFINE N == Len(new)
<1> HIDE DEF L, M, N, d
<1>a. L \in Nat \ {0} /\ N \in Nat /\ M = L - 1 + N /\ M \in Nat /\ d \in Nat
  BY <1>1, <1>2 DEF N
<1>b. \A k \in 1 .. M :
         \/ k <= L - 1 /\ k + 1 \in 2 .. L /\ k + 1 \in 1 .. L
         \/ ~(k <= L - 1) /\ k - (L - 1) \in 1 .. N
  BY <1>a
<1>3. ASSUME NEW k \in 1 .. M
      PROVE  \/ /\ k <= L - 1 /\ k + 1 \in 2 .. L /\ k + 1 \in 1 .. L
                /\ queue'[k] = queue[k + 1]
             \/ /\ ~(k <= L - 1) /\ k - (L - 1) \in 1 .. Len(new)
                /\ queue'[k] = new[k - (L - 1)] /\ queue'[k][2] = d + 1
  <2>1. CASE k <= L - 1
    <3>1. k + 1 \in 2 .. L /\ k + 1 \in 1 .. L
      BY <1>b, <2>1
    <3>2. queue'[k] = queue[k + 1]
      BY <1>2, <2>1
    <3> QED
      BY <2>1, <3>1, <3>2
  <2>2. CASE ~(k <= L - 1)
    <3>1. k - (L - 1) \in 1 .. Len(new)
      BY <1>b, <2>2 DEF N
    <3>2. queue'[k] = new[k - (L - 1)]
      BY <1>2, <2>2
    <3>3. new[k - (L - 1)][2] = d + 1
      BY <1>1, <3>1
    <3> QED
      BY <2>2, <3>1, <3>2, <3>3
  <2> QED
    BY <2>1, <2>2
<1>4. ASSUME NEW j \in 1 .. L, NEW k \in 1 .. L, j <= k
      PROVE  queue[j][2] <= queue[k][2] /\ queue[k][2] <= queue[j][2] + 1
  BY <1>4 DEF LevelInv, L
<1>5. \A k \in 1 .. L : queue[k][2] \in {d, d + 1}
  <2> SUFFICES ASSUME NEW k \in 1 .. L PROVE queue[k][2] \in {d, d + 1}
    OBVIOUS
  <2>1. 1 \in 1 .. L /\ 1 <= k
    BY <1>a
  <2>2. queue[1][2] <= queue[k][2] /\ queue[k][2] <= queue[1][2] + 1
    BY <1>4, <2>1
  <2>3. queue[1][2] = d /\ queue[k][2] \in Nat
    BY <1>1
  <2> QED
    BY <1>a, <2>2, <2>3
<1>6. \A k \in 1 .. M : queue'[k][2] \in {d, d + 1}
  <2> SUFFICES ASSUME NEW k \in 1 .. M PROVE queue'[k][2] \in {d, d + 1}
    OBVIOUS
  <2>1. CASE k + 1 \in 1 .. L /\ queue'[k] = queue[k + 1]
    BY <1>5, <2>1
  <2>2. CASE queue'[k][2] = d + 1
    BY <2>2
  <2> QED
    BY <1>3, <2>1, <2>2
<1>7. \A j, k \in 1 .. M : j <= k =>
         queue'[j][2] <= queue'[k][2] /\ queue'[k][2] <= queue'[j][2] + 1
  <2> SUFFICES ASSUME NEW j \in 1 .. M, NEW k \in 1 .. M, j <= k
               PROVE  queue'[j][2] <= queue'[k][2] /\ queue'[k][2] <= queue'[j][2] + 1
    OBVIOUS
  <2>1. CASE k <= L - 1
    <3>1. j + 1 \in 1 .. L /\ k + 1 \in 1 .. L /\ j + 1 <= k + 1 /\ j <= L - 1
      BY <1>a, <2>1
    <3>2. queue'[j] = queue[j + 1] /\ queue'[k] = queue[k + 1]
      BY <1>2, <2>1, <3>1
    <3> QED
      BY <1>4, <3>1, <3>2
  <2>2. CASE ~(k <= L - 1)
    <3>1. queue'[k][2] = d + 1
      BY <1>3, <2>2
    <3>2. queue'[j][2] \in {d, d + 1}
      BY <1>6
    <3> QED
      BY <1>a, <3>1, <3>2
  <2> QED
    BY <2>1, <2>2
<1>8. /\ queue' = <<>> <=> M = 0
      /\ M \in Nat
      /\ queue' # <<>> => Depth' = d1 /\ d1 \in {d, d + 1} /\ d1 <= MaxDepth /\ 1 \in 1 .. M
  <2> DEFINE E == Webs \X (0 .. MaxDepth)
  <2>1. queue' \in Seq(E)
    BY DEF WalkTypeOK
  <2>2. M \in Nat /\ (queue' = <<>> <=> M = 0)
    <3> DEFINE q == queue'
    <3>1. q \in Seq(E)
      BY <2>1
    <3> HIDE DEF E, q
    <3>2. Len(q) \in Nat /\ (q # <<>> => Len(q) \in Nat \ {0}) /\ Len(<<>>) = 0
      BY <3>1, EmptySeq
    <3> QED
      BY <3>2 DEF q, M
  <2>3. ASSUME M # 0 PROVE Depth' = d1 /\ d1 \in 0 .. MaxDepth /\ 1 \in 1 .. M
    <3>1. Head(queue') = queue'[1] /\ queue'[1] \in E /\ 1 \in 1 .. M
      BY <2>1, <2>2, <2>3 DEF M
    <3> QED
      BY <3>1 DEF Depth
  <2> QED
    BY <1>6, <2>2, <2>3
<1>9. seen # {} /\ Root \in seen /\ Warned \subseteq Warned'
  BY DEF VisitInv, Warned, Onward
<1>10. ASSUME NEW w \in seen'
       PROVE  w \in Queued' \/ w \in Warned' \/ Listed(w) \subseteq seen'
  <2>1. CASE w \in Queued
    <3>1. PICK k \in 1 .. L : queue[k][1] = w
      BY <2>1 DEF Queued, L
    <3>2. CASE k = 1
      BY <1>1, <3>1, <3>2 DEF Onward
    <3>3. CASE k # 1
      <4>1. k - 1 \in 1 .. M /\ k - 1 <= L - 1
        BY <1>a, <3>3
      <4>2. queue'[k - 1] = queue[k - 1 + 1] /\ k - 1 + 1 = k
        BY <1>2, <4>1
      <4> QED
        BY <3>1, <4>1, <4>2 DEF Queued, M
    <3> QED
      BY <3>2, <3>3
  <2>2. CASE w \in seen /\ w \notin Queued
    BY <1>9, <2>2 DEF VisitInv, Onward
  <2>3. CASE w \notin seen
    <3>1. PICK k \in 1 .. N : new[k][1] = w
      BY <1>10, <2>3 DEF N, Onward
    <3>2. L - 1 + k \in 1 .. M /\ ~(L - 1 + k <= L - 1) /\ L - 1 + k - (L - 1) = k
      BY <1>a
    <3> DEFINE m == L - 1 + k
    <3>3. queue'[m] = new[k]
      <4>1. m \in 1 .. M /\ ~(m <= L - 1) /\ m - (L - 1) = k
        BY <1>a
      <4> HIDE DEF m
      <4> QED
        BY <1>2, <4>1
    <3> QED
      BY <3>1, <3>2, <3>3 DEF Queued, M
  <2> QED
    BY <2>1, <2>2, <2>3
<1>11. VisitInv'
  <2>1. ASSUME NEW k \in 1 .. M PROVE queue'[k][1] \in seen'
    <3>1. \A j \in 1 .. L : queue[j][1] \in seen
      BY DEF VisitInv, Queued, L
    <3> QED
      BY <1>3, <3>1 DEF Onward
  <2>2. Queued' \subseteq seen'
    BY <2>1 DEF Queued, M
  <2> QED
    BY <1>9, <1>10, <2>2 DEF VisitInv, Onward
<1> DEFINE W(n) == Within(Root)[n]
           Found == seen' \cup Below'
<1>12. /\ Below \subseteq Below' /\ unreadable' \subseteq Below'
       /\ \A w \in Below' : Listed(w) \subseteq Below'
  <2>1. Below \subseteq Below'
    BY DEF Below, Onward
  <2>2. unreadable' \subseteq Webs
    BY DEF WalkTypeOK
  <2>3. \A v \in unreadable' :
           /\ v \in Reachable(v) /\ Reachable(v) \subseteq Webs
           /\ \A w \in Reachable(v) : Listed(w) \subseteq Reachable(v)
    BY <2>2, ReachableIsClosed
  <2> QED
    BY <2>1, <2>2, <2>3, Sizes DEF Below
<1>13. d < MaxDepth => stopped = {} /\ stopped' = {}
  BY DEF LevelInv, d, Onward
(* A web found and not queued any more has its children found, as long as   *)
(* the limit has stopped the walk nowhere.                                  *)
<1>14. ASSUME d < MaxDepth, NEW y \in Found, y \in Queued' => y \in Below'
       PROVE  Listed(y) \subseteq Found
  <2>1. CASE y \in Below'
    BY <1>12, <2>1
  <2>2. CASE y \in seen' /\ y \notin Queued'
    <3>1. y \in Warned' => y \in unreadable'
      BY <1>13, <1>14 DEF Warned
    <3> QED
      BY <1>10, <1>12, <2>2, <3>1
  <2> QED
    BY <1>14, <2>1, <2>2
<1>15. /\ W(d) \subseteq seen \cup Below
       /\ \A k \in 1 .. L : queue[k][2] > d /\ queue[k][1] \in W(d) => queue[k][1] \in Below
  BY DEF LevelInv, L, d
<1>16. W(d) \subseteq Found
  BY <1>12, <1>15 DEF Onward
(* What is queued on the next level and is no farther than this one lies    *)
(* below a web that was not enumerated.                                     *)
<1>17. \A k \in 1 .. M : queue'[k][2] = d + 1 /\ queue'[k][1] \in W(d) => queue'[k][1] \in Below'
  <2> SUFFICES ASSUME NEW k \in 1 .. M, queue'[k][2] = d + 1, queue'[k][1] \in W(d)
               PROVE  queue'[k][1] \in Below'
    OBVIOUS
  <2> HIDE DEF W
  <2>1. CASE k + 1 \in 1 .. L /\ queue'[k] = queue[k + 1]
    <3>1. queue[k + 1][2] > d
      BY <1>a, <2>1
    <3> QED
      BY <1>12, <1>15, <2>1, <3>1
  <2>2. CASE k - (L - 1) \in 1 .. Len(new) /\ queue'[k] = new[k - (L - 1)]
    <3>1. queue'[k][1] \notin seen
      BY <2>2 DEF Onward
    <3> QED
      BY <1>12, <1>15, <3>1
  <2> QED
    BY <1>3, <2>1, <2>2
<1>18. ASSUME queue' # <<>>
       PROVE  /\ W(d1) \subseteq Found
              /\ \A k \in 1 .. M : queue'[k][2] > d1 /\ queue'[k][1] \in W(d1) =>
                    queue'[k][1] \in Below'
              /\ d1 < MaxDepth => stopped' = {}
  <2>1. d1 \in {d, d + 1} /\ d1 <= MaxDepth /\ 1 \in 1 .. M
    BY <1>8, <1>18
  <2>2. CASE d1 = d
    <3>1. \A k \in 1 .. M : queue'[k][2] > d => queue'[k][2] = d + 1
      BY <1>a, <1>6
    <3> HIDE DEF W, Found, d1
    <3> QED
      BY <1>13, <1>16, <1>17, <2>2, <3>1
  <2>3. CASE d1 = d + 1
    <3>1. \A k \in 1 .. M : queue'[k][2] = d + 1
      <4> SUFFICES ASSUME NEW k \in 1 .. M PROVE queue'[k][2] = d + 1
        OBVIOUS
      <4>1. 1 <= k
        OBVIOUS
      <4>2. d + 1 <= queue'[k][2] /\ queue'[k][2] \in {d, d + 1}
        BY <1>6, <1>7, <2>1, <2>3, <4>1
      <4> QED
        BY <1>a, <4>2
    <3>2. d < MaxDepth
      BY <1>1, <2>1, <2>3
    <3>3. ASSUME NEW y \in W(d) PROVE Listed(y) \subseteq Found
      <4>1. y \in Queued' => y \in Below'
        BY <1>17, <3>1 DEF Queued, M
      <4> HIDE DEF W
      <4>2. y \in Found
        BY <1>16, <3>3
      <4> QED
        BY <1>14, <3>2, <4>1, <4>2
    <3>4. d + 1 \in 1 .. Longest /\ d + 1 - 1 = d
      BY <1>1, <3>2, Sizes DEF Longest
    <3>5. W(d + 1) = W(d) \cup UNION {Listed(y) : y \in W(d)}
      <4>1. \A n \in 1 .. Longest : W(n) = W(n - 1) \cup UNION {Listed(y) : y \in W(n - 1)}
        BY WithinIs, Sizes
      <4> DEFINE m == d + 1
      <4>2. m \in 1 .. Longest /\ m - 1 = d
        BY <1>a, <3>4
      <4> HIDE DEF m
      <4>3. W(m) = W(m - 1) \cup UNION {Listed(y) : y \in W(m - 1)}
        BY <4>1, <4>2
      <4>4. W(m) = W(d) \cup UNION {Listed(y) : y \in W(d)}
        BY <4>2, <4>3
      <4> QED
        BY <4>4 DEF m
    <3>6. W(d1) \subseteq Found
      <4> HIDE DEF W, Found
      <4> QED
        BY <1>16, <2>3, <3>3, <3>5
    <3>7. \A k \in 1 .. M : ~(queue'[k][2] > d1)
      BY <1>a, <2>3, <3>1
    <3> QED
      BY <1>13, <3>2, <3>6, <3>7
  <2> QED
    BY <2>1, <2>2, <2>3
<1>19. ASSUME queue' = <<>> PROVE W(MaxDepth) \subseteq Found
  <2>1. CASE d = MaxDepth
    <3> HIDE DEF W, Found
    <3> QED
      BY <1>16, <2>1
  <2>2. CASE d < MaxDepth
    <3>1. Queued' = {}
      BY <1>8, <1>a, <1>19 DEF Queued, M
    <3>2. \A y \in Found : Listed(y) \subseteq Found
      BY <1>14, <2>2, <3>1
    <3>3. Root \in Found /\ Root \in Webs
      BY <1>9, Sizes DEF Onward
    <3>4. MaxDepth \in 0 .. Longest
      BY Sizes DEF Longest
    <3> HIDE DEF Found
    <3> QED
      BY <3>2, <3>3, <3>4, ClosedHolds
  <2> QED
    BY <1>1, <2>1, <2>2
<1>20. LevelInv'
  <2>1. queue' # <<>> => Depth' = d1
    BY <1>8
  <2> HIDE DEF d1
  <2> QED
    BY <1>7, <1>18, <1>19, <2>1 DEF LevelInv, M
<1> QED
  BY <1>11, <1>20

LEMMA NothingQueued ==
  /\ queue = <<>> => Queued = {}
  /\ queue' = <<>> => Queued' = {}
<1>1. Len(<<>>) = 0 /\ 1 .. 0 = {}
  BY EmptySeq
<1> QED
  BY <1>1 DEF Queued

(* Before a command, and when a process is gone.                            *)
LEMMA NothingFound == NoDiscovery => WalkInv
<1> SUFFICES ASSUME NoDiscovery PROVE WalkInv
  OBVIOUS
<1>1. WalkTypeOK
  BY EmptySeq DEF NoDiscovery, WalkTypeOK
<1>2. VisitInv
  <2>1. Queued = {}
    BY NothingQueued DEF NoDiscovery
  <2> QED
    BY <2>1 DEF NoDiscovery, VisitInv
<1>3. LevelInv
  <2>1. queue = <<>> /\ seen = {} /\ Len(queue) = 0
    BY EmptySeq DEF NoDiscovery
  <2>2. 1 .. Len(queue) = {}
    BY <2>1
  <2> QED
    BY <2>1, <2>2 DEF LevelInv
<1> QED
  BY <1>1, <1>2, <1>3 DEF WalkInv

LEMMA WalkForgets == Forget \/ BeginRecursive => WalkInv'
<1> SUFFICES ASSUME Forget \/ BeginRecursive PROVE WalkInv'
  OBVIOUS
<1>1. /\ queue' = <<>> /\ seen' = {} /\ titled' = {} /\ unreadable' = {} /\ stopped' = {}
      /\ method' \in {"none", "GetAllSubWebCollection"}
  BY DEF Forget, BeginRecursive
<1>2. WalkTypeOK'
  BY <1>1, EmptySeq DEF WalkTypeOK
<1>3. VisitInv'
  <2>1. Queued' = {}
    BY <1>1, NothingQueued
  <2> QED
    BY <1>1, <2>1 DEF VisitInv
<1>4. LevelInv'
  <2>1. Len(queue') = 0
    BY <1>1, EmptySeq
  <2>2. 1 .. Len(queue') = {}
    BY <2>1
  <2> QED
    BY <1>1, <2>2 DEF LevelInv
<1> QED
  BY <1>2, <1>3, <1>4 DEF WalkInv

(* The root alone.                                                          *)
LEMMA WalkBegins == BeginWalk => WalkInv'
<1> SUFFICES ASSUME BeginWalk PROVE WalkInv'
  OBVIOUS
<1>1. /\ queue' = << <<Root, 0>> >> /\ seen' = {Root}
      /\ titled' = {} /\ unreadable' = {} /\ stopped' = {}
      /\ method' = "GetWebCollection"
  BY DEF BeginWalk
<1>2. /\ Len(queue') = 1 /\ queue'[1] = <<Root, 0>> /\ Head(queue') = <<Root, 0>>
      /\ \A k \in 1 .. Len(queue') : k = 1 /\ queue'[k][1] = Root /\ queue'[k][2] = 0
      /\ queue' # <<>>
  BY <1>1
<1>3. WalkTypeOK'
  <2>1. queue' \in Seq(Webs \X (0 .. MaxDepth))
    <3>1. <<Root, 0>> \in Webs \X (0 .. MaxDepth)
      BY Sizes
    <3> QED
      BY <1>1, <3>1
  <2> QED
    BY <1>1, <2>1, Sizes DEF WalkTypeOK
<1>4. VisitInv'
  <2>1. Queued' = {Root}
    BY <1>2 DEF Queued
  <2> QED
    BY <1>1, <2>1 DEF VisitInv
<1>5. LevelInv'
  <2>1. Depth' = 0
    BY <1>2 DEF Depth
  <2>2. Within(Root)[0] = {Root}
    BY WithinIs, Sizes
  <2> QED
    BY <1>1, <1>2, <2>1, <2>2 DEF LevelInv
<1> QED
  BY <1>3, <1>4, <1>5 DEF WalkInv

LEMMA WalkSame == WalkInv /\ UNCHANGED discovery => WalkInv'
BY DEF WalkInv, WalkTypeOK, VisitInv, LevelInv, discovery, Queued, Below, Warned, Depth

(* One recursive reply.                                                     *)
LEMMA AllFound ==
  ASSUME WalkInv, seen = {}, RecursiveReply
  PROVE  WalkInv'
<1>1. /\ queue = <<>> /\ unreadable = {} /\ stopped = {}
      /\ method \in {"none", "GetAllSubWebCollection", "GetWebCollection"}
  BY DEF WalkInv, WalkTypeOK, VisitInv
<1>2. /\ Root \in Reachable(Root) /\ Reachable(Root) \subseteq Webs
      /\ \A w \in Reachable(Root) : Listed(w) \subseteq Reachable(Root)
  BY Sizes, ReachableIsClosed
<1>3. /\ seen' = Reachable(Root) /\ titled' = Reachable(Root)
      /\ method' = method /\ queue' = <<>> /\ unreadable' = {} /\ stopped' = {}
  BY <1>1, <1>2 DEF RecursiveReply
<1>4. WalkTypeOK'
  BY <1>1, <1>2, <1>3, EmptySeq DEF WalkTypeOK
<1>5. VisitInv'
  <2>1. Queued' = {}
    BY <1>3, NothingQueued
  <2> QED
    BY <1>2, <1>3, <2>1 DEF VisitInv
<1>6. LevelInv'
  <2>1. Len(queue') = 0
    BY <1>3, EmptySeq
  <2>2. 1 .. Len(queue') = {}
    BY <2>1
  <2>3. Within(Root)[MaxDepth] \subseteq Reachable(Root)
    BY WithinIsReachable, Sizes DEF Longest
  <2> QED
    BY <1>3, <2>2, <2>3 DEF LevelInv
<1> QED
  BY <1>4, <1>5, <1>6 DEF WalkInv

(* One web of the walk, in each of the three ways it can go.                *)
LEMMA WalkOn ==
  ASSUME WalkInv, TooDeep \/ Visit \/ Unreadable
  PROVE  WalkInv'
<1>1. WalkTypeOK /\ VisitInv /\ LevelInv /\ queue # <<>>
  BY DEF WalkInv, TooDeep, Visit, Unreadable, Stop, Leave
<1>2. /\ Here \in Webs /\ Depth \in 0 .. MaxDepth /\ MaxDepth \in Nat
      /\ Listed(Here) \subseteq Webs
      /\ Tail(queue) \in Seq(Webs \X (0 .. MaxDepth))
  BY <1>1, QueueIs, Sizes
<1>3. Here \in seen
  <2>1. 1 \in 1 .. Len(queue) /\ Here = queue[1][1]
    BY <1>1, QueueIs
  <2> QED
    BY <1>1, <2>1 DEF VisitInv, Queued
<1>4. ASSUME TooDeep \/ Unreadable PROVE WalkInv'
  <2>1. /\ queue' = Tail(queue) /\ seen' = seen /\ titled' = titled /\ method' = method
        /\ \/ Depth >= MaxDepth /\ stopped' = stopped \cup {Here} /\ unreadable' = unreadable
           \/ stopped' = stopped /\ unreadable' = unreadable \cup {Here}
    BY <1>4 DEF TooDeep, Stop, Unreadable, Leave
  <2>2. WalkTypeOK'
    BY <1>1, <1>2, <1>3, <2>1 DEF WalkTypeOK
  <2>3. Onward(<<>>)
    <3>1. <<>> \in Seq(Webs \X {Depth + 1}) /\ Len(<<>>) = 0 /\ 1 .. 0 = {}
      BY EmptySeq
    <3>2. Tail(queue) \o <<>> = Tail(queue)
      BY <1>2, ConcatEmptySeq
    <3>3. seen \subseteq titled \cup {Root}
      BY <1>1 DEF VisitInv
    <3>4. Here \in Warned'
      BY <2>1 DEF Warned
    <3>5. Depth < MaxDepth => stopped' = stopped
      BY <1>2, <2>1
    <3> QED
      BY <2>1, <3>1, <3>2, <3>3, <3>4, <3>5 DEF Onward
  <2> QED
    BY <1>1, <2>2, <2>3, BreadthFirst DEF WalkInv
<1>5. ASSUME Visit PROVE WalkInv'
  <2> DEFINE new == Fresh(Here)
  <2>1. /\ Depth < MaxDepth
        /\ queue' = Tail(queue) \o new /\ seen' = seen \cup Listed(Here)
        /\ titled' = titled \cup Listed(Here)
        /\ method' = method /\ unreadable' = unreadable /\ stopped' = stopped
    BY <1>5 DEF Visit
  <2>2. /\ new \in Seq((Listed(Here) \ seen) \X {Depth + 1})
        /\ \A c \in Listed(Here) \ seen : \E k \in 1 .. Len(new) : new[k] = <<c, Depth + 1>>
    BY <1>2, FreshIs
  <2> HIDE DEF new
  <2>3. \A k \in 1 .. Len(new) : new[k] \in (Listed(Here) \ seen) \X {Depth + 1}
    BY <2>2, ElementOfSeq
  <2>4. new \in Seq(Webs \X {Depth + 1}) /\ new \in Seq(Webs \X (0 .. MaxDepth))
    <3>1. (Listed(Here) \ seen) \X {Depth + 1} \subseteq Webs \X {Depth + 1}
      BY <1>2
    <3>2. Depth + 1 \in 0 .. MaxDepth
      BY <1>2, <2>1
    <3>3. (Listed(Here) \ seen) \X {Depth + 1} \subseteq Webs \X (0 .. MaxDepth)
      BY <1>2, <3>2
    <3> QED
      BY <2>2, <3>1, <3>3, SeqMonotonic
  <2>5. queue' \in Seq(Webs \X (0 .. MaxDepth))
    BY <1>2, <2>1, <2>4, ConcatProperties
  <2>6. WalkTypeOK'
    BY <1>1, <1>2, <2>1, <2>5 DEF WalkTypeOK
  <2>7. Onward(new)
    <3>1. seen \subseteq titled \cup {Root}
      BY <1>1 DEF VisitInv
    <3>2. \A k \in 1 .. Len(new) : new[k][1] \in Listed(Here) \ seen
      BY <2>3
    <3>3. \A c \in Listed(Here) \ seen : \E k \in 1 .. Len(new) : new[k][1] = c
      BY <2>2
    <3> QED
      BY <2>1, <2>4, <3>1, <3>2, <3>3 DEF Onward
  <2> QED
    BY <1>1, <2>6, <2>7, BreadthFirst DEF WalkInv
<1> QED
  BY <1>4, <1>5

(* What the finished walk leaves out.                                       *)
LEMMA WalkExplains == WalkInv => OmissionsExplained
<1> SUFFICES ASSUME WalkInv, queue = <<>>, seen # {}
             PROVE  /\ \A w \in Reachable(Root) \ seen : \E v \in Warned : w \in Reachable(v)
                    /\ \A w \in Within(Root)[MaxDepth] \ seen :
                          \E v \in unreadable : w \in Reachable(v)
  BY DEF OmissionsExplained, MissingIsBelowWarned, WithinLimitFound
<1>1. WalkTypeOK /\ VisitInv /\ LevelInv
  BY DEF WalkInv
<1>2. \A w \in Within(Root)[MaxDepth] \ seen : \E v \in unreadable : w \in Reachable(v)
  BY <1>1 DEF LevelInv, Below
<1> DEFINE BelowWarned == {w \in Webs : \E v \in Warned : w \in Reachable(v)}
           S == seen \cup BelowWarned
<1>3. Warned \subseteq Webs /\ Root \in Webs
  BY <1>1, Sizes DEF WalkTypeOK, Warned
<1>4. \A v \in Warned :
         /\ v \in Reachable(v) /\ Reachable(v) \subseteq Webs
         /\ \A w \in Reachable(v) : Listed(w) \subseteq Reachable(v)
  BY <1>3, ReachableIsClosed
<1>5. ASSUME NEW w \in S PROVE Listed(w) \subseteq S
  <2>1. CASE w \in BelowWarned
    BY <1>4, <2>1
  <2>2. CASE w \in seen
    <3>1. w \in Warned \/ Listed(w) \subseteq seen
      BY <1>1, <2>2, NothingQueued DEF VisitInv
    <3>2. CASE w \in Warned
      BY <1>4, <3>2
    <3> QED
      BY <3>1, <3>2
  <2> QED
    BY <1>5, <2>1, <2>2
<1>6. Root \in S
  BY <1>1 DEF VisitInv
<1>7. Reachable(Root) \subseteq S
  <2>1. Cardinality(Webs) \in 0 .. Longest
    BY Sizes DEF Longest
  <2> HIDE DEF S
  <2> QED
    BY <1>3, <1>5, <1>6, <2>1, ClosedHolds DEF Reachable
<1> QED
  BY <1>2, <1>7

-----------------------------------------------------------------------------
(* What stays as it is while the settings do, and while the errors do.      *)

LEMMA SameNames ==
  ASSUME mangled' = mangled
  PROVE  /\ \A l \in Lists : NameOf(l)' = NameOf(l)
         /\ \A l \in Lists : Distinguishable(l)' <=> Distinguishable(l)
         /\ Sets' = Sets
<1>1. \A l \in Lists : NameOf(l)' = NameOf(l)
  BY DEF NameOf
<1>2. \A l \in Lists : Distinguishable(l)' <=> Distinguishable(l)
  BY <1>1 DEF Distinguishable, SiteLists
<1>3. Sets' = Sets
  BY <1>1 DEF Sets
<1> QED
  BY <1>1, <1>2, <1>3

LEMMA SameScope ==
  ASSUME titled' = titled
  PROVE  \A w : WebInScope(w)' <=> WebInScope(w)
BY DEF WebInScope, Matches

LEMMA ErrorSets == ListErrors = SchemaErrors \cup ItemErrors
BY DEF ListErrors, SchemaErrors, ItemErrors, FailedIn

LEMMA SameErrors ==
  ASSUME report'.errors = report.errors
  PROVE  ListErrors' = ListErrors /\ SchemaErrors' = SchemaErrors /\ ItemErrors' = ItemErrors
BY DEF ListErrors, SchemaErrors, ItemErrors, FailedIn

LEMMA WebError ==
  ASSUME NEW w, report'.errors = report.errors \cup {<<"discover", w>>}
  PROVE  ListErrors' = ListErrors /\ SchemaErrors' = SchemaErrors /\ ItemErrors' = ItemErrors
BY DEF ListErrors, SchemaErrors, ItemErrors, FailedIn

LEMMA SchemaError ==
  ASSUME NEW l \in Lists, report'.errors = report.errors \cup {<<"schema", l>>}
  PROVE  SchemaErrors' = SchemaErrors \cup {l} /\ ItemErrors' = ItemErrors
BY DEF SchemaErrors, ItemErrors, FailedIn

LEMMA ItemError ==
  ASSUME NEW l \in Lists, NEW s \in {"crawl", "sync"},
         report'.errors = report.errors \cup {<<s, l>>}
  PROVE  SchemaErrors' = SchemaErrors /\ ItemErrors' = ItemErrors \cup {l}
BY DEF SchemaErrors, ItemErrors, FailedIn

LEMMA Numbered ==
  /\ Lists \subseteq Nat /\ Webs \subseteq Nat /\ IsFiniteSet(Lists)
  /\ \A l \in Lists : WebOf[l] \in Webs
BY FarmAssumption, RunAssumption

(* Counting what the loop is done with.                                     *)
LEMMA DoneWithOne ==
  ASSUME NEW S \in SUBSET Lists, NEW T, NEW l \in S \cap T
  PROVE  /\ Cardinality(S \ T) \in Nat
         /\ Cardinality(S \ (T \ {l})) = Cardinality(S \ T) + 1
<1> DEFINE U == S \ T
<1>1. IsFiniteSet(U) /\ Cardinality(U) \in Nat
  BY Numbered, FS_Subset, FS_CardinalityType
<1>2. S \ (T \ {l}) = U \cup {l} /\ l \notin U
  OBVIOUS
<1> HIDE DEF U
<1>3. Cardinality(U \cup {l}) = Cardinality(U) + 1
  BY <1>1, <1>2, FS_AddElement
<1> QED
  BY <1>1, <1>2, <1>3 DEF U

-----------------------------------------------------------------------------
LEMMA InitInv == Init => IInv
<1> SUFFICES ASSUME Init PROVE IInv
  OBVIOUS
<1>1. WalkInv
  BY NothingFound DEF Init
<1>2. /\ command = "none" /\ pc = "idle" /\ exit = 0 /\ runs = 0 /\ faults = 0
      /\ websLeft = {} /\ inScope = {} /\ schemasLeft = {} /\ schemas = {}
      /\ todo = {} /\ prime = FALSE /\ source = NoSet /\ sets = {}
      /\ report = NoReport /\ cached = {}
      /\ disk = [l \in Lists |-> NoEntry] /\ mem = disk
      /\ begun = [l \in Lists |-> 0] /\ readFrom = [l \in Lists |-> {}]
  BY DEF Init
<1>3. MaxRuns \in Nat /\ MaxFaults \in Nat
  BY RunAssumption
<1>4. report.errors = {} /\ report.fallbacks = {} /\ report \in Reports
  BY <1>2 DEF NoReport, Reports
<1>5. NoEntry \in Entries
  BY DEF NoEntry, Entries, Statuses
<1>6. TypeOK
  <2>1. source \in Sets
    BY <1>2 DEF Sets
  <2>2. disk \in [Lists -> Entries] /\ mem \in [Lists -> Entries]
    BY <1>2, <1>5
  <2>3. begun \in [Lists -> 0 .. runs] /\ readFrom \in [Lists -> SUBSET Sets]
    BY <1>2
  <2>4. WalkTypeOK
    BY <1>1 DEF WalkInv
  <2>5. runs \in 0 .. MaxRuns /\ faults \in 0 .. MaxFaults
    BY <1>2, <1>3
  <2> QED
    BY <1>2, <1>4, <2>1, <2>2, <2>3, <2>4, <2>5 DEF TypeOK
<1>7. ~WentThrough
  BY <1>2 DEF WentThrough, ItemCommands
<1>8. PhaseInv /\ ScopeInv /\ SchemaInv /\ LoopInv
  BY <1>2, <1>4, <1>7 DEF PhaseInv, ScopeInv, SchemaInv, LoopInv, Looping, InLoop
<1>9. RowsInv
  BY <1>2 DEF RowsInv, OwnRows, AtItem
<1> QED
  BY <1>1, <1>6, <1>8, <1>9 DEF IInv

(* A process that ends before its work does leaves nothing but its files.   *)
LEMMA GoneInv ==
  ASSUME IInv, Gone, pc' = "idle", exit' \in {1, 2, 130}, mem' = disk,
         UNCHANGED <<command, runs>>
  PROVE  IInv'
<1>1. WalkInv'
  BY WalkForgets DEF Gone
<1>2. /\ faults' = faults + 1 /\ faults < MaxFaults
      /\ websLeft' = {} /\ inScope' = {} /\ schemasLeft' = {} /\ schemas' = {}
      /\ todo' = {} /\ prime' = FALSE /\ source' = NoSet /\ sets' = {}
      /\ report' = NoReport
      /\ UNCHANGED <<mangled, disk, cached, begun, readFrom>>
  BY DEF Gone, Fault, settings, landing
<1>3. MaxRuns \in Nat /\ MaxFaults \in Nat
  BY RunAssumption
<1>4. report'.errors = {} /\ report'.fallbacks = {} /\ report' \in Reports
  BY <1>2 DEF NoReport, Reports
<1>5. TypeOK'
  <2>1. Sets' = Sets /\ NoSet \in Sets
    BY <1>2, SameNames DEF Sets
  <2>2. WalkTypeOK'
    BY <1>1 DEF WalkInv
  <2>3. TypeOK
    BY DEF IInv
  <2>4. faults' \in 0 .. MaxFaults
    BY <1>2, <1>3, <2>3 DEF TypeOK
  <2>5. /\ command' \in Commands \cup {"none"} /\ exit' \in {0, 1, 2, 130} /\ pc' = "idle"
        /\ runs' \in 0 .. MaxRuns /\ sets' \subseteq Webs /\ prime' \in BOOLEAN
        /\ cached' \subseteq Lists
        /\ disk' \in [Lists -> Entries] /\ mem' \in [Lists -> Entries]
        /\ begun' \in [Lists -> 0 .. runs'] /\ readFrom' \in [Lists -> SUBSET Sets']
    BY <1>2, <2>1, <2>3 DEF TypeOK
  <2> QED
    BY <1>2, <1>4, <2>1, <2>2, <2>4, <2>5 DEF TypeOK
<1>6. ~WentThrough'
  BY DEF WentThrough
<1>7. PhaseInv' /\ ScopeInv' /\ SchemaInv' /\ LoopInv'
  BY <1>2, <1>4, <1>6 DEF PhaseInv, ScopeInv, SchemaInv, LoopInv, Looping, InLoop
<1>8. RowsInv'
  BY <1>2, SameNames DEF IInv, RowsInv, OwnRows, AtItem
<1> QED
  BY <1>1, <1>5, <1>7, <1>8 DEF IInv

(* A new process knows the state file.                                      *)
LEMMA StartInv ==
  ASSUME IInv, NEW c \in Commands, Start(c)
  PROVE  IInv'
<1>1. WalkInv'
  BY WalkForgets, WalkBegins DEF Start
<1>2. /\ runs < MaxRuns /\ command' = c /\ runs' = runs + 1 /\ exit' = 0 /\ pc' = "discover"
      /\ websLeft' = {} /\ inScope' = {} /\ schemasLeft' = {} /\ schemas' = {}
      /\ todo' = {} /\ prime' = FALSE /\ source' = NoSet /\ sets' = {}
      /\ report' = NoReport /\ mem' = disk
      /\ UNCHANGED <<mangled, faults, disk, cached, begun, readFrom>>
  BY DEF Start, settings, landing
<1>3. MaxRuns \in Nat /\ MaxFaults \in Nat
  BY RunAssumption
<1>4. report'.errors = {} /\ report'.fallbacks = {} /\ report' \in Reports
  BY <1>2 DEF NoReport, Reports
<1>5. TypeOK'
  <2>1. Sets' = Sets /\ NoSet \in Sets
    BY <1>2, SameNames DEF Sets
  <2>2. runs \in Nat /\ begun \in [Lists -> 0 .. runs]
    BY DEF IInv, TypeOK
  <2>3. begun' \in [Lists -> 0 .. runs']
    <3>1. 0 .. runs \subseteq 0 .. runs'
      BY <1>2, <2>2
    <3> QED
      BY <1>2, <2>2, <3>1
  <2>4. runs' \in 0 .. MaxRuns
    BY <1>2, <1>3, <2>2
  <2> QED
    BY <1>1, <1>2, <1>3, <1>4, <2>1, <2>3, <2>4 DEF IInv, TypeOK, WalkInv
<1>6. ~WentThrough'
  BY <1>2 DEF WentThrough
<1>7. PhaseInv' /\ ScopeInv' /\ SchemaInv' /\ LoopInv'
  BY <1>2, <1>4, <1>6 DEF PhaseInv, ScopeInv, SchemaInv, LoopInv, Looping, InLoop
<1>8. RowsInv'
  BY <1>2, SameNames DEF IInv, RowsInv, OwnRows, AtItem
<1> QED
  BY <1>1, <1>5, <1>7, <1>8 DEF IInv

-----------------------------------------------------------------------------
(* The commands, phase by phase.                                            *)

(* A step of the walk touches nothing of the run.                           *)
LEMMA DiscoveryInv ==
  ASSUME IInv, pc = "discover", InDiscovery, WalkInv', faults' \in 0 .. MaxFaults
  PROVE  IInv'
<1>1. /\ UNCHANGED <<mangled, command, pc, exit, runs, websLeft, inScope, schemasLeft, schemas>>
      /\ UNCHANGED <<todo, prime, source, sets, report, disk, mem, cached, begun, readFrom>>
  BY DEF InDiscovery, settings, process, scope, list, store, landing
<1>2. TypeOK'
  <2>1. TypeOK /\ WalkTypeOK'
    BY DEF IInv, WalkInv
  <2>2. Sets' = Sets
    BY <1>1, SameNames
  <2> QED
    BY <1>1, <2>1, <2>2 DEF TypeOK
<1>3. PhaseInv' /\ ScopeInv' /\ SchemaInv' /\ LoopInv'
  BY <1>1 DEF IInv, PhaseInv, ScopeInv, SchemaInv, LoopInv, Looping, InLoop, WentThrough
<1>4. RowsInv'
  BY <1>1, SameNames DEF IInv, RowsInv, OwnRows, AtItem
<1> QED
  BY <1>2, <1>3, <1>4 DEF IInv

(* The bound on failures holds.                                             *)
LEMMA FaultInv == IInv /\ (Fault \/ UNCHANGED faults) => faults' \in 0 .. MaxFaults
<1> SUFFICES ASSUME IInv, Fault \/ UNCHANGED faults PROVE faults' \in 0 .. MaxFaults
  OBVIOUS
<1>1. faults \in 0 .. MaxFaults /\ MaxFaults \in Nat
  BY RunAssumption DEF IInv, TypeOK
<1> QED
  BY <1>1 DEF Fault

(* The webs found that are in scope are still to be enumerated.             *)
LEMMA ScopeWebsInv ==
  ASSUME IInv, ScopeWebs
  PROVE  IInv'
<1>1. /\ pc = "discover" /\ seen # {} /\ queue = <<>> /\ pc' = "webs"
      /\ websLeft' = {w \in seen : WebInScope(w)}
      /\ UNCHANGED <<mangled, command, exit, runs, faults, inScope, schemasLeft, schemas>>
      /\ UNCHANGED <<todo, prime, source, sets, report, disk, mem, cached, begun, readFrom>>
      /\ UNCHANGED discovery /\ UNCHANGED <<queue, seen, titled>>
  BY DEF ScopeWebs, AtWalk, Goto, discovery, settings, list, store, landing
<1>2. WalkInv'
  BY <1>1, WalkSame DEF IInv
<1>3. /\ report = NoReport /\ inScope = {} /\ schemas = {} /\ schemasLeft = {}
      /\ todo = {} /\ source = NoSet /\ disk = mem /\ report \in Reports
  BY <1>1 DEF IInv, PhaseInv
<1>4. TypeOK'
  <2>1. TypeOK /\ WalkTypeOK' /\ seen \subseteq Webs
    BY <1>2 DEF IInv, WalkInv, WalkTypeOK
  <2>2. Sets' = Sets
    BY <1>1, SameNames
  <2> QED
    BY <1>1, <2>1, <2>2 DEF TypeOK
<1>5. ~Looping'
  BY <1>1 DEF Looping, InLoop, WentThrough
<1>6. PhaseInv'
  BY <1>1, <1>3, <1>5 DEF PhaseInv, InLoop, Looping, NoReport
<1>7. ScopeInv'
  BY <1>1, SameScope DEF ScopeInv
<1>8. SchemaInv'
  <2>1. report'.errors = {}
    BY <1>1, <1>3 DEF NoReport
  <2>2. ListErrors' = {}
    BY <2>1 DEF ListErrors, FailedIn
  <2> QED
    BY <1>1, <1>3, <1>5, <2>2 DEF SchemaInv
<1>9. LoopInv'
  BY <1>5 DEF LoopInv
<1>10. RowsInv'
  BY <1>1, SameNames DEF IInv, RowsInv, OwnRows, AtItem
<1> QED
  BY <1>2, <1>4, <1>6, <1>7, <1>8, <1>9, <1>10 DEF IInv

(* A web's lists come into scope, or its error into the report.             *)
LEMMA EnumerateInv ==
  ASSUME IInv, EnumerateLists \/ EnumerationFails
  PROVE  IInv'
<1>1. /\ pc = "webs" /\ websLeft # {} /\ websLeft' = websLeft \ {Web}
      /\ UNCHANGED <<mangled, command, pc, exit, runs, schemasLeft, schemas>>
      /\ UNCHANGED <<todo, prime, source, sets, disk, mem, cached, begun, readFrom>>
      /\ UNCHANGED discovery /\ UNCHANGED <<queue, seen, titled>>
  BY DEF EnumerateLists, EnumerationFails, discovery, settings, process, list, store, landing
<1>2. \/ /\ inScope' = inScope \cup {l \in Lists : WebOf[l] = Web /\ ListInScope(l)}
         /\ UNCHANGED <<faults, report>>
      \/ /\ inScope' = inScope /\ Fault
         /\ report' = [report EXCEPT !.errors = @ \cup {<<"discover", Web>>}]
  BY DEF EnumerateLists, EnumerationFails
<1>3. WalkInv'
  BY <1>1, WalkSame DEF IInv
<1>4. TypeOK /\ Web \in Webs
  <2>1. TypeOK /\ websLeft \subseteq Webs
    BY DEF IInv, TypeOK
  <2>2. Web \in websLeft
    BY <1>1, <2>1, Numbered, FirstIs DEF Web
  <2> QED
    BY <2>1, <2>2
<1>5. /\ schemas = {} /\ todo = {} /\ schemasLeft = {} /\ disk = mem /\ report \in Reports
      /\ queue = <<>> /\ seen # {} /\ source = NoSet
      /\ report.succeeded = 0 /\ report.failed = 0 /\ report.skipped = 0
  BY <1>1 DEF IInv, PhaseInv
<1>6. /\ report' \in Reports /\ report'.fallbacks = report.fallbacks
      /\ report'.succeeded = 0 /\ report'.failed = 0 /\ report'.skipped = 0
      /\ \/ report'.errors = report.errors
            /\ inScope' = inScope \cup {l \in Lists : WebOf[l] = Web /\ ListInScope(l)}
         \/ report'.errors = report.errors \cup {<<"discover", Web>>} /\ inScope' = inScope
  <2>1. <<"discover", Web>> \in Errors
    BY <1>4 DEF Errors
  <2> QED
    BY <1>2, <1>5, <2>1 DEF Reports
<1>7. TypeOK'
  <2>1. WalkTypeOK'
    BY <1>3 DEF WalkInv
  <2>2. Sets' = Sets
    BY <1>1, SameNames
  <2>3. faults' \in 0 .. MaxFaults
    BY <1>2, FaultInv
  <2>4. inScope \subseteq inScope' /\ inScope' \subseteq Lists
    BY <1>2, <1>4 DEF TypeOK
  <2>5. report'.errors \subseteq Errors
    BY <1>6 DEF Reports
  <2> QED
    BY <1>1, <1>4, <1>5, <1>6, <2>1, <2>2, <2>3, <2>4, <2>5 DEF TypeOK
<1>8. ~Looping'
  BY <1>1 DEF Looping, InLoop, WentThrough
<1>9. PhaseInv'
  BY <1>1, <1>5, <1>6, <1>8 DEF PhaseInv, InLoop, Looping
<1>10. ScopeInv'
  <2>1. ASSUME NEW l \in Lists, ListInScope(l), WebOf[l] \in seen, WebInScope(WebOf[l])
        PROVE  \/ l \in inScope' \/ WebOf[l] \in websLeft'
               \/ <<"discover", WebOf[l]>> \in report'.errors
    <3>1. \/ l \in inScope \/ WebOf[l] \in websLeft
          \/ <<"discover", WebOf[l]>> \in report.errors
      BY <1>1, <2>1 DEF IInv, ScopeInv
    <3> QED
      BY <1>1, <1>6, <2>1, <3>1
  <2> QED
    BY <1>1, <2>1, SameScope DEF ScopeInv
<1>11. SchemaInv'
  <2>1. ListErrors = {}
    BY <1>1 DEF IInv, SchemaInv
  <2>2. ListErrors' = {}
    BY <1>6, <2>1, SameErrors, WebError
  <2> QED
    BY <1>1, <1>5, <1>8, <2>2 DEF SchemaInv
<1>12. LoopInv'
  BY <1>8 DEF LoopInv
<1>13. RowsInv'
  BY <1>1, SameNames DEF IInv, RowsInv, OwnRows, AtItem
<1> QED
  BY <1>3, <1>7, <1>9, <1>10, <1>11, <1>12, <1>13 DEF IInv

(* A command that is over before the loop over the lists.                   *)
LEMMA OverInv ==
  ASSUME IInv, Through, command \notin ItemCommands
  PROVE  IInv'
<1>1. /\ pc' = "idle" /\ exit' = 0 /\ mem' = disk
      /\ UNCHANGED <<mangled, command, runs, faults, websLeft, inScope, schemasLeft, schemas>>
      /\ UNCHANGED <<todo, prime, source, sets, report, disk, cached, begun, readFrom>>
      /\ UNCHANGED discovery
  BY DEF Through, Exit, settings, scope, list, landing
<1>2. WalkInv'
  BY <1>1, WalkSame DEF IInv
<1>3. TypeOK'
  <2>1. TypeOK /\ WalkTypeOK'
    BY <1>2 DEF IInv, WalkInv
  <2>2. Sets' = Sets
    BY <1>1, SameNames
  <2> QED
    BY <1>1, <2>1, <2>2 DEF TypeOK
<1>4. ~Looping'
  BY <1>1 DEF Looping, InLoop, WentThrough
<1>5. PhaseInv'
  BY <1>1, <1>4 DEF IInv, PhaseInv, Looping, InLoop
<1>6. ScopeInv' /\ SchemaInv' /\ LoopInv'
  BY <1>1, <1>4 DEF IInv, ScopeInv, SchemaInv, LoopInv
<1>7. RowsInv'
  BY <1>1, SameNames DEF IInv, RowsInv, OwnRows, AtItem
<1> QED
  BY <1>2, <1>3, <1>5, <1>6, <1>7 DEF IInv

(* No web is left, and every list in scope is to be fetched.                *)
LEMMA DiscoveredInv ==
  ASSUME IInv, Discovered
  PROVE  IInv'
<1>1. CASE command = "discover" /\ Through
  BY <1>1, OverInv DEF ItemCommands
<1>2. CASE ~(command = "discover" /\ Through)
  <2>1. /\ pc = "webs" /\ websLeft = {} /\ pc' = "schemas" /\ schemasLeft' = inScope
        /\ UNCHANGED <<mangled, command, exit, runs, faults, websLeft, inScope, schemas>>
        /\ UNCHANGED <<todo, prime, source, sets, report, disk, mem, cached, begun, readFrom>>
        /\ UNCHANGED discovery /\ UNCHANGED <<queue, seen, titled>>
    BY <1>2 DEF Discovered, Goto, discovery, settings, list, store, landing
  <2>2. WalkInv'
    BY <2>1, WalkSame DEF IInv
  <2>3. /\ schemas = {} /\ todo = {} /\ disk = mem /\ report \in Reports
        /\ queue = <<>> /\ seen # {} /\ source = NoSet
        /\ report.succeeded = 0 /\ report.failed = 0 /\ report.skipped = 0
    BY <2>1 DEF IInv, PhaseInv
  <2>4. TypeOK'
    <3>1. TypeOK /\ WalkTypeOK'
      BY <2>2 DEF IInv, WalkInv
    <3>2. Sets' = Sets
      BY <2>1, SameNames
    <3> QED
      BY <2>1, <3>1, <3>2 DEF TypeOK
  <2>5. ~Looping'
    BY <2>1 DEF Looping, InLoop, WentThrough
  <2>6. PhaseInv'
    BY <2>1, <2>3, <2>5 DEF PhaseInv, Looping, InLoop
  <2>7. ScopeInv'
    BY <2>1, SameScope DEF IInv, ScopeInv
  <2>8. SchemaInv'
    <3>1. ListErrors = {}
      BY <2>1 DEF IInv, SchemaInv
    <3>2. ItemErrors' = {} /\ SchemaErrors' = {}
      BY <2>1, <3>1, ErrorSets, SameErrors
    <3> QED
      BY <2>1, <2>3, <2>5, <3>2 DEF SchemaInv
  <2>9. LoopInv'
    BY <2>5 DEF LoopInv
  <2>10. RowsInv'
    BY <2>1, SameNames DEF IInv, RowsInv, OwnRows, AtItem
  <2> QED
    BY <2>2, <2>4, <2>6, <2>7, <2>8, <2>9, <2>10 DEF IInv
<1> QED
  BY <1>1, <1>2

(* A list has a schema, or an error.                                        *)
LEMMA SchemasInv ==
  ASSUME IInv, CachedSchema \/ FetchSchema \/ SchemaFails
  PROVE  IInv'
<1>1. /\ pc = "schemas" /\ schemasLeft # {} /\ schemasLeft' = schemasLeft \ {Schema}
      /\ UNCHANGED <<mangled, command, pc, exit, runs, websLeft, inScope>>
      /\ UNCHANGED <<todo, prime, source, sets, disk, mem, begun, readFrom>>
      /\ UNCHANGED discovery /\ UNCHANGED <<queue, seen, titled>>
  BY DEF CachedSchema, FetchSchema, SchemaFails, discovery, settings, process, list, store, landing
<1>2. /\ \/ schemas' = schemas \cup {Schema} /\ UNCHANGED <<faults, report>>
         \/ /\ schemas' = schemas /\ Fault
            /\ report' = [report EXCEPT !.errors = @ \cup {<<"schema", Schema>>}]
      /\ cached' \in {cached, cached \cup {Schema}}
  BY DEF CachedSchema, FetchSchema, SchemaFails, landing
<1>3. WalkInv'
  BY <1>1, WalkSame DEF IInv
<1>4. TypeOK /\ Schema \in schemasLeft /\ Schema \in Lists /\ Schema \in inScope
  <2>1. TypeOK /\ schemasLeft \subseteq Lists /\ schemasLeft \subseteq inScope
    BY DEF IInv, TypeOK, SchemaInv
  <2>2. Schema \in schemasLeft
    BY <1>1, <2>1, Numbered, FirstIs DEF Schema
  <2> QED
    BY <2>1, <2>2
<1>5. /\ websLeft = {} /\ disk = mem /\ report \in Reports
      /\ queue = <<>> /\ seen # {} /\ source = NoSet
      /\ report.succeeded = 0 /\ report.failed = 0 /\ report.skipped = 0
  BY <1>1 DEF IInv, PhaseInv
<1>6. /\ report' \in Reports /\ report'.fallbacks = report.fallbacks
      /\ report'.succeeded = 0 /\ report'.failed = 0 /\ report'.skipped = 0
      /\ \/ report'.errors = report.errors /\ schemas' = schemas \cup {Schema}
         \/ report'.errors = report.errors \cup {<<"schema", Schema>>} /\ schemas' = schemas
  <2>1. <<"schema", Schema>> \in Errors
    BY <1>4 DEF Errors
  <2> QED
    BY <1>2, <1>5, <2>1 DEF Reports
<1>7. TypeOK'
  <2>1. WalkTypeOK'
    BY <1>3 DEF WalkInv
  <2>2. Sets' = Sets
    BY <1>1, SameNames
  <2>3. faults' \in 0 .. MaxFaults
    BY <1>2, FaultInv
  <2>4. report'.errors \subseteq Errors
    BY <1>6 DEF Reports
  <2>5. schemas' \subseteq inScope /\ cached' \subseteq Lists
    BY <1>2, <1>4 DEF TypeOK
  <2> QED
    BY <1>1, <1>4, <1>6, <2>1, <2>2, <2>3, <2>4, <2>5 DEF TypeOK
<1>8. ~Looping'
  BY <1>1 DEF Looping, InLoop, WentThrough
<1>9. PhaseInv'
  BY <1>1, <1>5, <1>6, <1>8 DEF PhaseInv, InLoop, Looping
<1>10. ScopeInv'
  <2>1. report.errors \subseteq report'.errors
    BY <1>6
  <2> QED
    BY <1>1, <2>1, SameScope DEF IInv, ScopeInv
<1>11. SchemaInv'
  <2>1. /\ ItemErrors = {} /\ todo = {} /\ schemas \cap schemasLeft = {}
        /\ SchemaErrors = inScope \ (schemas \cup schemasLeft)
        /\ schemasLeft \subseteq inScope
    BY <1>1 DEF IInv, SchemaInv
  <2>2. /\ ItemErrors' = {}
        /\ \/ SchemaErrors' = SchemaErrors /\ schemas' = schemas \cup {Schema}
           \/ SchemaErrors' = SchemaErrors \cup {Schema} /\ schemas' = schemas
    BY <1>4, <1>6, <2>1, SameErrors, SchemaError
  <2> QED
    BY <1>1, <1>4, <1>8, <2>1, <2>2 DEF SchemaInv
<1>12. LoopInv'
  BY <1>8 DEF LoopInv
<1>13. RowsInv'
  BY <1>1, SameNames DEF IInv, RowsInv, OwnRows, AtItem
<1> QED
  BY <1>3, <1>7, <1>9, <1>10, <1>11, <1>12, <1>13 DEF IInv

(* The loop begins with every list in scope to do.                          *)
LEMMA BeginListsInv ==
  ASSUME IInv, BeginLists
  PROVE  IInv'
<1>1. CASE command = "schema"
  BY <1>1, OverInv DEF BeginLists, ItemCommands
<1>2. CASE command # "schema"
  <2>1. /\ pc = "schemas" /\ schemasLeft = {} /\ pc' = "lists" /\ todo' = inScope
        /\ UNCHANGED <<mangled, command, exit, runs, faults, websLeft, inScope, schemas, schemasLeft>>
        /\ UNCHANGED <<prime, source, sets, report, disk, mem, cached, begun, readFrom>>
        /\ UNCHANGED discovery /\ UNCHANGED <<queue, seen, titled>>
    BY <1>2 DEF BeginLists, discovery, settings, scope, store, landing
  <2>2. WalkInv'
    BY <2>1, WalkSame DEF IInv
  <2>3. /\ websLeft = {} /\ disk = mem /\ report \in Reports
        /\ queue = <<>> /\ seen # {} /\ source = NoSet
        /\ report.succeeded = 0 /\ report.failed = 0 /\ report.skipped = 0
    BY <2>1 DEF IInv, PhaseInv
  <2>4. /\ ItemErrors = {} /\ schemas \subseteq inScope /\ inScope \subseteq Lists
        /\ SchemaErrors = inScope \ schemas
    BY <2>1 DEF IInv, TypeOK, SchemaInv
  <2>5. /\ ItemErrors' = {} /\ SchemaErrors' = inScope \ schemas
        /\ ListErrors' = inScope \ schemas
    BY <2>1, <2>4, ErrorSets, SameErrors
  <2>6. TypeOK'
    <3>1. TypeOK /\ WalkTypeOK'
      BY <2>2 DEF IInv, WalkInv
    <3>2. Sets' = Sets
      BY <2>1, SameNames
    <3> QED
      BY <2>1, <3>1, <3>2 DEF TypeOK
  <2>7. PhaseInv'
    BY <2>1, <2>3 DEF PhaseInv, InLoop, Looping, WentThrough
  <2>8. ScopeInv'
    BY <2>1, SameScope DEF IInv, ScopeInv, Looping, InLoop
  <2>9. SchemaInv'
    BY <2>1, <2>4, <2>5 DEF IInv, SchemaInv
  <2>10. LoopInv'
    <3>1. schemas' \ todo' = {} /\ inScope' \ todo' = {} /\ ListErrors' \ todo' = {}
      BY <2>1, <2>4, <2>5
    <3>2. Cardinality({}) = 0
      BY FS_EmptySet
    <3>3. /\ report'.succeeded + report'.failed = Cardinality(inScope' \ todo')
          /\ report'.failed = Cardinality(ListErrors' \ todo')
          /\ report'.skipped <= report'.succeeded
      <4>1. report'.succeeded = 0 /\ report'.failed = 0 /\ report'.skipped = 0
        BY <2>1, <2>3
      <4>2. Cardinality(inScope' \ todo') = 0 /\ Cardinality(ListErrors' \ todo') = 0
        BY <3>1, <3>2
      <4> QED
        BY <4>1, <4>2
    <3> QED
      BY <2>1, <2>3, <2>5, <3>1, <3>3 DEF LoopInv, AtItem
  <2>11. RowsInv'
    BY <2>1, SameNames DEF IInv, RowsInv, OwnRows, AtItem
  <2> QED
    BY <2>2, <2>6, <2>7, <2>8, <2>9, <2>10, <2>11 DEF IInv
<1> QED
  BY <1>1, <1>2

-----------------------------------------------------------------------------
(* The loop over the lists: a step is done with the list, or stays at it.   *)

Outcome ==
    \/ /\ List \in schemas /\ disk'[List].status = "complete"
       /\ report'.errors = report.errors
       /\ report'.succeeded = report.succeeded + 1 /\ report'.failed = report.failed
       /\ report'.skipped \in {report.skipped, report.skipped + 1}
    \/ /\ List \in schemas /\ disk'[List].status = "failed"
       /\ \E s \in {"crawl", "sync"} : report'.errors = report.errors \cup {<<s, List>>}
       /\ report'.succeeded = report.succeeded /\ report'.failed = report.failed + 1
       /\ report'.skipped = report.skipped
    \/ /\ List \notin schemas
       /\ report'.errors = report.errors
       /\ report'.succeeded = report.succeeded /\ report'.failed = report.failed + 1
       /\ report'.skipped = report.skipped

Passed ==
    /\ pc \in InLoop /\ todo # {}
    /\ NextList /\ Running
    /\ disk' = mem' /\ report' \in Reports
    /\ \A l \in schemas \ {List} : disk'[l].status = disk[l].status
    /\ Outcome

Stayed ==
    /\ pc \in InLoop /\ todo # {} /\ List \in schemas
    /\ pc' \in AtItem /\ UNCHANGED <<command, exit, runs, todo>> /\ Running
    /\ pc' # "handler" => disk' = mem'
    /\ report' \in Reports
    /\ \A l \in Lists \ {List} : disk'[l] = disk[l] /\ disk'[l] = mem'[l]
    /\ pc' = "token" => disk'[List].status = "complete"
    /\ report'.errors = report.errors /\ report'.skipped = report.skipped
    /\ report'.succeeded = report.succeeded /\ report'.failed = report.failed

(* What is known in the loop.                                               *)
LEMMA LoopFacts ==
  ASSUME IInv, pc \in InLoop, todo # {}
  PROVE  /\ List \in todo /\ List \in Lists /\ List \in inScope
         /\ inScope \subseteq Lists /\ schemas \subseteq inScope /\ todo \subseteq inScope
         /\ ListErrors \subseteq Lists /\ ListErrors = SchemaErrors \cup ItemErrors
         /\ SchemaErrors = inScope \ schemas /\ ItemErrors \subseteq schemas \ todo
         /\ \A l \in schemas \ todo :
               disk[l].status = IF l \in ItemErrors THEN "failed" ELSE "complete"
         /\ report.succeeded + report.failed = Cardinality(inScope \ todo)
         /\ report.failed = Cardinality(ListErrors \ todo)
         /\ report.skipped <= report.succeeded
         /\ report \in Reports /\ queue = <<>> /\ seen # {} /\ websLeft = {}
         /\ pc # "handler" => disk = mem
         /\ \A l \in Lists \ {List} : disk[l] = mem[l]
<1>1. TypeOK /\ PhaseInv /\ SchemaInv /\ LoopInv /\ Looping
  BY DEF IInv, Looping
<1>2. inScope \subseteq Lists /\ schemas \subseteq inScope /\ todo \subseteq inScope
  BY <1>1 DEF TypeOK
<1>3. List \in todo
  BY <1>2, Numbered, FirstIs DEF List
<1>4. ListErrors \subseteq Lists
  BY DEF ListErrors, FailedIn
<1>5. /\ report \in Reports /\ queue = <<>> /\ seen # {} /\ websLeft = {}
      /\ pc # "handler" => disk = mem
  BY <1>1 DEF PhaseInv
<1>7. \A l \in Lists \ {List} : disk[l] = mem[l]
  BY <1>1, <1>5 DEF LoopInv
<1>6. SchemaErrors = inScope \ schemas
  BY <1>1 DEF SchemaInv
<1> QED
  BY <1>1, <1>2, <1>3, <1>4, <1>5, <1>6, <1>7, ErrorSets DEF LoopInv

(* Counts and statuses follow the errors when a list is done with.          *)
LEMMA PassedInv ==
  ASSUME IInv, Passed
  PROVE  PhaseInv' /\ ScopeInv' /\ SchemaInv' /\ LoopInv'
<1>1. /\ pc \in InLoop /\ todo # {} /\ pc' = "lists" /\ todo' = todo \ {List}
      /\ prime' = FALSE /\ source' = NoSet
      /\ UNCHANGED <<command, exit, runs, mangled, websLeft, inScope, schemasLeft, schemas>>
      /\ UNCHANGED <<queue, seen, titled>>
      /\ disk' = mem' /\ report' \in Reports
      /\ \A l \in schemas \ {List} : disk'[l].status = disk[l].status
  BY DEF Passed, NextList, Goto, Running, discovery, settings, scope
<1>2. /\ List \in todo /\ List \in Lists /\ List \in inScope
      /\ inScope \subseteq Lists /\ schemas \subseteq inScope /\ todo \subseteq inScope
      /\ ListErrors \subseteq Lists /\ ListErrors = SchemaErrors \cup ItemErrors
      /\ SchemaErrors = inScope \ schemas /\ ItemErrors \subseteq schemas \ todo
      /\ queue = <<>> /\ seen # {} /\ websLeft = {}
  BY <1>1, LoopFacts
<1>3. /\ \A l \in schemas \ todo :
            disk[l].status = IF l \in ItemErrors THEN "failed" ELSE "complete"
      /\ report.succeeded + report.failed = Cardinality(inScope \ todo)
      /\ report.failed = Cardinality(ListErrors \ todo)
      /\ report.skipped <= report.succeeded
      /\ report \in Reports
  BY <1>1, LoopFacts
<1>4. PhaseInv'
  BY <1>1, <1>2 DEF PhaseInv, InLoop
<1>5. ScopeInv'
  <2>1. report.errors \subseteq report'.errors
    BY DEF Passed, Outcome
  <2> QED
    BY <1>1, <2>1, SameScope DEF IInv, ScopeInv, Looping, InLoop
<1>6. /\ Cardinality(inScope \ todo) \in Nat
      /\ Cardinality(inScope' \ todo') = Cardinality(inScope \ todo) + 1
  <2>1. inScope \in SUBSET Lists /\ List \in inScope \cap todo
    BY <1>2
  <2> QED
    BY <1>1, <2>1, DoneWithOne
<1>7. /\ report.succeeded \in Nat /\ report.failed \in Nat /\ report.skipped \in Nat
      /\ report'.succeeded \in Nat /\ report'.failed \in Nat /\ report'.skipped \in Nat
  BY <1>1, <1>3 DEF Reports
<1> DEFINE Told ==
              /\ SchemaErrors' = SchemaErrors
              /\ ItemErrors' \subseteq schemas \ todo'
              /\ List \in schemas =>
                    disk'[List].status = IF List \in ItemErrors' THEN "failed" ELSE "complete"
              /\ \A l \in schemas \ {List} : l \in ItemErrors' <=> l \in ItemErrors
              /\ report'.succeeded + report'.failed = report.succeeded + report.failed + 1
              /\ report'.failed = Cardinality(ListErrors' \ todo')
              /\ report'.skipped <= report'.succeeded
<1>8. Told
  <2>1. CASE /\ List \in schemas /\ disk'[List].status = "complete"
             /\ report'.errors = report.errors
             /\ report'.succeeded = report.succeeded + 1 /\ report'.failed = report.failed
             /\ report'.skipped \in {report.skipped, report.skipped + 1}
    <3>1. ListErrors' = ListErrors /\ SchemaErrors' = SchemaErrors /\ ItemErrors' = ItemErrors
      BY <2>1, SameErrors
    <3>2. List \notin ListErrors /\ List \notin ItemErrors
      BY <1>2, <2>1
    <3>3. ListErrors' \ todo' = ListErrors \ todo
      BY <1>1, <3>1, <3>2
    <3>4. /\ report'.succeeded + report'.failed = report.succeeded + report.failed + 1
          /\ report'.skipped <= report'.succeeded
      BY <1>3, <1>7, <2>1
    <3>5. ItemErrors' \subseteq schemas \ todo'
      BY <1>1, <1>2, <3>1
    <3> QED
      BY <1>3, <2>1, <3>1, <3>2, <3>3, <3>4, <3>5
  <2>2. CASE /\ List \in schemas /\ disk'[List].status = "failed"
             /\ \E s \in {"crawl", "sync"} : report'.errors = report.errors \cup {<<s, List>>}
             /\ report'.succeeded = report.succeeded /\ report'.failed = report.failed + 1
             /\ report'.skipped = report.skipped
    <3>1. SchemaErrors' = SchemaErrors /\ ItemErrors' = ItemErrors \cup {List}
      BY <1>2, <2>2, ItemError
    <3>2. ListErrors' = ListErrors \cup {List}
      <4>1. ListErrors' = SchemaErrors' \cup ItemErrors'
        BY DEF ListErrors, SchemaErrors, ItemErrors, FailedIn
      <4> QED
        BY <1>2, <3>1, <4>1
    <3> DEFINE S == ListErrors \cup {List}
    <3>3. S \in SUBSET Lists /\ List \in S \cap todo /\ S \ todo = ListErrors \ todo
      BY <1>2
    <3> HIDE DEF S
    <3>4. Cardinality(S \ (todo \ {List})) = Cardinality(S \ todo) + 1
      BY <3>3, DoneWithOne
    <3>5. report'.failed = Cardinality(ListErrors' \ todo')
      BY <1>1, <1>3, <2>2, <3>2, <3>3, <3>4 DEF S
    <3>6. /\ report'.succeeded + report'.failed = report.succeeded + report.failed + 1
          /\ report'.skipped <= report'.succeeded
      BY <1>3, <1>7, <2>2
    <3>7. ItemErrors' \subseteq schemas \ todo'
      BY <1>1, <1>2, <2>2, <3>1
    <3> QED
      BY <2>2, <3>1, <3>5, <3>6, <3>7
  <2>3. CASE /\ List \notin schemas
             /\ report'.errors = report.errors
             /\ report'.succeeded = report.succeeded /\ report'.failed = report.failed + 1
             /\ report'.skipped = report.skipped
    <3>1. ListErrors' = ListErrors /\ SchemaErrors' = SchemaErrors /\ ItemErrors' = ItemErrors
      BY <2>3, SameErrors
    <3>2. ListErrors \in SUBSET Lists /\ List \in ListErrors \cap todo
      BY <1>2, <2>3
    <3>3. Cardinality(ListErrors \ (todo \ {List})) = Cardinality(ListErrors \ todo) + 1
      BY <3>2, DoneWithOne
    <3>4. report'.failed = Cardinality(ListErrors' \ todo')
      BY <1>1, <1>3, <2>3, <3>1, <3>3
    <3>5. /\ report'.succeeded + report'.failed = report.succeeded + report.failed + 1
          /\ report'.skipped <= report'.succeeded
      BY <1>3, <1>7, <2>3
    <3>6. ItemErrors' \subseteq schemas \ todo'
      BY <1>1, <1>2, <3>1
    <3> QED
      BY <2>3, <3>1, <3>4, <3>5, <3>6
  <2> QED
    BY <2>1, <2>2, <2>3 DEF Passed, Outcome
<1> HIDE DEF Told
<1>9. SchemaInv'
  <2>1. SchemaErrors' = inScope \ schemas /\ schemasLeft \subseteq inScope
    BY <1>2, <1>8 DEF Told, IInv, SchemaInv
  <2> QED
    BY <1>1, <2>1 DEF SchemaInv
<1>10. LoopInv'
  <2>1. ASSUME NEW l \in schemas \ todo'
        PROVE  disk'[l].status = IF l \in ItemErrors' THEN "failed" ELSE "complete"
    <3>1. CASE l = List
      BY <1>8, <3>1 DEF Told
    <3>2. CASE l # List
      BY <1>1, <1>3, <1>8, <3>2 DEF Told
    <3> QED
      BY <3>1, <3>2
  <2>2. report'.succeeded + report'.failed = Cardinality(inScope' \ todo')
    BY <1>3, <1>6, <1>8 DEF Told
  <2> QED
    BY <1>1, <1>8, <2>1, <2>2 DEF Told, LoopInv, AtItem
<1> QED
  BY <1>4, <1>5, <1>9, <1>10

(* And nothing of them changes while it is worked on.                       *)
LEMMA StayedInv ==
  ASSUME IInv, Stayed
  PROVE  PhaseInv' /\ ScopeInv' /\ SchemaInv' /\ LoopInv'
<1>1. /\ pc \in InLoop /\ todo # {} /\ List \in schemas /\ pc' \in AtItem
      /\ UNCHANGED <<command, exit, runs, todo>>
      /\ UNCHANGED <<mangled, websLeft, inScope, schemasLeft, schemas>>
      /\ UNCHANGED <<queue, seen, titled>>
      /\ pc' # "handler" => disk' = mem'
      /\ report' \in Reports
      /\ \A l \in Lists \ {List} : disk'[l] = disk[l] /\ disk'[l] = mem'[l]
      /\ pc' = "token" => disk'[List].status = "complete"
      /\ report'.errors = report.errors /\ report'.skipped = report.skipped
      /\ report'.succeeded = report.succeeded /\ report'.failed = report.failed
  BY DEF Stayed, Running, discovery, settings, scope
<1>2. /\ List \in todo /\ schemas \subseteq inScope /\ inScope \subseteq Lists
      /\ SchemaErrors = inScope \ schemas /\ ItemErrors \subseteq schemas \ todo
      /\ \A l \in schemas \ todo :
            disk[l].status = IF l \in ItemErrors THEN "failed" ELSE "complete"
      /\ report.succeeded + report.failed = Cardinality(inScope \ todo)
      /\ report.failed = Cardinality(ListErrors \ todo)
      /\ report.skipped <= report.succeeded
      /\ queue = <<>> /\ seen # {} /\ websLeft = {}
  BY <1>1, LoopFacts
<1>3. ListErrors' = ListErrors /\ SchemaErrors' = SchemaErrors /\ ItemErrors' = ItemErrors
  BY <1>1, SameErrors
<1>4. PhaseInv'
  BY <1>1, <1>2 DEF PhaseInv, InLoop, AtItem
<1>5. ScopeInv'
  BY <1>1, SameScope DEF IInv, ScopeInv, Looping, InLoop
<1>6. SchemaInv'
  <2>1. schemasLeft \subseteq inScope
    BY DEF IInv, SchemaInv
  <2> QED
    BY <1>1, <1>2, <1>3, <2>1 DEF SchemaInv, AtItem
<1>7. LoopInv'
  <2>1. ASSUME NEW l \in schemas \ todo
        PROVE  disk'[l].status = IF l \in ItemErrors' THEN "failed" ELSE "complete"
    <3>1. l \in Lists \ {List}
      BY <1>2
    <3> QED
      BY <1>1, <1>2, <1>3, <3>1
  <2>2. List' = List
    BY <1>1 DEF List
  <2> QED
    BY <1>1, <1>2, <1>3, <2>1, <2>2 DEF LoopInv, AtItem
<1> QED
  BY <1>4, <1>5, <1>6, <1>7

(* What such a step does beside that: the types, and where the rows and the *)
(* source they come from are.                                               *)
Kept ==
    /\ faults' \in 0 .. MaxFaults
    /\ prime' \in BOOLEAN /\ source' \in Sets /\ sets' \subseteq Webs
    /\ report'.fallbacks \subseteq inScope /\ cached' \subseteq Lists
    /\ disk' \in [Lists -> Entries] /\ mem' \in [Lists -> Entries]
    /\ begun' \in [Lists -> 0 .. runs] /\ readFrom' \in [Lists -> SUBSET Sets]
    /\ \A l \in Lists : Distinguishable(l) => readFrom'[l] \subseteq {NoSet, NameOf(l)}
    /\ pc' \in AtItem /\ Distinguishable(List) => source' \in {NoSet, NameOf(List)}

(* Together they are a step of the loop.                                    *)
LEMMA LoopStep ==
  ASSUME IInv, Passed \/ Stayed, Kept
  PROVE  IInv'
<1>1. /\ PhaseInv' /\ ScopeInv' /\ SchemaInv' /\ LoopInv'
  BY PassedInv, StayedInv
<1>2. /\ UNCHANGED <<command, exit, runs, mangled, websLeft, inScope, schemasLeft, schemas>>
      /\ UNCHANGED discovery
      /\ report' \in Reports
      /\ \/ pc' = "lists" /\ todo' = todo \ {List}
         \/ pc' \in AtItem /\ todo' = todo
  BY DEF Passed, Stayed, NextList, Goto, Running, settings, scope
<1>3. WalkInv'
  BY <1>2, WalkSame DEF IInv
<1>4. Sets' = Sets
  BY <1>2, SameNames
<1>5. TypeOK'
  <2>1. TypeOK /\ WalkTypeOK'
    BY <1>3 DEF IInv, WalkInv
  <2>2. pc' \in {"lists", "source", "pages", "token", "handler"}
    BY <1>2 DEF AtItem
  <2>3. report'.errors \subseteq Errors /\ todo' \subseteq inScope
    BY <1>2, <2>1 DEF Reports, TypeOK
  <2> QED
    BY <1>2, <1>4, <2>1, <2>2, <2>3 DEF TypeOK, Kept
<1>6. RowsInv'
  <2>1. OwnRows'
    BY <1>2, SameNames DEF OwnRows, Kept
  <2>2. ASSUME pc' \in AtItem PROVE Distinguishable(List)' => source' \in {NoSet, NameOf(List)'}
    <3>1. List' = List /\ List \in Lists
      <4>1. pc \in InLoop /\ todo # {} /\ List' = List
        BY <1>2, <2>2 DEF Passed, Stayed, AtItem, List
      <4> QED
        BY <4>1, LoopFacts
    <3> DEFINE m == List
    <3>2. Distinguishable(m) => source' \in {NoSet, NameOf(m)}
      BY <2>2 DEF Kept
    <3>3. m \in Lists /\ List' = m
      BY <3>1
    <3> QED
      BY <1>2, <3>2, <3>3, SameNames
  <2> QED
    BY <2>1, <2>2 DEF RowsInv
<1> QED
  BY <1>1, <1>3, <1>5, <1>6 DEF IInv

(* What is known at a list.                                                 *)
LEMMA AtItemFacts ==
  ASSUME IInv, pc \in InLoop, todo # {}
  PROVE  /\ List \in Lists /\ List \in todo /\ todo \subseteq inScope /\ inScope \subseteq Lists
         /\ report \in Reports /\ report.fallbacks \subseteq inScope
         /\ faults \in 0 .. MaxFaults /\ prime \in BOOLEAN /\ source \in Sets
         /\ NoSet \in Sets /\ sets \subseteq Webs /\ cached \subseteq Lists
         /\ pc # "handler" => disk = mem
         /\ \A l \in Lists \ {List} : disk[l] = mem[l]
         /\ disk \in [Lists -> Entries] /\ mem \in [Lists -> Entries] /\ mem[List] \in Entries
         /\ runs \in Nat /\ begun \in [Lists -> 0 .. runs]
         /\ readFrom \in [Lists -> SUBSET Sets]
         /\ \A l \in Lists : Distinguishable(l) => readFrom[l] \subseteq {NoSet, NameOf(l)}
         /\ pc \in AtItem /\ Distinguishable(List) => source \in {NoSet, NameOf(List)}
         /\ pc = "lists" => source = NoSet
         /\ pc \in AtItem => List \in schemas
         /\ pc = "token" => disk[List].status = "complete"
         /\ \A s \in {"crawl", "sync"} : <<s, List>> \in Errors
<1>1. /\ List \in Lists /\ List \in todo /\ todo \subseteq inScope /\ inScope \subseteq Lists
      /\ report \in Reports
      /\ pc # "handler" => disk = mem
      /\ \A l \in Lists \ {List} : disk[l] = mem[l]
  BY LoopFacts
<1>2. TypeOK /\ RowsInv /\ LoopInv /\ Looping
  BY DEF IInv, Looping
<1>3. /\ report.fallbacks \subseteq inScope
      /\ faults \in 0 .. MaxFaults /\ prime \in BOOLEAN /\ source \in Sets
      /\ sets \subseteq Webs /\ cached \subseteq Lists
      /\ disk \in [Lists -> Entries] /\ mem \in [Lists -> Entries] /\ mem[List] \in Entries
      /\ runs \in Nat /\ begun \in [Lists -> 0 .. runs] /\ readFrom \in [Lists -> SUBSET Sets]
  BY <1>1, <1>2, RunAssumption DEF TypeOK
<1>4. NoSet \in Sets /\ \A s \in {"crawl", "sync"} : <<s, List>> \in Errors
  BY <1>1 DEF Sets, Errors
<1>5. /\ \A l \in Lists : Distinguishable(l) => readFrom[l] \subseteq {NoSet, NameOf(l)}
      /\ pc \in AtItem /\ Distinguishable(List) => source \in {NoSet, NameOf(List)}
  BY <1>2 DEF RowsInv, OwnRows
<1>6. /\ pc = "lists" => source = NoSet
      /\ pc \in AtItem => List \in schemas
      /\ pc = "token" => disk[List].status = "complete"
  BY <1>2 DEF LoopInv
<1> QED
  BY <1>1, <1>3, <1>4, <1>5, <1>6

(* The entry of one list is saved and no other is touched.                  *)
LEMMA Saved ==
  ASSUME IInv, pc \in InLoop, todo # {}, NEW e \in Entries, SaveEntry(List, e)
  PROVE  /\ disk' = mem' /\ disk' \in [Lists -> Entries] /\ disk'[List] = e
         /\ mem' \in [Lists -> Entries]
         /\ \A l \in Lists \ {List} : disk'[l] = disk[l] /\ disk'[l] = mem'[l]
<1>1. /\ disk' = mem' /\ mem' = [mem EXCEPT ![List] = e]
      /\ \A l \in Lists \ {List} : disk[l] = mem[l]
      /\ mem \in [Lists -> Entries] /\ List \in Lists
  BY AtItemFacts DEF SaveEntry, SetEntry
<1> QED
  BY <1>1

(* An exception leaves the list with its entry updated in memory alone,     *)
(* and with files that are begun anew, gone on with or left.                *)
LEMMA RaisedInv ==
  ASSUME IInv, pc \in InLoop, todo # {}, List \in schemas, NEW e \in Entries, Raised(e),
         begun' \in [Lists -> 0 .. runs], readFrom' \in [Lists -> SUBSET Sets],
         \A l \in Lists : Distinguishable(l) => readFrom'[l] \subseteq {NoSet, NameOf(l)}
  PROVE  IInv'
<1>1. /\ Fault /\ mem' = [mem EXCEPT ![List] = e] /\ disk' = disk
      /\ pc' = "handler" /\ UNCHANGED <<command, exit, runs>>
      /\ UNCHANGED <<todo, prime, source, sets, report, cached>> /\ Running
  BY DEF Raised, SetEntry, Goto, list
<1>2. /\ disk' \in [Lists -> Entries] /\ mem' \in [Lists -> Entries]
      /\ \A l \in Lists \ {List} : disk'[l] = disk[l] /\ disk'[l] = mem'[l]
  <2>1. /\ \A l \in Lists \ {List} : disk[l] = mem[l]
        /\ disk \in [Lists -> Entries] /\ mem \in [Lists -> Entries] /\ List \in Lists
    BY AtItemFacts
  <2> QED
    BY <1>1, <2>1
<1>3. Stayed
  BY <1>1, <1>2, AtItemFacts DEF Stayed, AtItem
<1>4. Kept
  <2>1. faults' \in 0 .. MaxFaults
    BY <1>1, FaultInv
  <2>2. pc \in {"source", "pages", "token", "handler"} \/ source = NoSet
    BY AtItemFacts DEF InLoop
  <2>3. Distinguishable(List) => source' \in {NoSet, NameOf(List)}
    BY <1>1, <2>2, AtItemFacts DEF AtItem
  <2> QED
    BY <1>1, <1>2, <2>1, <2>3, AtItemFacts DEF Kept
<1> QED
  BY <1>3, <1>4, LoopStep

LEMMA RaisedHere ==
  ASSUME IInv, pc \in InLoop, todo # {}, List \in schemas, NEW e \in Entries, Raised(e),
         UNCHANGED <<begun, readFrom>>
  PROVE  IInv'
<1>1. /\ begun' \in [Lists -> 0 .. runs] /\ readFrom' \in [Lists -> SUBSET Sets]
      /\ \A l \in Lists : Distinguishable(l) => readFrom'[l] \subseteq {NoSet, NameOf(l)}
  BY AtItemFacts
<1> QED
  BY <1>1, RaisedInv

(* A list without a schema.                                                 *)
LEMMA NoSchemaInv ==
  ASSUME IInv, NoSchema
  PROVE  IInv'
<1>1. /\ pc = "lists" /\ todo # {} /\ List \notin schemas /\ NextList /\ Running
      /\ UNCHANGED <<faults, sets, disk, mem, cached, begun, readFrom>>
      /\ report' = [report EXCEPT !.failed = @ + 1]
  BY DEF NoSchema, WithoutSchema, store, landing
<1>2. pc \in InLoop
  BY <1>1 DEF InLoop
<1>3. /\ report' \in Reports /\ report'.fallbacks = report.fallbacks
      /\ report'.errors = report.errors /\ report'.succeeded = report.succeeded
      /\ report'.failed = report.failed + 1 /\ report'.skipped = report.skipped
  BY <1>1, <1>2, AtItemFacts DEF Reports
<1>4. Passed
  BY <1>1, <1>2, <1>3, AtItemFacts DEF Passed, Outcome
<1>5. pc' = "lists" /\ prime' = FALSE /\ source' = NoSet
  BY <1>1 DEF NextList, Goto
<1>6. Kept
  BY <1>1, <1>2, <1>3, <1>5, AtItemFacts DEF Kept, AtItem
<1> QED
  BY <1>4, <1>6, LoopStep

(* A list left alone by a resume.                                           *)
LEMMA SkipInv ==
  ASSUME IInv, SkipComplete
  PROVE  IInv'
<1>1. /\ pc = "lists" /\ todo # {} /\ List \in schemas /\ NextList /\ Running
      /\ UNCHANGED <<faults, sets, disk, mem, cached, begun, readFrom>>
      /\ report' = [report EXCEPT !.skipped = @ + 1, !.succeeded = @ + 1]
      /\ mem[List].status = "complete"
  BY DEF SkipComplete, Skip, AtList, store, landing
<1>2. pc \in InLoop
  BY <1>1 DEF InLoop
<1>3. /\ report' \in Reports /\ report'.fallbacks = report.fallbacks
      /\ report'.errors = report.errors /\ report'.succeeded = report.succeeded + 1
      /\ report'.failed = report.failed /\ report'.skipped = report.skipped + 1
  <2>1. report \in Reports
    BY <1>1, <1>2, AtItemFacts
  <2> DEFINE r == [report EXCEPT !.skipped = @ + 1]
  <2>2. /\ r \in Reports /\ r.fallbacks = report.fallbacks
        /\ r.errors = report.errors /\ r.succeeded = report.succeeded
        /\ r.failed = report.failed /\ r.skipped = report.skipped + 1
    BY <2>1 DEF Reports
  <2>3. report' = [r EXCEPT !.succeeded = @ + 1]
    BY <1>1
  <2> HIDE DEF r
  <2> QED
    BY <2>2, <2>3 DEF Reports
<1>4. Passed
  BY <1>1, <1>2, <1>3, AtItemFacts DEF Passed, Outcome
<1>5. pc' = "lists" /\ prime' = FALSE /\ source' = NoSet
  BY <1>1 DEF NextList, Goto
<1>6. Kept
  BY <1>1, <1>2, <1>3, <1>5, AtItemFacts DEF Kept, AtItem
<1> QED
  BY <1>4, <1>6, LoopStep

(* A list that is begun or gone on with.                                    *)
LEMMA CrawlListInv ==
  ASSUME IInv, AtList, NEW resume \in BOOLEAN, NEW thenPrime \in BOOLEAN, NEW e \in Entries,
         CrawlList(resume, thenPrime, e)
  PROVE  IInv'
<1> DEFINE goesOn == resume /\ e.checkpoint
           f == [e EXCEPT !.status = "in_progress", !.checkpoint = goesOn]
<1>1. /\ pc = "lists" /\ todo # {} /\ List \in schemas /\ pc \in InLoop
      /\ \/ UNCHANGED <<begun, readFrom>>
         \/ /\ begun' = [begun EXCEPT ![List] = runs]
            /\ readFrom' = [readFrom EXCEPT ![List] = {}]
      /\ \/ /\ SaveEntry(List, f)
            /\ prime' = thenPrime
            /\ pc' \in {"source", "pages"} /\ UNCHANGED <<command, exit, runs>>
            /\ UNCHANGED <<faults, todo, source, sets, report, cached>> /\ Running
         \/ Raised(f)
  BY DEF CrawlList, AtList, Goto, InLoop
<1>2. f \in Entries
  <2>1. goesOn \in BOOLEAN /\ "in_progress" \in Statuses
    BY DEF Entries, Statuses
  <2> HIDE DEF goesOn
  <2> QED
    BY <2>1 DEF Entries
<1> HIDE DEF f
<1>3. /\ begun' \in [Lists -> 0 .. runs] /\ readFrom' \in [Lists -> SUBSET Sets]
      /\ \A l \in Lists : readFrom'[l] \subseteq readFrom[l]
  <2>1. runs \in 0 .. runs
    BY <1>1, AtItemFacts
  <2> QED
    BY <1>1, <2>1, AtItemFacts
<1>4. CASE Raised(f)
  <2>1. \A l \in Lists : Distinguishable(l) => readFrom'[l] \subseteq {NoSet, NameOf(l)}
    BY <1>1, <1>3, AtItemFacts
  <2> QED
    BY <1>1, <1>2, <1>3, <1>4, <2>1, RaisedInv
<1>5. CASE /\ SaveEntry(List, f)
           /\ prime' = thenPrime
           /\ pc' \in {"source", "pages"} /\ UNCHANGED <<command, exit, runs>>
           /\ UNCHANGED <<faults, todo, source, sets, report, cached>> /\ Running
  <2>1. /\ disk' = mem' /\ disk' \in [Lists -> Entries]
        /\ \A l \in Lists \ {List} : disk'[l] = disk[l]
    BY <1>1, <1>2, <1>5, Saved
  <2>2. Stayed
    BY <1>1, <1>5, <2>1, AtItemFacts DEF Stayed, AtItem
  <2>3. Kept
    BY <1>1, <1>3, <1>5, <2>1, AtItemFacts DEF Kept
  <2> QED
    BY <2>2, <2>3, LoopStep
<1> QED
  BY <1>1, <1>4, <1>5

LEMMA BeginCrawlInv ==
  ASSUME IInv, BeginCrawl \/ FullCrawlInSync \/ TokenRejected
  PROVE  IInv'
<1> DEFINE dropped == [mem[List] EXCEPT !.token = FALSE]
<1>1. AtList /\ pc \in InLoop /\ todo # {} /\ List \in schemas
  BY DEF BeginCrawl, FullCrawlInSync, TokenRejected, AtList, InLoop
<1>2. mem[List] \in Entries
  BY <1>1, AtItemFacts
<1>3. dropped \in Entries
  BY <1>2 DEF Entries
<1>4. SupportsTokens \in BOOLEAN
  BY DEF SupportsTokens
<1>5. \/ CrawlList(FALSE, FALSE, mem[List])
      \/ CrawlList(TRUE, FALSE, mem[List])
      \/ CrawlList(FALSE, SupportsTokens, mem[List])
      \/ CrawlList(FALSE, TRUE, dropped)
      \/ Raised(dropped) /\ UNCHANGED <<begun, readFrom>>
  BY DEF BeginCrawl, FullCrawlInSync, TokenRejected
<1> HIDE DEF dropped
<1>6. CASE Raised(dropped) /\ UNCHANGED <<begun, readFrom>>
  BY <1>1, <1>3, <1>6, RaisedHere
<1>7. TRUE \in BOOLEAN /\ FALSE \in BOOLEAN
  OBVIOUS
<1> QED
  BY <1>1, <1>2, <1>3, <1>4, <1>5, <1>6, <1>7, CrawlListInv

(* A list whose changes were read.                                          *)
LEMMA SyncChangesInv ==
  ASSUME IInv, SyncChanges
  PROVE  IInv'
<1>1. /\ pc = "lists" /\ todo # {} /\ List \in schemas /\ pc \in InLoop
      /\ mem[List].status = "complete"
      /\ begun' = [begun EXCEPT ![List] = runs]
      /\ readFrom' = [readFrom EXCEPT ![List] = @ \cup {NoSet}]
      /\ \/ /\ SaveEntry(List, mem[List])
            /\ NextList /\ Running
            /\ report' = [report EXCEPT !.succeeded = @ + 1]
            /\ UNCHANGED <<faults, sets, cached>>
         \/ Raised(mem[List])
  BY DEF SyncChanges, AtList, CanSync, InLoop
<1>2. /\ begun' \in [Lists -> 0 .. runs] /\ readFrom' \in [Lists -> SUBSET Sets]
      /\ \A l \in Lists : Distinguishable(l) => readFrom'[l] \subseteq {NoSet, NameOf(l)}
  <2>1. runs \in 0 .. runs
    BY <1>1, AtItemFacts
  <2>2. \A l \in Lists : readFrom'[l] \subseteq readFrom[l] \cup {NoSet}
    BY <1>1, AtItemFacts
  <2> QED
    BY <1>1, <2>1, <2>2, AtItemFacts
<1>3. CASE Raised(mem[List])
  BY <1>1, <1>2, <1>3, AtItemFacts, RaisedInv
<1>4. CASE /\ SaveEntry(List, mem[List])
           /\ NextList /\ Running
           /\ report' = [report EXCEPT !.succeeded = @ + 1]
           /\ UNCHANGED <<faults, sets, cached>>
  <2>1. /\ report' \in Reports /\ report'.fallbacks = report.fallbacks
        /\ report'.errors = report.errors /\ report'.succeeded = report.succeeded + 1
        /\ report'.failed = report.failed /\ report'.skipped = report.skipped
    BY <1>1, <1>4, AtItemFacts DEF Reports
  <2>2. /\ disk' = mem' /\ disk' \in [Lists -> Entries] /\ disk'[List] = mem[List]
        /\ \A l \in Lists \ {List} : disk'[l] = disk[l]
    BY <1>1, <1>4, AtItemFacts, Saved
  <2>3. Passed
    <3>1. schemas \subseteq Lists
      BY DEF IInv, TypeOK
    <3> QED
      BY <1>1, <1>4, <2>1, <2>2, <3>1 DEF Passed, Outcome
  <2>4. pc' = "lists" /\ prime' = FALSE /\ source' = NoSet
    BY <1>4 DEF NextList, Goto
  <2>5. Kept
    BY <1>1, <1>2, <1>4, <2>1, <2>2, <2>4, AtItemFacts DEF Kept, AtItem
  <2> QED
    BY <2>3, <2>5, LoopStep
<1> QED
  BY <1>1, <1>3, <1>4

(* A list whose collection was looked for.                                  *)
LEMMA ChooseSourceInv ==
  ASSUME IInv, ChooseSource
  PROVE  IInv'
<1>1. /\ pc = "source" /\ pc' = "pages" /\ UNCHANGED <<command, exit, runs>>
      /\ source' \in {NoSet, EntitySetFor(Title[List], Candidates(WebOf[List]))}
      /\ sets' \in {sets, sets \cup {WebOf[List]}}
      /\ report' \in {report, [report EXCEPT !.fallbacks = @ \cup {List}]}
      /\ UNCHANGED <<faults, todo, prime, disk, mem, cached, begun, readFrom>> /\ Running
  BY DEF ChooseSource, Goto, store, landing
<1>2. pc \in InLoop /\ pc \in AtItem /\ todo # {}
  BY <1>1 DEF InLoop, AtItem, IInv, LoopInv, Looping
<1>3. /\ report' \in Reports /\ report'.fallbacks \subseteq inScope
      /\ report'.errors = report.errors /\ report'.succeeded = report.succeeded
      /\ report'.failed = report.failed /\ report'.skipped = report.skipped
  <2>1. List \in Lists /\ List \in inScope /\ report \in Reports /\ report.fallbacks \subseteq inScope
    BY <1>2, AtItemFacts
  <2> QED
    BY <1>1, <2>1 DEF Reports
<1>4. Stayed
  BY <1>1, <1>2, <1>3, AtItemFacts DEF Stayed, AtItem
<1>5. Kept
  <2>1. /\ List \in Lists /\ NoSet \in Sets /\ sets \subseteq Webs /\ WebOf[List] \in Webs
    BY <1>2, AtItemFacts, Numbered
  <2>2. source' \in Sets /\ (Distinguishable(List) => source' \in {NoSet, NameOf(List)})
    BY <1>1, <2>1, SourceIs
  <2> QED
    BY <1>1, <1>2, <1>3, <2>1, <2>2, AtItemFacts DEF Kept
<1> QED
  BY <1>4, <1>5, LoopStep

(* A page of rows.                                                          *)
LEMMA SavePageInv ==
  ASSUME IInv, SavePage
  PROVE  IInv'
<1>1. /\ pc = "pages"
      /\ readFrom' = [readFrom EXCEPT ![List] = @ \cup {source}] /\ begun' = begun
      /\ \/ /\ SaveEntry(List, AtCheckpoint) /\ Running
            /\ UNCHANGED <<command, pc, exit, runs, faults, todo, prime, source, sets, report, cached>>
         \/ Raised(AtCheckpoint)
  BY DEF SavePage, process, list
<1>2. pc \in InLoop /\ pc \in AtItem /\ todo # {}
  BY <1>1 DEF InLoop, AtItem, IInv, LoopInv, Looping
<1>3. AtCheckpoint \in Entries
  BY <1>2, AtItemFacts DEF Entries, AtCheckpoint
<1>4. /\ begun' \in [Lists -> 0 .. runs] /\ readFrom' \in [Lists -> SUBSET Sets]
      /\ \A l \in Lists : Distinguishable(l) => readFrom'[l] \subseteq {NoSet, NameOf(l)}
  <2>1. readFrom' \in [Lists -> SUBSET Sets] /\ begun' \in [Lists -> 0 .. runs]
    BY <1>1, <1>2, AtItemFacts
  <2>2. ASSUME NEW l \in Lists, Distinguishable(l) PROVE readFrom'[l] \subseteq {NoSet, NameOf(l)}
    <3>1. readFrom[l] \subseteq {NoSet, NameOf(l)} /\ readFrom \in [Lists -> SUBSET Sets]
      BY <1>2, <2>2, AtItemFacts
    <3>2. CASE l = List
      <4>1. source \in {NoSet, NameOf(l)}
        BY <1>2, <2>2, <3>2, AtItemFacts
      <4> QED
        BY <1>1, <3>1, <3>2, <4>1
    <3>3. CASE l # List
      BY <1>1, <3>1, <3>3
    <3> QED
      BY <3>2, <3>3
  <2> QED
    BY <2>1, <2>2
<1>5. CASE Raised(AtCheckpoint)
  BY <1>2, <1>3, <1>4, <1>5, AtItemFacts, RaisedInv
<1>6. CASE /\ SaveEntry(List, AtCheckpoint) /\ Running
           /\ UNCHANGED <<command, pc, exit, runs, faults, todo, prime, source, sets, report, cached>>
  <2>1. /\ disk' = mem' /\ disk' \in [Lists -> Entries]
        /\ \A l \in Lists \ {List} : disk'[l] = disk[l]
    BY <1>2, <1>3, <1>6, Saved
  <2>2. Stayed
    BY <1>1, <1>2, <1>6, <2>1, AtItemFacts DEF Stayed
  <2>3. Kept
    BY <1>1, <1>2, <1>4, <1>6, <2>1, AtItemFacts DEF Kept
  <2> QED
    BY <2>2, <2>3, LoopStep
<1> QED
  BY <1>1, <1>5, <1>6

(* A list that was read to its end.                                         *)
LEMMA EndOfListInv ==
  ASSUME IInv, EndOfList
  PROVE  IInv'
<1> DEFINE e == Complete
<1>1. /\ pc = "pages"
      /\ \/ /\ SaveEntry(List, e)
            /\ UNCHANGED <<faults, sets, cached, begun, readFrom>> /\ Running
            /\ \/ prime /\ pc' = "token" /\ UNCHANGED <<command, exit, runs, todo, prime, source, report>>
               \/ NextList /\ report' = [report EXCEPT !.succeeded = @ + 1]
         \/ Raised(e) /\ UNCHANGED <<begun, readFrom>>
  BY DEF EndOfList, Goto, landing
<1>2. pc \in InLoop /\ pc \in AtItem /\ todo # {}
  BY <1>1 DEF InLoop, AtItem, IInv, LoopInv, Looping
<1>3. e \in Entries /\ e.status = "complete"
  <2>1. mem[List] \in Entries /\ "complete" \in Statuses
    BY <1>2, AtItemFacts DEF Statuses
  <2> QED
    BY <2>1 DEF Entries, Complete
<1> HIDE DEF e
<1>0. CASE Raised(e)
  BY <1>1, <1>2, <1>3, <1>0, AtItemFacts, RaisedHere
<1>4. ASSUME SaveEntry(List, e)
      PROVE  /\ disk' = mem' /\ disk' \in [Lists -> Entries] /\ disk'[List] = e
             /\ \A l \in Lists \ {List} : disk'[l] = disk[l]
  BY <1>2, <1>3, <1>4, Saved
<1>5. CASE /\ SaveEntry(List, e)
           /\ UNCHANGED <<faults, sets, cached, begun, readFrom>> /\ Running
           /\ prime /\ pc' = "token" /\ UNCHANGED <<command, exit, runs, todo, prime, source, report>>
  <2>1. Stayed
    BY <1>1, <1>2, <1>3, <1>4, <1>5, AtItemFacts DEF Stayed, AtItem
  <2>2. Kept
    BY <1>1, <1>2, <1>4, <1>5, AtItemFacts DEF Kept
  <2> QED
    BY <2>1, <2>2, LoopStep
<1>6. CASE /\ SaveEntry(List, e)
           /\ UNCHANGED <<faults, sets, cached, begun, readFrom>> /\ Running
           /\ NextList /\ report' = [report EXCEPT !.succeeded = @ + 1]
  <2>1. /\ report' \in Reports /\ report'.fallbacks = report.fallbacks
        /\ report'.errors = report.errors /\ report'.succeeded = report.succeeded + 1
        /\ report'.failed = report.failed /\ report'.skipped = report.skipped
    BY <1>2, <1>6, AtItemFacts DEF Reports
  <2>2. Passed
    <3>1. schemas \subseteq Lists /\ List \in schemas
      BY <1>2, AtItemFacts DEF IInv, TypeOK
    <3> QED
      BY <1>1, <1>2, <1>3, <1>4, <1>6, <2>1, <3>1 DEF Passed, Outcome
  <2>3. pc' = "lists" /\ prime' = FALSE /\ source' = NoSet
    BY <1>6 DEF NextList, Goto
  <2>4. Kept
    BY <1>1, <1>2, <1>4, <1>6, <2>1, <2>3, AtItemFacts DEF Kept, AtItem
  <2> QED
    BY <2>2, <2>4, LoopStep
<1> QED
  BY <1>0, <1>1, <1>5, <1>6

(* A list that was asked for a token.                                       *)
LEMMA PrimedInv ==
  ASSUME IInv, Primed
  PROVE  IInv'
<1>1. /\ pc = "token"
      /\ \/ /\ AfterCrawl
            /\ SaveEntry(List, WithToken) \/ UNCHANGED <<disk, mem>>
         \/ Raised(WithToken) /\ UNCHANGED <<begun, readFrom>>
  BY DEF Primed, store
<1>2. pc \in InLoop /\ pc \in AtItem /\ todo # {}
  BY <1>1 DEF InLoop, AtItem, IInv, LoopInv, Looping
<1>3. /\ disk = mem /\ disk \in [Lists -> Entries] /\ List \in Lists /\ List \in schemas
      /\ disk[List].status = "complete"
  BY <1>1, <1>2, AtItemFacts
<1>4. WithToken \in Entries /\ WithToken.status = "complete"
  BY <1>3 DEF WithToken, Entries
<1>5. CASE Raised(WithToken) /\ UNCHANGED <<begun, readFrom>>
  BY <1>2, <1>3, <1>4, <1>5, RaisedHere
<1>6. CASE /\ AfterCrawl
           /\ SaveEntry(List, WithToken) \/ UNCHANGED <<disk, mem>>
  <2>1. /\ NextList /\ report' = [report EXCEPT !.succeeded = @ + 1]
        /\ UNCHANGED <<faults, sets, cached, begun, readFrom>> /\ Running
    BY <1>6 DEF AfterCrawl, landing
  <2>2. /\ disk' = mem' /\ disk' \in [Lists -> Entries] /\ disk'[List].status = "complete"
        /\ \A l \in Lists \ {List} : disk'[l] = disk[l]
    <3>1. CASE UNCHANGED <<disk, mem>>
      BY <1>3, <3>1
    <3>2. CASE SaveEntry(List, WithToken)
      BY <1>2, <1>4, <3>2, Saved
    <3> QED
      BY <1>6, <3>1, <3>2
  <2>3. /\ report' \in Reports /\ report'.fallbacks = report.fallbacks
        /\ report'.errors = report.errors /\ report'.succeeded = report.succeeded + 1
        /\ report'.failed = report.failed /\ report'.skipped = report.skipped
    BY <1>2, <2>1, AtItemFacts DEF Reports
  <2>4. Passed
    <3>1. schemas \subseteq Lists
      BY DEF IInv, TypeOK
    <3> QED
      BY <1>2, <1>3, <2>1, <2>2, <2>3, <3>1 DEF Passed, Outcome
  <2>5. pc' = "lists" /\ prime' = FALSE /\ source' = NoSet
    BY <2>1 DEF NextList, Goto
  <2>6. Kept
    BY <1>2, <2>1, <2>2, <2>3, <2>5, AtItemFacts DEF Kept, AtItem
  <2> QED
    BY <2>4, <2>6, LoopStep
<1> QED
  BY <1>1, <1>5, <1>6

(* An exception leaves a list, whether it has been crawled or not.          *)
LEMMA ListRaisesInv ==
  ASSUME IInv, ListRaises
  PROVE  IInv'
<1>1. InList /\ Raised(mem[List]) /\ UNCHANGED <<begun, readFrom>>
  BY DEF ListRaises
<1>2. pc \in InLoop /\ todo # {} /\ List \in schemas
  <2>1. CASE pc \in {"source", "pages"}
    BY <2>1 DEF InLoop, AtItem, IInv, LoopInv, Looping
  <2>2. CASE AtList
    BY <2>2 DEF AtList, InLoop
  <2> QED
    BY <1>1, <2>1, <2>2 DEF InList
<1> QED
  BY <1>1, <1>2, AtItemFacts, RaisedHere

(* It costs that list, and no other.                                        *)
LEMMA MarkFailedInv ==
  ASSUME IInv, MarkFailed
  PROVE  IInv'
<1>1. /\ pc = "handler" /\ NextList /\ Running /\ SaveEntry(List, Failed)
      /\ report' = [report EXCEPT !.failed = @ + 1, !.errors = @ \cup {<<Scope, List>>}]
      /\ UNCHANGED <<faults, sets, cached, begun, readFrom>>
  BY DEF MarkFailed, FailList, landing
<1>2. pc \in InLoop /\ todo # {} /\ List \in schemas
  BY <1>1 DEF InLoop, AtItem, IInv, LoopInv, Looping
<1>3. Failed \in Entries /\ Failed.status = "failed"
  <2>1. mem[List] \in Entries /\ "failed" \in Statuses
    BY <1>2, AtItemFacts DEF Statuses
  <2> QED
    BY <2>1 DEF Failed, Entries
<1>4. /\ disk' = mem' /\ disk' \in [Lists -> Entries] /\ disk'[List].status = "failed"
      /\ \A l \in Lists \ {List} : disk'[l] = disk[l]
  BY <1>1, <1>2, <1>3, Saved
<1>5. Scope \in {"crawl", "sync"}
  BY DEF Scope
<1>6. /\ report' \in Reports /\ report'.fallbacks = report.fallbacks
      /\ report'.errors = report.errors \cup {<<Scope, List>>}
      /\ report'.succeeded = report.succeeded /\ report'.failed = report.failed + 1
      /\ report'.skipped = report.skipped
  <2> DEFINE error == <<Scope, List>>
             r == [report EXCEPT !.failed = @ + 1]
  <2>1. error \in Errors /\ report \in Reports
    BY <1>2, <1>5, AtItemFacts
  <2>2. report' = [r EXCEPT !.errors = @ \cup {error}]
    BY <1>1
  <2>3. report'.errors = report.errors \cup {<<Scope, List>>} <=>
           report'.errors = report.errors \cup {error}
    OBVIOUS
  <2> HIDE DEF error
  <2>4. /\ r \in Reports /\ r.fallbacks = report.fallbacks
        /\ r.errors = report.errors /\ r.succeeded = report.succeeded
        /\ r.failed = report.failed + 1 /\ r.skipped = report.skipped
    BY <2>1 DEF Reports
  <2> HIDE DEF r
  <2>5. /\ report' \in Reports /\ report'.fallbacks = r.fallbacks
        /\ report'.errors = r.errors \cup {error}
        /\ report'.succeeded = r.succeeded /\ report'.failed = r.failed
        /\ report'.skipped = r.skipped
    BY <2>1, <2>2, <2>4 DEF Reports
  <2> QED
    BY <2>3, <2>4, <2>5
<1>7. Passed
  <2>1. schemas \subseteq Lists
    BY DEF IInv, TypeOK
  <2> QED
    BY <1>1, <1>2, <1>4, <1>5, <1>6, <2>1 DEF Passed, Outcome
<1>8. pc' = "lists" /\ prime' = FALSE /\ source' = NoSet
  BY <1>1 DEF NextList, Goto
<1>9. Kept
  BY <1>1, <1>2, <1>4, <1>6, <1>8, AtItemFacts DEF Kept, AtItem
<1> QED
  BY <1>7, <1>9, LoopStep

(* The loop is through, and with it the command.                            *)
LEMMA FinishInv ==
  ASSUME IInv, Finish
  PROVE  IInv'
<1>1. /\ pc = "lists" /\ todo = {} /\ pc' = "idle" /\ exit' = 0 /\ mem' = disk
      /\ UNCHANGED <<mangled, command, runs, faults, websLeft, inScope, schemasLeft, schemas>>
      /\ UNCHANGED <<todo, prime, source, sets, report, disk, cached, begun, readFrom>>
      /\ UNCHANGED discovery /\ UNCHANGED <<queue, seen, titled>>
  BY DEF Finish, Through, Exit, discovery, settings, scope, list, landing
<1>2. WalkInv'
  BY <1>1, WalkSame DEF IInv
<1>3. TypeOK'
  <2>1. TypeOK /\ WalkTypeOK'
    BY <1>2 DEF IInv, WalkInv
  <2>2. Sets' = Sets
    BY <1>1, SameNames
  <2> QED
    BY <1>1, <2>1, <2>2 DEF TypeOK
<1>4. Looping
  BY <1>1 DEF Looping, InLoop
<1>5. /\ ListErrors' = ListErrors /\ SchemaErrors' = SchemaErrors /\ ItemErrors' = ItemErrors
  BY <1>1, SameErrors
<1>6. PhaseInv'
  BY <1>1, <1>4 DEF IInv, PhaseInv, InLoop
<1>7. ScopeInv'
  BY <1>1, <1>4, SameScope DEF IInv, ScopeInv
<1>8. SchemaInv'
  BY <1>1, <1>4, <1>5 DEF IInv, SchemaInv
<1>9. LoopInv'
  BY <1>1, <1>4, <1>5 DEF IInv, LoopInv, AtItem
<1>10. RowsInv'
  BY <1>1, SameNames DEF IInv, RowsInv, OwnRows, AtItem
<1> QED
  BY <1>2, <1>3, <1>6, <1>7, <1>8, <1>9, <1>10 DEF IInv

LEMMA StutterInv ==
  ASSUME IInv, UNCHANGED vars
  PROVE  IInv'
<1>1. /\ UNCHANGED <<mangled, command, pc, exit, runs, faults, websLeft, inScope, schemasLeft, schemas>>
      /\ UNCHANGED <<todo, prime, source, sets, report, disk, mem, cached, begun, readFrom>>
      /\ UNCHANGED discovery /\ UNCHANGED <<queue, seen, titled>>
  BY DEF vars, discovery, settings, process, scope, list, store, landing
<1>2. WalkInv'
  BY <1>1, WalkSame DEF IInv
<1>3. TypeOK'
  <2>1. TypeOK /\ WalkTypeOK'
    BY <1>2 DEF IInv, WalkInv
  <2>2. Sets' = Sets
    BY <1>1, SameNames
  <2> QED
    BY <1>1, <2>1, <2>2 DEF TypeOK
<1>4. /\ ListErrors' = ListErrors /\ SchemaErrors' = SchemaErrors /\ ItemErrors' = ItemErrors
      /\ Looping' <=> Looping
  BY <1>1, SameErrors DEF Looping, WentThrough
<1>5. PhaseInv'
  BY <1>1, <1>4 DEF IInv, PhaseInv, WentThrough
<1>6. ScopeInv'
  BY <1>1, <1>4, SameScope DEF IInv, ScopeInv
<1>7. SchemaInv'
  BY <1>1, <1>4 DEF IInv, SchemaInv
<1>8. LoopInv'
  <2>1. List' = List
    BY <1>1 DEF List
  <2> QED
    BY <1>1, <1>4, <2>1 DEF IInv, LoopInv
<1>9. RowsInv'
  <2>1. OwnRows'
    BY <1>1, SameNames DEF IInv, RowsInv, OwnRows
  <2>2. ASSUME pc \in AtItem
        PROVE  Distinguishable(List)' => source' \in {NoSet, NameOf(List)'}
    <3>1. List' = List /\ List \in Lists
      <4>1. pc \in InLoop /\ todo # {} /\ List' = List
        BY <1>1, <2>2 DEF IInv, LoopInv, Looping, InLoop, AtItem, List
      <4> QED
        BY <4>1, LoopFacts
    <3> DEFINE m == List
    <3>2. Distinguishable(m) => source \in {NoSet, NameOf(m)}
      BY <2>2 DEF IInv, RowsInv
    <3>3. m \in Lists /\ List' = m
      BY <3>1
    <3> QED
      BY <1>1, <3>2, <3>3, SameNames
  <2> QED
    BY <1>1, <2>1, <2>2 DEF RowsInv
<1> QED
  BY <1>2, <1>3, <1>5, <1>6, <1>7, <1>8, <1>9 DEF IInv

LEMMA EndedInv ==
  ASSUME IInv, Raise \/ Abort \/ Interrupt
  PROVE  IInv'
<1>1. Gone /\ pc' = "idle" /\ exit' \in {1, 2, 130} /\ mem' = disk /\ UNCHANGED <<command, runs>>
  BY DEF Raise, Abort, Interrupt, Exit
<1> QED
  BY <1>1, GoneInv

LEMMA DiscoverInv ==
  ASSUME IInv, Discover
  PROVE  IInv'
<1>1. CASE AllSubWebs \/ FallBackToWalk \/ StopAtDepth \/ VisitWeb \/ SkipWeb
  <2>1. pc = "discover" /\ InDiscovery /\ (Fault \/ UNCHANGED faults)
    BY <1>1 DEF AllSubWebs, FallBackToWalk, StopAtDepth, VisitWeb, SkipWeb, AtDiscover, AtWalk
  <2>2. WalkInv
    BY DEF IInv
  <2>3. CASE AllSubWebs
    <3>1. seen = {} /\ RecursiveReply
      BY <2>3 DEF AllSubWebs, AtDiscover
    <3>2. WalkInv'
      BY <2>2, <3>1, AllFound
    <3> QED
      BY <2>1, <3>2, FaultInv, DiscoveryInv
  <2>4. CASE FallBackToWalk
    <3>1. WalkInv'
      BY <2>4, WalkBegins DEF FallBackToWalk
    <3> QED
      BY <2>1, <3>1, FaultInv, DiscoveryInv
  <2>5. CASE StopAtDepth \/ VisitWeb \/ SkipWeb
    <3>1. TooDeep \/ Visit \/ Unreadable
      BY <2>5 DEF StopAtDepth, VisitWeb, SkipWeb
    <3>2. WalkInv'
      BY <2>2, <3>1, WalkOn
    <3> QED
      BY <2>1, <3>2, FaultInv, DiscoveryInv
  <2> QED
    BY <1>1, <2>3, <2>4, <2>5
<1>2. CASE DiscoveryRaises \/ EnumerationRaises
  BY <1>2, EndedInv DEF DiscoveryRaises, EnumerationRaises
<1>3. CASE ScopeWebs
  BY <1>3, ScopeWebsInv
<1>4. CASE EnumerateLists \/ EnumerationFails
  BY <1>4, EnumerateInv
<1>5. CASE Discovered
  BY <1>5, DiscoveredInv
<1> QED
  BY <1>1, <1>2, <1>3, <1>4, <1>5 DEF Discover

LEMMA FetchSchemasInv ==
  ASSUME IInv, FetchSchemas
  PROVE  IInv'
<1>1. CASE SchemasRaise
  BY <1>1, EndedInv DEF SchemasRaise
<1> QED
  BY <1>1, SchemasInv, BeginListsInv DEF FetchSchemas

LEMMA CrawlListsInv ==
  ASSUME IInv, CrawlLists
  PROVE  IInv'
<1>1. CASE HandlerRaises \/ AbortList
  BY <1>1, EndedInv DEF HandlerRaises, AbortList
<1>2. CASE BeginCrawl \/ FullCrawlInSync \/ TokenRejected
  BY <1>2, BeginCrawlInv
<1>3. CASE NoSchema \/ SkipComplete \/ SyncChanges
  BY <1>3, NoSchemaInv, SkipInv, SyncChangesInv
<1>4. CASE ChooseSource \/ SavePage \/ EndOfList \/ Primed
  BY <1>4, ChooseSourceInv, SavePageInv, EndOfListInv, PrimedInv
<1>5. CASE ListRaises \/ MarkFailed \/ Finish
  BY <1>5, ListRaisesInv, MarkFailedInv, FinishInv
<1> QED
  BY <1>1, <1>2, <1>3, <1>4, <1>5 DEF CrawlLists

(* Every command, whatever fails in it, keeps what the parts above say of   *)
(* the walk, of the scope, of the schemas, of the loop and of the rows.     *)
THEOREM Invariance == Spec => []IInv
<1>1. Init => IInv
  BY InitInv
<1>2. IInv /\ [Next]_vars => IInv'
  <2> SUFFICES ASSUME IInv, [Next]_vars PROVE IInv'
    OBVIOUS
  <2>1. CASE Proceed
    BY <2>1, DiscoverInv, FetchSchemasInv, CrawlListsInv DEF Proceed
  <2>2. CASE Interrupt
    BY <2>2, EndedInv
  <2>3. ASSUME NEW c \in Commands, Start(c) PROVE IInv'
    BY <2>3, StartInv
  <2>4. CASE UNCHANGED vars
    BY <2>4, StutterInv
  <2> QED
    BY <2>1, <2>2, <2>3, <2>4 DEF Next
<1> QED
  BY <1>1, <1>2, PTL DEF Spec

(* Types, and the state file calls failed what the report calls failed: the *)
(* handler of one list (crawl.py:653-666) and no other.                     *)
THEOREM ConsistentHolds == Spec => []Consistent
<1>1. IInv => Consistent
  <2> SUFFICES ASSUME IInv PROVE Consistent
    OBVIOUS
  <2>1. FailedIsOnDisk
    <3> SUFFICES ASSUME WentThrough, NEW l \in schemas
                 PROVE  disk[l].status = "failed" <=> l \in FailedIn({"crawl", "sync"})
      BY DEF FailedIsOnDisk
    <3>1. pc = "idle" /\ Looping
      BY DEF Looping, WentThrough
    <3>2. /\ todo = {}
          /\ disk[l].status = IF l \in ItemErrors THEN "failed" ELSE "complete"
      BY <3>1 DEF IInv, LoopInv
    <3> QED
      BY <3>2 DEF ItemErrors
  <2> QED
    BY <2>1 DEF IInv, Consistent
<1> QED
  BY <1>1, Invariance, PTL

(* What the walk of the webs leaves out has a reason it states: an          *)
(* unreadable web, or the depth limit, above it (webs.py:134-184).          *)
THEOREM OmissionsExplainedHolds == Spec => []OmissionsExplained
<1>1. IInv => OmissionsExplained
  BY WalkExplains DEF IInv
<1> QED
  BY <1>1, Invariance, PTL

(* A list of the farm that is not complete when a command ends with code 0  *)
(* is named, or a web above it is (crawl.py:220-279, 630-706, webs.py).     *)
THEOREM NoListLostHolds == Spec => []NoListLost
<1>1. IInv => NoListLost
  <2> SUFFICES ASSUME IInv, WentThrough, NEW l \in Lists, ListInScope(l),
                      WebOf[l] \in Reachable(Root), Meant(WebOf[l]),
                      WebOf[l] = Root => WebOf[l] \in titled \/ WebInScope(WebOf[l])
               PROVE  \/ disk[l].status = "complete"
                      \/ l \in FailedIn({"schema", "crawl", "sync"})
                      \/ <<"discover", WebOf[l]>> \in report.errors
                      \/ WebOf[l] \notin seen /\ \E v \in Warned : WebOf[l] \in Reachable(v)
    BY DEF NoListLost
  <2> DEFINE w == WebOf[l]
  <2>1. pc = "idle" /\ Looping /\ queue = <<>> /\ seen # {} /\ websLeft = {}
    BY DEF IInv, PhaseInv, Looping, WentThrough
  <2>2. CASE w \notin seen
    <3>1. MissingIsBelowWarned
      BY WalkExplains DEF IInv, OmissionsExplained
    <3> QED
      BY <2>1, <2>2, <3>1 DEF MissingIsBelowWarned
  <2>3. CASE w \in seen
    <3>1. w \in titled \/ w = Root
      BY <2>3 DEF IInv, WalkInv, VisitInv
    <3>2. WebInScope(w)
      <4>1. CASE w \in titled
        BY <4>1 DEF Meant, WebInScope, Matches
      <4> QED
        BY <3>1, <4>1
    <3>3. l \in inScope \/ <<"discover", w>> \in report.errors
      BY <2>1, <2>3, <3>2 DEF IInv, ScopeInv
    <3>4. CASE l \in inScope
      <4>1. SchemaErrors = inScope \ schemas /\ todo = {}
        BY <2>1 DEF IInv, SchemaInv, LoopInv
      <4>2. CASE l \in schemas
        <5>1. disk[l].status = IF l \in ItemErrors THEN "failed" ELSE "complete"
          BY <2>1, <4>1, <4>2 DEF IInv, LoopInv
        <5> QED
          BY <5>1, ErrorSets DEF ListErrors
      <4>3. CASE l \notin schemas
        BY <3>4, <4>1, <4>3, ErrorSets DEF ListErrors
      <4> QED
        BY <4>2, <4>3
    <3> QED
      BY <3>3, <3>4
  <2> QED
    BY <2>2, <2>3
<1> QED
  BY <1>1, Invariance, PTL

(* The summary counts each list in scope once, and as failed those that the *)
(* errors name (crawl.py:630-706).                                          *)
THEOREM CountsAddUpHolds == Spec => []CountsAddUp
<1>1. IInv => CountsAddUp
  <2> SUFFICES ASSUME IInv, WentThrough PROVE CountsAddUp
    BY DEF CountsAddUp
  <2>1. pc = "idle" /\ Looping
    BY DEF Looping, WentThrough
  <2>2. /\ todo = {}
        /\ report.succeeded + report.failed = Cardinality(inScope \ todo)
        /\ report.failed = Cardinality(ListErrors \ todo)
        /\ report.skipped <= report.succeeded
    BY <2>1 DEF IInv, LoopInv
  <2>3. inScope \ todo = inScope /\ ListErrors \ todo = ListErrors
    BY <2>2
  <2> QED
    BY <2>2, <2>3 DEF CountsAddUp, ListErrors
<1> QED
  BY <1>1, Invariance, PTL

(* A list whose title can be told from the names of its web's other         *)
(* collections is read from its own (odata.py:507-526).                     *)
THEOREM OwnRowsHolds == Spec => []OwnRows
<1>1. IInv => OwnRows
  BY DEF IInv, RowsInv
<1> QED
  BY <1>1, Invariance, PTL

(* An update that a save failed on, or that was left to a later save, is in *)
(* the state file when a command ends with an outcome: of all the steps     *)
(* that end one, those of a list an exception left either save the whole    *)
(* store or end with code 1 (state.py:68-90, crawl.py:653-662, 696-702).    *)
THEOREM NothingLeft == Spec => NothingLeftInMemory
<1>1. ASSUME IInv, Next, pc = "handler", pc' = "idle" PROVE exit' \in {1, 130}
  <2>1. CASE Proceed
    <3>1. ~Discover
      BY <1>1 DEF Discover, AllSubWebs, FallBackToWalk, StopAtDepth, VisitWeb, SkipWeb,
                  AtDiscover, AtWalk, DiscoveryRaises, ScopeWebs, EnumerateLists,
                  EnumerationFails, EnumerationRaises, Discovered
    <3>2. ~FetchSchemas
      BY <1>1 DEF FetchSchemas, CachedSchema, FetchSchema, SchemaFails, SchemasRaise, BeginLists
    <3>3. CASE CrawlLists
      <4>1. MarkFailed \/ HandlerRaises
        BY <1>1, <3>3 DEF CrawlLists, NoSchema, WithoutSchema, SkipComplete, Skip, AtList,
              BeginCrawl, FullCrawlInSync, SyncChanges, TokenRejected, ChooseSource, SavePage,
              EndOfList, Primed, ListRaises, InList, AbortList, Asking, Finish
      <4>2. ~MarkFailed
        BY <1>1 DEF MarkFailed, FailList, NextList, Goto
      <4> QED
        BY <4>1, <4>2 DEF HandlerRaises, Raise, Exit
    <3> QED
      BY <2>1, <3>1, <3>2, <3>3 DEF Proceed
  <2>2. CASE Interrupt
    BY <2>2 DEF Interrupt, Exit
  <2>3. CASE \E c \in Commands : Start(c)
    BY <1>1, <2>3 DEF Start
  <2> QED
    BY <1>1, <2>1, <2>2, <2>3 DEF Next
<1>2. IInv /\ [Next]_vars =>
         [pc # "idle" /\ pc' = "idle" /\ exit' \in {0, 2} => disk = mem]_vars
  <2> SUFFICES ASSUME IInv, Next, pc # "idle", pc' = "idle", exit' \in {0, 2}
               PROVE  disk = mem
    OBVIOUS
  <2>1. pc # "handler"
    BY <1>1
  <2> QED
    BY <2>1 DEF IInv, PhaseInv
<1> QED
  BY <1>2, Invariance, PTL DEF Spec, NothingLeftInMemory

=============================================================================
