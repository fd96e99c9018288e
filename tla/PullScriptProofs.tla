-------------------------- MODULE PullScriptProofs --------------------------
(***************************************************************************)
(* The pull script keeps its promises: Consistent, NothingSkipped,          *)
(* FinishedPullIsWhole and ThreadsAreWhole of PullScript hold in every      *)
(* reachable state, for any rows, servers, command lines, columns and page  *)
(* sizes.                                                                   *)
(*                                                                          *)
(* None of them is inductive.  What a file holds says nothing of the pull   *)
(* that is writing it, so the invariant says what the pull's own marks      *)
(* vouch for: in key paging `last` (what is at or below it is on disk, and  *)
(* what is on disk is at or below it), in server-driven paging `seen` and   *)
(* the place in the server's order.                                         *)
(***************************************************************************)
EXTENDS PullScript, FiniteSetTheorems, SequenceTheorems, TLAPS
-----------------------------------------------------------------------------
(* The inductive invariant.                                                 *)

KeyNow == KeyIn(option.language)
Covered(c) == OnDisk(c) \cup merged[c]
UsableAt(c) == {i \in DOMAIN file[c] : file[c][i].row # 0}
Pulling(c) == pc = "page" /\ c = Coll
Passed(i) == \E n \in 1 .. pull.at : n <= Len(ServerOrder) /\ ServerOrder[n] = i
Pulls == [mode : {"none", "key", "server"}, last : Nat, seen : Nat, size : 0 .. PageSize,
          expand : BOOLEAN, pages : Nat, written : Nat, at : Nat]

TypeInv ==
    /\ server \in Servers /\ exists \in [Collections -> SUBSET Ids]
    /\ file \in [Collections -> Seq(Lines)]
    /\ tail \in [Collections -> {"newline", "row", "torn"}]
    /\ \A c \in Collections : tail[c] # "newline" => file[c] # <<>>
    /\ pc \in {"idle", "sets", "begin", "page", "fetch"} /\ exit \in {0, 1, 2, 130}
    /\ option \in Options /\ todo \in Seq(Collections)
    /\ schema \in [Collections -> Keys \cup {NoKey, "unread"}]
    /\ pull \in Pulls
    /\ runs \in 0 .. MaxRuns /\ faults \in 0 .. MaxFaults
    /\ merged \in [Collections -> SUBSET Nat] /\ unordered \subseteq Collections
    /\ start \in [Collections -> [rows : SUBSET Ids, ordered : BOOLEAN]]

\* What is left to pull, and what a pull has been through before its loop.
StageInv ==
    /\ IsInjective(todo)
    /\ pc \in {"idle", "sets", "fetch"} => todo = <<>>
    /\ pc = "sets" => schema = NoSchema
    /\ pc = "fetch" => option.command = "attachments"
    /\ \A c \in Collections \ Keyed : schema[c] \in {"unread", NoKey}
    /\ pc = "page" =>
          /\ todo # <<>> /\ schema[Coll] # "unread"
          /\ pull.mode # "none" /\ pull.size # 0

\* A keyed file holds rows of the list, all under one name of the key, and
\* each once if the service understands what it is asked.
FileInv ==
    \A c \in Keyed :
        /\ OnDisk(c) \subseteq exists[c]
        /\ \A i, j \in UsableAt(c) :
              /\ file[c][i].key \in Keys /\ file[c][i].key = file[c][j].key
              /\ server.paging # "ignored" /\ file[c][i].row = file[c][j].row => i = j

\* The key this run has found; none only where there was no row to look at.
SchemaInv ==
    \A c \in Keyed :
        /\ schema[c] \in {"unread", NoKey, KeyNow}
        /\ schema[c] = NoKey /\ c \in ToSet(todo) /\ ~Pulling(c) => OnDisk(c) = {}

\* What `last` vouches for, and what is below it; then `seen` and `at`.
KeyPaging(c) ==
    /\ pull.at = 0 /\ (pull.pages = 0 => pull.last = pull.seen)
    /\ server.paging # "ignored" \/ pull.pages = 0 => \A i \in OnDisk(c) : i <= pull.last
    /\ start[c].ordered => c \notin unordered
    /\ c \notin unordered => \A i \in exists[c] : i <= pull.last => i \in Covered(c)
ServerPaging(c) ==
    /\ \A i \in OnDisk(c) : i <= pull.seen \/ Passed(i)
    /\ start[c].ordered =>
          \A i \in start[c].rows : i <= pull.seen \/ Passed(i) => i \in Covered(c)
PullInv ==
    \A c \in Keyed :
        Pulling(c) =>
            /\ \A i \in UsableAt(c) : file[c][i].key = KeyNow
            /\ start[c].rows \subseteq exists[c]
            /\ {pull.last, pull.seen} \subseteq exists[c] \cup {0}
            /\ schema[c] = NoKey => pull.mode = "server" /\ pull.seen = 0
            /\ pull.mode = "key" => KeyPaging(c)
            /\ pull.mode = "server" => ServerPaging(c)

\* A pull that is over without a limit has brought what there was at its start.
DoneInv ==
    \A c \in Keyed :
        option.limit = 0 /\ server.paging # "ignored" /\ start[c].ordered /\ ~Pulling(c)
            => start[c].rows \subseteq Covered(c)

IInv ==
    /\ TypeInv /\ StageInv /\ FileInv /\ SchemaInv /\ PullInv /\ DoneInv
    /\ NothingSkipped /\ ThreadsAreWhole
-----------------------------------------------------------------------------
(* Sets in order, and parts of lists.                                       *)

(* Counting what comes before each member numbers them all.                 *)
LEMMA ListedIs ==
  ASSUME NEW S, IsFiniteSet(S), NEW before \in [S -> SUBSET S],
         \A x \in S : x \notin before[x],
         \A x, y \in S : x = y \/ x \in before[y] \/ y \in before[x],
         \A x, y \in S : x \in before[y] => before[x] \subseteq before[y]
  PROVE  /\ Cardinality(S) \in Nat
         /\ Listed(S, before) \in [1 .. Cardinality(S) -> S]
         /\ \A m, n \in 1 .. Cardinality(S) :
               m < n => Listed(S, before)[m] \in before[Listed(S, before)[n]]
         /\ \A x \in S : \E n \in 1 .. Cardinality(S) : Listed(S, before)[n] = x
<1> DEFINE N == Cardinality(S)
           rank == [x \in S |-> Cardinality(before[x]) + 1]
           L == Listed(S, before)
<1>1. N \in Nat
  BY FS_CardinalityType
<1>2. ASSUME NEW x \in S
      PROVE  /\ IsFiniteSet(before[x]) /\ Cardinality(before[x]) \in Nat
             /\ Cardinality(before[x]) < N
  <2>1. before[x] \in SUBSET S /\ before[x] # S
    OBVIOUS
  <2>2. IsFiniteSet(before[x]) /\ Cardinality(before[x]) <= N
        /\ (N = Cardinality(before[x]) => S = before[x])
    BY <2>1, FS_Subset
  <2>3. Cardinality(before[x]) \in Nat
    BY <2>2, FS_CardinalityType
  <2> QED
    BY <1>1, <2>1, <2>2, <2>3
<1>3. ASSUME NEW x \in S, NEW y \in S, x \in before[y]
      PROVE  rank[x] < rank[y]
  <2> DEFINE A == before[x]
             B == before[y]
  <2>1. A \in SUBSET B /\ A # B
    BY <1>3
  <2>2. IsFiniteSet(B) /\ Cardinality(A) \in Nat /\ Cardinality(B) \in Nat
    BY <1>2
  <2>3. rank[x] = Cardinality(A) + 1 /\ rank[y] = Cardinality(B) + 1
    OBVIOUS
  <2> HIDE DEF A, B, rank
  <2>4. Cardinality(A) <= Cardinality(B) /\ (Cardinality(B) = Cardinality(A) => B = A)
    BY <2>1, <2>2, FS_Subset
  <2> QED
    BY <2>1, <2>2, <2>3, <2>4
<1>4. /\ rank \in [S -> 1 .. N]
      /\ \A x \in S : rank[x] = Cardinality(before[x]) + 1
      /\ \A x \in S : rank[x] \in Nat
  BY <1>1, <1>2
<1> HIDE DEF rank
<1>5. \A x, y \in S : rank[x] = rank[y] => x = y
  <2> SUFFICES ASSUME NEW x \in S, NEW y \in S, x # y PROVE rank[x] # rank[y]
    OBVIOUS
  <2>1. rank[x] < rank[y] \/ rank[y] < rank[x]
    BY <1>3
  <2> QED
    BY <2>1, <1>4
<1>6. \A n \in 1 .. N : \E x \in S : rank[x] = n
  <2>1. rank \in Injection(S, 1 .. N)
    BY <1>4, <1>5 DEF Injection, IsInjective
  <2>2. IsFiniteSet(1 .. N) /\ Cardinality(1 .. N) = N
    BY <1>1, FS_Interval
  <2>3. rank \in Surjection(S, 1 .. N)
    BY <2>1, <2>2, FS_Injection
  <2> QED
    BY <2>3 DEF Surjection
<1>7. ASSUME NEW n \in 1 .. N PROVE L[n] \in S /\ rank[L[n]] = n
  <2>1. \E x \in S : Cardinality(before[x]) = n - 1
    <3>1. PICK x \in S : rank[x] = n
      BY <1>6
    <3>2. Cardinality(before[x]) = n - 1
      BY <3>1, <1>2, <1>4
    <3> QED
      BY <3>2
  <2>2. L[n] = CHOOSE x \in S : Cardinality(before[x]) = n - 1
    BY DEF Listed
  <2>3. L[n] \in S /\ Cardinality(before[L[n]]) = n - 1
    BY <2>1, <2>2
  <2> QED
    BY <2>3, <1>2, <1>4
<1>8. L \in [1 .. N -> S]
  <2>1. L = [n \in 1 .. N |-> L[n]]
    BY DEF Listed
  <2> QED
    BY <2>1, <1>7
<1> HIDE DEF N, L
<1>9. \A m, n \in 1 .. N : m < n => L[m] \in before[L[n]]
  <2> SUFFICES ASSUME NEW m \in 1 .. N, NEW n \in 1 .. N, m < n PROVE L[m] \in before[L[n]]
    OBVIOUS
  <2>1. L[m] # L[n]
    BY <1>1, <1>7
  <2>2. ~(L[n] \in before[L[m]])
    BY <1>1, <1>3, <1>7
  <2> QED
    BY <2>1, <2>2, <1>7
<1>10. \A x \in S : \E n \in 1 .. N : L[n] = x
  BY <1>4, <1>5, <1>7
<1> QED
  BY <1>1, <1>8, <1>9, <1>10 DEF N, L

(* What Ascending lists: the members of a set of numbers, from the least.   *)
Lists(L, S) ==
    /\ Cardinality(S) \in Nat /\ L \in [1 .. Cardinality(S) -> S]
    /\ \A m, n \in 1 .. Cardinality(S) : m < n => L[m] < L[n]
    /\ \A x \in S : \E n \in 1 .. Cardinality(S) : L[n] = x

LEMMA AscendingIs ==
  ASSUME NEW S \in SUBSET Nat, IsFiniteSet(S)
  PROVE  Lists(Ascending[S], S)
<1> DEFINE before == [x \in S |-> {y \in S : y < x}]
<1>1. /\ before \in [S -> SUBSET S]
      /\ \A x, y \in S : y \in before[x] <=> y < x
  OBVIOUS
<1>2. Ascending[S] = Listed(S, before)
  BY DEF Ascending
<1>3. \A x \in S : x \in Nat
  OBVIOUS
<1> HIDE DEF before
<1>4. /\ \A x \in S : x \notin before[x]
      /\ \A x, y \in S : x = y \/ x \in before[y] \/ y \in before[x]
  BY <1>1, <1>3
<1>5. \A x, y \in S : x \in before[y] => before[x] \subseteq before[y]
  <2> SUFFICES ASSUME NEW x \in S, NEW y \in S, x < y, NEW z \in S, z < x PROVE z < y
    BY <1>1
  <2> QED
    BY <1>3
<1>6. /\ Cardinality(S) \in Nat
      /\ Listed(S, before) \in [1 .. Cardinality(S) -> S]
      /\ \A m, n \in 1 .. Cardinality(S) :
            m < n => Listed(S, before)[m] \in before[Listed(S, before)[n]]
      /\ \A x \in S : \E n \in 1 .. Cardinality(S) : Listed(S, before)[n] = x
  <2>1. before \in [S -> SUBSET S]
    BY <1>1
  <2> QED
    BY <2>1, <1>4, <1>5, ListedIs, Zenon
<1>7. \A m, n \in 1 .. Cardinality(S) : m < n => Ascending[S][m] < Ascending[S][n]
  <2> SUFFICES ASSUME NEW m \in 1 .. Cardinality(S), NEW n \in 1 .. Cardinality(S), m < n
               PROVE  Ascending[S][m] < Ascending[S][n]
    OBVIOUS
  <2>1. Ascending[S][m] \in S /\ Ascending[S][n] \in S
    BY <1>2, <1>6
  <2>2. Ascending[S][m] \in before[Ascending[S][n]]
    BY <1>2, <1>6
  <2> QED
    BY <2>1, <2>2, <1>1
<1> QED
  BY <1>2, <1>6, <1>7 DEF Lists

(* A part of a list: as long as its places are many, in the same order, and *)
(* a list of the same kind.                                                 *)
LEMMA PartIs ==
  ASSUME NEW T, NEW list \in Seq(T), NEW places \in SUBSET DOMAIN list
  PROVE  /\ IsFiniteSet(places) /\ Cardinality(places) \in Nat
         /\ Lists(Ascending[places], places)
         /\ Part(list, places) \in Seq(T) /\ Len(Part(list, places)) = Cardinality(places)
         /\ \A n \in 1 .. Cardinality(places) :
               Part(list, places)[n] = list[Ascending[places][n]]
         /\ ToSet(Part(list, places)) = {list[n] : n \in places}
<1> DEFINE A == Ascending[places]
           N == Cardinality(places)
           P == Part(list, places)
<1>1. /\ DOMAIN list = 1 .. Len(list) /\ Len(list) \in Nat
      /\ \A n \in DOMAIN list : list[n] \in T
  OBVIOUS
<1>2. IsFiniteSet(1 .. Len(list)) /\ places \in SUBSET Nat
  BY <1>1, FS_Interval
<1>3. IsFiniteSet(places)
  BY <1>1, <1>2, FS_Subset
<1>4. Lists(A, places)
  BY <1>2, <1>3, AscendingIs
<1>5. P = [n \in 1 .. N |-> list[A[n]]]
  BY DEF Part
<1> HIDE DEF A, N, P
<1>6. /\ N \in Nat /\ A \in [1 .. N -> places]
      /\ \A x \in places : \E n \in 1 .. N : A[n] = x
  BY <1>4 DEF Lists, N
<1>7. P \in [1 .. N -> T] /\ \A n \in 1 .. N : P[n] = list[A[n]]
  BY <1>1, <1>5, <1>6
<1>8. P \in Seq(T) /\ Len(P) = N /\ DOMAIN P = 1 .. N
  BY <1>6, <1>7
<1>9. ToSet(P) = {list[n] : n \in places}
  <2>1. ToSet(P) = {P[n] : n \in 1 .. N}
    BY <1>8 DEF ToSet
  <2>2. ASSUME NEW n \in 1 .. N PROVE P[n] \in {list[x] : x \in places}
    BY <1>6, <1>7
  <2>3. ASSUME NEW x \in places PROVE list[x] \in {P[n] : n \in 1 .. N}
    <3>1. PICK n \in 1 .. N : A[n] = x
      BY <1>6
    <3> QED
      BY <3>1, <1>7
  <2> QED
    BY <2>1, <2>2, <2>3
<1> QED
  BY <1>3, <1>4, <1>6, <1>7, <1>8, <1>9 DEF A, N, P

LEMMA AtMostIs ==
  ASSUME NEW T, NEW rows \in Seq(T), NEW n \in Nat
  PROVE  /\ AtMost(n, rows) \in Seq(T)
         /\ Len(AtMost(n, rows)) <= n /\ Len(AtMost(n, rows)) <= Len(rows)
         /\ Len(AtMost(n, rows)) = n \/ Len(AtMost(n, rows)) = Len(rows)
         /\ \A i \in 1 .. Len(AtMost(n, rows)) : AtMost(n, rows)[i] = rows[i]
<1> DEFINE m == Min({n, Len(rows)})
<1>1. Len(rows) \in Nat /\ \A i \in 1 .. Len(rows) : rows[i] \in T
  OBVIOUS
<1>2. m \in Nat /\ m <= n /\ m <= Len(rows) /\ (m = n \/ m = Len(rows))
  <2>1. \E x \in {n, Len(rows)} : \A y \in {n, Len(rows)} : x <= y
    BY <1>1
  <2>2. m \in {n, Len(rows)} /\ \A y \in {n, Len(rows)} : m <= y
    BY <2>1 DEF Min
  <2> QED
    BY <1>1, <2>2
<1>3. AtMost(n, rows) = SubSeq(rows, 1, m)
  BY DEF AtMost
<1> HIDE DEF m
<1>4. \A i \in 1 .. m : rows[i] \in T
  BY <1>1, <1>2
<1>5. /\ SubSeq(rows, 1, m) \in Seq(T)
      /\ Len(SubSeq(rows, 1, m)) = IF 1 <= m THEN m - 1 + 1 ELSE 0
      /\ \A i \in 1 .. m - 1 + 1 : SubSeq(rows, 1, m)[i] = rows[1 + i - 1]
  BY <1>2, <1>4, SubSeqProperties
<1>6. Len(SubSeq(rows, 1, m)) = m /\ \A i \in 1 .. m : SubSeq(rows, 1, m)[i] = rows[i]
  BY <1>2, <1>5
<1> QED
  BY <1>2, <1>3, <1>5, <1>6

(* A finite set of numbers has a greatest one: the last that it lists.      *)
LEMMA GreatestNumber ==
  ASSUME NEW S \in SUBSET Nat, IsFiniteSet(S), S # {}
  PROVE  \E x \in S : \A y \in S : x >= y
<1> DEFINE A == Ascending[S]
           N == Cardinality(S)
<1>1. Lists(A, S)
  BY AscendingIs
<1> HIDE DEF A, N
<1>2. /\ N \in Nat /\ A \in [1 .. N -> S]
      /\ \A m, n \in 1 .. N : m < n => A[m] < A[n]
      /\ \A x \in S : \E n \in 1 .. N : A[n] = x
  BY <1>1 DEF Lists, N
<1>3. N \in 1 .. N
  <2>1. PICK y \in S : TRUE
    OBVIOUS
  <2>2. PICK n \in 1 .. N : A[n] = y
    BY <1>2
  <2> QED
    BY <2>2, <1>2
<1>4. ASSUME NEW y \in S PROVE A[N] >= y
  <2>1. PICK n \in 1 .. N : A[n] = y
    BY <1>2
  <2>2. n < N \/ n = N
    BY <1>2
  <2>3. A[N] \in Nat /\ y \in Nat
    BY <1>2, <1>3
  <2> QED
    BY <2>1, <2>2, <2>3, <1>2, <1>3
<1> QED
  BY <1>2, <1>3, <1>4

LEMMA FrontIs ==
  ASSUME NEW T, NEW s \in Seq(T), s # <<>>
  PROVE  /\ Front(s) \in Seq(T) /\ Len(Front(s)) = Len(s) - 1
         /\ Len(s) \in Nat \ {0} /\ Last(s) \in T /\ Last(s) = s[Len(s)]
         /\ \A i \in 1 .. Len(s) - 1 : Front(s)[i] = s[i]
<1> DEFINE m == Len(s) - 1
<1>1. Len(s) \in Nat /\ Len(s) # 0 /\ \A i \in 1 .. Len(s) : s[i] \in T
  OBVIOUS
<1>2. m \in Nat /\ \A i \in 1 .. m : s[i] \in T
  BY <1>1
<1>3. Front(s) = SubSeq(s, 1, m)
  BY DEF Front
<1>4. Last(s) \in T /\ Last(s) = s[Len(s)]
  BY <1>1 DEF Last
<1> HIDE DEF m
<1>5. /\ SubSeq(s, 1, m) \in Seq(T)
      /\ Len(SubSeq(s, 1, m)) = IF 1 <= m THEN m - 1 + 1 ELSE 0
      /\ \A i \in 1 .. m - 1 + 1 : SubSeq(s, 1, m)[i] = s[1 + i - 1]
  BY <1>2, SubSeqProperties
<1>6. Len(SubSeq(s, 1, m)) = m /\ \A i \in 1 .. m : SubSeq(s, 1, m)[i] = s[i]
  BY <1>2, <1>5
<1> QED
  BY <1>1, <1>3, <1>4, <1>5, <1>6 DEF m

LEMMA ConcatIs ==
  ASSUME NEW T, NEW s \in Seq(T), NEW t \in Seq(T)
  PROVE  /\ s \o t \in Seq(T) /\ Len(s \o t) = Len(s) + Len(t)
         /\ Len(s) \in Nat /\ Len(t) \in Nat
         /\ \A i \in 1 .. Len(s) : (s \o t)[i] = s[i]
         /\ \A m \in 1 .. Len(t) : (s \o t)[Len(s) + m] = t[m]
<1> DEFINE g == s \o t
           a == Len(s)
           b == Len(t)
<1>1. a \in Nat /\ b \in Nat
  OBVIOUS
<1>2. /\ g \in Seq(T) /\ Len(g) = a + b
      /\ \A i \in 1 .. a + b : g[i] = IF i <= a THEN s[i] ELSE t[i - a]
  BY ConcatProperties
<1> HIDE DEF g, a, b
<1>3. ASSUME NEW i \in 1 .. a PROVE g[i] = s[i]
  <2>1. i \in 1 .. a + b /\ i <= a
    BY <1>1
  <2> QED
    BY <2>1, <1>2
<1>4. ASSUME NEW m \in 1 .. b PROVE g[a + m] = t[m]
  <2> DEFINE i == a + m
  <2>1. i \in 1 .. a + b /\ ~(i <= a) /\ i - a = m
    BY <1>1
  <2> HIDE DEF i
  <2>2. g[i] = t[m]
    BY <2>1, <1>2
  <2> QED
    BY <2>2 DEF i
<1> QED
  BY <1>1, <1>2, <1>3, <1>4 DEF g, a, b
-----------------------------------------------------------------------------
(* What a page holds.                                                       *)

(* In key paging: rows above `last` in order, and no row between them.      *)
KeyPage ==
    /\ Page \in Seq(Ids)
    /\ \A m \in 1 .. Len(Page) :
          Page[m] \in exists[Coll] /\ (server.paging # "ignored" => Page[m] > pull.last)
    /\ \A m, n \in 1 .. Len(Page) : m < n => Page[m] < Page[n]
    /\ \A i \in exists[Coll], n \in 1 .. Len(Page) :
          pull.last < i /\ i < Page[n] => \E m \in 1 .. Len(Page) : m < n /\ Page[m] = i
    /\ Page = <<>> => \A i \in exists[Coll] : i <= pull.last

(* In server-driven paging: the rows up to a place in the server's order,   *)
(* and every row ahead of it if nothing continues the page.                 *)
AheadTo(n) == pull.at + 1 .. n
OnPage(i) == \E m \in 1 .. Len(Page) : Page[m] = i
ServerPageFacts ==
    /\ Page \in Seq(Ids) /\ IsInjective(Page)
    /\ \A m \in 1 .. Len(Page) : Page[m] \in exists[Coll]
    /\ Page # <<>> =>
          /\ Position \in AheadTo(Len(ServerOrder))
          /\ \A m \in 1 .. Len(Page) : \E n \in AheadTo(Position) : ServerOrder[n] = Page[m]
          /\ \A n \in AheadTo(Position) :
                ServerOrder[n] \in exists[Coll] => OnPage(ServerOrder[n])
    /\ Page = <<>> \/ ~Continuation =>
          \A n \in AheadTo(Len(ServerOrder)) :
              ServerOrder[n] \in exists[Coll] => OnPage(ServerOrder[n])

(* What is written of it.                                                   *)
Reached(i) == pull.mode = "server" /\ schema[Coll] # NoKey => i > pull.seen
FreshRows ==
    /\ Fresh \in Seq(Ids) /\ IsInjective(Fresh)
    /\ \A m \in 1 .. Len(Fresh) : OnPage(Fresh[m]) /\ Reached(Fresh[m])
    /\ \A n \in 1 .. Len(Page) :
          Reached(Page[n]) => \E m \in 1 .. Len(Fresh) : Fresh[m] = Page[n]
    /\ pull.mode = "key" => Fresh = Page

LEMMA CollIs ==
  ASSUME TypeInv, StageInv, todo # <<>>
  PROVE  /\ Coll \in Collections /\ Coll \in ToSet(todo)
         /\ Tail(todo) \in Seq(Collections) /\ IsInjective(Tail(todo))
         /\ ToSet(Tail(todo)) = ToSet(todo) \ {Coll}
<1>1. todo \in Seq(Collections)
  BY DEF TypeInv
<1>2. /\ Len(todo) \in Nat /\ Len(todo) # 0 /\ DOMAIN todo = 1 .. Len(todo)
      /\ Coll = todo[1]
  BY <1>1 DEF Coll
<1>3. /\ Coll \in Collections /\ Tail(todo) \in Seq(Collections)
      /\ Len(Tail(todo)) = Len(todo) - 1
      /\ \A i \in 1 .. Len(Tail(todo)) : Tail(todo)[i] = todo[i + 1]
  BY <1>1, HeadTailProperties DEF Coll
<1>4. Coll \in ToSet(todo)
  BY <1>2 DEF ToSet
<1>5. DOMAIN Tail(todo) = 1 .. Len(todo) - 1
  BY <1>3
<1>6. \A i, j \in 1 .. Len(todo) : todo[i] = todo[j] => i = j
  BY <1>2 DEF StageInv, IsInjective
<1>7. IsInjective(Tail(todo))
  BY <1>2, <1>3, <1>5, <1>6 DEF IsInjective
<1>8. ASSUME NEW i \in 1 .. Len(todo) - 1 PROVE Tail(todo)[i] \in ToSet(todo) \ {Coll}
  BY <1>2, <1>3, <1>6 DEF ToSet
<1>9. ASSUME NEW i \in 1 .. Len(todo), todo[i] # Coll PROVE todo[i] \in ToSet(Tail(todo))
  <2>1. i - 1 \in 1 .. Len(todo) - 1 /\ Tail(todo)[i - 1] = todo[i]
    BY <1>2, <1>3, <1>9
  <2> QED
    BY <2>1, <1>5 DEF ToSet
<1>10. ToSet(todo) = {todo[i] : i \in 1 .. Len(todo)}
       /\ ToSet(Tail(todo)) = {Tail(todo)[i] : i \in 1 .. Len(todo) - 1}
  BY <1>2, <1>5 DEF ToSet
<1> QED
  BY <1>3, <1>4, <1>7, <1>8, <1>9, <1>10

LEMMA KeyPageIs ==
  ASSUME TypeInv, StageInv, pc = "page", pull.mode = "key"
  PROVE  KeyPage
<1> DEFINE A == Ascending[Asked]
           N == Cardinality(Asked)
           k == Min({pull.size, ServerPage})
<1>1. /\ Coll \in Collections /\ exists[Coll] \subseteq Ids /\ Ids \subseteq Nat
      /\ pull.last \in Nat /\ pull.size \in Nat \ {0} /\ ServerPage \in Nat \ {0}
  <2>1. todo # <<>> /\ pull.size # 0
    BY DEF StageInv
  <2>2. Coll \in Collections
    BY <2>1, CollIs
  <2>3. exists[Coll] \subseteq Ids /\ pull.last \in Nat /\ pull.size \in Nat
    BY <2>2, PullAssumption DEF TypeInv, Pulls
  <2> QED
    BY <2>1, <2>2, <2>3, PullAssumption
<1>2. k \in Nat \ {0}
  <2>1. \E x \in {pull.size, ServerPage} : \A y \in {pull.size, ServerPage} : x <= y
    BY <1>1
  <2>2. k \in {pull.size, ServerPage}
    BY <2>1 DEF Min
  <2> QED
    BY <2>2, <1>1
<1>3. /\ Asked \in SUBSET Ids /\ Asked \subseteq exists[Coll]
      /\ \A i \in Asked : server.paging # "ignored" => i > pull.last
      /\ \A i \in exists[Coll] : pull.last < i => i \in Asked
  BY <1>1 DEF Asked
<1>4. Page = AtMost(k, A)
  BY DEF Page
<1> HIDE DEF k
<1>5. IsFiniteSet(Asked) /\ Asked \in SUBSET Nat
  BY <1>1, <1>3, FS_Subset, PullAssumption
<1>6. Lists(A, Asked)
  BY <1>5, AscendingIs
<1> HIDE DEF A, N
<1>7. /\ N \in Nat /\ A \in [1 .. N -> Asked]
      /\ \A m, n \in 1 .. N : m < n => A[m] < A[n]
      /\ \A x \in Asked : \E n \in 1 .. N : A[n] = x
  BY <1>6 DEF Lists, N
<1>8. A \in Seq(Ids) /\ Len(A) = N
  BY <1>3, <1>7
<1>9. /\ Page \in Seq(Ids) /\ Len(Page) \in Nat /\ Len(Page) <= N
      /\ Len(Page) = k \/ Len(Page) = N
      /\ \A i \in 1 .. Len(Page) : Page[i] = A[i]
  BY <1>2, <1>4, <1>8, AtMostIs
<1>10. \A i \in 1 .. Len(Page) : i \in 1 .. N
  BY <1>7, <1>9
<1>11. \A m \in 1 .. Len(Page) :
          Page[m] \in exists[Coll] /\ (server.paging # "ignored" => Page[m] > pull.last)
  BY <1>3, <1>7, <1>9, <1>10
<1>12. \A m, n \in 1 .. Len(Page) : m < n => Page[m] < Page[n]
  BY <1>7, <1>9, <1>10
<1>13. ASSUME NEW i \in exists[Coll], NEW n \in 1 .. Len(Page), pull.last < i, i < Page[n]
       PROVE  \E m \in 1 .. Len(Page) : m < n /\ Page[m] = i
  <2>1. PICK m \in 1 .. N : A[m] = i
    BY <1>3, <1>7, <1>13
  <2>2. n \in 1 .. N /\ Page[n] = A[n] /\ i \in Nat /\ A[n] \in Nat
    BY <1>1, <1>3, <1>7, <1>9, <1>10
  <2>3. m < n
    <3>1. ~(n < m) /\ n # m
      BY <2>1, <2>2, <1>7, <1>13
    <3> QED
      BY <3>1, <2>2, <1>7
  <2>4. m \in 1 .. Len(Page)
    BY <2>3, <1>9
  <2> QED
    BY <2>1, <2>3, <2>4, <1>9
<1>14. Page = <<>> => \A i \in exists[Coll] : i <= pull.last
  <2> SUFFICES ASSUME Page = <<>>, NEW i \in exists[Coll], ~(i <= pull.last) PROVE FALSE
    OBVIOUS
  <2>1. Len(Page) = 0
    OBVIOUS
  <2>2. N = 0
    BY <2>1, <1>2, <1>9
  <2>3. i \in Nat /\ pull.last \in Nat
    BY <1>1
  <2>4. i \in Asked
    BY <2>3, <1>3
  <2> QED
    BY <2>2, <2>4, <1>7
<1> QED
  BY <1>9, <1>11, <1>12, <1>13, <1>14 DEF KeyPage

LEMMA ServerPageIs ==
  ASSUME TypeInv, StageInv, pc = "page", pull.mode = "server"
  PROVE  ServerPageFacts
<1> DEFINE A == Ascending[Ahead]
           N == Cardinality(Ahead)
           S == Len(ServerOrder)
<1>1. /\ Coll \in Collections /\ exists[Coll] \subseteq Ids
      /\ pull.at \in Nat /\ ServerPage \in Nat \ {0}
      /\ ServerOrder \in Seq(Ids) /\ S \in Nat /\ DOMAIN ServerOrder = 1 .. S
      /\ \A m, n \in 1 .. S : ServerOrder[m] = ServerOrder[n] => m = n
  <2>1. todo # <<>>
    BY DEF StageInv
  <2>2. Coll \in Collections
    BY <2>1, CollIs
  <2>3. exists[Coll] \subseteq Ids /\ pull.at \in Nat
    BY <2>2 DEF TypeInv, Pulls
  <2>4. /\ ServerPage \in Nat \ {0}
        /\ ServerOrder \in Seq(Ids) /\ IsInjective(ServerOrder)
    BY PullAssumption
  <2>5. S \in Nat /\ DOMAIN ServerOrder = 1 .. S
    BY <2>4
  <2> QED
    BY <2>2, <2>3, <2>4, <2>5 DEF IsInjective
<1>2. /\ Ahead \in SUBSET (1 .. S)
      /\ \A n \in Ahead : n \in AheadTo(S) /\ ServerOrder[n] \in exists[Coll]
      /\ \A n \in AheadTo(S) : ServerOrder[n] \in exists[Coll] => n \in Ahead
  BY <1>1 DEF Ahead, AheadTo
<1>3. Page = AtMost(ServerPage, Remaining)
  BY DEF Page
<1>4. /\ Lists(A, Ahead) /\ Remaining \in Seq(Ids) /\ Len(Remaining) = N
      /\ \A n \in 1 .. N : Remaining[n] = ServerOrder[A[n]]
  <2>1. ServerOrder \in Seq(Ids) /\ Ahead \in SUBSET DOMAIN ServerOrder
    BY <1>1, <1>2
  <2> QED
    BY <2>1, PartIs, Zenon DEF Remaining
<1> HIDE DEF A, N
<1>5. /\ N \in Nat /\ A \in [1 .. N -> Ahead]
      /\ \A m, n \in 1 .. N : m < n => A[m] < A[n]
      /\ \A x \in Ahead : \E n \in 1 .. N : A[n] = x
  BY <1>4 DEF Lists, N
<1>6. /\ Page \in Seq(Ids) /\ Len(Page) \in Nat /\ Len(Page) <= N
      /\ Len(Page) = ServerPage \/ Len(Page) = N
      /\ \A i \in 1 .. Len(Page) : Page[i] = Remaining[i]
  BY <1>1, <1>3, <1>4, AtMostIs
<1>7. \A i \in 1 .. Len(Page) :
          i \in 1 .. N /\ A[i] \in Ahead /\ A[i] \in 1 .. S /\ Page[i] = ServerOrder[A[i]]
  <2> SUFFICES ASSUME NEW i \in 1 .. Len(Page)
               PROVE  /\ i \in 1 .. N /\ A[i] \in Ahead /\ A[i] \in 1 .. S
                      /\ Page[i] = ServerOrder[A[i]]
    OBVIOUS
  <2>1. i \in 1 .. N
    BY <1>5, <1>6
  <2> QED
    BY <2>1, <1>2, <1>4, <1>5, <1>6
<1>8. \A m \in 1 .. Len(Page) : Page[m] \in exists[Coll]
  BY <1>2, <1>7
<1>9. IsInjective(Page)
  <2> SUFFICES ASSUME NEW m \in 1 .. Len(Page), NEW n \in 1 .. Len(Page), Page[m] = Page[n]
               PROVE  m = n
    BY <1>6 DEF IsInjective
  <2>1. A[m] = A[n] /\ A[m] \in Nat
    BY <1>1, <1>7
  <2>2. ~(m < n) /\ ~(n < m)
    BY <2>1, <1>5, <1>7
  <2> QED
    BY <2>2
<1>10. ASSUME Page # <<>>
       PROVE  /\ Position \in AheadTo(S)
              /\ \A m \in 1 .. Len(Page) : \E n \in AheadTo(Position) : ServerOrder[n] = Page[m]
              /\ \A n \in AheadTo(Position) :
                    ServerOrder[n] \in exists[Coll] => OnPage(ServerOrder[n])
  <2> DEFINE z == Len(Page)
  <2>1. z \in 1 .. Len(Page)
    <3>1. z # 0
      BY <1>6, <1>10
    <3> QED
      BY <3>1, <1>6
  <2>2. A[z] \in Ahead /\ Last(Page) = ServerOrder[A[z]] /\ A[z] \in AheadTo(S)
    BY <2>1, <1>2, <1>7 DEF Last
  <2>3. \A n \in AheadTo(S) : n \in 1 .. S
    BY <1>1 DEF AheadTo
  <2>4. Position = A[z]
    <3>1. /\ Position \in AheadTo(S) /\ ServerOrder[Position] = Last(Page)
      BY <2>2 DEF Position, AheadTo
    <3> QED
      BY <3>1, <2>2, <2>3, <1>1
  <2> HIDE DEF z
  <2>5. \A m \in 1 .. Len(Page) : A[m] \in AheadTo(A[z])
    <3> SUFFICES ASSUME NEW m \in 1 .. Len(Page) PROVE A[m] \in AheadTo(A[z])
      OBVIOUS
    <3>1. m < z \/ m = z
      BY <1>6 DEF z
    <3>2. A[m] < A[z] \/ A[m] = A[z]
      BY <3>1, <2>1, <1>5, <1>7
    <3>3. A[m] \in AheadTo(S) /\ A[z] \in AheadTo(S)
      BY <2>1, <1>2, <1>7
    <3> QED
      BY <3>2, <3>3, <1>1 DEF AheadTo
  <2>6. ASSUME NEW n \in AheadTo(A[z]), ServerOrder[n] \in exists[Coll]
        PROVE  OnPage(ServerOrder[n])
    <3>1. n \in AheadTo(S) /\ n <= A[z] /\ n \in Nat
      BY <2>2, <1>1 DEF AheadTo
    <3>2. PICK m \in 1 .. N : A[m] = n
      BY <3>1, <2>6, <1>2, <1>5
    <3>3. ~(z < m)
      BY <3>1, <3>2, <2>1, <2>2, <1>1, <1>5, <1>7 DEF AheadTo
    <3>4. m \in 1 .. Len(Page)
      BY <3>3, <2>1, <1>5, <1>6 DEF z
    <3> QED
      BY <3>2, <3>4, <1>7 DEF OnPage
  <2> QED
    BY <2>2, <2>4, <2>5, <2>6, <1>7
<1>11. ASSUME Page = <<>> \/ ~Continuation,
              NEW n \in AheadTo(S), ServerOrder[n] \in exists[Coll]
       PROVE  OnPage(ServerOrder[n])
  <2>1. Len(Page) = N
    <3>1. CASE Page = <<>>
      <4>1. Len(Page) = 0
        BY <3>1
      <4> QED
        BY <4>1, <1>1, <1>6
    <3>2. CASE ~Continuation
      BY <3>2, <1>4, <1>5, <1>6 DEF Continuation
    <3> QED
      BY <1>11, <3>1, <3>2
  <2>2. PICK m \in 1 .. N : A[m] = n
    BY <1>11, <1>2, <1>5
  <2> QED
    BY <2>1, <2>2, <1>7 DEF OnPage
<1> QED
  BY <1>6, <1>8, <1>9, <1>10, <1>11 DEF ServerPageFacts

LEMMA PageIs ==
  ASSUME TypeInv, StageInv, pc = "page"
  PROVE  /\ Page \in Seq(Ids) /\ IsInjective(Page)
         /\ \A m \in 1 .. Len(Page) : Page[m] \in exists[Coll]
         /\ pull.mode = "key" => KeyPage
         /\ pull.mode = "server" => ServerPageFacts
<1>1. CASE pull.mode = "key"
  <2>1. KeyPage
    BY <1>1, KeyPageIs
  <2>2. IsInjective(Page)
    <3> SUFFICES ASSUME NEW m \in 1 .. Len(Page), NEW n \in 1 .. Len(Page), Page[m] = Page[n]
                 PROVE  m = n
      BY <2>1 DEF IsInjective, KeyPage
    <3>1. Page[m] \in Nat /\ m \in Nat /\ n \in Nat
      <4>1. Page \in Seq(Ids) /\ Ids \subseteq Nat
        BY <2>1, PullAssumption DEF KeyPage
      <4>2. Len(Page) \in Nat /\ \A k \in 1 .. Len(Page) : Page[k] \in Ids
        BY <4>1
      <4>3. Page[m] \in Ids
        BY <4>2
      <4>4. m \in Nat /\ n \in Nat
        BY <4>2
      <4>5. \A x \in Ids : x \in Nat
        BY <4>1
      <4> QED
        BY <4>3, <4>4, <4>5
    <3>2. ~(m < n) /\ ~(n < m)
      BY <3>1, <2>1 DEF KeyPage
    <3> QED
      BY <3>2
  <2> QED
    BY <1>1, <2>1, <2>2 DEF KeyPage
<1>2. CASE pull.mode = "server"
  BY <1>2, ServerPageIs DEF ServerPageFacts
<1> QED
  BY <1>1, <1>2 DEF StageInv, TypeInv, Pulls

LEMMA FreshIs ==
  ASSUME TypeInv, StageInv, pc = "page"
  PROVE  FreshRows
<1>1. /\ Page \in Seq(Ids) /\ IsInjective(Page) /\ Len(Page) \in Nat
      /\ DOMAIN Page = 1 .. Len(Page)
  BY PageIs
<1>2. CASE ~(pull.mode = "server" /\ schema[Coll] # NoKey)
  <2>1. Fresh = Page
    BY <1>2 DEF Fresh
  <2> QED
    BY <1>1, <1>2, <2>1 DEF FreshRows, OnPage, Reached
<1>3. CASE pull.mode = "server" /\ schema[Coll] # NoKey
  <2> DEFINE P == {n \in DOMAIN Page : Page[n] > pull.seen}
             A == Ascending[P]
             N == Cardinality(P)
  <2>1. P \in SUBSET DOMAIN Page
    OBVIOUS
  <2>2. Fresh = Part(Page, P)
    BY <1>3 DEF Fresh
  <2>3. \A n \in P : n \in 1 .. Len(Page) /\ Page[n] > pull.seen
    BY <1>1
  <2>4. \A n \in 1 .. Len(Page) : Page[n] > pull.seen => n \in P
    BY <1>1
  <2> HIDE DEF P, A, N
  <2>5. /\ Lists(A, P) /\ Fresh \in Seq(Ids) /\ Len(Fresh) = N
        /\ \A n \in 1 .. N : Fresh[n] = Page[A[n]]
    BY <2>1, <2>2, <1>1, PartIs DEF A, N
  <2>6. /\ N \in Nat /\ A \in [1 .. N -> P]
        /\ \A m, n \in 1 .. N : m < n => A[m] < A[n]
        /\ \A x \in P : \E n \in 1 .. N : A[n] = x
    BY <2>5 DEF Lists, N
  <2>7. IsInjective(Fresh)
    <3> SUFFICES ASSUME NEW m \in 1 .. N, NEW n \in 1 .. N, Fresh[m] = Fresh[n]
                 PROVE  m = n
      BY <2>5 DEF IsInjective
    <3>1. A[m] \in 1 .. Len(Page) /\ A[n] \in 1 .. Len(Page) /\ Page[A[m]] = Page[A[n]]
      BY <2>3, <2>5, <2>6
    <3>2. A[m] = A[n] /\ A[m] \in Nat
      BY <3>1, <1>1 DEF IsInjective
    <3>3. ~(m < n) /\ ~(n < m)
      BY <3>2, <2>6
    <3> QED
      BY <3>3, <2>6
  <2>8. \A m \in 1 .. Len(Fresh) : OnPage(Fresh[m]) /\ Reached(Fresh[m])
    BY <2>3, <2>5, <2>6 DEF OnPage, Reached
  <2>9. \A n \in 1 .. Len(Page) :
           Reached(Page[n]) => \E m \in 1 .. Len(Fresh) : Fresh[m] = Page[n]
    BY <1>3, <2>4, <2>5, <2>6 DEF Reached
  <2> QED
    BY <1>3, <2>5, <2>7, <2>8, <2>9 DEF FreshRows
<1> QED
  BY <1>2, <1>3
-----------------------------------------------------------------------------
(* Files.                                                                   *)

LEMMA LinesAre == ASSUME NEW line \in Lines
                  PROVE  line.row \in Ids \cup {0} /\ line.row \in Nat
<1>1. line.row \in Ids \cup {0}
  BY DEF Lines
<1>2. \A x \in Ids \cup {0} : x \in Nat
  BY PullAssumption
<1> QED
  BY <1>1, <1>2

LEMMA LineIs ==
  ASSUME TypeInv, NEW c \in Collections, NEW row \in Ids
  PROVE  /\ Line(c, row) \in Lines /\ Line(c, row).row = row
         /\ c \in Keyed => Line(c, row).key = KeyNow
<1>1. KeyIn(option.language) \in Keys
  BY DEF KeyIn, Keys
<1> QED
  BY <1>1 DEF Line, Lines, KeyNow

(* What is on disk is in the usable lines, in both ways of reading.         *)
LEMMA UsableIs ==
  ASSUME TypeInv, NEW c \in Collections
  PROVE  /\ Usable(c) \in Seq(Lines) /\ Len(Usable(c)) = Cardinality(UsableAt(c))
         /\ IsFiniteSet(UsableAt(c)) /\ Cardinality(UsableAt(c)) \in Nat
         /\ Lists(Ascending[UsableAt(c)], UsableAt(c))
         /\ \A n \in 1 .. Cardinality(UsableAt(c)) :
               Usable(c)[n] = file[c][Ascending[UsableAt(c)][n]]
         /\ UsableAt(c) = {} => Usable(c) = <<>>
         /\ Usable(c) = <<>> => UsableAt(c) = {}
         /\ UsableAt(c) # {} => \E i \in UsableAt(c) : Usable(c)[1] = file[c][i]
         /\ OnDisk(c) = {file[c][i].row : i \in UsableAt(c)}
         /\ OnDisk(c) \subseteq Ids
<1> DEFINE U == UsableAt(c)
           A == Ascending[U]
<1>1. file[c] \in Seq(Lines) /\ U \in SUBSET DOMAIN file[c]
  BY DEF TypeInv, UsableAt
<1>2. Usable(c) = Part(file[c], U)
  BY DEF Usable, UsableAt
<1>3. /\ \A i \in DOMAIN file[c] : file[c][i] \in Lines
      /\ \A i \in U : i \in DOMAIN file[c] /\ file[c][i].row # 0
      /\ \A i \in DOMAIN file[c] : file[c][i].row # 0 => i \in U
  BY <1>1 DEF UsableAt
<1> HIDE DEF U, A
<1>4. /\ IsFiniteSet(U) /\ Cardinality(U) \in Nat /\ Lists(A, U)
      /\ Usable(c) \in Seq(Lines) /\ Len(Usable(c)) = Cardinality(U)
      /\ \A n \in 1 .. Cardinality(U) : Usable(c)[n] = file[c][A[n]]
  BY <1>1, <1>2, PartIs DEF A
<1>5. U = {} => Usable(c) = <<>>
  BY <1>4, FS_EmptySet
<1>6. Usable(c) = <<>> => U = {}
  <2> SUFFICES ASSUME Usable(c) = <<>> PROVE U = {}
    OBVIOUS
  <2>1. Len(Usable(c)) = 0
    OBVIOUS
  <2> QED
    BY <2>1, <1>4, FS_EmptySet
<1>7. U # {} => \E i \in U : Usable(c)[1] = file[c][i]
  <2> SUFFICES ASSUME U # {} PROVE \E i \in U : Usable(c)[1] = file[c][i]
    OBVIOUS
  <2>1. Cardinality(U) # 0
    BY <1>4, FS_EmptySet
  <2>2. 1 \in 1 .. Cardinality(U)
    BY <2>1, <1>4
  <2>3. A[1] \in U
    BY <2>2, <1>4 DEF Lists
  <2> QED
    BY <2>2, <2>3, <1>4
<1>8. OnDisk(c) = {file[c][i].row : i \in U}
  BY <1>3 DEF OnDisk, RowsOf
<1>9. OnDisk(c) \subseteq Ids
  BY <1>3, <1>8, LinesAre
<1> QED
  BY <1>4, <1>5, <1>6, <1>7, <1>8, <1>9 DEF U, A

LEMMA HighestIs ==
  ASSUME TypeInv, NEW c \in Collections, NEW key \in Keys,
         \A i \in UsableAt(c) : file[c][i].key = key
  PROVE  /\ HighestOnDisk(c, key) \in OnDisk(c) \cup {0}
         /\ \A i \in OnDisk(c) : i <= HighestOnDisk(c, key)
<1> DEFINE S == {0} \cup {file[c][i].row : i \in {n \in DOMAIN file[c] : file[c][n].key = key}}
<1>1. /\ DOMAIN file[c] = 1 .. Len(file[c]) /\ Len(file[c]) \in Nat
      /\ \A i \in DOMAIN file[c] : file[c][i] \in Lines
  BY DEF TypeInv
<1>2. OnDisk(c) = {file[c][i].row : i \in UsableAt(c)} /\ OnDisk(c) \subseteq Ids
  BY UsableIs
<1>3. S = OnDisk(c) \cup {0}
  <2>1. ASSUME NEW i \in UsableAt(c) PROVE file[c][i].row \in S
    BY DEF UsableAt
  <2>2. ASSUME NEW i \in DOMAIN file[c], file[c][i].key = key
        PROVE  file[c][i].row \in OnDisk(c) \cup {0}
    BY <1>2 DEF UsableAt
  <2> QED
    BY <2>1, <2>2, <1>2
<1>4. HighestOnDisk(c, key) = CHOOSE x \in S : \A y \in S : x >= y
  BY DEF HighestOnDisk, Max
<1> HIDE DEF S
<1>5. S \in SUBSET Nat /\ IsFiniteSet(S) /\ S # {}
  <2>1. S \in SUBSET (Ids \cup {0}) /\ Ids \subseteq Nat
    BY <1>2, <1>3, PullAssumption
  <2>2. IsFiniteSet(Ids \cup {0})
    BY FS_AddElement, PullAssumption
  <2>3. IsFiniteSet(S)
    BY <2>1, <2>2, FS_Subset
  <2>4. \A x \in Ids \cup {0} : x \in Nat
    BY <2>1
  <2> QED
    BY <2>1, <2>3, <2>4, <1>3
<1>6. \E x \in S : \A y \in S : x >= y
  BY <1>5, GreatestNumber
<1>7. HighestOnDisk(c, key) \in S /\ \A y \in S : HighestOnDisk(c, key) >= y
  BY <1>4, <1>6
<1> QED
  BY <1>3, <1>5, <1>7

(* Appending: where the lines of the file come from.  The place after the   *)
(* last whole line is Base; the first row is lost to a line without an end, *)
(* the last one to a cut.                                                   *)
Glued(old, lines, fuse) ==
    IF fuse THEN Front(old) \o <<Broken>> \o Tail(lines) ELSE old \o lines
CutAt(glued, torn) == IF torn THEN Front(glued) \o <<Broken>> ELSE glued
BaseOf(old, fuse) == IF fuse THEN Len(old) - 1 ELSE Len(old)

IsGlued(g, b, old, lines, fuse) ==
    /\ g \in Seq(Lines) /\ b \in Nat /\ b <= Len(old)
    /\ Len(g) = b + Len(lines)
    /\ \A i \in 1 .. b : g[i] = old[i]
    /\ \A m \in 1 .. Len(lines) : g[b + m] = IF fuse /\ m = 1 THEN Broken ELSE lines[m]

LEMMA GluedIs ==
  ASSUME NEW old \in Seq(Lines), NEW lines \in Seq(Lines), lines # <<>>,
         NEW fuse \in BOOLEAN, fuse => old # <<>>
  PROVE  IsGlued(Glued(old, lines, fuse), BaseOf(old, fuse), old, lines, fuse)
<1> DEFINE k == Len(lines)
           L == Len(old)
<1>1. k \in Nat /\ k # 0 /\ L \in Nat
  OBVIOUS
<1>2. CASE ~fuse
  <2>1. Glued(old, lines, fuse) = old \o lines /\ BaseOf(old, fuse) = L
    BY <1>2 DEF Glued, BaseOf
  <2> DEFINE g == old \o lines
  <2>2. /\ g \in Seq(Lines) /\ Len(g) = L + k
        /\ \A i \in 1 .. L : g[i] = old[i]
        /\ \A m \in 1 .. k : g[L + m] = lines[m]
    BY ConcatIs
  <2> HIDE DEF g, k, L
  <2> QED
    BY <1>1, <1>2, <2>1, <2>2 DEF IsGlued, g, k, L
<1>3. CASE fuse
  <2> DEFINE f == Front(old)
             t == Tail(lines)
             h == f \o <<Broken>>
             g == f \o <<Broken>> \o t
             b == L - 1
  <2>1. old # <<>> /\ b \in Nat /\ L # 0
    <3>1. old # <<>>
      BY <1>3
    <3> QED
      BY <3>1, FrontIs
  <2>2. Glued(old, lines, fuse) = g /\ BaseOf(old, fuse) = b
    BY <1>3 DEF Glued, BaseOf
  <2>3. f \in Seq(Lines) /\ Len(f) = b /\ \A i \in 1 .. b : f[i] = old[i]
    BY <2>1, FrontIs
  <2>4. t \in Seq(Lines) /\ Len(t) = k - 1 /\ \A i \in 1 .. k - 1 : t[i] = lines[i + 1]
    BY HeadTailProperties
  <2>5. <<Broken>> \in Seq(Lines) /\ Len(<<Broken>>) = 1 /\ <<Broken>>[1] = Broken
    BY DEF Broken, Lines
  <2>6. /\ h \in Seq(Lines) /\ Len(h) = b + 1
        /\ \A i \in 1 .. b : h[i] = old[i]
        /\ h[b + 1] = Broken
    <3> HIDE DEF f, b
    <3>1. /\ h \in Seq(Lines) /\ Len(h) = Len(f) + 1
          /\ \A i \in 1 .. Len(f) : h[i] = f[i]
          /\ \A m \in 1 .. 1 : h[Len(f) + m] = <<Broken>>[m]
      BY <2>3, <2>5, ConcatIs
    <3>2. h[Len(f) + 1] = <<Broken>>[1]
      BY <3>1
    <3> QED
      BY <3>1, <3>2, <2>3, <2>5
  <2>7. g = h \o t
    OBVIOUS
  <2> HIDE DEF f, t, h, g
  <2>8. /\ g \in Seq(Lines) /\ Len(g) = b + 1 + (k - 1)
        /\ \A i \in 1 .. b + 1 : g[i] = h[i]
        /\ \A m \in 1 .. k - 1 : g[b + 1 + m] = t[m]
    <3> HIDE DEF b, k
    <3>0. h \in Seq(Lines) /\ t \in Seq(Lines)
      BY <2>4, <2>6
    <3>1. /\ h \o t \in Seq(Lines) /\ Len(h \o t) = Len(h) + Len(t)
          /\ \A i \in 1 .. Len(h) : (h \o t)[i] = h[i]
          /\ \A m \in 1 .. Len(t) : (h \o t)[Len(h) + m] = t[m]
      BY <3>0, ConcatIs
    <3> QED
      BY <3>1, <2>4, <2>6, <2>7
  <2> HIDE DEF b, k, L
  <2>9. \A i \in 1 .. b : g[i] = old[i]
    <3> SUFFICES ASSUME NEW i \in 1 .. b PROVE g[i] = old[i]
      OBVIOUS
    <3>1. i \in 1 .. b + 1
      BY <2>1
    <3> QED
      BY <3>1, <2>6, <2>8
  <2>10. ASSUME NEW m \in 1 .. k PROVE g[b + m] = IF m = 1 THEN Broken ELSE lines[m]
    <3>1. CASE m = 1
      <4>1. b + 1 \in 1 .. b + 1
        BY <2>1
      <4> QED
        BY <3>1, <4>1, <2>6, <2>8
    <3>2. CASE m # 1
      <4> DEFINE n == m - 1
      <4>1. n \in 1 .. k - 1 /\ n + 1 = m /\ b + 1 + n = b + m
        BY <3>2, <2>1, <1>1
      <4> HIDE DEF n
      <4>2. g[b + 1 + n] = t[n] /\ t[n] = lines[n + 1]
        BY <4>1, <2>4, <2>8
      <4> QED
        BY <3>2, <4>1, <4>2
    <3> QED
      BY <3>1, <3>2
  <2>11. b + 1 + (k - 1) = b + k /\ b <= L
    BY <2>1, <1>1 DEF b
  <2> QED
    BY <1>1, <1>3, <2>1, <2>2, <2>8, <2>9, <2>10, <2>11 DEF IsGlued, k, L
<1> QED
  BY <1>2, <1>3

LEMMA CutIs ==
  ASSUME NEW g \in Seq(Lines), g # <<>>, NEW torn \in BOOLEAN
  PROVE  /\ CutAt(g, torn) \in Seq(Lines) /\ Len(g) \in Nat \ {0}
         /\ Len(CutAt(g, torn)) = Len(g)
         /\ \A i \in 1 .. Len(g) :
               CutAt(g, torn)[i] = IF torn /\ i = Len(g) THEN Broken ELSE g[i]
<1> DEFINE k == Len(g)
<1>1. k \in Nat /\ k # 0
  OBVIOUS
<1>2. CASE ~torn
  BY <1>1, <1>2 DEF CutAt
<1>3. CASE torn
  <2> DEFINE f == Front(g)
             h == f \o <<Broken>>
  <2>1. f \in Seq(Lines) /\ Len(f) = k - 1 /\ \A i \in 1 .. k - 1 : f[i] = g[i]
    BY FrontIs
  <2>2. <<Broken>> \in Seq(Lines) /\ Len(<<Broken>>) = 1 /\ <<Broken>>[1] = Broken
    BY DEF Broken, Lines
  <2>3. CutAt(g, torn) = h
    BY <1>3 DEF CutAt
  <2> HIDE DEF f
  <2>4. /\ h \in Seq(Lines) /\ Len(h) = k - 1 + 1
        /\ \A i \in 1 .. k - 1 : h[i] = g[i]
        /\ h[k - 1 + 1] = Broken
    <3> HIDE DEF k
    <3>1. /\ h \in Seq(Lines) /\ Len(h) = Len(f) + 1
          /\ \A i \in 1 .. Len(f) : h[i] = f[i]
          /\ \A m \in 1 .. 1 : h[Len(f) + m] = <<Broken>>[m]
      BY <2>1, <2>2, ConcatIs
    <3>2. h[Len(f) + 1] = <<Broken>>[1]
      BY <3>1
    <3> QED
      BY <3>1, <3>2, <2>1, <2>2
  <2> HIDE DEF k, h
  <2>5. ASSUME NEW i \in 1 .. k PROVE h[i] = IF i = k THEN Broken ELSE g[i]
    <3>1. k - 1 + 1 = k
      BY <1>1
    <3>2. i = k \/ i \in 1 .. k - 1
      BY <1>1
    <3> QED
      BY <3>1, <3>2, <1>1, <2>4
  <2>6. k - 1 + 1 = k
    BY <1>1
  <2> QED
    BY <1>1, <1>3, <2>3, <2>4, <2>5, <2>6 DEF k
<1> QED
  BY <1>2, <1>3

(* What a write leaves: no row that was covered is lost, the rows written   *)
(* are covered but for one that is cut, and every usable line is an old one *)
(* or one of theirs.                                                        *)
Kept(m, rows, ending) == m < Len(rows) \/ ending # "torn"
FromOld(c, i) == i \in UsableAt(c) /\ file'[c][i] = file[c][i]
FromRow(c, rows, ending, b, i, m) ==
    i = b + m /\ file'[c][i] = Line(c, rows[m]) /\ Kept(m, rows, ending)
Appended(c, rows, ending) ==
    /\ file' \in [Collections -> Seq(Lines)]
    /\ tail' \in [Collections -> {"newline", "row", "torn"}]
    /\ \A d \in Collections : tail'[d] # "newline" => file'[d] # <<>>
    /\ merged' \in [Collections -> SUBSET Nat]
    /\ \A d \in Collections : d # c => file'[d] = file[d] /\ merged'[d] = merged[d]
    /\ \A r \in Covered(c) : r \in Covered(c)'
    /\ \A m \in 1 .. Len(rows) : Kept(m, rows, ending) => rows[m] \in Covered(c)'
    /\ \E b \in Nat : \A i \in UsableAt(c)' :
          FromOld(c, i) \/ \E m \in 1 .. Len(rows) : FromRow(c, rows, ending, b, i, m)

LEMMA AppendIs ==
  ASSUME TypeInv, NEW c \in Collections, NEW rows \in Seq(Ids),
         NEW ending \in {"newline", "row", "torn"}, AppendRows(c, rows, ending)
  PROVE  Appended(c, rows, ending)
<1> DEFINE old == file[c]
           lines == [i \in DOMAIN rows |-> Line(c, rows[i])]
           fuse == tail[c] # "newline"
           torn == ending = "torn"
           b == BaseOf(old, fuse)
           g == Glued(old, lines, fuse)
           new == CutAt(g, torn)
           k == Len(rows)
<1>1. /\ old \in Seq(Lines) /\ fuse \in BOOLEAN /\ torn \in BOOLEAN
      /\ fuse => old # <<>>
      /\ k \in Nat /\ DOMAIN rows = 1 .. k
      /\ \A m \in 1 .. k : rows[m] \in Ids
      /\ file \in [Collections -> Seq(Lines)]
      /\ tail \in [Collections -> {"newline", "row", "torn"}]
      /\ \A d \in Collections : tail[d] # "newline" => file[d] # <<>>
      /\ merged \in [Collections -> SUBSET Nat]
  BY DEF TypeInv
<1>2. CASE rows = <<>>
  <2>1. file' = file /\ tail' = tail /\ merged' = merged
    BY <1>2 DEF AppendRows
  <2>2. Len(rows) = 0
    BY <1>2
  <2>3. UsableAt(c)' = UsableAt(c) /\ Covered(c)' = Covered(c)
    BY <2>1 DEF UsableAt, Covered, OnDisk, RowsOf
  <2>4. \A i \in UsableAt(c)' : FromOld(c, i)
    BY <2>1, <2>3 DEF FromOld
  <2>5. \A m \in 1 .. Len(rows) : FALSE
    BY <2>2
  <2> QED
    BY <1>1, <2>1, <2>3, <2>4, <2>5 DEF Appended
<1>3. CASE rows # <<>>
  <2>1. k # 0
    BY <1>3, <1>1
  <2>2. lines \in Seq(Lines) /\ Len(lines) = k /\ \A m \in 1 .. k : lines[m] = Line(c, rows[m])
    <3>1. \A m \in 1 .. k : Line(c, rows[m]) \in Lines
      BY <1>1, LineIs
    <3>2. lines \in [1 .. k -> Lines] /\ \A m \in 1 .. k : lines[m] = Line(c, rows[m])
      BY <3>1, <1>1
    <3> HIDE DEF lines, k
    <3> QED
      BY <3>2, <1>1
  <2>3. lines # <<>>
    <3> HIDE DEF lines, k
    <3> QED
      BY <2>1, <2>2
  <2>4. /\ file' = [file EXCEPT ![c] = new]
        /\ tail' = [tail EXCEPT ![c] = ending]
        /\ merged' = IF fuse THEN [merged EXCEPT ![c] = @ \cup {Last(old).row, rows[1]}]
                     ELSE merged
    BY <1>3 DEF AppendRows, Glued, CutAt
  <2> HIDE DEF old, lines, fuse, torn, b, g, new, k
  <2>5. /\ g \in Seq(Lines) /\ b \in Nat /\ b <= Len(old) /\ Len(g) = b + k
        /\ \A i \in 1 .. b : g[i] = old[i]
        /\ \A m \in 1 .. k : g[b + m] = IF fuse /\ m = 1 THEN Broken ELSE lines[m]
    <3>1. lines \in Seq(Lines) /\ fuse \in BOOLEAN /\ old \in Seq(Lines)
          /\ (fuse => old # <<>>)
      BY <1>1, <2>2
    <3>2. IsGlued(Glued(old, lines, fuse), BaseOf(old, fuse), old, lines, fuse)
      BY <3>1, <2>3, GluedIs, Zenon
    <3> QED
      BY <2>2, <3>2 DEF IsGlued, g, b
  <2>6. g # <<>>
    <3>1. Len(g) # 0
      BY <1>1, <2>1, <2>5
    <3> QED
      BY <3>1
  <2>7. /\ new \in Seq(Lines) /\ Len(new) = b + k
        /\ \A i \in 1 .. b + k : new[i] = IF torn /\ i = b + k THEN Broken ELSE g[i]
    <3>1. /\ CutAt(g, torn) \in Seq(Lines) /\ Len(CutAt(g, torn)) = Len(g)
          /\ \A i \in 1 .. Len(g) :
                CutAt(g, torn)[i] = IF torn /\ i = Len(g) THEN Broken ELSE g[i]
      BY <1>1, <2>5, <2>6, CutIs
    <3>2. Len(g) = b + k
      BY <2>5
    <3> QED
      BY <3>1, <3>2 DEF new
  <2>8. \A i \in 1 .. b : new[i] = old[i]
    <3> SUFFICES ASSUME NEW i \in 1 .. b PROVE new[i] = old[i]
      OBVIOUS
    <3>1. i \in 1 .. b + k /\ i # b + k
      BY <1>1, <2>1, <2>5
    <3> QED
      BY <3>1, <2>5, <2>7
  <2>9. ASSUME NEW m \in 1 .. k
        PROVE  new[b + m] = IF (fuse /\ m = 1) \/ (torn /\ m = k) THEN Broken
                            ELSE Line(c, rows[m])
    <3> DEFINE i == b + m
    <3>1. i \in 1 .. b + k /\ (i = b + k <=> m = k)
      BY <1>1, <2>5
    <3>2. g[i] = IF fuse /\ m = 1 THEN Broken ELSE Line(c, rows[m])
      BY <2>2, <2>5
    <3> HIDE DEF i
    <3>3. new[i] = IF torn /\ m = k THEN Broken ELSE g[i]
      BY <3>1, <2>7
    <3> QED
      BY <3>2, <3>3 DEF i
  <2>10. /\ file'[c] = new /\ tail'[c] = ending
         /\ \A d \in Collections : d # c => file'[d] = file[d] /\ tail'[d] = tail[d]
                                             /\ merged'[d] = merged[d]
         /\ file' \in [Collections -> Seq(Lines)]
         /\ tail' \in [Collections -> {"newline", "row", "torn"}]
    BY <1>1, <2>4, <2>7
  <2>11. new # <<>>
    <3>1. Len(new) # 0
      BY <1>1, <2>1, <2>5, <2>7
    <3> QED
      BY <3>1
  <2>12. \A d \in Collections : tail'[d] # "newline" => file'[d] # <<>>
    BY <1>1, <2>10, <2>11
  <2>13. fuse => Last(old) \in Lines /\ Last(old) = old[Len(old)] /\ Len(old) = b + 1
    <3>1. fuse => Last(old) \in Lines /\ Last(old) = old[Len(old)] /\ Len(old) \in Nat
      BY <1>1, FrontIs
    <3> QED
      BY <3>1 DEF b, BaseOf
  <2>14. /\ merged' \in [Collections -> SUBSET Nat] /\ merged[c] \subseteq merged'[c]
         /\ fuse => Last(old).row \in merged'[c] /\ rows[1] \in merged'[c]
    <3>1. CASE ~fuse
      BY <3>1, <1>1, <2>4
    <3>2. CASE fuse
      <4>1. Last(old).row \in Nat
        BY <3>2, <2>13, LinesAre
      <4>2. rows[1] \in Nat
        <5>1. 1 \in 1 .. k
          BY <1>1, <2>1
        <5>2. \A x \in Ids : x \in Nat
          BY PullAssumption
        <5> QED
          BY <5>1, <5>2, <1>1
      <4>3. merged[c] \in SUBSET Nat
        BY <1>1
      <4>4. merged' = [merged EXCEPT ![c] = merged[c] \cup {Last(old).row, rows[1]}]
        BY <3>2, <2>4
      <4>5. merged[c] \cup {Last(old).row, rows[1]} \in SUBSET Nat
        BY <4>1, <4>2, <4>3
      <4>6. merged'[c] = merged[c] \cup {Last(old).row, rows[1]}
        BY <4>4, <1>1
      <4> QED
        BY <4>4, <4>5, <4>6, <1>1
    <3> QED
      BY <3>1, <3>2 DEF fuse
  <2>15. /\ DOMAIN new = 1 .. b + k /\ DOMAIN old = 1 .. Len(old) /\ Len(old) \in Nat
         /\ Len(old) = b \/ (fuse /\ Len(old) = b + 1)
    <3>1. Len(old) = b \/ (fuse /\ Len(old) = b + 1)
      BY <2>13 DEF b, BaseOf
    <3> QED
      BY <3>1, <1>1, <2>7
  <2>16. /\ OnDisk(c) = {old[i].row : i \in 1 .. Len(old)} \ {0}
         /\ OnDisk(c)' = {new[i].row : i \in 1 .. b + k} \ {0}
         /\ Covered(c) = OnDisk(c) \cup merged[c]
         /\ Covered(c)' = OnDisk(c)' \cup merged'[c]
    <3>1. OnDisk(c) = {old[i].row : i \in DOMAIN old} \ {0}
      BY DEF OnDisk, RowsOf, old
    <3>2. OnDisk(c)' = {new[i].row : i \in DOMAIN new} \ {0}
      BY <2>10 DEF OnDisk, RowsOf
    <3> QED
      BY <3>1, <3>2, <2>15 DEF Covered
  <2>17. ASSUME NEW r \in Covered(c) PROVE r \in Covered(c)'
    <3>1. CASE r \in merged[c]
      BY <3>1, <2>14, <2>16
    <3>2. CASE r \in OnDisk(c)
      <4>1. PICK i \in 1 .. Len(old) : old[i].row = r /\ r # 0
        BY <3>2, <2>16
      <4>2. CASE i \in 1 .. b
        <5>1. new[i].row = r /\ i \in 1 .. b + k
          BY <4>1, <4>2, <2>5, <2>8, <1>1
        <5> QED
          BY <4>1, <5>1, <2>16
      <4>3. CASE i \notin 1 .. b
        <5>0. Len(old) # b
          BY <4>3, <2>5
        <5>1. fuse /\ i = Len(old)
          <6>1. fuse /\ Len(old) = b + 1
            BY <5>0, <2>15
          <6>2. i = Len(old)
            BY <4>3, <6>1, <2>5
          <6> QED
            BY <6>1, <6>2
        <5> QED
          BY <4>1, <5>1, <2>13, <2>14, <2>16
      <4> QED
        BY <4>2, <4>3
    <3> QED
      BY <3>1, <3>2, <2>16
  <2>18. ASSUME NEW m \in 1 .. k, Kept(m, rows, ending) PROVE rows[m] \in Covered(c)'
    <3>1. ~(torn /\ m = k)
      <4>1. m < k \/ ending # "torn"
        BY <2>18 DEF Kept, k
      <4>2. k \in Nat
        BY <1>1
      <4> QED
        BY <4>1, <4>2 DEF torn
    <3>2. CASE fuse /\ m = 1
      BY <3>2, <2>14, <2>16
    <3>3. CASE ~(fuse /\ m = 1)
      <4>1. new[b + m] = Line(c, rows[m]) /\ rows[m] \in Ids
        BY <3>1, <3>3, <2>9, <1>1
      <4>2. new[b + m].row = rows[m] /\ rows[m] # 0
        <5>1. rows[m] # 0
          BY <4>1, PullAssumption
        <5> QED
          BY <4>1, <5>1, LineIs
      <4>3. b + m \in 1 .. b + k
        BY <1>1, <2>5
      <4> QED
        BY <4>2, <4>3, <2>16
    <3> QED
      BY <3>2, <3>3
  <2>19. ASSUME NEW i \in UsableAt(c)'
         PROVE  FromOld(c, i) \/ \E m \in 1 .. Len(rows) : FromRow(c, rows, ending, b, i, m)
    <3>1. i \in 1 .. b + k /\ new[i].row # 0
      BY <2>10, <2>15 DEF UsableAt
    <3>2. CASE i \in 1 .. b
      <4>0. i \in 1 .. Len(old)
        <5>1. Len(old) \in Nat /\ b \in Nat /\ b <= Len(old)
          BY <1>1, <2>5
        <5> QED
          BY <3>2, <5>1
      <4>1. new[i] = old[i] /\ i \in DOMAIN old
        BY <3>2, <4>0, <2>8, <2>15
      <4> QED
        BY <3>1, <4>1, <2>10 DEF FromOld, UsableAt, old
    <3>3. CASE i \notin 1 .. b
      <4> DEFINE m == i - b
      <4>1. m \in 1 .. k /\ b + m = i
        BY <3>1, <3>3, <1>1, <2>5
      <4> HIDE DEF m
      <4>2. ~((fuse /\ m = 1) \/ (torn /\ m = k)) /\ new[i] = Line(c, rows[m])
        <5>1. Broken.row = 0
          BY DEF Broken
        <5> QED
          BY <3>1, <4>1, <5>1, <2>9
      <4>3. Kept(m, rows, ending)
        <5>1. ~torn \/ m # k
          BY <4>2
        <5>2. k \in Nat /\ (m < k \/ m = k)
          BY <4>1, <1>1
        <5>3. m < k \/ ~torn
          BY <5>1, <5>2
        <5> QED
          BY <5>3 DEF Kept, torn, k
      <4> QED
        BY <4>1, <4>2, <4>3, <2>10 DEF FromRow, k
    <3> QED
      BY <3>2, <3>3
  <2> QED
    BY <2>5, <2>10, <2>12, <2>14, <2>17, <2>18, <2>19 DEF Appended, k
<1> QED
  BY <1>2, <1>3
-----------------------------------------------------------------------------
(* The rows of a page, written whole or in part.                            *)

Writes(c, rows, ending) ==
    /\ rows \in Seq(Ids) /\ Len(rows) <= Len(Fresh)
    /\ \A m \in 1 .. Len(rows) : rows[m] = Fresh[m]
    /\ Appended(c, rows, ending) /\ Unordered(Fresh)
    /\ UNCHANGED <<server, exists, option>>

(* A row that is on disk is in a usable line.                               *)
LEMMA OnDiskIs ==
  ASSUME NEW c \in Collections
  PROVE  /\ \A r \in OnDisk(c) : \E i \in UsableAt(c) : file[c][i].row = r
         /\ \A i \in UsableAt(c) : file[c][i].row \in OnDisk(c)
  BY DEF OnDisk, RowsOf, UsableAt

LEMMA OnDiskIsNext ==
  ASSUME NEW c \in Collections
  PROVE  /\ \A r \in OnDisk(c)' : \E i \in UsableAt(c)' : file'[c][i].row = r
         /\ \A i \in UsableAt(c)' : file'[c][i].row \in OnDisk(c)'
  BY DEF OnDisk, RowsOf, UsableAt

(* A row that is written was not there, if the service keeps to the filter. *)
LEMMA NotOnDisk ==
  ASSUME IInv, pc = "page", Coll \in Keyed, server.paging # "ignored",
         NEW m \in 1 .. Len(Fresh)
  PROVE  Fresh[m] \notin OnDisk(Coll)
<1>1. TypeInv /\ StageInv /\ PullInv /\ Pulling(Coll) /\ Coll \in Collections
  BY DEF IInv, Pulling, Keyed, Collections
<1>2. FreshRows /\ Len(Fresh) \in Nat
  BY <1>1, FreshIs DEF FreshRows
<1>3. OnPage(Fresh[m]) /\ Reached(Fresh[m]) /\ Fresh[m] \in Ids
  BY <1>2 DEF FreshRows
<1>4. Ids \subseteq Nat \ {0} /\ OnDisk(Coll) \subseteq Ids
  BY <1>1, UsableIs, PullAssumption
<1>5. CASE pull.mode = "key"
  <2>1. KeyPage /\ KeyPaging(Coll)
    BY <1>1, <1>5, PageIs DEF PullInv
  <2>2. PICK n \in 1 .. Len(Page) : Page[n] = Fresh[m]
    BY <1>3 DEF OnPage
  <2>3. Fresh[m] > pull.last /\ \A i \in OnDisk(Coll) : i <= pull.last
    BY <2>1, <2>2 DEF KeyPage, KeyPaging
  <2>4. pull.last \in Nat /\ Fresh[m] \in Nat /\ \A i \in OnDisk(Coll) : i \in Nat
    BY <1>1, <1>3, <1>4 DEF TypeInv, Pulls
  <2> QED
    BY <2>3, <2>4
<1>6. CASE pull.mode = "server"
  <2>1. ServerPageFacts /\ ServerPaging(Coll)
    BY <1>1, <1>6, PageIs DEF PullInv
  <2>2. PICK n \in 1 .. Len(Page) : Page[n] = Fresh[m]
    BY <1>3 DEF OnPage
  <2>3. Page # <<>> /\ Position \in AheadTo(Len(ServerOrder))
    <3>1. Page # <<>>
      <4>1. Len(<<>>) = 0 /\ Len(Page) \in Nat /\ Len(Page) # 0
        BY <2>1, <2>2 DEF ServerPageFacts
      <4> QED
        BY <4>1
    <3> QED
      BY <3>1, <2>1 DEF ServerPageFacts
  <2>4. PICK p \in AheadTo(Position) : ServerOrder[p] = Fresh[m]
    BY <2>1, <2>2, <2>3 DEF ServerPageFacts
  <2>5. pull.at \in Nat /\ pull.seen \in Nat /\ Len(ServerOrder) \in Nat
    BY <1>1, PullAssumption DEF TypeInv, Pulls
  <2>6. p \in Nat /\ p > pull.at /\ p \in 1 .. Len(ServerOrder)
    BY <2>3, <2>5 DEF AheadTo
  <2>7. ~Passed(Fresh[m])
    <3> SUFFICES ASSUME NEW q \in 1 .. pull.at, q <= Len(ServerOrder),
                        ServerOrder[q] = Fresh[m]
                 PROVE  FALSE
      BY DEF Passed
    <3>1. q \in 1 .. Len(ServerOrder)
      BY <2>5
    <3>2. q = p
      BY <3>1, <2>4, <2>6, PullAssumption DEF IsInjective
    <3> QED
      BY <3>2, <2>5, <2>6
  <2>8. Fresh[m] > pull.seen
    <3>1. CASE schema[Coll] = NoKey
      <4>1. pull.seen = 0
        BY <3>1, <1>1 DEF PullInv
      <4>2. Fresh[m] \in Nat \ {0}
        BY <1>3, <1>4
      <4> QED
        BY <4>1, <4>2
    <3>2. CASE schema[Coll] # NoKey
      BY <3>2, <1>3, <1>6 DEF Reached
    <3> QED
      BY <3>1, <3>2
  <2>9. Fresh[m] \in Nat
    BY <1>3, <1>4
  <2>10. ~(Fresh[m] <= pull.seen)
    BY <2>5, <2>8, <2>9
  <2> QED
    BY <2>1, <2>7, <2>10 DEF ServerPaging
<1> QED
  BY <1>1, <1>5, <1>6 DEF StageInv, TypeInv, Pulls

Wrote(c, rows, ending) ==
    /\ FileInv' /\ NothingSkipped' /\ unordered' \subseteq Collections
    /\ \A d \in Collections : \A r \in Covered(d) : r \in Covered(d)'
    /\ c \in Keyed => \A i \in UsableAt(c)' : file'[c][i].key = KeyNow
    /\ \A r \in OnDisk(c)' :
          \/ r \in OnDisk(c)
          \/ \E m \in 1 .. Len(rows) : rows[m] = r /\ Kept(m, rows, ending)
    /\ pull.mode = "key" => unordered' = unordered

LEMMA WritesIInv ==
  ASSUME IInv, pc = "page", NEW c, c = Coll, NEW rows, NEW ending, Writes(c, rows, ending)
  PROVE  Wrote(c, rows, ending)
<1>1. /\ TypeInv /\ StageInv /\ FileInv /\ PullInv /\ NothingSkipped
      /\ c \in Collections /\ Pulling(c)
  <2>1. TypeInv /\ StageInv /\ todo # <<>>
    BY DEF IInv, StageInv
  <2> QED
    BY <2>1, CollIs DEF IInv, Pulling
<1>2. /\ rows \in Seq(Ids) /\ Len(rows) \in Nat /\ Len(rows) <= Len(Fresh)
      /\ \A m \in 1 .. Len(rows) : rows[m] = Fresh[m]
      /\ Appended(c, rows, ending) /\ Unordered(Fresh)
      /\ server' = server /\ exists' = exists /\ option' = option
  BY DEF Writes
<1>3. /\ FreshRows /\ Fresh \in Seq(Ids) /\ Len(Fresh) \in Nat
      /\ \A m, n \in 1 .. Len(Fresh) : Fresh[m] = Fresh[n] => m = n
  <2>1. FreshRows /\ Fresh \in Seq(Ids)
    BY <1>1, FreshIs DEF FreshRows
  <2>2. DOMAIN Fresh = 1 .. Len(Fresh) /\ Len(Fresh) \in Nat
    BY <2>1
  <2> QED
    BY <2>1, <2>2 DEF FreshRows, IsInjective
<1>4. \A m \in 1 .. Len(rows) : m \in 1 .. Len(Fresh)
  BY <1>2, <1>3
<1>5. \A m \in 1 .. Len(rows) : rows[m] \in exists[c] /\ rows[m] \in Ids
  <2> SUFFICES ASSUME NEW m \in 1 .. Len(rows) PROVE rows[m] \in exists[c] /\ rows[m] \in Ids
    OBVIOUS
  <2>1. OnPage(Fresh[m]) /\ Fresh[m] \in Ids
    BY <1>3, <1>4 DEF FreshRows
  <2>2. PICK n \in 1 .. Len(Page) : Page[n] = Fresh[m]
    BY <2>1 DEF OnPage
  <2>3. Page[n] \in exists[c]
    BY <1>1, PageIs
  <2> QED
    BY <2>1, <2>2, <2>3, <1>2
<1>6. PICK b \in Nat : \A i \in UsableAt(c)' :
          FromOld(c, i) \/ \E m \in 1 .. Len(rows) : FromRow(c, rows, ending, b, i, m)
  BY <1>2 DEF Appended
<1>7. \A r \in OnDisk(c)' :
          \/ r \in OnDisk(c)
          \/ \E m \in 1 .. Len(rows) : rows[m] = r /\ Kept(m, rows, ending)
  <2> SUFFICES ASSUME NEW r \in OnDisk(c)', r \notin OnDisk(c)
               PROVE  \E m \in 1 .. Len(rows) : rows[m] = r /\ Kept(m, rows, ending)
    OBVIOUS
  <2>1. PICK i \in UsableAt(c)' : file'[c][i].row = r
    BY <1>1, OnDiskIsNext
  <2>2. ~FromOld(c, i)
    BY <2>1, <1>1, OnDiskIs DEF FromOld
  <2>3. PICK m \in 1 .. Len(rows) : FromRow(c, rows, ending, b, i, m)
    BY <2>2, <1>6
  <2>4. rows[m] = r
    BY <2>1, <2>3, <1>1, <1>5, LineIs DEF FromRow
  <2> QED
    BY <2>3, <2>4 DEF FromRow
<1>8. \A d \in Collections : \A r \in Covered(d) : r \in Covered(d)'
  <2>1. \A r \in Covered(c) : r \in Covered(c)'
    BY <1>2 DEF Appended
  <2>2. ASSUME NEW d \in Collections, d # c PROVE \A r \in Covered(d) : r \in Covered(d)'
    BY <2>2, <1>2 DEF Appended, Covered, OnDisk
  <2> QED
    BY <2>1, <2>2
<1>9. c \in Keyed => \A i \in UsableAt(c)' : file'[c][i].key = KeyNow
  <2> SUFFICES ASSUME c \in Keyed, NEW i \in UsableAt(c)' PROVE file'[c][i].key = KeyNow
    OBVIOUS
  <2>1. CASE FromOld(c, i)
    BY <2>1, <1>1 DEF FromOld, PullInv
  <2>2. ASSUME NEW m \in 1 .. Len(rows), FromRow(c, rows, ending, b, i, m)
        PROVE  file'[c][i].key = KeyNow
    BY <2>2, <1>1, <1>5, LineIs DEF FromRow
  <2> QED
    BY <2>1, <2>2, <1>6
<1>10. FileInv'
  <2> SUFFICES ASSUME NEW d \in Keyed
               PROVE  /\ OnDisk(d)' \subseteq exists[d]
                      /\ \A i, j \in UsableAt(d)' :
                            /\ file'[d][i].key \in Keys /\ file'[d][i].key = file'[d][j].key
                            /\ server.paging # "ignored"
                               /\ file'[d][i].row = file'[d][j].row => i = j
    BY <1>2 DEF FileInv
  <2>1. CASE d # c
    <3>1. file'[d] = file[d] /\ d \in Collections
      BY <2>1, <1>2 DEF Appended, Keyed, Collections
    <3>2. OnDisk(d)' = OnDisk(d) /\ UsableAt(d)' = UsableAt(d)
      BY <3>1 DEF OnDisk, UsableAt
    <3> QED
      BY <3>1, <3>2, <1>1 DEF FileInv
  <2>2. CASE d = c
    <3>1. OnDisk(d)' \subseteq exists[d]
      BY <2>2, <1>1, <1>5, <1>7 DEF FileInv
    <3>2. \A i \in UsableAt(d)' : file'[d][i].key = KeyNow /\ KeyNow \in Keys
      BY <2>2, <1>9 DEF KeyNow, KeyIn, Keys
    <3>3. ASSUME NEW i \in UsableAt(d)', NEW j \in UsableAt(d)',
                 server.paging # "ignored", file'[d][i].row = file'[d][j].row
          PROVE  i = j
      <4>1. ASSUME NEW x \in UsableAt(d)', NEW y \in UsableAt(d)',
                   FromOld(c, x), NEW m \in 1 .. Len(rows), FromRow(c, rows, ending, b, y, m)
            PROVE  file'[d][x].row # file'[d][y].row
        <5>1. file'[d][x].row \in OnDisk(c)
          BY <4>1, <2>2, <1>1, OnDiskIs DEF FromOld
        <5>2. file'[d][y].row = Fresh[m]
          BY <4>1, <2>2, <1>1, <1>2, <1>5, LineIs DEF FromRow
        <5>3. Fresh[m] \notin OnDisk(c)
          BY <2>2, <3>3, <1>4, NotOnDisk
        <5> QED
          BY <5>1, <5>2, <5>3
      <4>2. CASE FromOld(c, i) /\ FromOld(c, j)
        <5>1. i \in UsableAt(c) /\ j \in UsableAt(c) /\ file[c][i].row = file[c][j].row
          BY <4>2, <3>3, <2>2 DEF FromOld
        <5> QED
          BY <5>1, <3>3, <2>2, <1>1 DEF FileInv
      <4>3. CASE ~FromOld(c, i) /\ ~FromOld(c, j)
        <5>1. PICK m \in 1 .. Len(rows) : FromRow(c, rows, ending, b, i, m)
          BY <4>3, <2>2, <1>6
        <5>2. PICK n \in 1 .. Len(rows) : FromRow(c, rows, ending, b, j, n)
          BY <4>3, <2>2, <1>6
        <5>3. rows[m] = rows[n]
          BY <5>1, <5>2, <3>3, <2>2, <1>1, <1>5, LineIs DEF FromRow
        <5>4. m = n
          BY <5>3, <1>2, <1>3, <1>4
        <5> QED
          BY <5>1, <5>2, <5>4 DEF FromRow
      <4> QED
        BY <4>1, <4>2, <4>3, <3>3, <2>2, <1>6
    <3> QED
      BY <3>1, <3>2, <3>3
  <2> QED
    BY <2>1, <2>2
<1>11. /\ pull.mode = "key" => unordered' = unordered
       /\ c \notin unordered' => c \notin unordered
       /\ pull.mode = "server" /\ c \notin unordered' => Fresh = <<>>
       /\ \A d \in Collections : d # c => (d \in unordered' <=> d \in unordered)
       /\ unordered' \subseteq Collections
  BY <1>1, <1>2 DEF Unordered, TypeInv
<1>12. NothingSkipped'
  <2> SUFFICES ASSUME NEW d \in Keyed, d \notin unordered',
                      NEW i \in exists[d], NEW j \in OnDisk(d)', i < j
               PROVE  i \in Covered(d)'
    BY <1>2 DEF NothingSkipped, Covered
  <2>1. d \in Collections /\ d \notin unordered
    BY <1>11 DEF Keyed, Collections
  <2>2. CASE j \in OnDisk(d)
    BY <2>1, <2>2, <1>1, <1>8 DEF NothingSkipped, Covered
  <2>3. CASE j \notin OnDisk(d)
    <3>1. d = c
      BY <2>1, <2>3, <1>2 DEF Appended, OnDisk
    <3>2. PICK m \in 1 .. Len(rows) : rows[m] = j /\ Kept(m, rows, ending)
      BY <2>3, <3>1, <1>7
    <3>3. pull.mode = "key"
      <4>1. Len(Fresh) # 0
        BY <3>2, <1>2, <1>3
      <4>2. Fresh # <<>>
        BY <4>1
      <4> QED
        BY <4>2, <3>1, <1>1, <1>11 DEF StageInv, TypeInv, Pulls, Pulling
    <3>4. KeyPage /\ KeyPaging(c) /\ Fresh = Page
      BY <3>1, <3>3, <1>1, <1>3, PageIs DEF PullInv, FreshRows, Pulling
    <3>5. i \in Nat /\ pull.last \in Nat
      <4>1. i \in Ids /\ \A x \in Ids : x \in Nat
        BY <2>1, <1>1, PullAssumption DEF TypeInv
      <4> QED
        BY <4>1, <1>1 DEF TypeInv, Pulls
    <3>6. CASE i <= pull.last
      BY <2>1, <3>1, <3>4, <3>6, <1>8 DEF KeyPaging
    <3>7. CASE pull.last < i
      <4>1. m \in 1 .. Len(Page) /\ Page[m] = j
        BY <3>2, <3>4, <1>2, <1>4
      <4>2. PICK n \in 1 .. Len(Page) : n < m /\ Page[n] = i
        BY <3>1, <3>4, <3>7, <4>1 DEF KeyPage
      <4>3. n \in 1 .. Len(rows) /\ n < Len(rows)
        BY <4>2, <1>2
      <4>4. rows[n] = i /\ Kept(n, rows, ending)
        BY <4>2, <4>3, <3>4, <1>2 DEF Kept
      <4>5. rows[n] \in Covered(c)'
        BY <4>3, <4>4, <1>2 DEF Appended
      <4> QED
        BY <4>4, <4>5, <3>1
    <3> QED
      BY <3>5, <3>6, <3>7
  <2> QED
    BY <2>2, <2>3
<1> QED
  BY <1>7, <1>8, <1>9, <1>10, <1>11, <1>12 DEF Wrote
-----------------------------------------------------------------------------
(* The parts of the invariant that are about the files only.                *)

DiskInv ==
    /\ file \in [Collections -> Seq(Lines)]
    /\ tail \in [Collections -> {"newline", "row", "torn"}]
    /\ \A c \in Collections : tail[c] # "newline" => file[c] # <<>>
    /\ merged \in [Collections -> SUBSET Nat] /\ unordered \subseteq Collections
    /\ FileInv /\ NothingSkipped

SameDisk == UNCHANGED <<server, exists, file, tail, merged, unordered>>
LEMMA DiskStays ==
  ASSUME IInv, SameDisk
  PROVE  DiskInv' /\ server' = server /\ exists' = exists
<1>1. TypeInv /\ FileInv /\ NothingSkipped
  BY DEF IInv
<1>2. /\ server' = server /\ exists' = exists /\ file' = file /\ tail' = tail
      /\ merged' = merged /\ unordered' = unordered
  BY DEF SameDisk
<1>3. FileInv'
  BY <1>1, <1>2 DEF FileInv, OnDisk, UsableAt, RowsOf
<1>4. NothingSkipped'
  BY <1>1, <1>2 DEF NothingSkipped, OnDisk, RowsOf
<1> QED
  BY <1>1, <1>2, <1>3, <1>4 DEF DiskInv, TypeInv

SameBounds == runs' \in 0 .. MaxRuns /\ faults' \in 0 .. MaxFaults
LEMMA BoundsStay ==
  ASSUME IInv, UNCHANGED bounds
  PROVE  SameBounds
  BY DEF IInv, TypeInv, bounds, SameBounds
LEMMA FaultStays ==
  ASSUME IInv, Fault
  PROVE  SameBounds
<1>1. runs \in 0 .. MaxRuns /\ faults \in 0 .. MaxFaults
  BY DEF IInv, TypeInv
<1>2. runs' = runs /\ faults < MaxFaults /\ faults' = faults + 1 /\ MaxFaults \in Nat
  BY PullAssumption DEF Fault
<1> QED
  BY <1>1, <1>2 DEF SameBounds

LEMMA Nothings ==
  /\ NoPull \in Pulls
  /\ NoSchema \in [Collections -> Keys \cup {NoKey, "unread"}]
  /\ NoStart \in [Collections -> [rows : SUBSET Ids, ordered : BOOLEAN]]
  /\ \A c \in Collections : NoSchema[c] = "unread" /\ NoStart[c].rows = {}
  /\ <<>> \in Seq(Collections) /\ IsInjective(<<>>) /\ NoKey # "unread"
<1>1. 0 \in 0 .. PageSize
  BY PullAssumption
<1>2. NoPull \in Pulls
  BY <1>1 DEF NoPull, Pulls
<1>3. DOMAIN <<>> = {}
  OBVIOUS
<1>4. <<>> \in Seq(Collections) /\ IsInjective(<<>>)
  BY <1>3 DEF IsInjective
<1> QED
  BY <1>2, <1>4 DEF NoSchema, NoStart, NoKey

(* A run that starts, and one that ends without success.                    *)
Cleared ==
    /\ todo' = <<>> /\ schema' = NoSchema /\ pull' = NoPull /\ start' = NoStart
    /\ pc' \in {"idle", "sets"} /\ exit' \in {0, 1, 2, 130} /\ option' \in Options
    /\ pc' = "idle" => exit' # 0

LEMMA ClearedIInv ==
  ASSUME IInv, DiskInv', server' = server, exists' = exists, SameBounds, Cleared
  PROVE  IInv'
<1>1. TypeInv
  BY DEF IInv
<1>2. TypeInv'
  BY <1>1, Nothings DEF TypeInv, DiskInv, SameBounds, Cleared
<1>3. StageInv'
  BY Nothings DEF StageInv, Cleared
<1>4. SchemaInv'
  <2>1. \A c \in Keyed : schema'[c] = "unread"
    BY Nothings DEF Cleared, Keyed, Collections
  <2> QED
    BY <2>1, Nothings DEF SchemaInv
<1>5. PullInv'
  BY DEF PullInv, Pulling, Cleared
<1>6. DoneInv'
  <2>1. \A c \in Keyed : start'[c].rows = {}
    BY Nothings DEF Cleared, Keyed, Collections
  <2> QED
    BY <2>1 DEF DoneInv
<1>7. ThreadsAreWhole'
  BY DEF ThreadsAreWhole, Through, Cleared
<1> QED
  BY <1>2, <1>3, <1>4, <1>5, <1>6, <1>7 DEF IInv, DiskInv

LEMMA InitIInv == Init => IInv
<1> SUFFICES ASSUME Init PROVE IInv
  OBVIOUS
<1>1. /\ \A c \in Collections : file[c] = <<>> /\ tail[c] = "newline" /\ merged[c] = {}
      /\ file \in [Collections -> Seq(Lines)]
      /\ tail \in [Collections -> {"newline", "row", "torn"}]
      /\ merged \in [Collections -> SUBSET Nat] /\ unordered = {}
  BY DEF Init
<1>2. \A c \in Collections : OnDisk(c) = {} /\ UsableAt(c) = {}
  <2> SUFFICES ASSUME NEW c \in Collections PROVE OnDisk(c) = {} /\ UsableAt(c) = {}
    OBVIOUS
  <2>1. DOMAIN file[c] = {}
    BY <1>1
  <2> QED
    BY <2>1 DEF OnDisk, RowsOf, UsableAt
<1>3. FileInv /\ NothingSkipped
  BY <1>2 DEF FileInv, NothingSkipped, Keyed, Collections
<1>4. /\ todo = <<>> /\ schema = NoSchema /\ pull = NoPull /\ start = NoStart
      /\ pc = "idle" /\ exit = 0 /\ option \in Options /\ runs = 0 /\ faults = 0
      /\ server \in Servers /\ exists = AtFirst
  BY PullAssumption DEF Init
<1>5. TypeInv
  <2>1. exists \in [Collections -> SUBSET Ids] /\ MaxRuns \in Nat /\ MaxFaults \in Nat
    BY <1>4, PullAssumption
  <2>2. 0 \in 0 .. MaxRuns /\ 0 \in 0 .. MaxFaults
    BY <2>1
  <2> QED
    BY <1>1, <1>4, <2>1, <2>2, Nothings DEF TypeInv
<1>6. StageInv
  BY <1>4, Nothings DEF StageInv
<1>7. SchemaInv
  <2>1. \A c \in Keyed : schema[c] = "unread"
    BY <1>4, Nothings DEF Keyed, Collections
  <2> QED
    BY <2>1, Nothings DEF SchemaInv
<1>8. PullInv
  BY <1>4 DEF PullInv, Pulling
<1>9. DoneInv
  <2>1. \A c \in Keyed : start[c].rows = {}
    BY <1>4, Nothings DEF Keyed, Collections
  <2> QED
    BY <2>1 DEF DoneInv
<1>10. ThreadsAreWhole
  BY <1>4 DEF ThreadsAreWhole, Through
<1> QED
  BY <1>3, <1>5, <1>6, <1>7, <1>8, <1>9, <1>10 DEF IInv
-----------------------------------------------------------------------------
(* The actions, one lemma for each.                                         *)

LEMMA StopIs == ASSUME NEW code \in {1, 2, 130}, IInv, Stop(code) PROVE Cleared
  BY DEF IInv, TypeInv, Stop, Exit, Cleared

LEMMA StartIInv ==
  ASSUME IInv, NEW o \in Options, Start(o)
  PROVE  IInv'
<1>1. SameDisk /\ Cleared
  BY DEF Start, SameDisk, settings, disk, Cleared
<1>2. SameBounds
  <2>1. /\ runs \in 0 .. MaxRuns /\ faults \in 0 .. MaxFaults
        /\ runs < MaxRuns /\ runs' = runs + 1 /\ faults' = faults
    BY DEF IInv, TypeInv, Start
  <2>2. MaxRuns \in Nat
    BY PullAssumption
  <2> QED
    BY <2>1, <2>2 DEF SameBounds
<1> QED
  BY <1>1, <1>2, DiskStays, ClearedIInv

LEMMA FailsIInv == ASSUME IInv, Fails PROVE IInv'
<1>1. SameDisk /\ Cleared
  BY StopIs DEF Fails, SameDisk, settings, disk
<1>2. SameBounds
  BY FaultStays DEF Fails
<1> QED
  BY <1>1, <1>2, DiskStays, ClearedIInv

LEMMA InterruptIInv == ASSUME IInv, Interrupt PROVE IInv'
<1>1. SameDisk /\ Cleared
  BY StopIs DEF Interrupt, SameDisk, settings, disk
<1>2. SameBounds
  BY FaultStays DEF Interrupt
<1> QED
  BY <1>1, <1>2, DiskStays, ClearedIInv

LEMMA SchemaMismatchIInv == ASSUME IInv, SchemaMismatch PROVE IInv'
<1>1. SameDisk /\ Cleared
  BY StopIs DEF SchemaMismatch, SameDisk, settings, disk
<1>2. SameBounds
  BY BoundsStay DEF SchemaMismatch
<1> QED
  BY <1>1, <1>2, DiskStays, ClearedIInv

LEMMA NoPageStays == ASSUME IInv, NEW lost \in BOOLEAN, NoPage(lost) PROVE SameBounds
  BY BoundsStay, FaultStays DEF NoPage

LEMMA PullFailsIInv == ASSUME IInv, NEW lost \in BOOLEAN, PullFails(lost) PROVE IInv'
<1>1. SameDisk /\ Cleared
  BY StopIs DEF PullFails, GiveUp, SameDisk, settings, disk
<1>2. SameBounds
  BY NoPageStays DEF PullFails, GiveUp
<1> QED
  BY <1>1, <1>2, DiskStays, ClearedIInv

LEMMA PageUnreadableIInv == ASSUME IInv, PageUnreadable PROVE IInv'
<1>1. SameDisk /\ Cleared
  BY StopIs DEF PageUnreadable, SameDisk, settings, disk
<1>2. SameBounds
  BY FaultStays DEF PageUnreadable
<1> QED
  BY <1>1, <1>2, DiskStays, ClearedIInv

(* A step inside a run that leaves the files alone: what is on disk and     *)
(* covered stays, and no promise about the joined file is due.              *)
LEMMA SameRows ==
  ASSUME file' = file, merged' = merged, NEW c \in Collections
  PROVE  /\ OnDisk(c)' = OnDisk(c) /\ UsableAt(c)' = UsableAt(c)
         /\ Covered(c)' = Covered(c)
  BY DEF OnDisk, RowsOf, UsableAt, Covered

LEMMA ReadSetsIInv == ASSUME IInv, ReadSets PROVE IInv'
<1>1. /\ TypeInv /\ StageInv /\ DoneInv /\ pc = "sets" /\ schema = NoSchema
  BY DEF IInv, ReadSets, StageInv
<1>2. /\ pc' = "begin" /\ option' = option /\ exit' = exit /\ schema' = schema
      /\ pull' = pull /\ start' = start /\ file' = file /\ merged' = merged
      /\ server' = server
  BY DEF ReadSets, Goto, settings, disk, history
<1>3. DiskInv' /\ server' = server /\ exists' = exists /\ SameBounds
  BY DiskStays, BoundsStay DEF ReadSets, SameDisk, settings, disk, history
<1>4. todo' \in Seq(Collections) /\ IsInjective(todo')
  <2>1. todo' \in {<<"attachments">>, <<"tickets", "comments", "users">>,
                   <<"tickets", "comments">>}
    BY DEF ReadSets
  <2>2. {"attachments", "tickets", "comments", "users"} \subseteq Collections
    BY DEF Collections, Keyed
  <2>3. /\ <<"attachments">> \in Seq(Collections)
        /\ <<"tickets", "comments", "users">> \in Seq(Collections)
        /\ <<"tickets", "comments">> \in Seq(Collections)
    BY <2>2
  <2>4. IsInjective(<<"attachments">>)
    BY DEF IsInjective
  <2>5. IsInjective(<<"tickets", "comments">>)
    <3> DEFINE s == <<"tickets", "comments">>
    <3>1. DOMAIN s = 1 .. 2 /\ s[1] # s[2]
      OBVIOUS
    <3> HIDE DEF s
    <3>2. \A i, j \in DOMAIN s : s[i] = s[j] => i = j
      BY <3>1
    <3> QED
      BY <3>2 DEF IsInjective, s
  <2>6. IsInjective(<<"tickets", "comments", "users">>)
    <3> DEFINE s == <<"tickets", "comments", "users">>
    <3>1. DOMAIN s = 1 .. 3 /\ s[1] # s[2] /\ s[1] # s[3] /\ s[2] # s[3]
      OBVIOUS
    <3> HIDE DEF s
    <3>2. \A i, j \in DOMAIN s : s[i] = s[j] => i = j
      BY <3>1
    <3> QED
      BY <3>2 DEF IsInjective, s
  <2> QED
    BY <2>1, <2>3, <2>4, <2>5, <2>6
<1>5. TypeInv'
  BY <1>1, <1>2, <1>3, <1>4 DEF TypeInv, DiskInv, SameBounds
<1>6. StageInv'
  BY <1>1, <1>2, <1>4, Nothings DEF StageInv
<1>7. SchemaInv'
  <2>1. \A c \in Keyed : schema'[c] = "unread"
    BY <1>1, <1>2, Nothings DEF Keyed, Collections
  <2> QED
    BY <2>1, Nothings DEF SchemaInv
<1>8. PullInv'
  BY <1>2 DEF PullInv, Pulling
<1>9. DoneInv'
  <2>1. \A c \in Keyed : ~Pulling(c) /\ Covered(c)' = Covered(c)
    BY <1>1, <1>2, SameRows DEF Pulling, Keyed, Collections
  <2> QED
    BY <1>1, <1>2, <2>1 DEF DoneInv
<1>10. ThreadsAreWhole'
  BY <1>2 DEF ThreadsAreWhole, Through
<1> QED
  BY <1>3, <1>5, <1>6, <1>7, <1>8, <1>9, <1>10 DEF IInv, DiskInv

LEMMA DueIs ==
  ASSUME TypeInv, todo # <<>>
  PROVE  /\ Due \in Collections
         /\ schema[Due] # "unread" => schema[Coll] # "unread"
<1>1. Head(todo) \in Collections
  BY DEF TypeInv
<1> QED
  BY <1>1 DEF Due, Coll, Collections, Keyed

LEMMA ReadSchemaIInv == ASSUME IInv, ReadSchema PROVE IInv'
<1>1. /\ TypeInv /\ StageInv /\ FileInv /\ SchemaInv /\ DoneInv
      /\ pc = "begin" /\ todo # <<>> /\ Due \in Collections
  BY DueIs DEF IInv, ReadSchema
<1>2. /\ pc' = "begin" /\ option' = option /\ exit' = exit /\ todo' = todo
      /\ pull' = pull /\ start' = start /\ file' = file /\ merged' = merged
      /\ server' = server
      /\ schema' = [schema EXCEPT ![Due] =
                      IF Due \in Keyed /\ exists[Due] # {} THEN KeyNow ELSE NoKey]
  BY <1>1 DEF ReadSchema, run, settings, disk, history, KeyNow
<1>3. DiskInv' /\ server' = server /\ exists' = exists /\ SameBounds
  BY DiskStays, BoundsStay DEF ReadSchema, SameDisk, settings, disk, history
<1>4. KeyNow \in Keys /\ KeyNow' = KeyNow
  BY <1>2 DEF KeyNow, KeyIn, Keys
<1>5. TypeInv'
  <2>1. schema' \in [Collections -> Keys \cup {NoKey, "unread"}]
    BY <1>1, <1>2, <1>4 DEF TypeInv
  <2> QED
    BY <1>1, <1>2, <1>3, <2>1 DEF TypeInv, DiskInv, SameBounds
<1>6. StageInv'
  BY <1>1, <1>2 DEF StageInv
<1>7. SchemaInv'
  <2> SUFFICES ASSUME NEW c \in Keyed
               PROVE  /\ schema'[c] \in {"unread", NoKey, KeyNow}
                      /\ schema'[c] = NoKey /\ c \in ToSet(todo) => OnDisk(c) = {}
    <3>1. \A c \in Keyed : OnDisk(c)' = OnDisk(c)
      BY <1>2, SameRows DEF Keyed, Collections
    <3> QED
      BY <1>2, <1>4, <3>1 DEF SchemaInv
  <2>1. c \in Collections /\ ~Pulling(c)
    BY <1>1 DEF Keyed, Collections, Pulling
  <2>2. CASE c # Due
    BY <2>1, <2>2, <1>1, <1>2 DEF SchemaInv, TypeInv
  <2>3. CASE c = Due
    <3>1. schema'[c] = IF exists[c] # {} THEN KeyNow ELSE NoKey
      BY <2>1, <2>3, <1>1, <1>2 DEF TypeInv
    <3>2. OnDisk(c) \subseteq exists[c]
      BY <1>1 DEF FileInv
    <3>3. KeyNow # NoKey
      BY <1>4 DEF Keys, NoKey
    <3> QED
      BY <3>1, <3>2, <3>3
  <2> QED
    BY <2>2, <2>3
<1>8. PullInv'
  BY <1>2 DEF PullInv, Pulling
<1>9. DoneInv'
  <2>1. \A c \in Keyed : ~Pulling(c) /\ Covered(c)' = Covered(c)
    BY <1>1, <1>2, SameRows DEF Pulling, Keyed, Collections
  <2> QED
    BY <1>1, <1>2, <2>1 DEF DoneInv
<1>10. ThreadsAreWhole'
  BY <1>2 DEF ThreadsAreWhole, Through
<1> QED
  BY <1>3, <1>5, <1>6, <1>7, <1>8, <1>9, <1>10 DEF IInv, DiskInv

(* The key that is asked for is the one on disk, and `last` vouches for what *)
(* is below it.                                                             *)
LEMMA BeginPullIInv == ASSUME IInv, BeginPull PROVE IInv'
<1>1. /\ TypeInv /\ StageInv /\ FileInv /\ SchemaInv /\ DoneInv /\ NothingSkipped
      /\ pc = "begin" /\ todo # <<>> /\ schema[Due] # "unread" /\ ~Mismatch
  BY DEF IInv, BeginPull, OpenFile, Ready
<1> PICK c \in Collections : c = Coll
  BY <1>1, CollIs
<1> DEFINE key == schema[c]
           last == IF key = NoKey THEN 0 ELSE HighestOnDisk(c, key)
<1>2. /\ pull' = [NoPull EXCEPT !.mode = IF key = NoKey THEN "server" ELSE "key",
                                !.last = last, !.seen = last, !.size = PageSize,
                                !.expand = key # NoKey /\ c \in option.expand]
      /\ start' = [start EXCEPT ![c] = [rows |-> exists[c], ordered |-> c \notin unordered]]
      /\ pc' = "page" /\ option' = option /\ exit' = exit /\ todo' = todo
      /\ schema' = schema /\ file' = file /\ merged' = merged /\ server' = server
      /\ exists' = exists /\ unordered' = unordered
  BY DEF BeginPull, OpenFile, Goto, settings, disk
<1>3. DiskInv' /\ SameBounds
  BY DiskStays, BoundsStay DEF BeginPull, OpenFile, SameDisk, settings, disk
<1>4. /\ c \in ToSet(todo) /\ key # "unread" /\ ~Pulling(c)
      /\ Coll' = c
  BY <1>1, <1>2, CollIs, DueIs DEF Pulling, Coll
<1>5. c \in Keyed => key \in {NoKey, KeyNow} /\ KeyNow \in Keys /\ KeyNow # NoKey
  BY <1>1, <1>4 DEF SchemaInv, KeyNow, KeyIn, Keys, NoKey
<1>6. c \in Keyed /\ key = NoKey => OnDisk(c) = {} /\ UsableAt(c) = {}
  <2> SUFFICES ASSUME c \in Keyed, key = NoKey PROVE OnDisk(c) = {} /\ UsableAt(c) = {}
    OBVIOUS
  <2>1. OnDisk(c) = {}
    BY <1>1, <1>4 DEF SchemaInv
  <2> QED
    BY <2>1, OnDiskIs
<1>7. c \in Keyed => \A i \in UsableAt(c) : file[c][i].key = KeyNow
  <2> SUFFICES ASSUME c \in Keyed, NEW i \in UsableAt(c) PROVE file[c][i].key = KeyNow
    OBVIOUS
  <2>1. key = KeyNow
    BY <1>5, <1>6
  <2>2. Usable(c) # <<>> => Usable(c)[1].key = key
    BY <1>1, <1>5, <2>1 DEF Mismatch
  <2>3. PICK j \in UsableAt(c) : Usable(c)[1] = file[c][j]
    BY <1>1, UsableIs
  <2>4. Usable(c) # <<>>
    BY <1>1, UsableIs
  <2> QED
    BY <1>1, <2>1, <2>2, <2>3, <2>4 DEF FileInv
<1>8. c \in Keyed => /\ last \in OnDisk(c) \cup {0}
                     /\ key # NoKey => \A i \in OnDisk(c) : i <= last
  <2> SUFFICES ASSUME c \in Keyed, key # NoKey
               PROVE  last \in OnDisk(c) \cup {0} /\ \A i \in OnDisk(c) : i <= last
    OBVIOUS
  <2>1. last = HighestOnDisk(c, KeyNow)
    BY <1>5
  <2> HIDE DEF last
  <2> QED
    BY <1>1, <1>5, <1>7, <2>1, HighestIs
<1>9. last \in Nat
  <2>1. CASE c \in Keyed
    <3>1. \A i \in OnDisk(c) : i \in Nat
      BY <1>1, UsableIs, PullAssumption
    <3> QED
      BY <2>1, <3>1, <1>8
  <2>2. CASE c \notin Keyed
    <3>1. key = NoKey
      BY <2>2, <1>1, <1>4 DEF StageInv
    <3> QED
      BY <3>1
  <2> QED
    BY <2>1, <2>2
<1>10. /\ start' \in [Collections -> [rows : SUBSET Ids, ordered : BOOLEAN]]
       /\ start'[c].rows = exists[c] /\ (start'[c].ordered <=> c \notin unordered)
       /\ \A d \in Collections : d # c => start'[d] = start[d]
  <2> DEFINE new == [rows |-> exists[c], ordered |-> c \notin unordered]
  <2>1. exists[c] \in SUBSET Ids
    BY <1>1 DEF TypeInv
  <2>2. (c \notin unordered) \in BOOLEAN
    OBVIOUS
  <2>3. /\ new \in [rows : SUBSET Ids, ordered : BOOLEAN]
        /\ new.rows = exists[c] /\ (new.ordered <=> c \notin unordered)
    BY <2>1, <2>2
  <2>4. start' = [start EXCEPT ![c] = new]
    BY <1>2
  <2> HIDE DEF new
  <2>5. start'[c] = new
    BY <1>1, <2>4 DEF TypeInv
  <2> QED
    BY <1>1, <2>3, <2>4, <2>5 DEF TypeInv
<1>11. /\ pull' \in Pulls /\ pull'.last = last /\ pull'.seen = last /\ pull'.at = 0
       /\ pull'.pages = 0 /\ pull'.size = PageSize
       /\ pull'.mode = IF key = NoKey THEN "server" ELSE "key"
  <2> HIDE DEF last, key
  <2>1. PageSize \in 0 .. PageSize /\ PageSize # 0
    BY PullAssumption
  <2>2. (key # NoKey /\ c \in option.expand) \in BOOLEAN
    OBVIOUS
  <2> QED
    BY <1>2, <1>9, <2>1, <2>2 DEF NoPull, Pulls
<1> HIDE DEF last
<1>12. TypeInv'
  BY <1>1, <1>2, <1>3, <1>10, <1>11 DEF TypeInv, DiskInv, SameBounds
<1>13. StageInv'
  <2>1. PageSize # 0
    BY PullAssumption
  <2> QED
    BY <1>1, <1>2, <1>4, <1>11, <2>1 DEF StageInv
<1>14. /\ \A d \in Collections : OnDisk(d)' = OnDisk(d) /\ Covered(d)' = Covered(d)
       /\ UsableAt(c)' = UsableAt(c) /\ KeyNow' = KeyNow
  BY <1>2, SameRows DEF KeyNow
<1>15. SchemaInv'
  <2>1. \A d \in Keyed : ~Pulling(d)
    BY <1>1 DEF Pulling
  <2> QED
    BY <1>1, <1>2, <1>14, <2>1 DEF SchemaInv, Keyed, Collections
<1>16. ASSUME c \in Keyed, key # NoKey PROVE KeyPaging(c)'
  <2>1. \A i \in OnDisk(c) : i <= last
    BY <1>8, <1>16
  <2>2. ASSUME c \notin unordered, NEW i \in exists[c], i <= last PROVE i \in Covered(c)
    <3>1. i \in Ids /\ i \in Nat \ {0}
      BY <1>1, PullAssumption DEF TypeInv
    <3>2. last # 0
      BY <2>2, <3>1, <1>9
    <3>3. last \in OnDisk(c)
      BY <1>8, <1>16, <3>2
    <3>4. i = last \/ i < last
      BY <2>2, <3>1, <1>9
    <3> QED
      BY <1>1, <1>16, <2>2, <3>3, <3>4 DEF NothingSkipped, Covered
  <2> QED
    BY <1>2, <1>10, <1>11, <1>14, <2>1, <2>2 DEF KeyPaging
<1>17. ASSUME c \in Keyed, key = NoKey PROVE ServerPaging(c)' /\ last = 0
  <2>1. last = 0 /\ pull'.at = 0 /\ OnDisk(c)' = {}
    BY <1>6, <1>11, <1>14, <1>17 DEF last
  <2>2. \A i \in Nat \ {0} : ~(i <= 0)
    OBVIOUS
  <2>3. \A i \in start'[c].rows : ~(i <= pull'.seen)
    BY <2>1, <2>2, <1>1, <1>10, <1>11, PullAssumption DEF TypeInv
  <2>4. \A i : ~Passed(i)'
    BY <2>1 DEF Passed
  <2> QED
    BY <2>1, <2>3, <2>4 DEF ServerPaging
<1>18. PullInv'
  <2> SUFFICES ASSUME c \in Keyed
               PROVE  /\ \A i \in UsableAt(c)' : file'[c][i].key = KeyNow'
                      /\ start'[c].rows \subseteq exists'[c]
                      /\ {pull'.last, pull'.seen} \subseteq exists'[c] \cup {0}
                      /\ schema'[c] = NoKey => pull'.mode = "server" /\ pull'.seen = 0
                      /\ pull'.mode = "key" => KeyPaging(c)'
                      /\ pull'.mode = "server" => ServerPaging(c)'
    BY <1>4 DEF PullInv, Pulling
  <2>1. last \in exists[c] \cup {0}
    BY <1>1, <1>8 DEF FileInv
  <2> QED
    BY <1>2, <1>7, <1>10, <1>11, <1>14, <1>16, <1>17, <2>1
<1>19. DoneInv'
  <2> SUFFICES ASSUME NEW d \in Keyed, option.limit = 0, server.paging # "ignored",
                      start'[d].ordered, ~Pulling(d)'
               PROVE  start'[d].rows \subseteq Covered(d)'
    BY <1>2 DEF DoneInv
  <2>1. d # c /\ ~Pulling(d) /\ d \in Collections
    BY <1>1, <1>2, <1>4 DEF Pulling, Keyed, Collections
  <2> QED
    BY <2>1, <1>1, <1>10, <1>14 DEF DoneInv
<1>20. ThreadsAreWhole'
  BY <1>2 DEF ThreadsAreWhole, Through
<1> QED
  BY <1>3, <1>12, <1>13, <1>15, <1>18, <1>19, <1>20 DEF IInv, DiskInv

(* The end of a pull, given what it has brought.                            *)
Ending(c) ==
    /\ Ended /\ UNCHANGED <<server, exists, schema, start>>
    /\ \A d \in Collections : \A r \in Covered(d) : r \in Covered(d)'
    /\ \A d \in Collections : d # c => OnDisk(d)' = OnDisk(d)
Brought(c) ==
    c \in Keyed /\ option.limit = 0 /\ server.paging # "ignored" /\ start[c].ordered
        => \A i \in start[c].rows : i \in Covered(c)'

LEMMA EndedIInv ==
  ASSUME IInv, pc = "page", NEW c, c = Coll, DiskInv', SameBounds, Ending(c), Brought(c)
  PROVE  IInv'
<1>1. TypeInv /\ StageInv /\ SchemaInv /\ DoneInv /\ todo # <<>>
  BY DEF IInv, StageInv
<1>2. /\ c \in Collections /\ Tail(todo) \in Seq(Collections) /\ IsInjective(Tail(todo))
      /\ ToSet(Tail(todo)) = ToSet(todo) \ {c}
  BY <1>1, CollIs
<1>3. /\ pull' = NoPull /\ todo' = Tail(todo) /\ pc' = "begin" /\ option' = option
      /\ exit' = exit /\ server' = server /\ exists' = exists /\ schema' = schema
      /\ start' = start
  BY DEF Ending, Ended, Goto
<1>4. TypeInv'
  BY <1>1, <1>2, <1>3, Nothings DEF TypeInv, DiskInv, SameBounds
<1>5. StageInv'
  BY <1>1, <1>2, <1>3 DEF StageInv
<1>6. \A d \in Collections : d # c => ~Pulling(d)
  BY DEF Pulling
<1>7. SchemaInv'
  <2> SUFFICES ASSUME NEW d \in Keyed
               PROVE  /\ schema[d] \in {"unread", NoKey, KeyNow}
                      /\ schema[d] = NoKey /\ d \in ToSet(todo') => OnDisk(d)' = {}
    BY <1>3 DEF SchemaInv, KeyNow
  <2>1. d \in Collections
    BY DEF Keyed, Collections
  <2>2. d \in ToSet(todo') => d \in ToSet(todo) /\ d # c
    BY <1>2, <1>3
  <2>3. d # c => OnDisk(d)' = OnDisk(d)
    BY <2>1 DEF Ending
  <2> QED
    BY <1>1, <1>6, <2>1, <2>2, <2>3 DEF SchemaInv
<1>8. PullInv'
  BY <1>3 DEF PullInv, Pulling
<1>9. DoneInv'
  <2> SUFFICES ASSUME NEW d \in Keyed, option.limit = 0, server.paging # "ignored",
                      start[d].ordered
               PROVE  \A i \in start[d].rows : i \in Covered(d)'
    BY <1>3 DEF DoneInv
  <2>1. d \in Collections
    BY DEF Keyed, Collections
  <2>2. CASE d = c
    BY <2>2 DEF Brought
  <2>3. CASE d # c
    BY <2>1, <2>3, <1>1, <1>6 DEF DoneInv, Ending
  <2> QED
    BY <2>2, <2>3
<1>10. ThreadsAreWhole'
  BY <1>3 DEF ThreadsAreWhole, Through
<1> QED
  BY <1>4, <1>5, <1>7, <1>8, <1>9, <1>10 DEF IInv, DiskInv

LEMMA EmptyFeedIInv == ASSUME IInv, EmptyFeed PROVE IInv'
<1> PICK c : c = Coll
  OBVIOUS
<1>1. c \notin Keyed /\ pc = "page"
  BY DEF EmptyFeed, Keyed
<1>2. DiskInv' /\ SameBounds
  BY DiskStays, BoundsStay DEF EmptyFeed, SameDisk, settings, disk, history
<1>3. file' = file /\ merged' = merged
  BY DEF EmptyFeed, disk, history
<1>4. Ending(c)
  BY <1>3, SameRows DEF EmptyFeed, Ending, settings, history
<1> QED
  BY <1>1, <1>2, <1>4, EndedIInv DEF Brought

(* The server has gone past every place of its order that it is not ahead   *)
(* of, so a row is either passed or on what is left.                        *)
LEMMA PassedOrAhead ==
  ASSUME TypeInv, NEW i \in Ids
  PROVE  Passed(i) \/ \E n \in AheadTo(Len(ServerOrder)) : ServerOrder[n] = i
<1>1. PICK n \in 1 .. Len(ServerOrder) : ServerOrder[n] = i
  BY PullAssumption DEF ToSet
<1>2. pull.at \in Nat /\ Len(ServerOrder) \in Nat
  BY PullAssumption DEF TypeInv, Pulls
<1>3. CASE n <= pull.at
  <2>1. n \in 1 .. pull.at /\ n <= Len(ServerOrder)
    BY <1>1, <1>2, <1>3
  <2> QED
    BY <1>1, <2>1 DEF Passed
<1>4. CASE ~(n <= pull.at)
  <2>1. n \in AheadTo(Len(ServerOrder))
    BY <1>1, <1>2, <1>4 DEF AheadTo
  <2> QED
    BY <1>1, <2>1
<1> QED
  BY <1>3, <1>4

LEMMA NoMoreRowsIInv == ASSUME IInv, NoMoreRows PROVE IInv'
<1> PICK c : c = Coll
  OBVIOUS
<1>1. pc = "page" /\ Page = <<>> /\ TypeInv /\ StageInv /\ PullInv /\ c \in Collections
  BY CollIs DEF NoMoreRows, Answers, IInv, StageInv
<1>2. DiskInv' /\ SameBounds
  BY DiskStays, BoundsStay DEF NoMoreRows, SameDisk, settings, disk, history
<1>3. file' = file /\ merged' = merged
  BY DEF NoMoreRows, disk, history
<1>4. Ending(c)
  BY <1>3, SameRows DEF NoMoreRows, Ending, settings, history
<1>5. Brought(c)
  <2> SUFFICES ASSUME c \in Keyed, start[c].ordered, NEW i \in start[c].rows
               PROVE  i \in Covered(c)
    BY <1>1, <1>3, SameRows DEF Brought
  <2>1. Pulling(c) /\ i \in exists[c] /\ i \in Ids
    BY <1>1 DEF Pulling, PullInv, TypeInv
  <2>2. CASE pull.mode = "key"
    <3>1. KeyPaging(c) /\ KeyPage
      BY <1>1, <2>1, <2>2, PageIs DEF PullInv
    <3> QED
      BY <1>1, <2>1, <3>1 DEF KeyPaging, KeyPage
  <2>3. CASE pull.mode = "server"
    <3>1. ServerPaging(c) /\ ServerPageFacts
      BY <1>1, <2>1, <2>3, PageIs DEF PullInv
    <3>2. ~OnPage(i)
      <4>1. Len(Page) = 0
        BY <1>1
      <4> QED
        BY <4>1 DEF OnPage
    <3>3. Passed(i)
      BY <1>1, <2>1, <3>1, <3>2, PassedOrAhead DEF ServerPageFacts
    <3> QED
      BY <3>1, <3>3 DEF ServerPaging
  <2> QED
    BY <1>1, <2>2, <2>3 DEF StageInv, TypeInv, Pulls
<1> QED
  BY <1>1, <1>2, <1>4, <1>5, EndedIInv

(* A page that is asked for again: nothing but the pull changes.            *)
Again == pull' \in Pulls /\ pull'.mode # "none" /\ pull'.size # 0 /\ pull'.at = pull.at
         /\ pull'.last = pull.last /\ pull'.seen = pull.seen /\ pull'.pages = pull.pages
LEMMA AgainIInv ==
  ASSUME IInv, pc = "page", Retrying, SameBounds, Again,
         \/ pull'.mode = pull.mode
         \/ pull'.mode = "server" /\ pull.mode = "key" /\ pull.pages = 0
  PROVE  IInv'
<1>1. TypeInv /\ StageInv /\ SchemaInv /\ PullInv /\ DoneInv
  BY DEF IInv
<1>2. /\ server' = server /\ exists' = exists /\ file' = file /\ tail' = tail
      /\ pc' = pc /\ option' = option /\ exit' = exit /\ todo' = todo
      /\ schema' = schema /\ merged' = merged /\ unordered' = unordered
      /\ start' = start /\ Coll' = Coll /\ KeyNow' = KeyNow
  BY DEF Retrying, settings, disk, run, history, Coll, KeyNow
<1>3. DiskInv'
  BY <1>2, DiskStays DEF SameDisk
<1>4. TypeInv'
  BY <1>1, <1>2, <1>3 DEF TypeInv, DiskInv, SameBounds, Again
<1>5. StageInv'
  BY <1>1, <1>2 DEF StageInv, Again
<1>6. \A d \in Keyed : /\ OnDisk(d)' = OnDisk(d) /\ UsableAt(d)' = UsableAt(d)
                       /\ Covered(d)' = Covered(d) /\ Pulling(d)' = Pulling(d)
  BY <1>2, SameRows DEF Keyed, Collections, Pulling
<1>7. SchemaInv'
  BY <1>1, <1>2, <1>6 DEF SchemaInv
<1>8. PullInv'
  <2> SUFFICES ASSUME NEW c \in Keyed, Pulling(c)
               PROVE  /\ \A i \in UsableAt(c) : file[c][i].key = KeyNow
                      /\ start[c].rows \subseteq exists[c]
                      /\ {pull.last, pull.seen} \subseteq exists[c] \cup {0}
                      /\ schema[c] = NoKey => pull'.mode = "server" /\ pull.seen = 0
                      /\ pull'.mode = "key" => KeyPaging(c)'
                      /\ pull'.mode = "server" => ServerPaging(c)'
    BY <1>2, <1>6 DEF PullInv, Again
  <2>1. pull'.mode = "key" => KeyPaging(c)'
    <3> SUFFICES ASSUME pull'.mode = "key" PROVE KeyPaging(c)'
      OBVIOUS
    <3>1. KeyPaging(c)
      BY <1>1 DEF PullInv
    <3> QED
      BY <3>1, <1>2, <1>6 DEF KeyPaging, Again
  <2>2. \A i : Passed(i)' = Passed(i)
    BY DEF Passed, Again
  <2>3. CASE pull'.mode = pull.mode
    <3>1. pull.mode = "server" => ServerPaging(c)
      BY <1>1 DEF PullInv
    <3>2. pull.mode = "server" => ServerPaging(c)'
      BY <3>1, <1>2, <1>6, <2>2 DEF ServerPaging, Again
    <3> QED
      BY <1>1, <2>1, <2>3, <3>2 DEF PullInv
  <2>4. CASE pull'.mode = "server" /\ pull.mode = "key" /\ pull.pages = 0
    <3>1. KeyPaging(c) /\ start[c].rows \subseteq exists[c]
      BY <1>1, <2>4 DEF PullInv
    <3>2. pull.at = 0 /\ pull.last = pull.seen
      BY <2>4, <3>1 DEF KeyPaging
    <3>3. \A i : ~Passed(i)
      BY <3>2 DEF Passed
    <3>4. ServerPaging(c)
      BY <2>4, <3>1, <3>2, <3>3 DEF KeyPaging, ServerPaging
    <3>5. ServerPaging(c)'
      BY <3>4, <1>2, <1>6, <2>2 DEF ServerPaging, Again
    <3>6. schema[c] # NoKey
      BY <1>1, <2>4 DEF PullInv
    <3> QED
      BY <1>1, <2>1, <2>4, <3>5, <3>6 DEF PullInv
  <2> QED
    BY <2>3, <2>4
<1>9. DoneInv'
  BY <1>1, <1>2, <1>6 DEF DoneInv
<1>10. ThreadsAreWhole'
  BY <1>2 DEF ThreadsAreWhole, Through
<1> QED
  BY <1>3, <1>4, <1>5, <1>7, <1>8, <1>9, <1>10 DEF IInv, DiskInv

LEMMA PullIs ==
  ASSUME IInv, pc = "page"
  PROVE  pull \in Pulls /\ pull.mode \in {"key", "server"} /\ pull.size \in 1 .. PageSize
<1>1. PageSize \in Nat /\ pull \in Pulls /\ pull.mode # "none" /\ pull.size # 0
  BY PullAssumption DEF IInv, TypeInv, StageInv
<1>2. pull.size \in 0 .. PageSize /\ pull.mode \in {"none", "key", "server"}
  BY <1>1 DEF Pulls
<1> QED
  BY <1>1, <1>2

LEMMA HalveIInv == ASSUME IInv, Halve PROVE IInv'
<1>1. pc = "page" /\ Retrying /\ SameBounds
  BY NoPageStays DEF Halve, NoPage
<1>2. pull \in Pulls /\ pull.mode = "key" /\ pull.size \in 1 .. PageSize
  BY <1>1, PullIs DEF Halve, Halvable
<1> DEFINE half == pull.size \div 2
<1>3. half \in 0 .. PageSize /\ half # 0
  <2>1. pull.size \div 2 >= MinPageSize /\ MinPageSize \in Nat \ {0} /\ PageSize \in Nat
    BY PullAssumption DEF Halve, Halvable
  <2> QED
    BY <1>2, <2>1
<1>4. pull' = [pull EXCEPT !.size = half]
  BY DEF Halve
<1> HIDE DEF half
<1>5. Again /\ pull'.mode = pull.mode
  BY <1>2, <1>3, <1>4 DEF Again, Pulls
<1> QED
  BY <1>1, <1>5, AgainIInv

LEMMA DropExpansionsIInv ==
  ASSUME IInv, NEW lost \in BOOLEAN, DropExpansions(lost)
  PROVE  IInv'
<1>1. pc = "page" /\ Retrying /\ SameBounds /\ pull' = [pull EXCEPT !.expand = FALSE]
  BY NoPageStays DEF DropExpansions, NoPage
<1>2. pull \in Pulls /\ pull.mode \in {"key", "server"} /\ pull.size # 0
  BY <1>1, PullIs
<1>3. Again /\ pull'.mode = pull.mode
  BY <1>1, <1>2 DEF Again, Pulls
<1> QED
  BY <1>1, <1>3, AgainIInv

LEMMA FallBackIInv ==
  ASSUME IInv, NEW lost \in BOOLEAN, FallBack(lost)
  PROVE  IInv'
<1>1. /\ pc = "page" /\ Retrying /\ SameBounds /\ pull' = [pull EXCEPT !.mode = "server"]
      /\ pull.pages = 0 /\ pull.mode = "key"
  BY NoPageStays DEF FallBack, KeyRefused, NoPage
<1>2. pull \in Pulls /\ pull.size # 0
  BY <1>1, PullIs
<1>3. Again /\ pull'.mode = "server"
  BY <1>1, <1>2 DEF Again, Pulls
<1> QED
  BY <1>1, <1>3, AgainIInv

(* What a write gives: files that are in order again.                       *)
LEMMA WroteDisk ==
  ASSUME NEW c, NEW rows, NEW ending, Writes(c, rows, ending), Wrote(c, rows, ending)
  PROVE  DiskInv'
  BY DEF Writes, Appended, Wrote, DiskInv

LEMMA AppendWrites ==
  ASSUME IInv, pc = "page", NEW c \in Collections, c = Coll,
         NEW rows \in Seq(Ids), Len(rows) <= Len(Fresh),
         \A m \in 1 .. Len(rows) : rows[m] = Fresh[m],
         NEW ending \in {"newline", "row", "torn"}, AppendRows(Coll, rows, ending),
         Unordered(Fresh), UNCHANGED <<server, exists, option>>
  PROVE  Writes(c, rows, ending) /\ Wrote(c, rows, ending) /\ DiskInv'
<1>1. TypeInv
  BY DEF IInv
<1>2. AppendRows(c, rows, ending)
  BY DEF AppendRows
<1>3. Appended(c, rows, ending)
  BY <1>1, <1>2, AppendIs
<1>4. Writes(c, rows, ending)
  BY <1>3 DEF Writes
<1> QED
  BY <1>4, WritesIInv, WroteDisk

LEMMA WriteCutIInv == ASSUME IInv, WriteCut PROVE IInv'
<1>1. /\ pc = "page" /\ Unordered(Fresh) /\ SameBounds
      /\ TypeInv /\ StageInv /\ todo # <<>>
  BY FaultStays DEF WriteCut, Answers, IInv, StageInv
<1> PICK c \in Collections : c = Coll
  BY <1>1, CollIs
<1> PICK n \in 1 .. Len(Fresh), ending \in {"newline", "row", "torn"} :
          AppendRows(Coll, AtMost(n, Fresh), ending)
  BY DEF WriteCut
<1> PICK rows : rows = AtMost(n, Fresh)
  OBVIOUS
<1>2. Fresh \in Seq(Ids) /\ n \in Nat
  BY <1>1, FreshIs DEF FreshRows
<1>3. /\ rows \in Seq(Ids) /\ Len(rows) <= Len(Fresh)
      /\ \A m \in 1 .. Len(rows) : rows[m] = Fresh[m]
  BY <1>2, AtMostIs
<1>4. server' = server /\ exists' = exists /\ Cleared /\ option' = option
  BY StopIs DEF WriteCut, settings, Stop, Exit
<1>5. AppendRows(Coll, rows, ending)
  BY DEF AppendRows
<1>6. DiskInv'
  BY <1>1, <1>3, <1>4, <1>5, AppendWrites
<1> QED
  BY <1>1, <1>4, <1>6, ClearedIInv

(* The pull after a page.                                                   *)
LEMMA AdvancedIs ==
  ASSUME TypeInv, StageInv, pc = "page", Page # <<>>
  PROVE  /\ Advanced \in Pulls /\ Advanced.mode = pull.mode /\ Advanced.size = pull.size
         /\ Advanced.seen = pull.seen /\ Advanced.pages # 0
         /\ pull.mode = "key" => /\ Advanced.at = pull.at /\ OnPage(Advanced.last)
                                 /\ \A m \in 1 .. Len(Page) : Page[m] <= Advanced.last
         /\ pull.mode = "server" => Advanced.last = pull.last /\ Advanced.at = Position
<1> DEFINE greatest == Max(ToSet(Page))
           k == Len(Page)
<1>1. /\ Page \in Seq(Ids) /\ k \in Nat /\ k # 0 /\ ToSet(Page) = {Page[m] : m \in 1 .. k}
      /\ DOMAIN Page = 1 .. k /\ \A m \in 1 .. k : Page[m] \in Ids
  <2>1. Page \in Seq(Ids)
    BY PageIs
  <2>2. Len(Page) \in Nat /\ Len(Page) # 0 /\ DOMAIN Page = 1 .. Len(Page)
    BY <2>1
  <2> QED
    BY <2>1, <2>2 DEF ToSet
<1>2. /\ greatest \in ToSet(Page) /\ \A i \in ToSet(Page) : i <= greatest
  <2>1. ToSet(Page) \subseteq Ids /\ ToSet(Page) # {}
    BY <1>1
  <2>2. IsFiniteSet(ToSet(Page)) /\ ToSet(Page) \in SUBSET Nat
    BY <2>1, FS_Subset, PullAssumption
  <2>3. \E x \in ToSet(Page) : \A y \in ToSet(Page) : x >= y
    BY <2>1, <2>2, GreatestNumber
  <2>4. greatest \in ToSet(Page) /\ \A y \in ToSet(Page) : greatest >= y
    BY <2>3 DEF Max
  <2>5. \A y \in ToSet(Page) : y \in Nat
    BY <2>2
  <2> HIDE DEF greatest
  <2> QED
    BY <2>4, <2>5
<1>3. greatest \in Nat /\ OnPage(greatest) /\ \A m \in 1 .. k : Page[m] <= greatest
  <2> HIDE DEF greatest
  <2>1. PICK m \in 1 .. k : Page[m] = greatest
    BY <1>1, <1>2
  <2>2. greatest \in Ids /\ Ids \subseteq Nat
    BY <2>1, <1>1, PullAssumption
  <2>3. \A n \in 1 .. k : Page[n] \in ToSet(Page)
    BY <1>1
  <2> QED
    BY <2>1, <2>2, <2>3, <1>2 DEF OnPage
<1>4. /\ pull \in Pulls /\ Len(Fresh) \in Nat
  <2>1. Fresh \in Seq(Ids)
    BY FreshIs DEF FreshRows
  <2> QED
    BY <2>1 DEF TypeInv
<1>5. pull.mode = "server" => Position \in Nat
  <2>1. pull.mode = "server" => Position \in AheadTo(Len(ServerOrder))
    BY PageIs DEF ServerPageFacts
  <2>2. pull.at \in Nat /\ Len(ServerOrder) \in Nat
    BY <1>4, PullAssumption DEF Pulls
  <2> QED
    BY <2>1, <2>2 DEF AheadTo
<1> DEFINE pages == pull.pages + 1
           written == pull.written + Len(Fresh)
           last == IF pull.mode = "key" THEN greatest ELSE pull.last
           at == IF pull.mode = "server" THEN Position ELSE pull.at
<1>6. pages \in Nat /\ pages # 0 /\ written \in Nat /\ last \in Nat /\ at \in Nat
  BY <1>3, <1>4, <1>5 DEF Pulls
<1>7. Advanced = [pull EXCEPT !.pages = pages, !.written = written, !.last = last, !.at = at]
  BY DEF Advanced
<1>8. /\ pull.mode = "key" => last = greatest /\ at = pull.at
      /\ pull.mode = "server" => last = pull.last /\ at = Position
  OBVIOUS
<1> HIDE DEF pages, written, last, at, greatest
<1>9. /\ Advanced \in Pulls /\ Advanced.mode = pull.mode /\ Advanced.size = pull.size
      /\ Advanced.seen = pull.seen /\ Advanced.pages = pages
      /\ Advanced.last = last /\ Advanced.at = at
  BY <1>4, <1>6, <1>7 DEF Pulls
<1> QED
  BY <1>3, <1>6, <1>8, <1>9

(* After a page that is not the last: what the pull vouches for now.        *)
LEMMA PageArrivesIInv == ASSUME IInv, PageArrives PROVE IInv'
<1>1. /\ pc = "page" /\ Page # <<>> /\ AppendRows(Coll, Fresh, "newline") /\ Unordered(Fresh)
      /\ TypeInv /\ StageInv /\ SchemaInv /\ PullInv /\ DoneInv /\ todo # <<>>
  BY DEF PageArrives, Answers, IInv, StageInv
<1> PICK c \in Collections : c = Coll
  BY <1>1, CollIs
<1> PICK rows : rows = Fresh
  OBVIOUS
<1>2. /\ rows \in Seq(Ids) /\ Len(rows) <= Len(Fresh)
      /\ \A m \in 1 .. Len(rows) : rows[m] = Fresh[m]
  <2>1. Fresh \in Seq(Ids)
    BY <1>1, FreshIs DEF FreshRows
  <2> QED
    BY <2>1
<1>3. /\ server' = server /\ exists' = exists /\ option' = option /\ exit' = exit
      /\ schema' = schema /\ start' = start /\ SameBounds
  <2>1. SameBounds
    BY BoundsStay DEF PageArrives
  <2> QED
    BY <2>1 DEF PageArrives, settings, Ended, Goto, run
<1>4. Writes(c, rows, "newline") /\ Wrote(c, rows, "newline") /\ DiskInv'
  <2>1. AppendRows(Coll, rows, "newline")
    BY <1>1
  <2> QED
    BY <1>1, <1>2, <1>3, <2>1, AppendWrites
<1>5. /\ \A d \in Collections : \A r \in Covered(d) : r \in Covered(d)'
      /\ \A d \in Collections : d # c => OnDisk(d)' = OnDisk(d)
      /\ \A r \in OnDisk(c)' : r \in OnDisk(c) \/ OnPage(r)
      /\ \A i : OnPage(i) /\ Reached(i) => i \in Covered(c)'
      /\ pull.mode = "key" => unordered' = unordered
      /\ c \in Keyed => \A i \in UsableAt(c)' : file'[c][i].key = KeyNow
  <2>1. /\ \A d \in Collections : \A r \in Covered(d) : r \in Covered(d)'
        /\ pull.mode = "key" => unordered' = unordered
        /\ c \in Keyed => \A i \in UsableAt(c)' : file'[c][i].key = KeyNow
    BY <1>4 DEF Wrote
  <2>2. \A d \in Collections : d # c => OnDisk(d)' = OnDisk(d)
    BY <1>4 DEF Writes, Appended, OnDisk
  <2>3. FreshRows
    BY <1>1, FreshIs
  <2>4. \A r \in OnDisk(c)' : r \in OnDisk(c) \/ OnPage(r)
    <3> SUFFICES ASSUME NEW r \in OnDisk(c)', r \notin OnDisk(c) PROVE OnPage(r)
      OBVIOUS
    <3>1. PICK m \in 1 .. Len(rows) : rows[m] = r
      BY <1>4 DEF Wrote
    <3> QED
      BY <2>3, <3>1 DEF FreshRows
  <2>5. ASSUME NEW i, OnPage(i), Reached(i) PROVE i \in Covered(c)'
    <3>1. PICK n \in 1 .. Len(Page) : Page[n] = i
      BY <2>5 DEF OnPage
    <3>2. PICK m \in 1 .. Len(rows) : rows[m] = i
      BY <2>3, <2>5, <3>1 DEF FreshRows
    <3>3. Kept(m, rows, "newline")
      BY DEF Kept
    <3> QED
      BY <1>4, <3>2, <3>3 DEF Writes, Appended
  <2> QED
    BY <2>1, <2>2, <2>4, <2>5
<1>6. /\ pull \in Pulls /\ pull.mode \in {"key", "server"}
      /\ Advanced \in Pulls /\ Advanced.mode = pull.mode /\ Advanced.size = pull.size
      /\ Advanced.seen = pull.seen /\ Advanced.pages # 0
  BY <1>1, PullIs, AdvancedIs
<1>7. /\ pull.mode = "key" =>
            /\ KeyPage /\ Advanced.at = pull.at /\ OnPage(Advanced.last)
            /\ \A m \in 1 .. Len(Page) : Page[m] <= Advanced.last
      /\ pull.mode = "server" =>
            ServerPageFacts /\ Advanced.last = pull.last /\ Advanced.at = Position
  BY <1>1, PageIs, AdvancedIs
<1>8. /\ Pulling(c)
      /\ pull.mode = "key" => \A i : Reached(i)
      /\ \A i : i > pull.seen => Reached(i)
  BY <1>1 DEF Pulling, Reached
<1>9. c \in Keyed => /\ start[c].rows \subseteq exists[c]
                     /\ {pull.last, pull.seen} \subseteq exists[c] \cup {0}
                     /\ schema[c] = NoKey => pull.mode = "server" /\ pull.seen = 0
                     /\ pull.mode = "key" => KeyPaging(c)
                     /\ pull.mode = "server" => ServerPaging(c)
  BY <1>1, <1>8 DEF PullInv
<1>10. /\ exists[c] \subseteq Ids /\ \A i \in Ids : i \in Nat /\ i # 0
       /\ \A i : OnPage(i) => i \in exists[c] /\ i \in Nat
       /\ pull.last \in Nat /\ pull.seen \in Nat /\ pull.at \in Nat /\ Advanced.last \in Nat
  <2>1. exists[c] \subseteq Ids /\ \A i \in Ids : i \in Nat /\ i # 0
    BY <1>1, PullAssumption DEF TypeInv
  <2>2. \A i : OnPage(i) => i \in exists[c]
    BY <1>1, PageIs DEF OnPage
  <2> QED
    BY <1>6, <2>1, <2>2 DEF Pulls
\* In the server's order: a row that is passed now is covered.
<1>11. ASSUME c \in Keyed, pull.mode = "server", start[c].ordered, NEW i \in start[c].rows,
              i <= pull.seen \/ Passed(i) \/ OnPage(i)
       PROVE  i \in Covered(c)'
  <2>1. i \in exists[c] /\ i \in Nat
    BY <1>9, <1>10, <1>11
  <2>2. CASE i <= pull.seen \/ Passed(i)
    <3>1. i \in Covered(c)
      BY <1>9, <1>11, <2>2 DEF ServerPaging
    <3> QED
      BY <1>5, <3>1
  <2>3. CASE ~(i <= pull.seen) /\ OnPage(i)
    <3>1. i > pull.seen
      BY <1>10, <2>1, <2>3
    <3> QED
      BY <1>5, <1>8, <2>3, <3>1
  <2> QED
    BY <1>11, <2>2, <2>3
\* In the order of the key: what is up to the last row of the page.
<1>12. ASSUME c \in Keyed, pull.mode = "key", c \notin unordered,
              NEW i \in exists[c], i <= Advanced.last
       PROVE  i \in Covered(c)'
  <2>1. i \in Nat
    BY <1>10
  <2>2. CASE i <= pull.last
    <3>1. i \in Covered(c)
      BY <1>9, <1>12, <2>2 DEF KeyPaging
    <3> QED
      BY <1>5, <3>1
  <2>3. CASE pull.last < i
    <3>1. OnPage(i)
      <4>1. CASE i = Advanced.last
        BY <4>1, <1>7, <1>12
      <4>2. CASE i # Advanced.last
        <5>1. PICK n \in 1 .. Len(Page) : Page[n] = Advanced.last
          BY <1>7, <1>12 DEF OnPage
        <5>2. i < Page[n]
          BY <1>10, <1>12, <2>1, <4>2, <5>1
        <5>3. i \in exists[Coll]
          BY <1>12
        <5> QED
          BY <1>7, <1>12, <2>3, <5>2, <5>3 DEF KeyPage, OnPage
      <4> QED
        BY <4>1, <4>2
    <3> QED
      BY <1>5, <1>8, <1>12, <3>1
  <2> QED
    BY <1>10, <2>1, <2>2, <2>3
<1> DEFINE over == \/ LimitReached
                   \/ pull.mode = "key" /\ Advanced.last <= pull.last
                   \/ pull.mode = "server" /\ ~Continuation
<1>13. CASE over
  <2>1. Ended
    BY <1>13 DEF PageArrives
  <2>2. Ending(c)
    BY <1>3, <1>5, <2>1 DEF Ending
  <2>3. Brought(c)
    <3> SUFFICES ASSUME c \in Keyed, option.limit = 0, server.paging # "ignored",
                        start[c].ordered, NEW i \in start[c].rows
                 PROVE  i \in Covered(c)'
      BY DEF Brought
    <3>1. ~LimitReached
      BY DEF LimitReached
    <3>2. ~(pull.mode = "key" /\ Advanced.last <= pull.last)
      <4> SUFFICES ASSUME pull.mode = "key" PROVE ~(Advanced.last <= pull.last)
        OBVIOUS
      <4>1. PICK n \in 1 .. Len(Page) : Page[n] = Advanced.last
        BY <1>7 DEF OnPage
      <4>2. Page[n] > pull.last
        BY <1>7 DEF KeyPage
      <4> QED
        BY <1>10, <4>1, <4>2
    <3>3. pull.mode = "server" /\ ~Continuation
      BY <1>13, <3>1, <3>2
    <3>4. i \in Ids /\ i \in exists[c] /\ i \in exists[Coll]
      BY <1>9, <1>10
    <3>5. Passed(i) \/ OnPage(i)
      BY <1>1, <1>7, <3>3, <3>4, PassedOrAhead DEF ServerPageFacts
    <3> QED
      BY <1>11, <3>3, <3>5
  <2> QED
    BY <1>1, <1>3, <1>4, <2>2, <2>3, EndedIInv
<1>14. CASE ~over
  <2>1. pull' = Advanced /\ todo' = todo /\ pc' = pc /\ Coll' = Coll
    BY <1>14 DEF PageArrives, run, Coll
  <2>2. TypeInv'
    BY <1>1, <1>3, <1>4, <1>6, <2>1 DEF TypeInv, DiskInv, SameBounds
  <2>3. StageInv'
    BY <1>1, <1>3, <1>6, <2>1 DEF StageInv
  <2>4. \A d \in Keyed : Pulling(d)' <=> d = c
    BY <1>1, <2>1 DEF Pulling
  <2>5. \A d \in Keyed : d # c => d \in Collections /\ ~Pulling(d)
    BY DEF Pulling, Keyed, Collections
  <2>6. SchemaInv'
    BY <1>1, <1>3, <1>5, <2>1, <2>4, <2>5 DEF SchemaInv, KeyNow
  <2>7. DoneInv'
    BY <1>1, <1>3, <1>5, <2>4, <2>5 DEF DoneInv
  <2>8. ThreadsAreWhole'
    BY <1>1, <2>1 DEF ThreadsAreWhole, Through
  <2>9. ASSUME c \in Keyed, pull.mode = "key" PROVE KeyPaging(c)'
    <3>1. Advanced.at = 0
      BY <1>7, <1>9, <2>9 DEF KeyPaging
    <3>2. ASSUME server.paging # "ignored", NEW i \in OnDisk(c)' PROVE i <= Advanced.last
      <4>1. CASE OnPage(i)
        BY <1>7, <2>9, <4>1 DEF OnPage
      <4>2. CASE i \in OnDisk(c)
        <5>1. i <= pull.last /\ i \in Nat
          <6>1. i \in Ids
            BY <1>1, <4>2, UsableIs
          <6> QED
            BY <1>9, <1>10, <2>9, <3>2, <4>2, <6>1 DEF KeyPaging
        <5>2. ~(Advanced.last <= pull.last)
          BY <1>14, <2>9
        <5> QED
          BY <1>10, <5>1, <5>2
      <4> QED
        BY <1>5, <4>1, <4>2
    <3>3. start[c].ordered => c \notin unordered
      BY <1>9, <2>9 DEF KeyPaging
    <3>4. unordered' = unordered
      BY <1>5, <2>9
    <3> QED
      BY <1>3, <1>6, <1>12, <2>1, <2>9, <3>1, <3>2, <3>3, <3>4 DEF KeyPaging
  <2>10. ASSUME c \in Keyed, pull.mode = "server" PROVE ServerPaging(c)'
    <3>1. Position \in AheadTo(Len(ServerOrder)) /\ Position \in Nat
          /\ pull.at <= Position /\ Position <= Len(ServerOrder)
          /\ Len(ServerOrder) \in Nat
      <4>1. Position \in AheadTo(Len(ServerOrder)) /\ Len(ServerOrder) \in Nat
        BY <1>1, <1>7, <2>10, PullAssumption DEF ServerPageFacts
      <4> QED
        BY <1>10, <4>1 DEF AheadTo
    <3>2. \A i : Passed(i) => Passed(i)'
      <4>1. 1 .. pull.at \subseteq 1 .. Position
        BY <1>10, <3>1
      <4> QED
        BY <1>7, <2>1, <2>10, <4>1 DEF Passed
    <3>3. \A i : OnPage(i) => Passed(i)'
      <4> SUFFICES ASSUME NEW i, OnPage(i) PROVE Passed(i)'
        OBVIOUS
      <4>1. PICK n \in AheadTo(Position) : ServerOrder[n] = i
        BY <1>1, <1>7, <2>10 DEF OnPage, ServerPageFacts
      <4>2. n \in 1 .. Position /\ n <= Len(ServerOrder)
        BY <1>10, <3>1, <4>1 DEF AheadTo
      <4> QED
        BY <1>7, <2>1, <2>10, <4>1, <4>2 DEF Passed
    <3>4. ASSUME NEW i \in OnDisk(c)' PROVE i <= pull.seen \/ Passed(i)'
      <4>1. CASE OnPage(i)
        BY <3>3, <4>1
      <4>2. CASE i \in OnDisk(c)
        BY <1>9, <2>10, <3>2, <4>2 DEF ServerPaging
      <4> QED
        BY <1>5, <4>1, <4>2
    <3>5. ASSUME start[c].ordered, NEW i \in start[c].rows, i <= pull.seen \/ Passed(i)'
          PROVE  i \in Covered(c)'
      <4>1. CASE i <= pull.seen
        BY <1>11, <2>10, <3>5, <4>1
      <4>2. CASE Passed(i)'
        <5>1. PICK n \in 1 .. Position : n <= Len(ServerOrder) /\ ServerOrder[n] = i
          BY <1>7, <2>1, <2>10, <4>2 DEF Passed
        <5>2. CASE n <= pull.at
          <6>1. n \in 1 .. pull.at
            BY <1>10, <5>2
          <6>2. Passed(i)
            BY <5>1, <6>1 DEF Passed
          <6> QED
            BY <1>11, <2>10, <3>5, <6>2
        <5>3. CASE ~(n <= pull.at)
          <6>1. n \in AheadTo(Position)
            BY <1>10, <3>1, <5>3 DEF AheadTo
          <6>2. i \in exists[Coll]
            BY <1>9, <2>10
          <6>3. OnPage(i)
            BY <1>1, <1>7, <2>10, <5>1, <6>1, <6>2 DEF ServerPageFacts
          <6> QED
            BY <1>11, <2>10, <3>5, <6>3
        <5> QED
          BY <5>2, <5>3
      <4> QED
        BY <3>5, <4>1, <4>2
    <3> QED
      BY <1>3, <1>6, <2>1, <3>4, <3>5 DEF ServerPaging
  <2>11. PullInv'
    <3> SUFFICES ASSUME c \in Keyed
                 PROVE  /\ \A i \in UsableAt(c)' : file'[c][i].key = KeyNow'
                        /\ start'[c].rows \subseteq exists'[c]
                        /\ {pull'.last, pull'.seen} \subseteq exists'[c] \cup {0}
                        /\ schema'[c] = NoKey => pull'.mode = "server" /\ pull'.seen = 0
                        /\ pull'.mode = "key" => KeyPaging(c)'
                        /\ pull'.mode = "server" => ServerPaging(c)'
      BY <2>4 DEF PullInv
    <3>1. KeyNow' = KeyNow
      BY <1>3 DEF KeyNow
    <3>2. Advanced.last \in exists[c] \cup {0}
      BY <1>6, <1>7, <1>9, <1>10
    <3> QED
      BY <1>3, <1>5, <1>6, <1>9, <2>1, <2>9, <2>10, <3>1, <3>2
  <2> QED
    BY <1>4, <2>2, <2>3, <2>6, <2>7, <2>8, <2>11 DEF IInv, DiskInv
<1> QED
  BY <1>13, <1>14

(* The inventory of the attachments: no keyed file is touched.              *)
LEMMA SurveyIInv ==
  ASSUME IInv, DiskInv', server' = server, exists' = exists, UNCHANGED work, UNCHANGED start,
         SameBounds, option' = option, pc \in {"begin", "fetch"}, todo = <<>>,
         option.command = "attachments", pc' \in {"idle", "fetch"},
         exit' \in {0, 1, 2, 130},
         \A c \in Keyed : file'[c] = file[c] /\ merged'[c] = merged[c]
  PROVE  IInv'
<1>1. TypeInv /\ StageInv /\ SchemaInv /\ DoneInv
  BY DEF IInv
<1>2. todo' = todo /\ schema' = schema /\ pull' = pull /\ start' = start
  BY DEF work
<1>3. TypeInv'
  BY <1>1, <1>2 DEF TypeInv, DiskInv, SameBounds
<1>4. StageInv'
  BY <1>1, <1>2 DEF StageInv
<1>5. \A c \in Keyed : /\ OnDisk(c)' = OnDisk(c) /\ Covered(c)' = Covered(c)
                       /\ ~Pulling(c) /\ ~Pulling(c)'
  BY DEF OnDisk, Covered, Pulling
<1>6. SchemaInv'
  BY <1>1, <1>2, <1>5 DEF SchemaInv, KeyNow
<1>7. PullInv'
  BY <1>5 DEF PullInv
<1>8. DoneInv'
  BY <1>1, <1>2, <1>5 DEF DoneInv
<1>9. ThreadsAreWhole'
  BY DEF ThreadsAreWhole, Through
<1> QED
  BY <1>3, <1>4, <1>6, <1>7, <1>8, <1>9 DEF IInv, DiskInv

LEMMA CountAttachmentsIInv == ASSUME IInv, CountAttachments PROVE IInv'
<1>1. DiskInv' /\ server' = server /\ exists' = exists /\ SameBounds
  BY DiskStays, BoundsStay DEF CountAttachments, SameDisk, settings, disk, history
<1>2. /\ UNCHANGED work /\ UNCHANGED start /\ option' = option /\ pc' = "fetch" /\ exit' = exit
      /\ pc = "begin" /\ todo = <<>> /\ option.command = "attachments"
      /\ file' = file /\ merged' = merged
  BY DEF CountAttachments, Surveying, Goto, disk, history
<1>3. exit' \in {0, 1, 2, 130}
  BY <1>2 DEF IInv, TypeInv
<1> QED
  BY <1>1, <1>2, <1>3, SurveyIInv

LEMMA FetchSampleIInv == ASSUME IInv, FetchSample PROVE IInv'
<1>1. DiskInv' /\ server' = server /\ exists' = exists /\ SameBounds
  BY DiskStays, BoundsStay DEF FetchSample, SameDisk, settings, disk, history
<1>2. /\ UNCHANGED work /\ UNCHANGED start /\ option' = option /\ pc' = "idle" /\ exit' = 0
      /\ pc = "fetch" /\ file' = file /\ merged' = merged
  BY DEF FetchSample, Exit, disk, history
<1>3. todo = <<>> /\ option.command = "attachments"
  BY <1>2 DEF IInv, StageInv
<1> QED
  BY <1>1, <1>2, <1>3, SurveyIInv

LEMMA AskTheTicketsIInv == ASSUME IInv, AskTheTickets PROVE IInv'
<1>1. /\ TypeInv /\ FileInv /\ NothingSkipped
      /\ pc = "begin" /\ todo = <<>> /\ option.command = "attachments"
      /\ server' = server /\ exists' = exists /\ merged' = merged /\ unordered' = unordered
      /\ UNCHANGED work /\ UNCHANGED start /\ SameBounds
  BY BoundsStay DEF AskTheTickets, Surveying, settings, history, IInv
<1> PICK found \in SUBSET exists["attachments"] :
         /\ file' = [file EXCEPT !["attachments"] =
                       IF found = {} THEN @
                       ELSE LET rows == Ascending[found]
                            IN  [i \in DOMAIN rows |-> Line("attachments", rows[i])]]
         /\ tail' = [tail EXCEPT !["attachments"] = IF found = {} THEN @ ELSE "newline"]
         /\ IF found = {} THEN Exit(0) ELSE Goto("fetch")
  BY DEF AskTheTickets
<1>2. "attachments" \in Collections /\ \A c \in Keyed : c \in Collections /\ c # "attachments"
  BY DEF Collections, Keyed
<1>3. /\ option' = option /\ pc' \in {"idle", "fetch"} /\ exit' \in {0, 1, 2, 130}
  BY <1>1 DEF Exit, Goto, TypeInv
<1> DEFINE rows == Ascending[found]
           lines == [i \in DOMAIN rows |-> Line("attachments", rows[i])]
           new == IF found = {} THEN file["attachments"] ELSE lines
<1>4. new \in Seq(Lines)
  <2>1. found \in SUBSET Nat /\ IsFiniteSet(found) /\ \A i \in found : i \in Ids
    <3>1. found \subseteq Ids
      BY <1>1, <1>2 DEF TypeInv
    <3> QED
      BY <3>1, FS_Subset, PullAssumption
  <2>2. Cardinality(found) \in Nat /\ rows \in [1 .. Cardinality(found) -> found]
    BY <2>1, AscendingIs, FS_CardinalityType DEF Lists
  <2> HIDE DEF rows
  <2>3. \A i \in DOMAIN rows : Line("attachments", rows[i]) \in Lines
    BY <2>1, <2>2, <1>1, <1>2, LineIs
  <2>4. lines \in [1 .. Cardinality(found) -> Lines]
    BY <2>2, <2>3
  <2> HIDE DEF lines
  <2>5. lines \in Seq(Lines)
    BY <2>2, <2>4
  <2> QED
    BY <2>5, <1>1, <1>2 DEF TypeInv
<1>5. file' = [file EXCEPT !["attachments"] = new]
  OBVIOUS
<1> HIDE DEF rows, lines
<1>6. /\ file' \in [Collections -> Seq(Lines)]
      /\ \A c \in Collections : c # "attachments" => file'[c] = file[c]
      /\ file'["attachments"] = new
  <2> HIDE DEF new
  <2> QED
    BY <1>1, <1>2, <1>4, <1>5 DEF TypeInv
<1>7. /\ tail' \in [Collections -> {"newline", "row", "torn"}]
      /\ \A c \in Collections : tail'[c] # "newline" => tail'[c] = tail[c] /\ file'[c] = file[c]
  <2>1. CASE found = {}
    BY <2>1, <1>1, <1>2, <1>6 DEF TypeInv
  <2>2. CASE found # {}
    <3>1. tail' = [tail EXCEPT !["attachments"] = "newline"]
      BY <2>2
    <3> QED
      BY <3>1, <1>1, <1>2, <1>6 DEF TypeInv
  <2> QED
    BY <2>1, <2>2
<1>8. \A c \in Keyed : /\ file'[c] = file[c] /\ OnDisk(c)' = OnDisk(c)
                       /\ UsableAt(c)' = UsableAt(c)
  BY <1>2, <1>6 DEF OnDisk, UsableAt
<1>9. FileInv' /\ NothingSkipped'
  <2>1. FileInv'
    <3>1. server' = server /\ exists' = exists
      BY <1>1
    <3> SUFFICES ASSUME NEW c \in Keyed
                 PROVE  /\ OnDisk(c)' \subseteq exists[c]
                        /\ \A i, j \in UsableAt(c)' :
                              /\ file'[c][i].key \in Keys /\ file'[c][i].key = file'[c][j].key
                              /\ server.paging # "ignored"
                                 /\ file'[c][i].row = file'[c][j].row => i = j
      BY <3>1, Zenon DEF FileInv
    <3>2. /\ OnDisk(c) \subseteq exists[c]
          /\ \A i, j \in UsableAt(c) :
                /\ file[c][i].key \in Keys /\ file[c][i].key = file[c][j].key
                /\ server.paging # "ignored" /\ file[c][i].row = file[c][j].row => i = j
      <4>1. FileInv
        BY <1>1
      <4> QED
        BY <4>1, Zenon DEF FileInv
    <3>3. /\ file'[c] = file[c] /\ OnDisk(c)' = OnDisk(c) /\ UsableAt(c)' = UsableAt(c)
      BY <1>8
    <3> QED
      BY <3>2, <3>3
  <2>2. NothingSkipped'
    BY <1>1, <1>8 DEF NothingSkipped
  <2> QED
    BY <2>1, <2>2
<1>10. DiskInv'
  BY <1>1, <1>6, <1>7, <1>9 DEF DiskInv, TypeInv
<1> QED
  BY <1>1, <1>3, <1>8, <1>10, SurveyIInv

(* A new row is above all others, so below `last` nothing has come.         *)
LEMMA NewRowIInv == ASSUME IInv, NewRow PROVE IInv'
<1>1. /\ TypeInv /\ StageInv /\ FileInv /\ SchemaInv /\ PullInv /\ DoneInv
      /\ NothingSkipped /\ ThreadsAreWhole
  BY DEF IInv
<1>2. /\ server' = server /\ file' = file /\ tail' = tail /\ joined' = joined
      /\ pc' = pc /\ option' = option /\ exit' = exit /\ todo' = todo
      /\ schema' = schema /\ pull' = pull /\ runs' = runs /\ faults' = faults
      /\ merged' = merged /\ unordered' = unordered /\ start' = start
  BY DEF NewRow, settings, disk, run, work, bounds, history
<1> PICK d \in MayGrow, new \in Ids :
         /\ \A j \in exists[d] : new > j
         /\ exists' = [exists EXCEPT ![d] = @ \cup {new}]
  BY DEF NewRow
<1>3. d \in Collections /\ \A i \in Ids : i \in Nat /\ i # 0
  BY PullAssumption
<1>4. /\ exists' \in [Collections -> SUBSET Ids]
      /\ \A c \in Collections : exists[c] \subseteq exists'[c] /\ exists[c] \subseteq Ids
      /\ \A c \in Collections : \A i \in exists'[c] :
            i \notin exists[c] => \A j \in exists[c] : j < i
  <2>1. exists' \in [Collections -> SUBSET Ids]
    BY <1>1, <1>3 DEF TypeInv
  <2>2. \A c \in Collections : exists[c] \subseteq exists'[c] /\ exists[c] \subseteq Ids
    BY <1>1, <1>3 DEF TypeInv
  <2>3. ASSUME NEW c \in Collections, NEW i \in exists'[c], i \notin exists[c],
               NEW j \in exists[c]
        PROVE  j < i
    <3>1. c = d /\ i = new
      BY <2>3, <1>1 DEF TypeInv
    <3>2. new > j /\ j \in Nat /\ new \in Nat
      BY <2>2, <3>1, <1>3
    <3> QED
      BY <3>1, <3>2
  <2> QED
    BY <2>1, <2>2, <2>3
<1>5. \A c \in Keyed : /\ c \in Collections /\ OnDisk(c)' = OnDisk(c)
                       /\ UsableAt(c)' = UsableAt(c) /\ Covered(c)' = Covered(c)
                       /\ Pulling(c)' = Pulling(c)
  BY <1>2, SameRows DEF Keyed, Collections, Pulling, Coll
<1>6. TypeInv'
  BY <1>1, <1>2, <1>4 DEF TypeInv
<1>7. StageInv'
  BY <1>1, <1>2 DEF StageInv, Coll
<1>8. FileInv'
  BY <1>1, <1>2, <1>4, <1>5 DEF FileInv
<1>9. SchemaInv'
  BY <1>1, <1>2, <1>5 DEF SchemaInv, KeyNow
<1>10. NothingSkipped'
  <2> SUFFICES ASSUME NEW c \in Keyed \ unordered, NEW i \in exists'[c], NEW j \in OnDisk(c),
                      i < j
               PROVE  i \in Covered(c)
    BY <1>2, <1>5 DEF NothingSkipped, Covered
  <2>1. c \in Collections /\ j \in exists[c]
    BY <1>1, <1>5 DEF FileInv
  <2>2. i \in exists[c]
    <3>1. i \in Nat /\ j \in Nat /\ ~(j < i)
      <4>1. i \in Nat /\ j \in Nat
        BY <2>1, <1>3, <1>4
      <4> QED
        BY <4>1
    <3> QED
      BY <2>1, <3>1, <1>4
  <2> QED
    BY <2>2, <1>1 DEF NothingSkipped, Covered
<1>11. PullInv'
  <2> SUFFICES ASSUME NEW c \in Keyed, Pulling(c)
               PROVE  /\ \A i \in UsableAt(c) : file[c][i].key = KeyNow
                      /\ start[c].rows \subseteq exists'[c]
                      /\ {pull.last, pull.seen} \subseteq exists'[c] \cup {0}
                      /\ schema[c] = NoKey => pull.mode = "server" /\ pull.seen = 0
                      /\ pull.mode = "key" => KeyPaging(c)'
                      /\ pull.mode = "server" => ServerPaging(c)'
    BY <1>2, <1>5 DEF PullInv, KeyNow
  <2>1. /\ \A i \in UsableAt(c) : file[c][i].key = KeyNow
        /\ start[c].rows \subseteq exists[c]
        /\ {pull.last, pull.seen} \subseteq exists[c] \cup {0}
        /\ schema[c] = NoKey => pull.mode = "server" /\ pull.seen = 0
        /\ pull.mode = "key" => KeyPaging(c)
        /\ pull.mode = "server" => ServerPaging(c)
    BY <1>1 DEF PullInv
  <2>2. c \in Collections /\ exists[c] \subseteq exists'[c]
    BY <1>4, <1>5
  <2>3. ASSUME pull.mode = "key" PROVE KeyPaging(c)'
    <3>1. ASSUME NEW i \in exists'[c], i <= pull.last PROVE i \in exists[c]
      <4>1. i \in Nat /\ i # 0
        BY <2>2, <1>3, <1>4
      <4>2. pull.last \in exists[c]
        <5>1. pull.last # 0
          BY <3>1, <4>1
        <5> QED
          BY <2>1, <5>1
      <4>3. pull.last \in Nat /\ ~(pull.last < i)
        <5>1. pull.last \in Nat
          BY <2>2, <4>2, <1>3, <1>4
        <5> QED
          BY <3>1, <4>1, <5>1
      <4> QED
        BY <2>2, <4>2, <4>3, <1>4
    <3> QED
      BY <2>1, <2>3, <3>1, <1>2, <1>5 DEF KeyPaging
  <2>4. pull.mode = "server" => ServerPaging(c)'
    <3>1. \A i : Passed(i)' = Passed(i)
      BY <1>2 DEF Passed
    <3> QED
      BY <2>1, <3>1, <1>2, <1>5 DEF ServerPaging
  <2> QED
    BY <2>1, <2>2, <2>3, <2>4
<1>12. DoneInv'
  BY <1>1, <1>2, <1>5 DEF DoneInv
<1>13. ThreadsAreWhole'
  <2>1. OnDisk("comments")' = OnDisk("comments") /\ OnDisk("tickets")' = OnDisk("tickets")
        /\ ReadJsonl("tickets")' = ReadJsonl("tickets") /\ Through' = Through
    BY <1>2 DEF OnDisk, RowsOf, ReadJsonl, Usable, Through
  <2> QED
    BY <1>1, <1>2, <2>1 DEF ThreadsAreWhole
<1> QED
  BY <1>6, <1>7, <1>8, <1>9, <1>10, <1>11, <1>12, <1>13 DEF IInv
-----------------------------------------------------------------------------
(* join(): what is read back, which column is taken, and a thread.          *)

LEMMA ReadBack ==
  ASSUME IInv, NEW c \in Keyed
  PROVE  /\ ReadJsonl(c) \in Seq(Ids) /\ ToSet(ReadJsonl(c)) = OnDisk(c)
         /\ OnDisk(c) \subseteq Ids
         /\ server.paging # "ignored" => IsInjective(ReadJsonl(c))
<1> DEFINE r == ReadJsonl(c)
           U == UsableAt(c)
           A == Ascending[U]
           N == Cardinality(U)
<1>1. TypeInv /\ FileInv /\ c \in Collections
  BY DEF IInv, Keyed, Collections
<1>2. /\ Usable(c) \in Seq(Lines) /\ Len(Usable(c)) = N /\ N \in Nat /\ Lists(A, U)
      /\ \A n \in 1 .. N : Usable(c)[n] = file[c][A[n]]
      /\ OnDisk(c) = {file[c][i].row : i \in U} /\ OnDisk(c) \subseteq Ids
  BY <1>1, UsableIs
<1>3. r = [n \in 1 .. N |-> Usable(c)[n].row]
  <2>1. DOMAIN Usable(c) = 1 .. N
    BY <1>2
  <2> QED
    BY <2>1 DEF ReadJsonl
<1> HIDE DEF A, N, U, r
<1>4. /\ A \in [1 .. N -> U] /\ \A m, n \in 1 .. N : m < n => A[m] < A[n]
      /\ \A i \in U : \E n \in 1 .. N : A[n] = i
  BY <1>2 DEF Lists, A, N
<1>5. \A n \in 1 .. N : r[n] = file[c][A[n]].row /\ r[n] \in OnDisk(c) /\ r[n] \in Ids
  BY <1>2, <1>3, <1>4
<1>6. DOMAIN r = 1 .. N /\ r \in Seq(Ids)
  <2>1. r \in [1 .. N -> Ids]
    BY <1>3, <1>5
  <2> QED
    BY <1>2, <2>1
<1>7. ToSet(r) = OnDisk(c)
  <2>1. \A x \in OnDisk(c) : \E n \in 1 .. N : r[n] = x
    BY <1>2, <1>4, <1>5
  <2> QED
    BY <1>5, <1>6, <2>1 DEF ToSet
<1>8. ASSUME server.paging # "ignored" PROVE IsInjective(r)
  <2> SUFFICES ASSUME NEW m \in 1 .. N, NEW n \in 1 .. N, r[m] = r[n] PROVE m = n
    BY <1>6 DEF IsInjective
  <2>1. A[m] \in U /\ A[n] \in U /\ file[c][A[m]].row = file[c][A[n]].row
    BY <1>4, <1>5
  <2>2. A[m] = A[n]
    BY <1>1, <1>8, <2>1 DEF FileInv, U
  <2>3. A[m] \in Nat /\ m \in Nat /\ n \in Nat
    <3>1. A[m] \in DOMAIN file[c]
      BY <2>1 DEF UsableAt, U
    <3>2. file[c] \in Seq(Lines)
      BY <1>1 DEF TypeInv
    <3> QED
      BY <3>1, <3>2
  <2>4. ~(m < n) /\ ~(n < m)
    BY <1>4, <2>2, <2>3
  <2> QED
    BY <2>3, <2>4
<1> QED
  BY <1>2, <1>6, <1>7, <1>8 DEF r

(* Where the data can tell, the column with the most hits is the one that   *)
(* names the ticket: all comments hit with it, and not all with another.    *)
LEMMA LinkIsDetected ==
  ASSUME NEW comments \in Seq(Ids), comments # <<>>,
         NEW tickets \in SUBSET Ids, Telling(ToSet(comments), tickets)
  PROVE  DetectParentKey(comments, tickets) = Link
<1> DEFINE D == DOMAIN comments
           hits(k) == Cardinality(Hits(k, comments, tickets))
           score(k) == <<Cardinality(Hits(k, comments, tickets)),
                         Cardinality(Filled(k, comments)), Rank(k)>>
           below(s, t) == \E n \in 1 .. 3 : s[n] < t[n] /\ \A m \in 1 .. n - 1 : s[m] = t[m]
           scored == {k \in CandidateKeys : Hits(k, comments, tickets) # {}}
<1>1. /\ D = 1 .. Len(comments) /\ Len(comments) \in Nat /\ Len(comments) # 0
      /\ \A n \in D : comments[n] \in Ids
      /\ ToSet(comments) = {comments[n] : n \in D}
  BY DEF ToSet
<1>2. IsFiniteSet(D) /\ 1 \in D
  BY <1>1, FS_Interval
<1> HIDE DEF D
<1>3. \A k : Hits(k, comments, tickets) \in SUBSET D
  BY DEF Hits, Filled, D
<1>4. \A k : hits(k) \in Nat /\ hits(k) <= Cardinality(D) /\ Cardinality(D) \in Nat
             /\ (hits(k) = Cardinality(D) => Hits(k, comments, tickets) = D)
  BY <1>2, <1>3, FS_Subset, FS_CardinalityType
<1>5. Link \in CandidateKeys /\ 0 \notin tickets
  BY PullAssumption DEF CandidateKeys
<1>6. \A n \in D : Value[Link][comments[n]] \in tickets
  BY <1>1, <1>5 DEF Telling, CandidateKeys
<1>7. Hits(Link, comments, tickets) = D
  BY <1>2, <1>5, <1>6 DEF Hits, Filled, D
<1>8. ASSUME NEW k \in CandidateKeys, k # Link PROVE hits(k) < hits(Link)
  <2>1. PICK n \in D : Value[k][comments[n]] \notin tickets
    BY <1>1, <1>8 DEF Telling, CandidateKeys
  <2>2. tickets # {}
    BY <1>2, <1>6
  <2>3. n \notin Hits(k, comments, tickets)
    BY <2>1, <2>2 DEF Hits
  <2>4. hits(k) # Cardinality(D)
    BY <1>4, <2>1, <2>3
  <2> HIDE DEF hits
  <2>5. hits(Link) = Cardinality(D)
    BY <1>7 DEF hits
  <2> QED
    BY <1>4, <2>4, <2>5
<1>9. Link \in scored /\ \A k \in scored : k \in CandidateKeys
  BY <1>2, <1>5, <1>7
<1>10. \A k : score(k)[1] = hits(k)
  OBVIOUS
<1> HIDE DEF hits, score
<1>11. \A k \in scored \ {Link} : below(score(k), score(Link))
  <2> SUFFICES ASSUME NEW k \in scored \ {Link} PROVE below(score(k), score(Link))
    OBVIOUS
  <2>1. score(k)[1] < score(Link)[1]
    BY <1>8, <1>9, <1>10
  <2>2. \A m \in 1 .. 1 - 1 : score(k)[m] = score(Link)[m]
    OBVIOUS
  <2>3. 1 \in 1 .. 3
    OBVIOUS
  <2> QED
    BY <2>1, <2>2, <2>3
<1>12. \A k \in scored \ {Link} : ~below(score(Link), score(k))
  <2> SUFFICES ASSUME NEW k \in scored \ {Link}, NEW n \in 1 .. 3,
                      score(Link)[n] < score(k)[n],
                      \A m \in 1 .. n - 1 : score(Link)[m] = score(k)[m]
               PROVE  FALSE
    OBVIOUS
  <2>1. score(k)[1] < score(Link)[1] /\ score(k)[1] \in Nat /\ score(Link)[1] \in Nat
    BY <1>4, <1>8, <1>9, <1>10
  <2>2. CASE n = 1
    BY <2>1, <2>2
  <2>3. CASE n # 1
    <3>1. 1 \in 1 .. n - 1
      BY <2>3
    <3>2. score(Link)[1] = score(k)[1]
      BY <3>1
    <3> QED
      BY <2>1, <3>2
  <2> QED
    BY <2>2, <2>3
<1>13. DetectParentKey(comments, tickets) =
         IF scored = {} THEN NoColumn
         ELSE CHOOSE k \in scored : \A other \in scored \ {k} : below(score(other), score(k))
  BY DEF DetectParentKey, score
<1> HIDE DEF scored, below
<1>14. \A k \in scored : (\A other \in scored \ {k} : below(score(other), score(k))) => k = Link
  BY <1>9, <1>12
<1> QED
  BY <1>9, <1>11, <1>13, <1>14

(* A thread has the comments of its ticket, in the order of sort_key().     *)
LEMMA ThreadIs ==
  ASSUME NEW comments \in Seq(Ids), IsInjective(comments), NEW key \in ToSet(Columns), NEW t
  PROVE  /\ ToSet(Thread(comments, key, t)) = {i \in ToSet(comments) : Value[key][i] = t}
         /\ \A m, n \in DOMAIN Thread(comments, key, t) :
               m < n => Earlier(Thread(comments, key, t)[m], Thread(comments, key, t)[n])
<1> DEFINE of == {n \in DOMAIN comments : Value[key][comments[n]] = t}
           before(m, n) == \/ Earlier(comments[m], comments[n])
                           \/ comments[m] = comments[n] /\ m < n
           B == [n \in of |-> {m \in of : before(m, n)}]
           order == Listed(of, B)
           N == Cardinality(of)
<1>1. /\ DOMAIN comments = 1 .. Len(comments) /\ Len(comments) \in Nat
      /\ \A n \in DOMAIN comments : comments[n] \in Ids
  OBVIOUS
<1>2. IsFiniteSet(of)
  <2>1. IsFiniteSet(DOMAIN comments)
    BY <1>1, FS_Interval
  <2>2. of \in SUBSET DOMAIN comments
    OBVIOUS
  <2> HIDE DEF of
  <2> QED
    BY <2>1, <2>2, FS_Subset
<1>3. /\ \A n \in of : comments[n] \in Ids /\ n \in Nat /\ n \in DOMAIN comments
      /\ \A m, n \in of : comments[m] = comments[n] => m = n
  BY <1>1 DEF IsInjective
<1>4. \A i \in Ids : i \in Nat /\ Created[i] \in Nat
  BY PullAssumption
<1>5. /\ \A i \in Ids : ~Earlier(i, i)
      /\ \A i, j \in Ids : i = j \/ Earlier(i, j) \/ Earlier(j, i)
      /\ \A i, j, k \in Ids : Earlier(i, j) /\ Earlier(j, k) => Earlier(i, k)
  BY <1>4 DEF Earlier
<1> HIDE DEF of
<1>6. \A m, n \in of : m \in B[n] <=> Earlier(comments[m], comments[n])
  BY <1>3
<1>7. B \in [of -> SUBSET of]
  OBVIOUS
<1>8. Thread(comments, key, t) = [n \in 1 .. N |-> comments[order[n]]]
  BY DEF Thread, of
<1> HIDE DEF B, before
<1>9. /\ \A x \in of : x \notin B[x]
      /\ \A x, y \in of : x = y \/ x \in B[y] \/ y \in B[x]
      /\ \A x, y \in of : x \in B[y] => B[x] \subseteq B[y]
  <2>1. \A x \in of : x \notin B[x]
    BY <1>3, <1>5, <1>6
  <2>2. \A x, y \in of : x = y \/ x \in B[y] \/ y \in B[x]
    BY <1>3, <1>5, <1>6
  <2>3. ASSUME NEW x \in of, NEW y \in of, x \in B[y], NEW z \in B[x] PROVE z \in B[y]
    <3>1. z \in of
      BY <1>7, <2>3
    <3> QED
      BY <1>3, <1>5, <1>6, <2>3, <3>1
  <2> QED
    BY <2>1, <2>2, <2>3
<1>10. /\ N \in Nat /\ order \in [1 .. N -> of]
       /\ \A m, n \in 1 .. N : m < n => order[m] \in B[order[n]]
       /\ \A x \in of : \E n \in 1 .. N : order[n] = x
  BY <1>2, <1>7, <1>9, ListedIs
<1> HIDE DEF order, N
<1>11. \A m, n \in 1 .. N : m < n => Earlier(comments[order[m]], comments[order[n]])
  BY <1>6, <1>10
<1>12. {comments[order[n]] : n \in 1 .. N} = {comments[n] : n \in of}
  BY <1>10
<1>13. {comments[n] : n \in of} = {i \in ToSet(comments) : Value[key][i] = t}
  BY DEF of, ToSet
<1>14. ToSet(Thread(comments, key, t)) = {comments[order[n]] : n \in 1 .. N}
  BY <1>8 DEF ToSet
<1> QED
  BY <1>8, <1>11, <1>12, <1>13, <1>14

LEMMA JoinIInv == ASSUME IInv, Join PROVE IInv'
<1>1. /\ TypeInv /\ StageInv /\ SchemaInv /\ DoneInv
      /\ pc = "begin" /\ todo = <<>>
  BY DEF IInv, Join
<1>2. /\ server' = server /\ exists' = exists /\ file' = file /\ tail' = tail
      /\ merged' = merged /\ unordered' = unordered /\ start' = start
      /\ todo' = todo /\ schema' = schema /\ pull' = pull
      /\ pc' = "idle" /\ exit' = 0 /\ option' = option
  BY DEF Join, settings, disk, work, history, Exit
<1>3. DiskInv' /\ SameBounds
  BY <1>2, DiskStays, BoundsStay DEF Join, SameDisk
<1>4. TypeInv'
  BY <1>1, <1>2, <1>3 DEF TypeInv, DiskInv, SameBounds
<1>5. StageInv'
  BY <1>1, <1>2 DEF StageInv
<1>6. \A c \in Keyed : /\ OnDisk(c)' = OnDisk(c) /\ Covered(c)' = Covered(c)
                       /\ ~Pulling(c) /\ ~Pulling(c)'
  BY <1>1, <1>2, SameRows DEF Pulling, Keyed, Collections
<1>7. SchemaInv'
  BY <1>1, <1>2, <1>6 DEF SchemaInv, KeyNow
<1>8. PullInv'
  BY <1>6 DEF PullInv
<1>9. DoneInv'
  BY <1>1, <1>2, <1>6 DEF DoneInv
<1>10. ThreadsAreWhole'
  <2> DEFINE C == ReadJsonl("comments")
             T == ReadJsonl("tickets")
             onDisk == OnDisk("comments")
             of(t) == {i \in onDisk : Value[Link][i] = t}
  <2>1. /\ ReadJsonl("tickets")' = T /\ OnDisk("comments")' = onDisk
        /\ OnDisk("tickets")' = OnDisk("tickets")
    BY <1>2 DEF ReadJsonl, Usable, OnDisk, RowsOf
  <2> SUFFICES ASSUME server.paging # "ignored", onDisk # {},
                      Telling(onDisk, OnDisk("tickets"))
               PROVE  /\ [i \in DOMAIN joined' |-> joined'[i].ticket] = T
                      /\ \A i \in DOMAIN joined' :
                            /\ ToSet(joined'[i].comments) = of(joined'[i].ticket)
                            /\ \A m, n \in DOMAIN joined'[i].comments :
                                  m < n => Earlier(joined'[i].comments[m],
                                                   joined'[i].comments[n])
    BY <1>2, <2>1 DEF ThreadsAreWhole, Through
  <2>2. /\ C \in Seq(Ids) /\ ToSet(C) = onDisk /\ IsInjective(C)
        /\ T \in Seq(Ids) /\ ToSet(T) = OnDisk("tickets") /\ OnDisk("tickets") \subseteq Ids
    BY ReadBack DEF Keyed
  <2>3. C # <<>>
    <3>1. ToSet(<<>>) = {}
      BY DEF ToSet
    <3> HIDE DEF C
    <3> QED
      BY <2>2, <3>1
  <2>4. DetectParentKey(C, ToSet(T)) = Link
    <3>1. OnDisk("tickets") \in SUBSET Ids /\ Telling(ToSet(C), OnDisk("tickets"))
      BY <2>2
    <3> HIDE DEF C, T
    <3> QED
      BY <2>2, <2>3, <3>1, LinkIsDetected
  <2>5. Link # NoColumn /\ Link \in ToSet(Columns)
    BY PullAssumption
  <2>6. joined' = [i \in DOMAIN T |-> [ticket |-> T[i], comments |-> Thread(C, Link, T[i])]]
    BY <2>3, <2>4, <2>5 DEF Join
  <2> HIDE DEF C, T, onDisk
  <2>7. /\ DOMAIN joined' = DOMAIN T
        /\ \A i \in DOMAIN T : /\ joined'[i].ticket = T[i]
                               /\ joined'[i].comments = Thread(C, Link, T[i])
    BY <2>6
  <2>8. [i \in DOMAIN joined' |-> joined'[i].ticket] = T
    <3>1. T = [i \in DOMAIN T |-> T[i]]
      BY <2>2
    <3>2. [i \in DOMAIN joined' |-> joined'[i].ticket] = [i \in DOMAIN T |-> T[i]]
      BY <2>7
    <3> QED
      BY <3>1, <3>2
  <2>9. ASSUME NEW i \in DOMAIN joined'
        PROVE  /\ ToSet(joined'[i].comments) = of(joined'[i].ticket)
               /\ \A m, n \in DOMAIN joined'[i].comments :
                     m < n => Earlier(joined'[i].comments[m], joined'[i].comments[n])
    <3>1. joined'[i].ticket = T[i] /\ joined'[i].comments = Thread(C, Link, T[i])
      BY <2>7, <2>9
    <3> QED
      BY <2>2, <2>5, <3>1, ThreadIs
  <2> QED
    BY <2>8, <2>9
<1> QED
  BY <1>3, <1>4, <1>5, <1>7, <1>8, <1>9, <1>10 DEF IInv, DiskInv

LEMMA StutterIInv == ASSUME IInv, UNCHANGED vars PROVE IInv'
<1>1. /\ server' = server /\ exists' = exists /\ file' = file /\ tail' = tail
      /\ joined' = joined /\ pc' = pc /\ option' = option /\ exit' = exit /\ todo' = todo
      /\ schema' = schema /\ pull' = pull /\ runs' = runs /\ faults' = faults
      /\ merged' = merged /\ unordered' = unordered /\ start' = start
  BY DEF vars, settings, disk, run, work, bounds, history
<1>2. /\ TypeInv /\ StageInv /\ FileInv /\ SchemaInv /\ PullInv /\ DoneInv
      /\ NothingSkipped /\ ThreadsAreWhole
  BY DEF IInv
<1>3. TypeInv' /\ StageInv'
  BY <1>1, <1>2 DEF TypeInv, StageInv, Coll
<1>4. FileInv' /\ NothingSkipped'
  BY <1>1, DiskStays DEF SameDisk, DiskInv
<1>5. \A c \in Keyed : /\ OnDisk(c)' = OnDisk(c) /\ UsableAt(c)' = UsableAt(c)
                       /\ Covered(c)' = Covered(c) /\ Pulling(c)' = Pulling(c)
  BY <1>1, SameRows DEF Keyed, Collections, Pulling, Coll
<1>6. SchemaInv' /\ DoneInv'
  <2>1. SchemaInv'
    BY <1>1, <1>2, <1>5 DEF SchemaInv, KeyNow
  <2> QED
    BY <2>1, <1>1, <1>2, <1>5 DEF DoneInv
<1>7. PullInv'
  <2>1. \A i : Passed(i)' = Passed(i)
    BY <1>1 DEF Passed
  <2>2. \A c \in Keyed : KeyPaging(c)' = KeyPaging(c)
    BY <1>1, <1>5 DEF KeyPaging
  <2>3. \A c \in Keyed : ServerPaging(c)' = ServerPaging(c)
    BY <1>1, <1>5, <2>1 DEF ServerPaging
  <2> QED
    BY <1>1, <1>2, <1>5, <2>2, <2>3 DEF PullInv, KeyNow
<1>8. ThreadsAreWhole'
  <2>1. OnDisk("comments")' = OnDisk("comments") /\ OnDisk("tickets")' = OnDisk("tickets")
        /\ ReadJsonl("tickets")' = ReadJsonl("tickets") /\ Through' = Through
    BY <1>1 DEF OnDisk, RowsOf, ReadJsonl, Usable, Through
  <2> QED
    BY <1>1, <1>2, <2>1 DEF ThreadsAreWhole
<1> QED
  BY <1>2, <1>3, <1>4, <1>6, <1>7, <1>8 DEF IInv

LEMMA ProceedIInv == ASSUME IInv, Proceed PROVE IInv'
<1>1. CASE \E lost \in BOOLEAN : DropExpansions(lost) \/ FallBack(lost) \/ PullFails(lost)
  BY <1>1, DropExpansionsIInv, FallBackIInv, PullFailsIInv
<1>2. CASE \/ ReadSets \/ ReadSchema \/ SchemaMismatch \/ BeginPull
  BY <1>2, ReadSetsIInv, ReadSchemaIInv, SchemaMismatchIInv, BeginPullIInv
<1>3. CASE \/ NoMoreRows \/ EmptyFeed \/ PageArrives \/ WriteCut \/ Halve
  BY <1>3, NoMoreRowsIInv, EmptyFeedIInv, PageArrivesIInv, WriteCutIInv, HalveIInv
<1>4. CASE \/ PageUnreadable \/ Fails
  BY <1>4, PageUnreadableIInv, FailsIInv
<1>5. CASE \/ Join \/ AskTheTickets \/ CountAttachments \/ FetchSample
  BY <1>5, JoinIInv, AskTheTicketsIInv, CountAttachmentsIInv, FetchSampleIInv
<1> QED
  BY <1>1, <1>2, <1>3, <1>4, <1>5 DEF Proceed

LEMMA NextIInv == IInv /\ [Next]_vars => IInv'
  BY ProceedIInv, InterruptIInv, NewRowIInv, StartIInv, StutterIInv DEF Next

-----------------------------------------------------------------------------
(***************************************************************************)
(* In every run over the directory the types hold, the files are what their *)
(* last write left, the key and the place the pull has reached vouch for    *)
(* the rows below them, and a pull that is over has brought what was there. *)
(***************************************************************************)
THEOREM Invariance == Spec => []IInv
<1>1. Init => IInv
  BY InitIInv
<1>2. IInv /\ [Next]_vars => IInv'
  BY NextIInv
<1> QED
  BY <1>1, <1>2, PTL DEF Spec

(***************************************************************************)
(* No row of a keyed collection is ever on disk twice where the service     *)
(* understands the filter (pull() after highest_id_on_disk), and types hold.*)
(***************************************************************************)
THEOREM ConsistentHolds == Spec => []Consistent
<1>1. ASSUME IInv PROVE Consistent
  <2>1. TypeInv /\ StageInv /\ FileInv
    BY <1>1 DEF IInv
  <2>2. ASSUME NEW c \in Collections
        PROVE  /\ ToSet(file[c]) \subseteq Lines /\ tail[c] \in {"newline", "row", "torn"}
               /\ tail[c] # "newline" => file[c] # <<>>
               /\ schema[c] \in Keys \cup {NoKey, "unread"}
    BY <2>1 DEF TypeInv, ToSet
  <2>3. ToSet(todo) \subseteq Collections
    BY <2>1 DEF TypeInv, ToSet
  <2>4. pull.mode \in {"none", "key", "server"} /\ pull.size \in 0 .. PageSize
    BY <2>1 DEF TypeInv, Pulls
  <2>5. TypeOK
    BY <2>1, <2>2, <2>3, <2>4 DEF TypeInv, TypeOK
  <2>6. NoDuplicates
    <3> SUFFICES ASSUME server.paging # "ignored", NEW c \in Keyed
                 PROVE  Cardinality(OnDisk(c)) = Len(Usable(c))
      BY DEF NoDuplicates
    <3> DEFINE U == UsableAt(c)
               f == [i \in U |-> file[c][i].row]
    <3>1. /\ IsFiniteSet(U) /\ Len(Usable(c)) = Cardinality(U)
          /\ OnDisk(c) = {file[c][i].row : i \in U}
      BY <2>1, UsableIs DEF Keyed, Collections
    <3>2. \A i, j \in U : file[c][i].row = file[c][j].row => i = j
      BY <2>1 DEF FileInv
    <3> HIDE DEF U
    <3>3. f \in Bijection(U, OnDisk(c))
      <4>1. f \in [U -> OnDisk(c)] /\ \A i \in U : f[i] = file[c][i].row
        BY <3>1
      <4> HIDE DEF f
      <4>2. \A i, j \in U : f[i] = f[j] => i = j
        BY <3>2, <4>1
      <4>3. \A x \in OnDisk(c) : \E i \in U : f[i] = x
        BY <3>1, <4>1
      <4> QED
        BY <4>1, <4>2, <4>3 DEF Bijection, Injection, Surjection, IsInjective
    <3>4. ExistsBijection(U, OnDisk(c))
      BY <3>3 DEF ExistsBijection
    <3>5. Cardinality(U) = Cardinality(OnDisk(c))
      BY <3>1, <3>4, FS_Bijection
    <3> QED
      BY <3>1, <3>5
  <2> QED
    BY <2>5, <2>6 DEF Consistent
<1> QED
  BY <1>1, Invariance, PTL

(***************************************************************************)
(* Below the highest key on disk no row is missing, except those of a line  *)
(* two runs broke between them and in a file with pages in the service's    *)
(* own order (highest_id_on_disk, pull()).                                  *)
(***************************************************************************)
THEOREM NothingSkippedHolds == Spec => []NothingSkipped
<1>1. IInv => NothingSkipped
  BY DEF IInv
<1> QED
  BY <1>1, Invariance, PTL

(***************************************************************************)
(* A run without --limit that ends with code 0 has every row its keyed      *)
(* collections had when it came to them, with the exceptions named above.   *)
(***************************************************************************)
THEOREM FinishedPullIsWholeHolds == Spec => []FinishedPullIsWhole
<1>1. ASSUME IInv PROVE FinishedPullIsWhole
  <2>1. DoneInv
    BY <1>1 DEF IInv
  <2>2. pc = "idle" => \A c \in Keyed : ~Pulling(c)
    BY DEF Pulling
  <2> QED
    BY <2>1, <2>2 DEF FinishedPullIsWhole, Through, DoneInv, Covered
<1> QED
  BY <1>1, Invariance, PTL

(***************************************************************************)
(* Where the data can tell the column that names the ticket, join() gives   *)
(* every ticket its comments, each once and in the order of writing.        *)
(***************************************************************************)
THEOREM ThreadsAreWholeHolds == Spec => []ThreadsAreWhole
<1>1. IInv => ThreadsAreWhole
  BY DEF IInv
<1> QED
  BY <1>1, Invariance, PTL
=============================================================================
