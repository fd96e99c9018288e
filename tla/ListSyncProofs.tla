---------------------------- MODULE ListSyncProofs ----------------------------
(***************************************************************************)
(* For any number of items, changes, rows per page and batches per sync:    *)
(* what a stored change token stands for.                                   *)
(***************************************************************************)
EXTENDS ListSync, FiniteSetTheorems, SequenceTheorems, WellFoundedInduction, TLAPS

SyncSteps  == {"changes", "drop_items", "drop_raw", "items", "raw"}
CrawlSteps == {"page", "finish"}

Agree(i)     == items[i] = raw[i]
UpToDateOf(i) == items[i] = Current(i) /\ raw[i] = Current(i)
Bare(i)      == items[i] = <<>> /\ raw[i] = <<>>

(* What an entry with token t and checkpoint n vouches for.  Up to n, and   *)
(* if the entry is complete for all, an item not changed after the token    *)
(* has the same lines in both files, and but for the blurred ones its       *)
(* current version.                                                         *)
Vouched(t, n, whole) ==
    t # NoToken =>
        \A i \in Ids :
            ~ChangedSince(i, t) /\ (i <= n \/ whole) =>
                /\ Agree(i)
                /\ i \notin blurred => UpToDateOf(i)
                /\ i \notin blurred /\ i > n => Bare(i)

(* The state file keeps its promise, and so does what the exception handler *)
(* is about to write, unless a fresh run has unlinked the files.            *)
VouchInv ==
    ~exposed =>
        /\ Vouched(disk.token, disk.last, disk.status = "complete")
        /\ pc = "failed" => Vouched(entry.token, entry.last, FALSE)

(* Where the entry in memory is the one on disk, and where last_id is the   *)
(* checkpoint.                                                              *)
EntryInv ==
    /\ exposed => disk.last # 0
    /\ pc \notin {"failed", "reset", "begin"} => entry = disk
    /\ pc \in {"reset", "begin"} =>
          entry = disk \/ entry = [disk EXCEPT !.token = NoToken]
    /\ pc \in CrawlSteps => last = entry.last /\ entry.status = "in_progress"
    /\ pc = "begin" => last \in {0, entry.last}
    /\ pc = "begin" /\ last # 0 => entry = disk /\ entry.status # "complete"
    /\ pc = "truncate" => last = entry.last /\ last # 0 /\ entry.status # "complete"
    /\ pc = "reset" => last = 0
    /\ priming => pc # "truncate"
    /\ priming /\ pc = "begin" => last = 0

(* Tokens and page readings are positions of the log.                       *)
LogInv ==
    /\ \A t \in {disk.token, entry.token, token} : t # NoToken => t <= Len(log)
    /\ \A i \in Ids : fetched[i] <= Len(log)

(* Above the checkpoint of a running crawl there are no lines, and once it  *)
(* has read its last page there is nothing to read, but for later changes.  *)
Checkpoint == IF pc = "prime" THEN entry.last ELSE last
TailInv ==
    /\ pc \in CrawlSteps \cup {"begin", "prime"} => \A i \in Ids : i > Checkpoint => Bare(i)
    /\ pc \in {"finish", "prime"} =>
          \A i \in Ids : i > Checkpoint =>
              /\ i \notin blurred
              /\ ~ChangedSince(i, fetched[i]) => Current(i) = <<>>
              /\ pc = "finish" /\ entry.token # NoToken => entry.token <= fetched[i]

(* A crawl that ends with priming has read all its pages itself.            *)
FreshInv ==
    (priming /\ pc \in CrawlSteps) \/ pc = "prime" =>
        \A i \in Ids :
            /\ Agree(i)
            /\ i <= Checkpoint /\ ~ChangedSince(i, fetched[i]) => UpToDateOf(i)

(* A sync starts from a complete list and moves its own token on.  What it  *)
(* has seen has changed since the stored token; what it has seen in one     *)
(* batch only, and has not changed after its own, it holds as it is now.    *)
ReadInv ==
    /\ pc \notin SyncSteps \cup {"failed"} => rows = NoLines /\ deleted = {} /\ twice = {}
    /\ pc \in SyncSteps =>
          /\ entry.status = "complete" /\ entry.token # NoToken
          /\ token # NoToken /\ entry.token <= token
          /\ twice \subseteq Seen
          /\ \A i \in Seen : ChangedSince(i, entry.token)
          /\ \A i \in Ids \ twice : ~ChangedSince(i, token) =>
                IF i \in Seen THEN rows[i] = Current(i) ELSE ~ChangedSince(i, entry.token)

(* How far the lines of the seen items are dropped and written again.       *)
WriteInv ==
    /\ pc = "drop_raw" => \A i \in Seen : items[i] = <<>>
    /\ pc \in {"items", "raw"} =>
          \A i \in Seen :
              /\ Len(items[i]) <= Len(rows[i])
              /\ \A n \in 1 .. Len(items[i]) : items[i][n] = rows[i][n]
    /\ pc = "items" => \A i \in Seen : Agree(i)
    /\ pc = "raw" =>
          \E i \in Changed :
              /\ Len(items[i]) = Len(raw[i]) + 1
              /\ \A n \in 1 .. Len(raw[i]) : raw[i][n] = items[i][n]
              /\ \A j \in Seen \ {i} : Agree(j)

IInv ==
    /\ TypeOK /\ VouchInv /\ EntryInv /\ LogInv
    /\ TailInv /\ FreshInv /\ ReadInv /\ WriteInv

-----------------------------------------------------------------------------
(* A set of numbers has a least one, and one with a bound a greatest.       *)
LEMMA LeastNumber ==
  ASSUME NEW S \in SUBSET Nat, S # {}
  PROVE  \E x \in S : \A y \in S : x <= y
<1> DEFINE Less == {ss \in Nat \X Nat : ss[1] < ss[2]}
<1>1. IsWellFoundedOn(Less, Nat)
  BY NatLessThanWellFounded DEF OpToRel
<1> HIDE DEF Less
<1>2. PICK x \in S : \A y \in S : ~ (<<y, x>> \in Less)
  BY <1>1, WFMin
<1>3. \A y \in S : ~ (y < x)
  BY <1>2 DEF Less
<1> QED
  BY <1>3

LEMMA GreatestNumber ==
  ASSUME NEW S \in SUBSET Nat, S # {}, NEW b \in Nat, \A x \in S : x <= b
  PROVE  \E x \in S : \A y \in S : y <= x
<1> DEFINE T == {b - x : x \in S}
<1>1. T \in SUBSET Nat /\ T # {}
  <2>1. \A x \in S : b - x \in Nat
    OBVIOUS
  <2> QED
    BY <2>1
<1>2. PICK t \in T : \A u \in T : t <= u
  <2> HIDE DEF T
  <2> QED
    BY <1>1, LeastNumber
<1>3. PICK x \in S : t = b - x
  OBVIOUS
<1>4. \A y \in S : b - x <= b - y
  BY <1>2, <1>3
<1>5. \A y \in S : y <= x
  BY <1>4
<1> QED
  BY <1>5

(* The last change of an item is one of its changes.                        *)
LEMMA LatestIs ==
  ASSUME TypeOK, NEW i \in Ids, ChangesOf(i) # {}
  PROVE  /\ Latest(i) \in ChangesOf(i)
         /\ \A j \in ChangesOf(i) : j <= Latest(i)
<1>0. Len(log) \in Nat
  BY DEF TypeOK
<1>1. ChangesOf(i) \in SUBSET Nat /\ \A x \in ChangesOf(i) : x <= Len(log)
  BY <1>0 DEF ChangesOf
<1>2. \E k \in ChangesOf(i) : \A j \in ChangesOf(i) : j <= k
  BY <1>0, <1>1, GreatestNumber
<1> QED
  BY <1>2 DEF Latest

(* What is read off the log stays while the log does.                       *)
LEMMA SameLog ==
  ASSUME UNCHANGED log
  PROVE  /\ \A i : ChangesOf(i)' = ChangesOf(i) /\ Latest(i)' = Latest(i) /\ Current(i)' = Current(i)
         /\ \A i, t : ChangedSince(i, t)' <=> ChangedSince(i, t)
<1>1. \A i : ChangesOf(i)' = ChangesOf(i)
  BY DEF ChangesOf
<1>2. \A i : Latest(i)' = Latest(i)
  BY <1>1 DEF Latest
<1>3. \A i : Exists(i)' = Exists(i)
  BY <1>1, <1>2 DEF Exists
<1> QED
  BY <1>1, <1>2, <1>3 DEF Current, ChangedSince

(* A change is one of its item and of no other.                             *)
LEMMA ChangeSays ==
  ASSUME TypeOK, NEW i \in Ids, NEW gone \in BOOLEAN, Change(i, gone)
  PROVE  /\ log' \in Seq([id : Ids, gone : BOOLEAN]) /\ Len(log') = Len(log) + 1
         /\ \A t \in Nat : t <= Len(log) => ChangedSince(i, t)'
         /\ \A j \in Ids : j # i => Current(j)' = Current(j)
         /\ \A j \in Ids, t \in Nat : j # i => (ChangedSince(j, t)' <=> ChangedSince(j, t))
         /\ \A j \in Ids, t \in Nat : ChangedSince(j, t) => ChangedSince(j, t)'
<1> DEFINE c == [id |-> i, gone |-> gone]
<1>1. /\ c \in [id : Ids, gone : BOOLEAN] /\ log' = Append(log, c)
      /\ Len(log) \in Nat
  BY DEF Change, TypeOK
<1>2. log' \in Seq([id : Ids, gone : BOOLEAN]) /\ Len(log') = Len(log) + 1
  BY <1>1 DEF TypeOK
<1>3. \A k \in 1 .. Len(log) : log'[k] = log[k]
  BY <1>1 DEF TypeOK
<1>4. log'[Len(log) + 1].id = i
  BY <1>1 DEF TypeOK
<1> HIDE DEF c
<1>5. \A j \in Ids : j # i => ChangesOf(j)' = ChangesOf(j)
  BY <1>1, <1>2, <1>3, <1>4 DEF ChangesOf
<1>6. \A j \in Ids : ChangesOf(j) \subseteq ChangesOf(j)'
  BY <1>1, <1>2, <1>3 DEF ChangesOf
<1>7. Len(log) + 1 \in ChangesOf(i)'
  BY <1>1, <1>2, <1>4 DEF ChangesOf
<1>8. ASSUME NEW j \in Ids, j # i PROVE Current(j)' = Current(j)
  <2>1. Latest(j)' = Latest(j)
    BY <1>5, <1>8 DEF Latest
  <2>2. ChangesOf(j) # {} => log'[Latest(j)] = log[Latest(j)]
    BY <1>3, LatestIs DEF ChangesOf
  <2>3. Exists(j)' = Exists(j)
    BY <1>5, <1>8, <2>1, <2>2 DEF Exists
  <2> QED
    BY <2>1, <2>3 DEF Current
<1>9. \A t \in Nat : t <= Len(log) => ChangedSince(i, t)'
  BY <1>1, <1>7 DEF ChangedSince
<1> QED
  BY <1>2, <1>5, <1>6, <1>8, <1>9 DEF ChangedSince

(* What an entry vouches for is a matter of log, files and blurred ids.     *)
LEMMA SameFiles ==
  ASSUME UNCHANGED <<log, items, raw, blurred>>
  PROVE  /\ \A t, n, whole : Vouched(t, n, whole)' <=> Vouched(t, n, whole)
         /\ \A i : (Agree(i)' <=> Agree(i)) /\ (UpToDateOf(i)' <=> UpToDateOf(i)) /\ (Bare(i)' <=> Bare(i))
<1>1. \A i : (Agree(i)' <=> Agree(i)) /\ (UpToDateOf(i)' <=> UpToDateOf(i)) /\ (Bare(i)' <=> Bare(i))
  BY SameLog DEF Agree, UpToDateOf, Bare
<1> QED
  BY <1>1, SameLog DEF Vouched

-----------------------------------------------------------------------------
LEMMA InitIInv == Init => IInv
<1> SUFFICES ASSUME Init PROVE IInv
  OBVIOUS
<1>1. TypeOK
  <2>1. log \in Seq([id : Ids, gone : BOOLEAN]) /\ NoLines \in [Ids -> Seq(Nat)]
    BY DEF Init, NoLines
  <2>2. disk \in Entry /\ entry \in Entry
    BY DEF Init, Entry, Tokens, Status
  <2> QED
    BY <2>1, <2>2 DEF Init, TypeOK, Tokens, Steps
<1>2. VouchInv /\ EntryInv /\ TailInv /\ FreshInv /\ ReadInv /\ WriteInv
  BY DEF Init, VouchInv, Vouched, EntryInv, TailInv, FreshInv, ReadInv, WriteInv, SyncSteps, CrawlSteps
<1>3. LogInv
  BY DEF Init, LogInv
<1> QED
  BY <1>1, <1>2, <1>3 DEF IInv

(* A change of the server is after every token and every page.              *)
LEMMA ChangeIInv ==
  ASSUME IInv, NEW i \in Ids, NEW gone \in BOOLEAN, Change(i, gone)
  PROVE  IInv'
<1> USE DEF IInv
<1>1. /\ log' \in Seq([id : Ids, gone : BOOLEAN]) /\ Len(log') = Len(log) + 1 /\ Len(log) \in Nat
      /\ \A t \in Nat : t <= Len(log) => ChangedSince(i, t)'
      /\ \A j \in Ids : j # i => Current(j)' = Current(j)
      /\ \A j \in Ids, t \in Nat : j # i => (ChangedSince(j, t)' <=> ChangedSince(j, t))
      /\ \A j \in Ids, t \in Nat : ChangedSince(j, t) => ChangedSince(j, t)'
  <2>1. TypeOK /\ Len(log) \in Nat
    BY DEF TypeOK
  <2> QED
    BY <2>1, ChangeSays
<1>2. UNCHANGED <<items, raw, disk, entry, pc, priming, last, token, batches, rows, deleted, twice,
                  exposed, fetched, blurred>>
  BY DEF Change, files, locals, reading, history
<1>3. TypeOK'
  BY <1>1, <1>2 DEF TypeOK
<1>4. /\ disk.token # NoToken => disk.token \in Nat /\ disk.token <= Len(log)
      /\ entry.token # NoToken => entry.token \in Nat /\ entry.token <= Len(log)
      /\ token # NoToken => token \in Nat /\ token <= Len(log)
      /\ \A j \in Ids : fetched[j] \in Nat /\ fetched[j] <= Len(log)
  BY DEF TypeOK, Entry, Tokens, LogInv
<1>5. \A t, n, whole :
         Vouched(t, n, whole) /\ (t # NoToken => t \in Nat /\ t <= Len(log)) => Vouched(t, n, whole)'
  BY <1>1, <1>2 DEF Vouched, Agree, UpToDateOf, Bare
<1>6. VouchInv'
  BY <1>2, <1>4, <1>5 DEF VouchInv
<1>7. EntryInv'
  BY <1>2 DEF EntryInv
<1>8. LogInv'
  BY <1>1, <1>2, <1>4 DEF LogInv
<1>9. TailInv'
  BY <1>1, <1>2, <1>4 DEF TailInv, Checkpoint, Bare
<1>10. FreshInv'
  BY <1>1, <1>2, <1>4 DEF FreshInv, Checkpoint, Agree, UpToDateOf
<1>11. ReadInv'
  <2>1. Seen' = Seen
    BY <1>2 DEF Seen, Changed
  <2> QED
    <3>1. pc \in SyncSteps => entry.token \in Nat /\ token \in Nat
      BY <1>4 DEF ReadInv
    <3>2. pc \notin SyncSteps \cup {"failed"} => rows = NoLines /\ deleted = {} /\ twice = {}
      BY DEF ReadInv
    <3>3. ASSUME pc \in SyncSteps, NEW j \in Ids \ twice, ~ChangedSince(j, token)'
          PROVE  IF j \in Seen THEN rows[j] = Current(j)' ELSE ~ChangedSince(j, entry.token)'
      <4>1. j # i /\ ~ChangedSince(j, token)
        BY <1>1, <1>2, <1>4, <3>1, <3>3 DEF ReadInv
      <4> QED
        BY <1>1, <1>2, <3>1, <3>3, <4>1 DEF ReadInv
    <3>4. pc \in SyncSteps => \A j \in Seen : j \in Ids /\ ChangedSince(j, entry.token)'
      BY <1>1, <1>2, <3>1 DEF ReadInv, Seen, Changed, TypeOK
    <3> QED
      BY <1>2, <2>1, <3>2, <3>3, <3>4 DEF ReadInv, NoLines
<1>12. WriteInv'
  BY <1>2 DEF WriteInv, Seen, Changed, Agree
<1> QED
  BY <1>3, <1>6, <1>7, <1>8, <1>9, <1>10, <1>11, <1>12

-----------------------------------------------------------------------------
(* A run begins: nothing but where it is and its locals.                    *)
LEMMA StartIInv == IInv /\ (StartCrawl \/ StartResume \/ StartSync \/ FallBack) => IInv'
<1> SUFFICES ASSUME IInv, StartCrawl \/ StartResume \/ StartSync \/ FallBack PROVE IInv'
  OBVIOUS
<1> USE DEF IInv
<1>1. /\ UNCHANGED <<log, items, raw, disk, entry, rows, deleted, twice, batches, exposed, fetched, blurred>>
      /\ pc = "idle"
  BY DEF StartCrawl, StartResume, StartSync, FallBack, files, reading, history
<1>2. \/ pc' = "reset" /\ last' = 0 /\ token' = token /\ priming' \in BOOLEAN
      \/ /\ pc' = "truncate" /\ last' = entry.last /\ priming' = FALSE /\ token' = token
         /\ entry.status # "complete" /\ entry.last # 0
      \/ /\ pc' = "changes" /\ last' = entry.last /\ token' = entry.token /\ priming' = priming
         /\ entry.status = "complete" /\ entry.token # NoToken
  BY DEF StartCrawl, StartResume, StartSync, FallBack, reading, CanSync, TypeOK
<1>3. TypeOK'
  <2>1. entry.last \in Nat /\ entry.token \in Tokens
    BY DEF TypeOK, Entry
  <2>2. pc' \in Steps /\ last' \in Nat /\ token' \in Tokens /\ priming' \in BOOLEAN
    <3>1. priming \in BOOLEAN /\ token \in Tokens
      BY DEF TypeOK
    <3>2. priming' \in BOOLEAN
      BY <1>2, <3>1
    <3>3. pc' \in Steps
      BY <1>2 DEF Steps
    <3> QED
      BY <1>2, <2>1, <3>1, <3>2, <3>3
  <2> QED
    BY <1>1, <2>2 DEF TypeOK
<1>4. VouchInv'
  BY <1>1, <1>2, SameFiles DEF VouchInv
<1>5. EntryInv'
  BY <1>1, <1>2 DEF EntryInv, CrawlSteps
<1>6. LogInv'
  BY <1>1, <1>2 DEF LogInv
<1>7. TailInv' /\ FreshInv'
  BY <1>1, <1>2 DEF TailInv, FreshInv, CrawlSteps
<1>8. ReadInv'
  <2>1. rows = NoLines /\ deleted = {} /\ twice = {} /\ Seen = {} /\ Seen' = {} /\ NoLines' = NoLines
    BY <1>1 DEF ReadInv, SyncSteps, Seen, Changed, NoLines
  <2>2. entry.token # NoToken => entry.token <= entry.token
    BY DEF TypeOK, Entry, Tokens
  <2> QED
    BY <1>1, <1>2, <2>1, <2>2, SameLog DEF ReadInv, SyncSteps
<1>9. WriteInv'
  BY <1>1, <1>2 DEF WriteInv
<1> QED
  BY <1>3, <1>4, <1>5, <1>6, <1>7, <1>8, <1>9

(* The files of a fresh run are unlinked, which the state file knows only   *)
(* if it had nothing to vouch for.                                          *)
LEMMA ResetIInv == IInv /\ Reset => IInv'
<1> SUFFICES ASSUME IInv, Reset PROVE IInv'
  OBVIOUS
<1> USE DEF IInv
<1>1. /\ UNCHANGED <<log, disk, entry, priming, last, rows, deleted, twice, token, batches, fetched, blurred>>
      /\ pc = "reset" /\ pc' = "begin" /\ items' = NoLines /\ raw' = NoLines
      /\ exposed' = (exposed \/ disk.last # 0) /\ last = 0
  BY DEF Reset, locals, reading, EntryInv
<1>2. \A i \in Ids : Bare(i)' /\ Agree(i)'
  BY <1>1 DEF Bare, Agree, NoLines
<1>3. TypeOK'
  BY <1>1 DEF TypeOK, Steps, NoLines
<1>4. VouchInv'
  <2> SUFFICES ASSUME ~exposed' PROVE Vouched(disk.token, disk.last, disk.status = "complete")'
    BY <1>1 DEF VouchInv
  <2>1. disk.last = 0 /\ Vouched(disk.token, disk.last, disk.status = "complete")
    BY <1>1 DEF VouchInv, TypeOK
  <2>2. disk' = disk /\ blurred' = blurred /\ disk \in Entry /\ disk.last \in Nat
    BY <1>1 DEF TypeOK, Entry
  <2> QED
    BY <1>1, <1>2, <2>1, <2>2, SameLog DEF Vouched, UpToDateOf, Bare, Agree, Ids
<1>5. EntryInv'
  BY <1>1 DEF EntryInv, CrawlSteps, TypeOK
<1>6. LogInv'
  BY <1>1 DEF LogInv
<1>7. TailInv' /\ FreshInv'
  BY <1>1, <1>2 DEF TailInv, FreshInv, CrawlSteps
<1>8. ReadInv'
  BY <1>1 DEF ReadInv, SyncSteps, NoLines
<1>9. WriteInv'
  BY <1>1 DEF WriteInv
<1> QED
  BY <1>3, <1>4, <1>5, <1>6, <1>7, <1>8, <1>9

(* A resumed run drops the lines above its checkpoint.                      *)
LEMMA TruncateIInv == IInv /\ Truncate => IInv'
<1> SUFFICES ASSUME IInv, Truncate PROVE IInv'
  OBVIOUS
<1> USE DEF IInv
<1>1. /\ UNCHANGED <<log, disk, entry, priming, last, rows, deleted, twice, token, batches, exposed, fetched, blurred>>
      /\ pc = "truncate" /\ pc' = "begin"
      /\ items' = KeepUpTo(items, last) /\ raw' = KeepUpTo(raw, last)
      /\ entry = disk /\ last = entry.last /\ last # 0 /\ entry.status # "complete" /\ ~priming
  BY DEF Truncate, locals, reading, history, EntryInv
<1>2. \A i \in Ids : /\ i > last => Bare(i)'
                     /\ i <= last => items'[i] = items[i] /\ raw'[i] = raw[i]
  BY <1>1 DEF Bare, KeepUpTo, Ids, TypeOK
<1>3. TypeOK'
  BY <1>1 DEF TypeOK, Steps, KeepUpTo
<1>4. VouchInv'
  BY <1>1, <1>2, SameLog DEF VouchInv, Vouched, UpToDateOf, Bare, Agree
<1>5. EntryInv'
  BY <1>1 DEF EntryInv, CrawlSteps
<1>6. LogInv'
  BY <1>1 DEF LogInv
<1>7. TailInv' /\ FreshInv'
  BY <1>1, <1>2 DEF TailInv, FreshInv, CrawlSteps, Checkpoint
<1>8. ReadInv'
  BY <1>1 DEF ReadInv, SyncSteps, NoLines
<1>9. WriteInv'
  BY <1>1 DEF WriteInv
<1> QED
  BY <1>3, <1>4, <1>5, <1>6, <1>7, <1>8, <1>9

(* Both outcomes of a save.                                                 *)
LEMMA Saving ==
  ASSUME TypeOK, NEW e \in Entry, NEW next \in Steps \ {"failed"}, UpdateAndSave(e, next)
  PROVE  /\ entry' = e /\ entry' \in Entry /\ disk' \in Entry /\ exposed' \in BOOLEAN
         /\ pc' \in {next, "failed"}
         /\ pc' = next => disk' = e /\ (exposed' <=> exposed /\ e.last # 0)
         /\ pc' = "failed" => disk' = disk /\ (exposed' <=> exposed)
<1>1. exposed \in BOOLEAN /\ disk \in Entry /\ exposed' \in BOOLEAN
  BY DEF UpdateAndSave, TypeOK
<1> QED
  BY <1>1 DEF UpdateAndSave

LEMMA BeginIInv == IInv /\ Begin => IInv'
<1> SUFFICES ASSUME IInv, Begin PROVE IInv'
  OBVIOUS
<1> USE DEF IInv
<1> DEFINE e == [entry EXCEPT !.status = "in_progress", !.last = last]
<1>1. /\ UNCHANGED <<log, items, raw, priming, last, rows, deleted, twice, token, batches, fetched, blurred>>
      /\ pc = "begin" /\ TypeOK /\ UpdateAndSave(e, "page")
      /\ last \in {0, entry.last} /\ last \in Nat
  BY DEF Begin, files, locals, reading, EntryInv, TypeOK
<1>2. /\ e \in Entry /\ entry \in Entry /\ disk \in Entry
      /\ e.status = "in_progress" /\ e.last = last /\ e.token = entry.token
  BY <1>1 DEF TypeOK, Entry, Status
<1> HIDE DEF e
<1>3. /\ entry' = e /\ entry' \in Entry /\ disk' \in Entry /\ exposed' \in BOOLEAN
      /\ pc' \in {"page", "failed"}
      /\ pc' = "page" => disk' = e /\ (exposed' <=> exposed /\ last # 0)
      /\ pc' = "failed" => disk' = disk /\ (exposed' <=> exposed)
  BY <1>1, <1>2, Saving DEF Steps
<1>4. TypeOK'
  BY <1>1, <1>3 DEF TypeOK, Steps
<1>5. last = 0 => Vouched(entry.token, last, FALSE)
  BY DEF Vouched, Ids
<1>6. last # 0 /\ ~exposed => Vouched(entry.token, last, FALSE)
  <2> SUFFICES ASSUME last # 0, ~exposed PROVE Vouched(entry.token, last, FALSE)
    OBVIOUS
  <2>1. entry = disk /\ last = disk.last /\ Vouched(disk.token, disk.last, disk.status = "complete")
    BY <1>1 DEF EntryInv, VouchInv
  <2> QED
    BY <2>1 DEF Vouched
<1>7. VouchInv'
  <2>1. ~exposed' => Vouched(entry.token, last, FALSE)'
    <3>1. ~exposed' => Vouched(entry.token, last, FALSE)
      BY <1>3, <1>5, <1>6
    <3>2. entry'.token = entry.token /\ last' = last
      BY <1>1, <1>2, <1>3
    <3> QED
      BY <1>1, <3>1, <3>2, SameFiles
  <2>2. CASE pc' = "page"
    <3>1. (disk'.status = "complete") = FALSE
      BY <1>2, <1>3, <2>2
    <3> QED
      BY <1>1, <1>2, <1>3, <2>1, <2>2, <3>1 DEF VouchInv
  <2>3. CASE pc' = "failed"
    BY <1>1, <1>2, <1>3, <2>1, <2>3, SameFiles DEF VouchInv
  <2> QED
    BY <1>3, <2>2, <2>3
<1>8. EntryInv'
  BY <1>1, <1>2, <1>3 DEF EntryInv, CrawlSteps
<1>9. LogInv'
  BY <1>1, <1>2, <1>3 DEF LogInv
<1>10. TailInv' /\ FreshInv'
  <2>1. \A i \in Ids : i > last => Bare(i)'
    BY <1>1, SameFiles DEF TailInv, Checkpoint
  <2>2. priming => last = 0
    BY <1>1 DEF EntryInv
  <2> QED
    BY <1>1, <1>3, <2>1, <2>2 DEF TailInv, FreshInv, CrawlSteps, Checkpoint, Agree, Bare, Ids
<1>11. ReadInv'
  BY <1>1, <1>3 DEF ReadInv, SyncSteps, NoLines
<1>12. WriteInv'
  BY <1>1, <1>3 DEF WriteInv
<1> QED
  BY <1>4, <1>7, <1>8, <1>9, <1>10, <1>11, <1>12

(* What the files should hold of an item is a sequence of versions.         *)
LEMMA CurrentIs ==
  ASSUME TypeOK, NEW i \in Ids
  PROVE  /\ Current(i) \in Seq(Nat) /\ <<>> \o Current(i) = Current(i)
         /\ Exists(i) <=> Current(i) # <<>>
<1>1. Exists(i) => Latest(i) \in Nat
  <2>1. Len(log) \in Nat
    BY DEF TypeOK
  <2> QED
    BY <2>1, LatestIs DEF Exists, ChangesOf
<1> QED
  BY <1>1 DEF Current

(* A page brings everything between the checkpoint before and after it, and *)
(* a short or an empty one everything above.                                *)
LEMMA PageSays ==
  ASSUME TypeOK, NEW ids, IsPage(ids), NEW maxId \in ids, \A i \in ids : i <= maxId
  PROVE  /\ ids \subseteq Ids /\ maxId \in Nat /\ last < maxId
         /\ \A i \in ids : i > last
         /\ \A i \in Ids : last < i /\ i <= maxId /\ i \notin ids => Current(i) = <<>>
         /\ Cardinality(ids) < RowLimit => \A i \in Ids : i > maxId => Current(i) = <<>>
<1>1. ids \subseteq Above(last) /\ last \in Nat /\ RowLimit \in Nat
  BY SyncAssumption DEF IsPage, TypeOK
<1>2. \A i \in Ids : last < i /\ i <= maxId /\ Exists(i) => i \in ids
  BY <1>1 DEF IsPage, Above, Ids
<1>3. Cardinality(ids) < RowLimit => ids = Above(last)
  BY <1>1 DEF IsPage
<1>4. Cardinality(ids) < RowLimit => \A i \in Ids : i > maxId => ~Exists(i)
  BY <1>1, <1>3 DEF Above, Ids
<1> QED
  BY <1>1, <1>2, <1>4 DEF Above, Ids, Current

LEMMA LastPageSays ==
  ASSUME TypeOK, IsPage({})
  PROVE  \A i \in Ids : i > last => Current(i) = <<>>
<1>1. Cardinality({}) # RowLimit
  BY FS_EmptySet, SyncAssumption
<1> QED
  BY <1>1 DEF IsPage, Above, Current

LEMMA LastPageIInv == IInv /\ LastPage => IInv'
<1> SUFFICES ASSUME IInv, LastPage PROVE IInv'
  OBVIOUS
<1> USE DEF IInv
<1>1. /\ UNCHANGED <<log, items, raw, disk, entry, priming, last, rows, deleted, twice, token, batches, exposed>>
      /\ pc = "page" /\ pc' = "finish" /\ LookedAt
      /\ last = entry.last /\ entry = disk /\ entry.status = "in_progress"
      /\ last \in Nat /\ Len(log) \in Nat /\ TypeOK
  BY DEF LastPage, files, locals, reading, EntryInv, CrawlSteps, TypeOK
<1>2. \A i \in Ids : i > last => Current(i) = <<>> /\ Bare(i)
  BY <1>1, LastPageSays DEF LastPage, TailInv, CrawlSteps, Checkpoint
<1>3. /\ fetched' \in [Ids -> Nat] /\ blurred' \in SUBSET Ids
      /\ \A i \in Ids : /\ i > last => fetched'[i] = Len(log) /\ i \notin blurred'
                        /\ i <= last => fetched'[i] = fetched[i] /\ (i \in blurred' <=> i \in blurred)
  BY <1>1 DEF LookedAt, TypeOK, Ids
<1>4. TypeOK'
  BY <1>1, <1>3 DEF TypeOK, Steps
<1>5. VouchInv'
  <2> SUFFICES ASSUME ~exposed PROVE Vouched(disk.token, disk.last, disk.status = "complete")'
    BY <1>1 DEF VouchInv
  <2>1. Vouched(disk.token, disk.last, disk.status = "complete")
    BY DEF VouchInv
  <2> QED
    BY <1>1, <1>3, <2>1, SameLog DEF Vouched, Agree, UpToDateOf, Bare
<1>6. EntryInv'
  BY <1>1 DEF EntryInv, CrawlSteps
<1>7. LogInv'
  BY <1>1, <1>3 DEF LogInv, Ids
<1>8. TailInv'
  <2>1. entry.token # NoToken => entry.token <= Len(log)
    BY DEF LogInv
  <2> QED
    BY <1>1, <1>2, <1>3, <2>1, SameLog DEF TailInv, CrawlSteps, Checkpoint, Bare
<1>9. FreshInv'
  BY <1>1, <1>3, SameLog DEF FreshInv, CrawlSteps, Checkpoint, Agree, UpToDateOf
<1>10. ReadInv' /\ WriteInv'
  BY <1>1 DEF ReadInv, WriteInv, SyncSteps, NoLines
<1> QED
  BY <1>4, <1>5, <1>6, <1>7, <1>8, <1>9, <1>10

LEMMA PageIInv ==
  ASSUME IInv, NEW ids, NEW maxId \in ids, Page(ids, maxId)
  PROVE  IInv'
<1> USE DEF IInv
<1> DEFINE e == [entry EXCEPT !.status = "in_progress", !.last = maxId]
           next == IF Cardinality(ids) < RowLimit THEN "finish" ELSE "page"
<1>1. /\ UNCHANGED <<log, priming, rows, deleted, twice, token, batches>>
      /\ pc = "page" /\ LookedAt /\ UpdateAndSave(e, next) /\ last' = maxId
      /\ last = entry.last /\ entry = disk /\ entry.status = "in_progress"
      /\ last \in Nat /\ Len(log) \in Nat /\ TypeOK /\ IsPage(ids) /\ \A i \in ids : i <= maxId
  BY DEF Page, reading, EntryInv, CrawlSteps, TypeOK
<1>2. /\ ids \subseteq Ids /\ maxId \in Nat /\ last < maxId
      /\ \A i \in ids : i > last
      /\ \A i \in Ids : last < i /\ i <= maxId /\ i \notin ids => Current(i) = <<>>
      /\ next = "finish" => \A i \in Ids : i > maxId => Current(i) = <<>>
  BY <1>1, PageSays
<1>3. /\ e \in Entry /\ entry \in Entry /\ disk \in Entry /\ next \in {"finish", "page"}
      /\ e.status = "in_progress" /\ e.last = maxId /\ e.token = entry.token
  BY <1>1, <1>2 DEF TypeOK, Entry, Status
<1> HIDE DEF e, next
<1>4. /\ entry' = e /\ entry' \in Entry /\ disk' \in Entry /\ exposed' \in BOOLEAN
      /\ pc' \in {next, "failed"} /\ maxId # 0
      /\ pc' = next => disk' = e
      /\ pc' = "failed" => disk' = disk
      /\ exposed' <=> exposed
  BY <1>1, <1>2, <1>3, Saving DEF Steps
<1>5. \A i \in Ids :
         /\ i <= last => items'[i] = items[i] /\ raw'[i] = raw[i]
         /\ last < i /\ i <= maxId => items'[i] = Current(i) /\ raw'[i] = Current(i)
         /\ i > maxId => Bare(i)'
  <2> TAKE i \in Ids
  <2>1. i \notin ids => items'[i] = items[i] /\ raw'[i] = raw[i]
    BY DEF Page
  <2>2. i > last => items[i] = <<>> /\ raw[i] = <<>>
    BY <1>1 DEF TailInv, CrawlSteps, Checkpoint, Bare
  <2>3. i \in ids => items'[i] = Current(i) /\ raw'[i] = Current(i)
    BY <1>1, <1>2, <2>2, CurrentIs DEF Page
  <2> QED
    BY <1>1, <1>2, <2>1, <2>2, <2>3 DEF Bare, Ids
<1>6. items' \in [Ids -> Seq(Nat)] /\ raw' \in [Ids -> Seq(Nat)]
  <2>1. \A i \in Ids : items[i] \o Current(i) \in Seq(Nat) /\ raw[i] \o Current(i) \in Seq(Nat)
    BY <1>1, CurrentIs DEF TypeOK
  <2>2. items \in [Ids -> Seq(Nat)] /\ raw \in [Ids -> Seq(Nat)]
    BY DEF TypeOK
  <2> QED
    BY <2>1, <2>2 DEF Page
<1>7. /\ fetched' \in [Ids -> Nat] /\ blurred' \in SUBSET Ids
      /\ \A i \in Ids : /\ i > last => fetched'[i] = Len(log) /\ i \notin blurred'
                        /\ i <= last => fetched'[i] = fetched[i] /\ (i \in blurred' <=> i \in blurred)
  BY <1>1 DEF LookedAt, TypeOK, Ids
<1>8. TypeOK'
  BY <1>1, <1>2, <1>3, <1>4, <1>6, <1>7 DEF TypeOK, Steps
<1>9. ASSUME ~exposed, NEW n, n \in {last, maxId} PROVE Vouched(entry.token, n, FALSE)'
  <2>1. Vouched(entry.token, last, disk.status = "complete")
    BY <1>1, <1>9 DEF VouchInv
  <2>2. entry.token # NoToken =>
          \A i \in Ids : ~ChangedSince(i, entry.token) /\ i <= maxId =>
             /\ Agree(i)'
             /\ i \notin blurred' => UpToDateOf(i)'
    BY <1>1, <1>2, <1>5, <1>7, <2>1, SameLog DEF Vouched, Agree, UpToDateOf, Ids
  <2>3. \A i \in Ids : (i <= n => i <= maxId) /\ ~(i <= n /\ i > n)
    BY <1>1, <1>2, <1>9 DEF Ids
  <2>4. entry'.token = entry.token
    BY <1>3, <1>4
  <2> QED
    BY <1>1, <2>2, <2>3, <2>4, SameLog DEF Vouched
<1>10. VouchInv'
  <2>1. CASE pc' = next
    <3>1. (disk'.status = "complete") = FALSE /\ disk'.token = entry.token /\ disk'.last = maxId
      BY <1>3, <1>4, <2>1
    <3> QED
      BY <1>3, <1>4, <1>9, <2>1, <3>1 DEF VouchInv
  <2>2. CASE pc' = "failed"
    <3>1. /\ (disk'.status = "complete") = FALSE /\ disk'.token = entry.token /\ disk'.last = last
          /\ entry'.token = entry.token /\ entry'.last = maxId
      BY <1>1, <1>3, <1>4, <2>2
    <3>2. ~exposed' => Vouched(disk.token, disk.last, FALSE)'
      BY <1>4, <1>9, <3>1
    <3>3. ~exposed' => Vouched(entry.token, entry.last, FALSE)'
      BY <1>4, <1>9, <3>1
    <3> QED
      BY <1>4, <3>1, <3>2, <3>3 DEF VouchInv
  <2> QED
    BY <1>4, <2>1, <2>2
<1>11. EntryInv'
  BY <1>1, <1>2, <1>3, <1>4 DEF EntryInv, CrawlSteps
<1>12. LogInv'
  <2>1. \A i \in Ids : fetched'[i] <= Len(log)
    <3>1. \A i \in Ids : i <= last \/ i > last
      BY <1>1 DEF Ids
    <3>2. \A i \in Ids : fetched[i] <= Len(log)
      BY DEF LogInv
    <3> QED
      BY <1>1, <1>7, <3>1, <3>2
  <2> QED
    BY <1>1, <1>3, <1>4, <2>1 DEF LogInv
<1>13. TailInv'
  <2>1. entry'.token # NoToken => entry'.token <= Len(log)
    BY <1>3, <1>4 DEF LogInv
  <2>2. \A i \in Ids : i > maxId => i \notin blurred' /\ fetched'[i] = Len(log)
    BY <1>1, <1>2, <1>7 DEF Ids
  <2>3. pc' = "finish" => \A i \in Ids : i > maxId => Current(i)' = <<>>
    BY <1>1, <1>2, <1>3, <1>4, SameLog
  <2> QED
    BY <1>1, <1>3, <1>4, <1>5, <2>1, <2>2, <2>3 DEF TailInv, CrawlSteps, Checkpoint
<1>14. FreshInv'
  <2> SUFFICES ASSUME priming, NEW i \in Ids
               PROVE  Agree(i)' /\ (i <= maxId /\ ~ChangedSince(i, fetched[i])' => UpToDateOf(i)')
    BY <1>1, <1>3, <1>4 DEF FreshInv, CrawlSteps, Checkpoint
  <2>1. CASE i <= last
    BY <1>1, <1>5, <1>7, <2>1, SameLog DEF FreshInv, CrawlSteps, Checkpoint, Agree, UpToDateOf
  <2>2. CASE last < i /\ i <= maxId
    BY <1>1, <1>5, <2>2, SameLog DEF Agree, UpToDateOf
  <2>3. CASE i > maxId
    BY <1>2, <1>5, <2>3 DEF Agree, Bare, Ids
  <2> QED
    BY <1>1, <1>2, <2>1, <2>2, <2>3 DEF Ids
<1>15. ReadInv' /\ WriteInv'
  BY <1>1, <1>3, <1>4 DEF ReadInv, WriteInv, SyncSteps, NoLines
<1> QED
  BY <1>8, <1>10, <1>11, <1>12, <1>13, <1>14, <1>15

(* The list is marked complete: what no page brought the log does not have, *)
(* but for changes after the token.                                         *)
LEMMA FinishIInv == IInv /\ Finish => IInv'
<1> SUFFICES ASSUME IInv, Finish PROVE IInv'
  OBVIOUS
<1> USE DEF IInv
<1> DEFINE e == [entry EXCEPT !.status = "complete", !.last = last]
           next == IF priming THEN "prime" ELSE "idle"
<1>1. /\ UNCHANGED <<log, items, raw, fetched, blurred>>
      /\ pc = "finish" /\ UpdateAndSave(e, next)
      /\ last = entry.last /\ entry = disk /\ entry.status = "in_progress"
      /\ last \in Nat /\ Len(log) \in Nat /\ TypeOK
      /\ priming' = FALSE /\ last' = 0 /\ token' = NoToken /\ batches' = 0
      /\ rows' = NoLines /\ deleted' = {} /\ twice' = {}
  BY DEF Finish, files, LocalsGone, NothingRead, EntryInv, CrawlSteps, TypeOK
<1>2. /\ e \in Entry /\ entry \in Entry /\ disk \in Entry /\ next \in {"prime", "idle"}
      /\ e.status = "complete" /\ e.last = last /\ e.token = entry.token
      /\ next = "prime" => priming
  BY <1>1 DEF TypeOK, Entry, Status
<1> HIDE DEF e, next
<1>3. /\ entry' = e /\ entry' \in Entry /\ disk' \in Entry /\ exposed' \in BOOLEAN
      /\ pc' \in {next, "failed"}
      /\ pc' = next => disk' = e /\ (exposed' <=> exposed /\ last # 0)
      /\ pc' = "failed" => disk' = disk /\ (exposed' <=> exposed)
  BY <1>1, <1>2, Saving DEF Steps
<1>4. TypeOK'
  <2>1. NoToken \in Tokens /\ NoLines \in [Ids -> Seq(Nat)]
    BY DEF Tokens, NoLines
  <2> QED
    BY <1>1, <1>2, <1>3, <2>1 DEF TypeOK, Steps
<1>5. /\ \A i \in Ids : i > last => Bare(i) /\ Agree(i)
      /\ entry.token # NoToken =>
           \A i \in Ids : i > last /\ ~ChangedSince(i, entry.token) => UpToDateOf(i)
  <2>1. \A i \in Ids : i > last => Bare(i) /\ Agree(i)
    BY <1>1 DEF TailInv, CrawlSteps, Checkpoint, Bare, Agree
  <2>2. ASSUME NEW i \in Ids, i > last, entry.token # NoToken, ~ChangedSince(i, entry.token)
        PROVE  UpToDateOf(i)
    <3>1. /\ entry.token <= fetched[i]
          /\ ~ChangedSince(i, fetched[i]) => Current(i) = <<>>
      BY <1>1, <2>2 DEF TailInv, Checkpoint
    <3>2. entry.token \in Nat /\ fetched[i] \in Nat /\ ChangesOf(i) \subseteq Nat
      BY <1>1, <1>2, <2>2 DEF TypeOK, Entry, Tokens, ChangesOf
    <3>3. ~ChangedSince(i, fetched[i])
      BY <2>2, <3>1, <3>2 DEF ChangedSince
    <3> QED
      BY <2>1, <2>2, <3>1, <3>3 DEF UpToDateOf, Bare
  <2> QED
    BY <2>1, <2>2
<1>6. ~exposed \/ last = 0 => Vouched(entry.token, last, TRUE) /\ Vouched(entry.token, last, FALSE)
  <2> SUFFICES ASSUME ~exposed \/ last = 0, entry.token # NoToken,
                      NEW i \in Ids, ~ChangedSince(i, entry.token)
               PROVE  /\ Agree(i)
                      /\ i \notin blurred => UpToDateOf(i)
                      /\ i > last => Bare(i)
    BY DEF Vouched
  <2>1. CASE i > last
    BY <1>5, <2>1
  <2>2. CASE i <= last
    <3>1. last # 0
      BY <2>2 DEF Ids
    <3>2. Vouched(entry.token, last, disk.status = "complete")
      BY <1>1, <3>1 DEF VouchInv
    <3> QED
      BY <1>1, <2>2, <3>2 DEF Vouched, Ids
  <2> QED
    BY <1>1, <2>1, <2>2 DEF Ids
<1>7. VouchInv'
  <2>1. CASE pc' = next
    <3>1. (disk'.status = "complete") = TRUE /\ disk'.token = entry.token /\ disk'.last = last
      BY <1>2, <1>3, <2>1
    <3>2. ~exposed' => Vouched(entry.token, last, TRUE)
      BY <1>3, <1>6, <2>1
    <3> QED
      BY <1>1, <1>2, <2>1, <3>1, <3>2, SameFiles DEF VouchInv
  <2>2. CASE pc' = "failed"
    <3>1. /\ disk' = disk /\ entry'.token = entry.token /\ entry'.last = last
      BY <1>2, <1>3, <2>2
    <3>2. ~exposed' => Vouched(disk.token, disk.last, disk.status = "complete") /\ Vouched(entry.token, last, FALSE)
      BY <1>3, <1>6, <2>2 DEF VouchInv
    <3> QED
      BY <1>1, <2>2, <3>1, <3>2, SameFiles DEF VouchInv
  <2> QED
    BY <1>3, <2>1, <2>2
<1>8. EntryInv'
  BY <1>1, <1>2, <1>3 DEF EntryInv, CrawlSteps
<1>9. LogInv'
  BY <1>1, <1>2, <1>3 DEF LogInv
<1>10. TailInv'
  <2>1. \A i \in Ids : i > last => /\ i \notin blurred /\ Bare(i)
                                   /\ ~ChangedSince(i, fetched[i]) => Current(i) = <<>>
    BY <1>1 DEF TailInv, CrawlSteps, Checkpoint
  <2>2. \A i \in Ids : i > last => /\ i \notin blurred' /\ Bare(i)'
                                   /\ ~ChangedSince(i, fetched[i])' => Current(i)' = <<>>
    BY <1>1, <2>1, SameFiles, SameLog
  <2> QED
    BY <1>1, <1>2, <1>3, <2>2 DEF TailInv, CrawlSteps, Checkpoint
<1>11. FreshInv'
  <2>1. pc' = "prime" => \A i \in Ids : /\ Agree(i)
                                        /\ i <= last /\ ~ChangedSince(i, fetched[i]) => UpToDateOf(i)
    BY <1>1, <1>2, <1>3 DEF FreshInv, CrawlSteps, Checkpoint
  <2>2. pc' = "prime" => \A i \in Ids : /\ Agree(i)'
                                        /\ i <= last /\ ~ChangedSince(i, fetched[i])' => UpToDateOf(i)'
    BY <1>1, <2>1, SameFiles, SameLog
  <2> QED
    BY <1>1, <1>2, <1>3, <2>2 DEF FreshInv, Checkpoint
<1>12. ReadInv' /\ WriteInv'
  BY <1>1, <1>2, <1>3 DEF ReadInv, WriteInv, SyncSteps, NoLines
<1> QED
  BY <1>4, <1>7, <1>8, <1>9, <1>10, <1>11, <1>12

(* A token asked for after the crawl vouches for all the crawl has read,    *)
(* but for the items that changed after their page.                         *)
LEMMA PrimeIInv == IInv /\ Prime => IInv'
<1> SUFFICES ASSUME IInv, Prime PROVE IInv'
  OBVIOUS
<1> USE DEF IInv
<1> DEFINE e == [entry EXCEPT !.token = Len(log)]
<1>1. /\ UNCHANGED <<log, items, raw, priming, last, rows, deleted, twice, token, batches, fetched>>
      /\ pc = "prime" /\ UpdateAndSave(e, "idle") /\ blurred' = blurred \cup MissedBy(Len(log))
      /\ entry = disk /\ Len(log) \in Nat /\ TypeOK
  BY DEF Prime, files, locals, reading, EntryInv, TypeOK
<1>2. /\ e \in Entry /\ entry \in Entry /\ disk \in Entry
      /\ e.status = entry.status /\ e.last = entry.last /\ e.token = Len(log)
      /\ entry.last \in Nat
  BY <1>1 DEF TypeOK, Entry, Tokens
<1> HIDE DEF e
<1>3. /\ entry' = e /\ entry' \in Entry /\ disk' \in Entry /\ exposed' \in BOOLEAN
      /\ pc' \in {"idle", "failed"}
      /\ pc' = "idle" => disk' = e
      /\ pc' = "failed" => disk' = disk
      /\ exposed' <=> exposed
  <2>1. exposed => entry.last # 0
    BY <1>1 DEF EntryInv
  <2> QED
    BY <1>1, <1>2, <2>1, Saving DEF Steps
<1>4. TypeOK'
  BY <1>1, <1>3 DEF TypeOK, Steps, MissedBy
<1>5. \A i \in Ids \ blurred' : i \notin blurred /\ ~ChangedSince(i, fetched[i])
  BY <1>1 DEF MissedBy, ChangedSince, ChangesOf
<1>6. \A i \in Ids : /\ Agree(i)
                     /\ i \notin blurred' => UpToDateOf(i)
                     /\ i \notin blurred' /\ i > entry.last => Bare(i)
  <2> TAKE i \in Ids
  <2>1. Agree(i) /\ (i <= entry.last /\ ~ChangedSince(i, fetched[i]) => UpToDateOf(i))
    BY <1>1 DEF FreshInv, Checkpoint
  <2>2. i > entry.last => Bare(i) /\ (~ChangedSince(i, fetched[i]) => Current(i) = <<>>)
    BY <1>1 DEF TailInv, Checkpoint
  <2>3. i <= entry.last \/ i > entry.last
    BY <1>2 DEF Ids
  <2> QED
    BY <1>5, <2>1, <2>2, <2>3 DEF UpToDateOf, Bare
<1>7. \A t, whole : Vouched(t, entry.last, whole)'
  <2> SUFFICES ASSUME NEW i \in Ids
               PROVE  /\ Agree(i)'
                      /\ i \notin blurred' => UpToDateOf(i)'
                      /\ i \notin blurred' /\ i > entry'.last => Bare(i)'
    BY DEF Vouched
  <2> QED
    BY <1>1, <1>2, <1>3, <1>6, SameLog DEF Agree, UpToDateOf, Bare
<1>8. VouchInv'
  BY <1>1, <1>2, <1>3, <1>7 DEF VouchInv
<1>9. EntryInv'
  BY <1>1, <1>2, <1>3 DEF EntryInv, CrawlSteps
<1>10. LogInv'
  <2>1. Len(log) <= Len(log)
    BY <1>1
  <2> QED
    BY <1>1, <1>2, <1>3, <2>1 DEF LogInv
<1>11. TailInv' /\ FreshInv' /\ ReadInv' /\ WriteInv'
  BY <1>1, <1>3 DEF TailInv, FreshInv, ReadInv, WriteInv, CrawlSteps, SyncSteps, NoLines
<1> QED
  BY <1>4, <1>8, <1>9, <1>10, <1>11

LEMMA PrimeFailsIInv == IInv /\ PrimeFails => IInv'
<1> SUFFICES ASSUME IInv, PrimeFails PROVE IInv'
  OBVIOUS
<1> USE DEF IInv
<1>1. /\ UNCHANGED <<log, items, raw, disk, entry, priming, last, rows, deleted, twice, token, batches,
                     exposed, fetched, blurred>>
      /\ pc = "prime" /\ pc' = "idle"
  BY DEF PrimeFails, files, locals, reading, history
<1>2. TypeOK'
  BY <1>1 DEF TypeOK, Steps
<1>3. VouchInv'
  BY <1>1, SameFiles DEF VouchInv
<1>4. EntryInv' /\ LogInv'
  BY <1>1 DEF EntryInv, LogInv, CrawlSteps
<1>5. TailInv' /\ FreshInv' /\ ReadInv' /\ WriteInv'
  BY <1>1 DEF TailInv, FreshInv, ReadInv, WriteInv, CrawlSteps, SyncSteps, NoLines
<1> QED
  BY <1>2, <1>3, <1>4, <1>5

(* An exception leaves everything to the handler, a forgotten token nothing *)
(* to vouch for.                                                            *)
LEMMA RaiseIInv == IInv /\ Raise => IInv'
<1> SUFFICES ASSUME IInv, Raise PROVE IInv'
  OBVIOUS
<1> USE DEF IInv
<1>1. /\ UNCHANGED <<log, items, raw, disk, entry, priming, last, rows, deleted, twice, token, batches,
                     exposed, fetched, blurred>>
      /\ pc # "failed" /\ pc' = "failed"
  BY DEF Raise, files, locals, reading, history
<1>2. TypeOK'
  BY <1>1 DEF TypeOK, Steps
<1>3. ~exposed => Vouched(entry.token, entry.last, FALSE)
  <2>1. CASE entry = disk
    BY <2>1 DEF VouchInv, Vouched
  <2>2. CASE entry = [disk EXCEPT !.token = NoToken]
    <3>1. entry.token = NoToken
      BY <2>2 DEF TypeOK, Entry
    <3> QED
      BY <3>1 DEF Vouched
  <2> QED
    BY <1>1, <2>1, <2>2 DEF EntryInv
<1>4. VouchInv'
  BY <1>1, <1>3, SameFiles DEF VouchInv
<1>5. EntryInv' /\ LogInv'
  BY <1>1 DEF EntryInv, LogInv, CrawlSteps
<1>6. TailInv' /\ FreshInv' /\ ReadInv' /\ WriteInv'
  BY <1>1 DEF TailInv, FreshInv, ReadInv, WriteInv, CrawlSteps, SyncSteps, NoLines
<1> QED
  BY <1>2, <1>4, <1>5, <1>6

LEMMA TokenRejectedIInv == IInv /\ TokenRejected => IInv'
<1> SUFFICES ASSUME IInv, TokenRejected PROVE IInv'
  OBVIOUS
<1> USE DEF IInv
<1>1. /\ UNCHANGED <<log, items, raw, disk, exposed, fetched, blurred>>
      /\ pc = "changes" /\ pc' = "reset" /\ last' = 0 /\ priming' = TRUE
      /\ entry' = [entry EXCEPT !.token = NoToken] /\ entry = disk
      /\ token' = NoToken /\ batches' = 0 /\ rows' = NoLines /\ deleted' = {} /\ twice' = {}
  BY DEF TokenRejected, files, history, NothingRead, EntryInv
<1>2. entry' \in Entry /\ entry'.token = NoToken
  BY <1>1 DEF TypeOK, Entry, Tokens
<1>3. TypeOK'
  <2>1. NoToken \in Tokens /\ NoLines \in [Ids -> Seq(Nat)]
    BY DEF Tokens, NoLines
  <2> QED
    BY <1>1, <1>2, <2>1 DEF TypeOK, Steps
<1>4. VouchInv'
  BY <1>1, SameFiles DEF VouchInv
<1>5. EntryInv'
  BY <1>1, <1>2 DEF EntryInv, CrawlSteps
<1>6. LogInv'
  BY <1>1, <1>2 DEF LogInv
<1>7. TailInv' /\ FreshInv' /\ ReadInv' /\ WriteInv'
  BY <1>1 DEF TailInv, FreshInv, ReadInv, WriteInv, CrawlSteps, SyncSteps, NoLines
<1> QED
  BY <1>3, <1>4, <1>5, <1>6, <1>7

(* What the handler writes is vouched for; a kill leaves the state file.    *)
LEMMA MarkFailedIInv == IInv /\ MarkFailed => IInv'
<1> SUFFICES ASSUME IInv, MarkFailed PROVE IInv'
  OBVIOUS
<1> USE DEF IInv
<1> DEFINE e == [entry EXCEPT !.status = "failed"]
<1>1. /\ UNCHANGED <<log, items, raw, fetched, blurred>>
      /\ pc = "failed" /\ pc' = "idle" /\ entry' = e /\ disk' = e
      /\ exposed' = (exposed /\ e.last # 0)
      /\ priming' = FALSE /\ last' = 0 /\ token' = NoToken /\ batches' = 0
      /\ rows' = NoLines /\ deleted' = {} /\ twice' = {}
  BY DEF MarkFailed, files, LocalsGone, NothingRead
<1>2. /\ e \in Entry /\ (e.status = "complete") = FALSE
      /\ e.last = entry.last /\ e.token = entry.token
  BY DEF TypeOK, Entry, Status
<1> HIDE DEF e
<1>3. exposed' \in BOOLEAN /\ (exposed' <=> exposed /\ e.last # 0)
  BY <1>1
<1>4. TypeOK'
  <2>1. NoToken \in Tokens /\ NoLines \in [Ids -> Seq(Nat)]
    BY DEF Tokens, NoLines
  <2> QED
    BY <1>1, <1>2, <1>3, <2>1 DEF TypeOK, Steps
<1>5. ~exposed' => Vouched(entry.token, entry.last, FALSE)
  <2>1. CASE exposed
    BY <1>2, <1>3, <2>1 DEF Vouched, Ids
  <2>2. CASE ~exposed
    BY <1>1, <2>2 DEF VouchInv
  <2> QED
    BY <2>1, <2>2
<1>6. VouchInv'
  <2>1. disk'.token = entry.token /\ disk'.last = entry.last /\ (disk'.status = "complete") = FALSE
    BY <1>1, <1>2
  <2> QED
    BY <1>1, <1>5, <2>1, SameFiles DEF VouchInv
<1>7. EntryInv'
  BY <1>1, <1>2, <1>3 DEF EntryInv, CrawlSteps
<1>8. LogInv'
  BY <1>1, <1>2 DEF LogInv
<1>9. TailInv' /\ FreshInv' /\ ReadInv' /\ WriteInv'
  BY <1>1 DEF TailInv, FreshInv, ReadInv, WriteInv, CrawlSteps, SyncSteps, NoLines
<1> QED
  BY <1>4, <1>6, <1>7, <1>8, <1>9

LEMMA InterruptIInv == IInv /\ Interrupt => IInv'
<1> SUFFICES ASSUME IInv, Interrupt PROVE IInv'
  OBVIOUS
<1> USE DEF IInv
<1>1. /\ UNCHANGED <<log, items, raw, disk, exposed, fetched, blurred>>
      /\ pc' = "idle" /\ entry' = disk
      /\ priming' = FALSE /\ last' = 0 /\ token' = NoToken /\ batches' = 0
      /\ rows' = NoLines /\ deleted' = {} /\ twice' = {}
  BY DEF Interrupt, files, LocalsGone, NothingRead, history
<1>2. TypeOK'
  <2>1. NoToken \in Tokens /\ NoLines \in [Ids -> Seq(Nat)]
    BY DEF Tokens, NoLines
  <2> QED
    BY <1>1, <2>1 DEF TypeOK, Steps
<1>3. VouchInv'
  BY <1>1, SameFiles DEF VouchInv
<1>4. EntryInv' /\ LogInv'
  BY <1>1 DEF EntryInv, LogInv, CrawlSteps
<1>5. TailInv' /\ FreshInv' /\ ReadInv' /\ WriteInv'
  BY <1>1 DEF TailInv, FreshInv, ReadInv, WriteInv, CrawlSteps, SyncSteps, NoLines
<1> QED
  BY <1>2, <1>3, <1>4, <1>5

LEMMA StutterIInv == IInv /\ UNCHANGED vars => IInv'
<1> SUFFICES ASSUME IInv, UNCHANGED vars PROVE IInv'
  OBVIOUS
<1> USE DEF IInv
<1>1. UNCHANGED <<log, items, raw, disk, entry, pc, priming, last, rows, deleted, twice, token, batches,
                  exposed, fetched, blurred>>
  BY DEF vars, files, locals, reading, history
<1>2. TypeOK' /\ EntryInv' /\ LogInv'
  BY <1>1 DEF TypeOK, EntryInv, LogInv
<1>3. VouchInv'
  BY <1>1, SameFiles DEF VouchInv
<1>4. TailInv' /\ FreshInv'
  BY <1>1, SameLog DEF TailInv, FreshInv, Checkpoint, Agree, UpToDateOf, Bare
<1>5. ReadInv' /\ WriteInv'
  BY <1>1, SameLog DEF ReadInv, WriteInv, Seen, Changed, NoLines, Agree
<1> QED
  BY <1>2, <1>3, <1>4, <1>5

-----------------------------------------------------------------------------
(* While a sync runs, a checkpoint vouches for nothing it has seen.         *)
LEMMA SeenIsOpen ==
  ASSUME IInv, pc \in SyncSteps
  PROVE  /\ entry = disk /\ disk.status = "complete"
         /\ disk.token # NoToken /\ Seen \subseteq Ids
         /\ \A i \in Seen : ChangedSince(i, disk.token)
  BY DEF IInv, EntryInv, ReadInv, SyncSteps, Seen, Changed, TypeOK

LEMMA ReadBatchIInv == IInv /\ ReadBatch => IInv'
<1> SUFFICES ASSUME IInv, ReadBatch PROVE IInv'
  OBVIOUS
<1> USE DEF IInv
<1> DEFINE ids == ChangedIn(token, BatchEnd)
<1>1. /\ UNCHANGED <<log, items, raw, disk, entry, priming, last, exposed, fetched, blurred>>
      /\ pc = "changes" /\ pc' \in {"changes", "drop_items"}
      /\ rows' = [i \in Ids |-> IF i \in ids THEN rows[i] \o Current(i) ELSE rows[i]]
      /\ deleted' = deleted \cup DeletedIn(token, BatchEnd)
      /\ twice' = twice \cup (Seen \cap ids)
      /\ token' = BatchEnd /\ batches' = batches + 1 /\ TypeOK
  BY DEF ReadBatch, files, locals, history
<1>2. /\ token \in Nat /\ entry.token \in Nat /\ entry.token <= token
      /\ BatchEnd \in Nat /\ token <= BatchEnd /\ BatchEnd <= Len(log) /\ Len(log) \in Nat
  <2>1. token \in Nat /\ entry.token \in Nat /\ entry.token <= token /\ token <= Len(log) /\ Len(log) \in Nat
    BY <1>1 DEF ReadInv, SyncSteps, TypeOK, Entry, Tokens, LogInv
  <2>2. RowLimit \in Nat
    BY SyncAssumption
  <2> QED
    BY <2>1, <2>2 DEF BatchEnd
<1>3. /\ ids \subseteq Ids /\ DeletedIn(token, BatchEnd) \subseteq ids
      /\ \A i \in Ids : ChangedSince(i, token) => i \in ids \/ ChangedSince(i, BatchEnd)
      /\ \A i \in ids : ChangesOf(i) # {} /\ ChangedSince(i, token) /\ ChangedSince(i, entry.token)
  <2>1. \A i : ChangesOf(i) \subseteq Nat
    BY DEF ChangesOf
  <2> QED
    BY <1>2, <2>1 DEF ChangedIn, DeletedIn, ChangedSince
<1>4. \A i \in Ids : Current(i) \in Seq(Nat) /\ (Exists(i) <=> Current(i) # <<>>) /\ <<>> \o Current(i) = Current(i)
  BY <1>1, CurrentIs
<1>5. /\ rows \in [Ids -> Seq(Nat)] /\ deleted \in SUBSET Ids /\ twice \in SUBSET Ids /\ batches \in Nat
      /\ twice \subseteq Seen
      /\ \A i \in Seen : ChangedSince(i, entry.token)
      /\ \A i \in Ids \ twice : ~ChangedSince(i, token) =>
            IF i \in Seen THEN rows[i] = Current(i) ELSE ~ChangedSince(i, entry.token)
  BY <1>1 DEF TypeOK, ReadInv, SyncSteps
<1> HIDE DEF ids
<1>6. TypeOK'
  <2>1. rows' \in [Ids -> Seq(Nat)]
    <3>1. \A i \in Ids : rows[i] \o Current(i) \in Seq(Nat)
      BY <1>4, <1>5
    <3> QED
      BY <1>1, <1>5, <3>1
  <2>2. deleted' \in SUBSET Ids /\ twice' \in SUBSET Ids
    BY <1>1, <1>3, <1>5
  <2>3. token' \in Tokens /\ batches' \in Nat
    BY <1>1, <1>2, <1>5 DEF Tokens
  <2> QED
    BY <1>1, <2>1, <2>2, <2>3 DEF TypeOK, Steps
<1>7. /\ Seen \subseteq Seen' /\ Seen' \subseteq Seen \cup ids
      /\ \A i \in ids : Current(i) # <<>> => i \in Seen'
      /\ \A i \in Ids : i \notin ids => rows'[i] = rows[i]
      /\ \A i \in ids : i \notin Seen => rows'[i] = Current(i)
  <2>1. \A i \in Ids : /\ i \notin ids => rows'[i] = rows[i]
                       /\ i \in ids => rows'[i] = rows[i] \o Current(i)
                       /\ i \in ids /\ rows[i] = <<>> => rows'[i] = Current(i)
    BY <1>1, <1>4
  <2>2. \A i \in Ids : /\ rows[i] # <<>> => rows[i] \o Current(i) # <<>>
                       /\ Current(i) # <<>> => rows[i] \o Current(i) # <<>>
    <3> TAKE i \in Ids
    <3>1. rows[i] \in Seq(Nat) /\ Current(i) \in Seq(Nat)
      BY <1>4, <1>5
    <3> QED
      BY <3>1
  <2> QED
    BY <1>1, <1>3, <2>1, <2>2 DEF Seen, Changed
<1>8. VouchInv'
  BY <1>1, SameFiles DEF VouchInv
<1>9. EntryInv'
  BY <1>1 DEF EntryInv, CrawlSteps
<1>10. LogInv'
  BY <1>1, <1>2 DEF LogInv
<1>11. TailInv' /\ FreshInv' /\ WriteInv'
  BY <1>1 DEF TailInv, FreshInv, WriteInv, CrawlSteps
<1>12. ReadInv'
  <2>1. entry.token <= BatchEnd /\ BatchEnd # NoToken
    BY <1>2, SyncAssumption
  <2>2. twice' \subseteq Seen'
    BY <1>1, <1>5, <1>7
  <2>3. \A i \in Seen' : ChangedSince(i, entry.token)
    BY <1>3, <1>5, <1>7
  <2>4. ASSUME NEW i \in Ids \ twice', ~ChangedSince(i, BatchEnd)
        PROVE  IF i \in Seen' THEN rows'[i] = Current(i) ELSE ~ChangedSince(i, entry.token)
    <3>1. CASE i \in ids
      <4>1. i \notin Seen
        BY <1>1, <2>4, <3>1
      <4>2. Current(i) = <<>> => i \in DeletedIn(token, BatchEnd)
        <5> SUFFICES ASSUME Current(i) = <<>> PROVE i \in DeletedIn(token, BatchEnd)
          OBVIOUS
        <5>1. ChangesOf(i) # {} /\ ChangedSince(i, token) /\ ~Exists(i) /\ ChangesOf(i) \subseteq Nat
          BY <1>3, <1>4, <3>1 DEF ChangesOf
        <5>2. Latest(i) \in ChangesOf(i) /\ \A k \in ChangesOf(i) : k <= Latest(i)
          BY <1>1, <5>1, LatestIs
        <5>3. token < Latest(i) /\ Latest(i) <= BatchEnd
          BY <1>2, <2>4, <5>1, <5>2 DEF ChangedSince
        <5>4. log[Latest(i)].gone
          BY <5>1 DEF Exists
        <5> QED
          BY <5>2, <5>3, <5>4 DEF DeletedIn
      <4>3. i \in Seen'
        BY <1>1, <1>7, <3>1, <4>2 DEF Seen
      <4> QED
        BY <1>7, <3>1, <4>1, <4>3
    <3>2. CASE i \notin ids
      <4>1. ~ChangedSince(i, token) /\ i \notin twice
        BY <1>1, <1>3, <2>4, <3>2
      <4>2. (i \in Seen' <=> i \in Seen) /\ rows'[i] = rows[i]
        BY <1>7, <3>2
      <4> QED
        BY <1>5, <4>1, <4>2
    <3> QED
      BY <3>1, <3>2
  <2>5. entry.status = "complete" /\ entry.token # NoToken
    BY <1>1 DEF ReadInv, SyncSteps
  <2>6. pc' \in SyncSteps /\ pc' # "failed" /\ entry' = entry /\ token' = BatchEnd
    BY <1>1 DEF SyncSteps
  <2>7. \A i \in Seen' : ChangedSince(i, entry.token)'
    BY <2>3, <2>6, <1>1, SameLog
  <2>8. \A i \in Ids \ twice' : ~ChangedSince(i, token)' =>
            IF i \in Seen' THEN rows'[i] = Current(i)' ELSE ~ChangedSince(i, entry.token)'
    BY <2>4, <2>6, <1>1, SameLog
  <2> QED
    BY <2>1, <2>2, <2>5, <2>6, <2>7, <2>8 DEF ReadInv
<1> QED
  BY <1>6, <1>8, <1>9, <1>10, <1>11, <1>12

LEMMA SeenFiles ==
  ASSUME IInv, pc \in SyncSteps, pc' # "failed", UNCHANGED <<log, disk, exposed, blurred>>,
         \A i \in Ids \ Seen : items'[i] = items[i] /\ raw'[i] = raw[i]
  PROVE  VouchInv'
<1> SUFFICES ASSUME ~exposed PROVE Vouched(disk.token, disk.last, disk.status = "complete")'
  BY DEF VouchInv
<1>1. Vouched(disk.token, disk.last, disk.status = "complete")
  BY DEF IInv, VouchInv
<1>2. \A i \in Ids : ~ChangedSince(i, disk.token) =>
         /\ items'[i] = items[i] /\ raw'[i] = raw[i]
  BY SeenIsOpen
<1> QED
  BY <1>1, <1>2, SameLog DEF Vouched, Agree, UpToDateOf, Bare

(* The rows stay what was read.                                             *)
LEMMA SameReads ==
  ASSUME IInv, pc \in SyncSteps, pc' \in SyncSteps, UNCHANGED <<log, entry, token, rows, deleted, twice>>
  PROVE  ReadInv' /\ Seen' = Seen /\ Changed' = Changed
<1>1. Seen' = Seen /\ Changed' = Changed
  BY DEF Seen, Changed
<1> QED
  BY <1>1, SameLog DEF IInv, ReadInv, SyncSteps

LEMMA DropItemsIInv == IInv /\ DropItems => IInv'
<1> SUFFICES ASSUME IInv, DropItems PROVE IInv'
  OBVIOUS
<1> USE DEF IInv
<1>1. /\ UNCHANGED <<log, raw, disk, entry, priming, last, token, batches, rows, deleted, twice,
                     exposed, fetched, blurred>>
      /\ pc = "drop_items" /\ pc' = "drop_raw" /\ items' = Without(items, Seen)
  BY DEF DropItems, locals, reading, history
<1>2. /\ \A i \in Seen : i \in Ids /\ items'[i] = <<>>
      /\ \A i \in Ids \ Seen : items'[i] = items[i] /\ raw'[i] = raw[i]
      /\ items' \in [Ids -> Seq(Nat)]
  BY <1>1, SeenIsOpen DEF Without, TypeOK, SyncSteps
<1>3. TypeOK' /\ VouchInv' /\ ReadInv' /\ Seen' = Seen
  <2>1. TypeOK'
    BY <1>1, <1>2 DEF TypeOK, Steps
  <2> QED
    BY <1>1, <1>2, <2>1, SeenFiles, SameReads DEF SyncSteps
<1>4. EntryInv' /\ LogInv'
  BY <1>1 DEF EntryInv, LogInv, CrawlSteps
<1>5. TailInv' /\ FreshInv'
  BY <1>1 DEF TailInv, FreshInv, CrawlSteps
<1>6. WriteInv'
  BY <1>1, <1>2, <1>3 DEF WriteInv
<1> QED
  BY <1>3, <1>4, <1>5, <1>6

LEMMA DropRawIInv == IInv /\ DropRaw => IInv'
<1> SUFFICES ASSUME IInv, DropRaw PROVE IInv'
  OBVIOUS
<1> USE DEF IInv
<1>1. /\ UNCHANGED <<log, items, disk, entry, priming, last, token, batches, rows, deleted, twice,
                     exposed, fetched, blurred>>
      /\ pc = "drop_raw" /\ pc' = "items" /\ raw' = Without(raw, Seen)
  BY DEF DropRaw, locals, reading, history
<1>2. /\ \A i \in Seen : i \in Ids /\ raw'[i] = <<>>
      /\ \A i \in Ids \ Seen : items'[i] = items[i] /\ raw'[i] = raw[i]
      /\ raw' \in [Ids -> Seq(Nat)]
  BY <1>1, SeenIsOpen DEF Without, TypeOK, SyncSteps
<1>3. TypeOK' /\ VouchInv' /\ ReadInv' /\ Seen' = Seen
  <2>1. TypeOK'
    BY <1>1, <1>2 DEF TypeOK, Steps
  <2> QED
    BY <1>1, <1>2, <2>1, SeenFiles, SameReads DEF SyncSteps
<1>4. EntryInv' /\ LogInv'
  BY <1>1 DEF EntryInv, LogInv, CrawlSteps
<1>5. TailInv' /\ FreshInv'
  BY <1>1 DEF TailInv, FreshInv, CrawlSteps
<1>6. WriteInv'
  <2>1. \A i \in Seen : items'[i] = <<>> /\ raw'[i] = <<>> /\ rows'[i] \in Seq(Nat)
    BY <1>1, <1>2 DEF WriteInv, TypeOK
  <2>2. \A i \in Seen : /\ Len(items'[i]) <= Len(rows'[i]) /\ items'[i] = raw'[i]
                        /\ \A n \in 1 .. Len(items'[i]) : items'[i][n] = rows'[i][n]
    BY <2>1
  <2> QED
    BY <1>1, <1>3, <2>2 DEF WriteInv, Agree
<1> QED
  BY <1>3, <1>4, <1>5, <1>6

(* One line of a seen item in the first file, and the same in the second.   *)
LEMMA WriteItemsIInv == IInv /\ WriteItems => IInv'
<1> SUFFICES ASSUME IInv, WriteItems PROVE IInv'
  OBVIOUS
<1> USE DEF IInv
<1>1. /\ UNCHANGED <<log, raw, disk, entry, priming, last, token, batches, rows, deleted, twice,
                     exposed, fetched, blurred>>
      /\ pc = "items" /\ pc' = "raw" /\ TypeOK
  BY DEF WriteItems, locals, reading, history
<1>2. PICK i \in Changed :
         /\ Len(items[i]) < Len(rows[i])
         /\ items' = [items EXCEPT ![i] = Append(@, rows[i][Len(@) + 1])]
  BY DEF WriteItems
<1>3. /\ i \in Seen /\ i \in Ids /\ Changed \subseteq Seen /\ Seen \subseteq Ids
      /\ items[i] \in Seq(Nat) /\ raw[i] \in Seq(Nat) /\ rows[i] \in Seq(Nat)
      /\ items[i] = raw[i]
      /\ \A n \in 1 .. Len(items[i]) : items[i][n] = rows[i][n]
  BY <1>1 DEF Changed, Seen, TypeOK, WriteInv, Agree
<1>4. /\ items'[i] = Append(items[i], rows[i][Len(items[i]) + 1])
      /\ \A j \in Ids \ {i} : items'[j] = items[j]
      /\ rows[i][Len(items[i]) + 1] \in Nat
  BY <1>2, <1>3 DEF TypeOK
<1>5. /\ items'[i] \in Seq(Nat) /\ Len(items'[i]) = Len(items[i]) + 1
      /\ \A n \in 1 .. Len(items[i]) : items'[i][n] = items[i][n]
      /\ items'[i][Len(items[i]) + 1] = rows[i][Len(items[i]) + 1]
  BY <1>3, <1>4
<1>6. TypeOK'
  <2>1. items' \in [Ids -> Seq(Nat)]
    BY <1>2, <1>3, <1>4, <1>5 DEF TypeOK
  <2> QED
    BY <1>1, <2>1 DEF TypeOK, Steps
<1>7. VouchInv' /\ ReadInv' /\ Seen' = Seen /\ Changed' = Changed
  BY <1>1, <1>3, <1>4, SeenFiles, SameReads DEF SyncSteps
<1>8. EntryInv' /\ LogInv'
  BY <1>1 DEF EntryInv, LogInv, CrawlSteps
<1>9. TailInv' /\ FreshInv'
  BY <1>1 DEF TailInv, FreshInv, CrawlSteps
<1>10. WriteInv'
  <2>1. ASSUME NEW j \in Seen
        PROVE  /\ Len(items'[j]) <= Len(rows[j])
               /\ \A n \in 1 .. Len(items'[j]) : items'[j][n] = rows[j][n]
    <3>1. CASE j = i
      <4>1. Len(items[i]) \in Nat /\ Len(rows[i]) \in Nat
        BY <1>3
      <4>2. Len(items[i]) < Len(rows[i]) /\ Len(items'[i]) = Len(items[i]) + 1
        BY <1>2, <1>3, <1>5, <4>1
      <4>3. Len(items'[i]) <= Len(rows[i])
        BY <4>1, <4>2
      <4>4. ASSUME NEW n \in 1 .. Len(items'[i]) PROVE items'[i][n] = rows[i][n]
        <5>1. n \in 1 .. Len(items[i]) \/ n = Len(items[i]) + 1
          BY <4>1, <4>2
        <5> QED
          BY <5>1, <1>3, <1>5
      <4> QED
        BY <3>1, <4>3, <4>4
    <3>2. CASE j # i
      BY <1>1, <1>3, <1>4, <3>2 DEF WriteInv
    <3> QED
      BY <3>1, <3>2
  <2>2. \A j \in Seen \ {i} : Agree(j)'
    BY <1>1, <1>3, <1>4 DEF WriteInv, Agree
  <2>3. /\ Len(items'[i]) = Len(raw'[i]) + 1
        /\ \A n \in 1 .. Len(raw'[i]) : raw'[i][n] = items'[i][n]
    BY <1>1, <1>3, <1>5
  <2> QED
    BY <1>1, <1>7, <2>1, <2>2, <2>3 DEF WriteInv
<1> QED
  BY <1>6, <1>7, <1>8, <1>9, <1>10

LEMMA WriteRawIInv == IInv /\ WriteRaw => IInv'
<1> SUFFICES ASSUME IInv, WriteRaw PROVE IInv'
  OBVIOUS
<1> USE DEF IInv
<1>1. /\ UNCHANGED <<log, items, disk, entry, priming, last, token, batches, rows, deleted, twice,
                     exposed, fetched, blurred>>
      /\ pc = "raw" /\ pc' = "items" /\ TypeOK
  BY DEF WriteRaw, locals, reading, history
<1>2. PICK i \in Changed :
         /\ Len(raw[i]) < Len(items[i])
         /\ raw' = [raw EXCEPT ![i] = Append(@, rows[i][Len(@) + 1])]
  BY DEF WriteRaw
<1>3. /\ i \in Seen /\ i \in Ids /\ Changed \subseteq Seen /\ Seen \subseteq Ids
      /\ items[i] \in Seq(Nat) /\ raw[i] \in Seq(Nat) /\ rows[i] \in Seq(Nat)
      /\ Len(items[i]) <= Len(rows[i])
      /\ \A n \in 1 .. Len(items[i]) : items[i][n] = rows[i][n]
  BY <1>1 DEF Changed, Seen, TypeOK, WriteInv
<1>4. /\ Len(items[i]) = Len(raw[i]) + 1
      /\ \A n \in 1 .. Len(raw[i]) : raw[i][n] = items[i][n]
      /\ \A j \in Seen \ {i} : Agree(j)
  <2>1. PICK k \in Changed :
           /\ Len(items[k]) = Len(raw[k]) + 1
           /\ \A n \in 1 .. Len(raw[k]) : raw[k][n] = items[k][n]
           /\ \A j \in Seen \ {k} : Agree(j)
    BY <1>1 DEF WriteInv
  <2>2. k = i
    <3>1. SUFFICES ASSUME k # i PROVE FALSE
      OBVIOUS
    <3>2. items[i] = raw[i]
      BY <1>3, <2>1, <3>1 DEF Agree
    <3> QED
      BY <1>2, <1>3, <3>2
  <2> QED
    BY <2>1, <2>2
<1>5. /\ raw'[i] = Append(raw[i], rows[i][Len(raw[i]) + 1])
      /\ \A j \in Ids \ {i} : raw'[j] = raw[j]
      /\ rows[i][Len(raw[i]) + 1] = items[i][Len(raw[i]) + 1]
      /\ rows[i][Len(raw[i]) + 1] \in Nat
  BY <1>2, <1>3, <1>4 DEF TypeOK
<1>6. raw'[i] \in Seq(Nat) /\ raw'[i] = items[i]
  <2>1. /\ raw'[i] \in Seq(Nat) /\ Len(raw'[i]) = Len(items[i])
    BY <1>3, <1>4, <1>5
  <2>2. \A n \in 1 .. Len(items[i]) : raw'[i][n] = items[i][n]
    BY <1>3, <1>4, <1>5
  <2> QED
    BY <1>3, <2>1, <2>2, SeqEqual
<1>7. TypeOK'
  <2>1. raw' \in [Ids -> Seq(Nat)]
    BY <1>2, <1>3, <1>5, <1>6 DEF TypeOK
  <2> QED
    BY <1>1, <2>1 DEF TypeOK, Steps
<1>8. VouchInv' /\ ReadInv' /\ Seen' = Seen /\ Changed' = Changed
  BY <1>1, <1>3, <1>5, SeenFiles, SameReads DEF SyncSteps
<1>9. EntryInv' /\ LogInv'
  BY <1>1 DEF EntryInv, LogInv, CrawlSteps
<1>10. TailInv' /\ FreshInv'
  BY <1>1 DEF TailInv, FreshInv, CrawlSteps
<1>11. WriteInv'
  <2>1. \A j \in Seen : Agree(j)'
    BY <1>1, <1>3, <1>4, <1>5, <1>6 DEF Agree
  <2> QED
    BY <1>1, <1>8, <2>1 DEF WriteInv
<1> QED
  BY <1>7, <1>8, <1>9, <1>10, <1>11

(* The checkpoint a sync writes is the old one or a changed id above it.    *)
LEMMA HighestIs ==
  ASSUME TypeOK
  PROVE  /\ Highest({entry.last} \cup Changed) \in Nat
         /\ entry.last <= Highest({entry.last} \cup Changed)
         /\ \A i \in Changed : i <= Highest({entry.last} \cup Changed)
<1> DEFINE S == {entry.last} \cup Changed
           b == IF entry.last <= MaxId THEN MaxId ELSE entry.last
<1>1. entry.last \in Nat /\ Changed \subseteq 1 .. MaxId /\ MaxId \in Nat
  BY SyncAssumption DEF TypeOK, Entry, Changed, Ids
<1>2. S \in SUBSET Nat /\ S # {} /\ b \in Nat /\ \A n \in S : n <= b
  <2>1. b \in Nat /\ MaxId <= b /\ entry.last <= b
    BY <1>1
  <2>2. \A n \in Changed : n \in Nat /\ n <= MaxId
    BY <1>1
  <2> HIDE DEF b
  <2>3. \A n \in Changed : n <= b
    BY <1>1, <2>1, <2>2
  <2> QED
    BY <1>1, <2>1, <2>2, <2>3
<1>3. Changed \subseteq S /\ entry.last \in S
  OBVIOUS
<1> HIDE DEF S, b
<1>4. \E n \in S : \A m \in S : m <= n
  BY <1>2, GreatestNumber
<1>5. Highest(S) \in S /\ \A m \in S : m <= Highest(S)
  BY <1>4 DEF Highest
<1> QED
  BY <1>2, <1>3, <1>5 DEF S

LEMMA SaveSyncIInv == IInv /\ SaveSync => IInv'
<1> SUFFICES ASSUME IInv, SaveSync PROVE IInv'
  OBVIOUS
<1> USE DEF IInv
<1> DEFINE h == Highest({entry.last} \cup Changed)
           e == [status |-> "complete", token |-> token, last |-> h]
<1>1. /\ UNCHANGED <<log, items, raw, fetched>>
      /\ pc = "items" /\ Written /\ UpdateAndSave(e, "idle")
      /\ blurred' = (blurred \ Seen) \cup twice
      /\ priming' = FALSE /\ last' = 0 /\ token' = NoToken /\ batches' = 0
      /\ rows' = NoLines /\ deleted' = {} /\ twice' = {} /\ TypeOK
  BY DEF SaveSync, files, LocalsGone, NothingRead
<1>2. /\ h \in Nat /\ entry.last <= h /\ entry.last \in Nat
      /\ \A i \in Changed : i <= h
  BY <1>1, HighestIs DEF TypeOK, Entry
<1> HIDE DEF h
<1>3. /\ e \in Entry /\ e.status = "complete" /\ e.last = h /\ e.token = token
  BY <1>1, <1>2 DEF TypeOK, Entry, Status
<1> HIDE DEF e
<1>4. /\ entry = disk /\ disk.status = "complete" /\ disk.token # NoToken /\ Seen \subseteq Ids
      /\ \A i \in Seen : ChangedSince(i, disk.token)
      /\ twice \subseteq Seen
      /\ \A i \in Ids \ twice : ~ChangedSince(i, token) =>
            IF i \in Seen THEN rows[i] = Current(i) ELSE ~ChangedSince(i, disk.token)
  BY <1>1, SeenIsOpen DEF ReadInv, SyncSteps
<1>5. /\ entry' = e /\ entry' \in Entry /\ disk' \in Entry /\ exposed' \in BOOLEAN
      /\ pc' \in {"idle", "failed"}
      /\ pc' = "idle" => disk' = e
      /\ pc' = "failed" => disk' = disk
      /\ exposed' <=> exposed
  <2>1. exposed => h # 0
    BY <1>2, <1>4 DEF EntryInv
  <2> QED
    BY <1>1, <1>3, <2>1, Saving DEF Steps
<1>6. TypeOK'
  <2>1. NoToken \in Tokens /\ NoLines \in [Ids -> Seq(Nat)] /\ blurred' \in SUBSET Ids
    BY <1>1 DEF Tokens, NoLines, TypeOK
  <2> QED
    BY <1>1, <1>3, <1>5, <2>1 DEF TypeOK, Steps
<1>7. \A i \in Seen : Agree(i) /\ items[i] = rows[i]
  <2> TAKE i \in Seen
  <2>1. /\ items[i] \in Seq(Nat) /\ rows[i] \in Seq(Nat)
        /\ Len(items[i]) <= Len(rows[i])
        /\ \A n \in 1 .. Len(items[i]) : items[i][n] = rows[i][n]
        /\ Agree(i)
    BY <1>1, <1>4 DEF TypeOK, WriteInv
  <2>2. Len(items[i]) = Len(rows[i])
    <3>1. CASE i \in Changed
      BY <1>1, <3>1 DEF Written
    <3>2. CASE i \notin Changed
      <4>1. rows[i] = <<>>
        BY <1>4, <3>2 DEF Changed
      <4> QED
        BY <2>1, <4>1
    <3> QED
      BY <3>1, <3>2
  <2> QED
    BY <2>1, <2>2, SeqEqual
<1>8. ASSUME ~exposed, NEW i \in Ids
      PROVE  /\ ~ChangedSince(i, disk.token) =>
                  /\ Agree(i)
                  /\ i \notin blurred' => UpToDateOf(i)
                  /\ i \notin blurred' /\ i > disk.last => Bare(i)
             /\ ~ChangedSince(i, token) =>
                  /\ Agree(i)
                  /\ i \notin blurred' => UpToDateOf(i)
                  /\ i \notin blurred' /\ i > h => Bare(i)
  <2>1. Vouched(disk.token, disk.last, TRUE)
    <3>1. Vouched(disk.token, disk.last, disk.status = "complete")
      BY <1>8 DEF VouchInv
    <3> QED
      BY <1>4, <3>1 DEF Vouched
  <2>2. ~ChangedSince(i, disk.token) =>
           /\ Agree(i)
           /\ i \notin blurred' => UpToDateOf(i)
           /\ i \notin blurred' /\ i > disk.last => Bare(i)
    BY <1>1, <1>4, <2>1 DEF Vouched
  <2>3. CASE i \in Seen
    <3>1. ~ChangedSince(i, token) /\ i \notin blurred' => UpToDateOf(i)
      BY <1>1, <1>4, <1>7, <2>3 DEF UpToDateOf, Agree
    <3>2. i > h => i \notin Changed
      BY <1>2, <2>3 DEF Ids
    <3>3. i > h => Bare(i)
      BY <1>7, <2>3, <3>2 DEF Bare, Agree, Changed
    <3> QED
      BY <1>7, <2>2, <2>3, <3>1, <3>3
  <2>4. CASE i \notin Seen
    <3>1. ~ChangedSince(i, token) => ~ChangedSince(i, disk.token)
      BY <1>4, <2>4
    <3>2. i > h => i > disk.last
      BY <1>2, <1>4 DEF Ids
    <3> QED
      BY <2>2, <3>1, <3>2
  <2> QED
    BY <2>3, <2>4
<1>9. VouchInv'
  <2>1. CASE pc' = "idle"
    <3>1. disk'.token = token /\ disk'.last = h /\ pc' # "failed"
      BY <1>3, <1>5, <2>1
    <3>2. ~exposed' => Vouched(disk.token, disk.last, disk.status = "complete")'
      BY <1>1, <1>5, <1>8, <3>1, SameLog DEF Vouched, Agree, UpToDateOf, Bare
    <3> QED
      BY <3>1, <3>2 DEF VouchInv
  <2>2. CASE pc' = "failed"
    <3>1. disk' = disk /\ entry'.token = token /\ entry'.last = h
      BY <1>3, <1>5, <2>2
    <3>2. ~exposed' => Vouched(disk.token, disk.last, disk.status = "complete")'
      BY <1>1, <1>5, <1>8, <3>1, SameLog DEF Vouched, Agree, UpToDateOf, Bare
    <3>3. ~exposed' => Vouched(entry.token, entry.last, FALSE)'
      BY <1>1, <1>5, <1>8, <3>1, SameLog DEF Vouched, Agree, UpToDateOf, Bare
    <3> QED
      BY <3>2, <3>3 DEF VouchInv
  <2> QED
    BY <1>5, <2>1, <2>2
<1>10. EntryInv'
  <2>1. exposed => disk.last # 0 /\ h # 0
    BY <1>2, <1>4 DEF EntryInv
  <2> QED
    BY <1>1, <1>3, <1>5, <2>1 DEF EntryInv, CrawlSteps
<1>11. LogInv'
  BY <1>1, <1>3, <1>5 DEF LogInv
<1>12. TailInv' /\ FreshInv' /\ ReadInv' /\ WriteInv'
  BY <1>1, <1>5 DEF TailInv, FreshInv, ReadInv, WriteInv, CrawlSteps, SyncSteps, NoLines
<1> QED
  BY <1>6, <1>9, <1>10, <1>11, <1>12

-----------------------------------------------------------------------------
LEMMA NextIInv == IInv /\ [Next]_vars => IInv'
<1> SUFFICES ASSUME IInv, [Next]_vars PROVE IInv'
  OBVIOUS
<1>1. CASE Add \/ Edit \/ Delete
  BY <1>1, ChangeIInv DEF Add, Edit, Delete
<1>2. CASE StartCrawl \/ StartResume \/ StartSync \/ FallBack
  BY <1>2, StartIInv
<1>3. CASE Reset \/ Truncate \/ Begin
  BY <1>3, ResetIInv, TruncateIInv, BeginIInv
<1>4. CASE Pages
  BY <1>4, LastPageIInv, PageIInv DEF Pages
<1>5. CASE Finish \/ Prime \/ PrimeFails
  BY <1>5, FinishIInv, PrimeIInv, PrimeFailsIInv
<1>6. CASE ReadBatch \/ DropItems \/ DropRaw \/ WriteItems \/ WriteRaw \/ SaveSync
  BY <1>6, ReadBatchIInv, DropItemsIInv, DropRawIInv, WriteItemsIInv, WriteRawIInv, SaveSyncIInv
<1>7. CASE TokenRejected \/ Raise \/ MarkFailed \/ Interrupt
  BY <1>7, TokenRejectedIInv, RaiseIInv, MarkFailedIInv, InterruptIInv
<1>8. CASE UNCHANGED vars
  BY <1>8, StutterIInv
<1> QED
  BY <1>1, <1>2, <1>3, <1>4, <1>5, <1>6, <1>7, <1>8 DEF Next, Proceed, Environment

(* The invariant the theorems rest on: the checkpoint on disk, and what the *)
(* exception handler would write, vouch for what the files hold.            *)
THEOREM Invariance == Spec => []IInv
<1> QED
  BY InitIInv, NextIInv, PTL DEF Spec

(* Crawler.sync_list keeps its promise: a complete list with a token holds, *)
(* in both files, the current version of every item the log has no change   *)
(* of after the token, whatever crashes, failures, resumes and fallbacks    *)
(* went before; the ids two known weaknesses blur are left out by name.     *)
THEOREM UpToDateHolds == Spec => []UpToDate
<1>1. IInv => UpToDate
  <2> SUFFICES ASSUME IInv, disk.status = "complete", disk.token # NoToken, ~exposed,
                      NEW i \in Ids \ blurred, ~ChangedSince(i, disk.token)
               PROVE  items[i] = Current(i) /\ raw[i] = Current(i)
    BY DEF UpToDate
  <2>1. Vouched(disk.token, disk.last, disk.status = "complete")
    BY DEF IInv, VouchInv
  <2> QED
    BY <2>1 DEF Vouched, UpToDateOf
<1> QED
  BY <1>1, Invariance, PTL

(* Types, and items.jsonl and raw.jsonl in step: also where a sync is       *)
(* killed between the two, the token on disk does not cover the items they  *)
(* differ in.                                                               *)
THEOREM ConsistentHolds == Spec => []Consistent
<1>1. IInv => Consistent
  <2> SUFFICES ASSUME IInv PROVE Consistent
    OBVIOUS
  <2>1. TypeOK
    BY DEF IInv
  <2>2. ASSUME disk.status = "complete", disk.token # NoToken, ~exposed,
               NEW i \in Ids, ~ChangedSince(i, disk.token)
        PROVE  items[i] = raw[i]
    <3>1. Vouched(disk.token, disk.last, disk.status = "complete")
      BY <2>2 DEF IInv, VouchInv
    <3> QED
      BY <2>2, <3>1 DEF Vouched, Agree
  <2> QED
    BY <2>1, <2>2 DEF Consistent, BothFilesAgree
<1> QED
  BY <1>1, Invariance, PTL
=============================================================================
