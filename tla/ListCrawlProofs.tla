-------------------------- MODULE ListCrawlProofs --------------------------
(***************************************************************************)
(* Proofs about ListCrawl: type correctness, the inductive invariant of    *)
(* ListCrawlInv, and the properties that follow from it, for every number  *)
(* of items, page size and server cap.                                     *)
(***************************************************************************)
EXTENDS ListCrawlInv, FiniteSetTheorems, TLAPS

(* Sets of item ids are finite, so pages have a number of rows. *)
LEMMA IdsFinite ==
  ASSUME NEW S \in SUBSET Ids
  PROVE  IsFiniteSet(S) /\ Cardinality(S) \in Nat
  <1>1. IsFiniteSet(Ids)
    BY ConstantsAssumption, FS_Interval DEF Ids
  <1>2. IsFiniteSet(S)
    BY <1>1, FS_Subset
  <1>3. QED
    BY <1>2, FS_CardinalityType

(* An entry built from typed fields is an entry; saving it, or failing to, *)
(* keeps the types of the entry, the state file and the window flag.       *)
LEMMA SaveTypes ==
  ASSUME TypeOK, NEW s \in Status, NEW l \in Nat, NEW w \in Nat,
         NEW next \in Steps,
         UpdateAndSave([status |-> s, last |-> l, written |-> w], next)
  PROVE  /\ entry' \in Entry /\ disk' \in Entry
         /\ exposed' \in BOOLEAN
         /\ pc' \in Steps
  <1> DEFINE e == [status |-> s, last |-> l, written |-> w]
  <1>1. e \in Entry
    BY DEF Entry
  <1>2. entry' \in Entry /\ disk' \in Entry
    BY <1>1 DEF UpdateAndSave, Persist, TypeOK
  <1>3. exposed' \in BOOLEAN
    BY DEF UpdateAndSave, Persist, TypeOK
  <1>4. pc' \in Steps
    BY DEF UpdateAndSave, Steps
  <1>5. QED
    BY <1>2, <1>3, <1>4

(* The initial state has the types TypeOK gives. *)
LEMMA InitTypeOK == Init => TypeOK
  <1> SUFFICES ASSUME Init PROVE TypeOK
    OBVIOUS
  <1> USE DEF Init
  <1>1. disk \in Entry /\ entry \in Entry
    BY DEF Entry, Status
  <1>2. items \in [Ids -> Nat] /\ raw \in [Ids -> Nat]
    BY DEF NoLines
  <1>3. pc \in Steps
    BY DEF Steps
  <1>4. nextId \in 1..(MaxId + 1) /\ horizon \in 1..(MaxId + 1)
    BY ConstantsAssumption
  <1>5. /\ srv \in SUBSET Ids /\ torn \in SUBSET Files
        /\ pending \in SUBSET Ids
    OBVIOUS
  <1>6. last \in Nat /\ written \in Nat /\ top \in Nat /\ len \in Nat
    OBVIOUS
  <1>7. exposed \in BOOLEAN
    OBVIOUS
  <1>8. QED
    BY <1>1, <1>2, <1>3, <1>4, <1>5, <1>6, <1>7 DEF TypeOK

(* Every step of the server, the process and the operator preserves types. *)
LEMMA NextTypeOK == TypeOK /\ [Next]_vars => TypeOK'
  <1> USE ConstantsAssumption DEF TypeOK
  <1> SUFFICES ASSUME TypeOK, [Next]_vars PROVE TypeOK'
    OBVIOUS
  <1>1. CASE ServerAdds
    BY <1>1 DEF ServerAdds, files, locals, page, history, Ids
  <1>2. ASSUME NEW i \in Ids, ServerDeletes(i) PROVE TypeOK'
    BY <1>2 DEF ServerDeletes, files, locals, page, history
  <1>3. CASE StartFresh
    BY <1>3 DEF StartFresh, server, files, page, history, Steps
  <1>4. CASE StartResume
    BY <1>4 DEF StartResume, server, files, page, history, Steps, Entry
  <1>5. CASE UnlinkItems
    BY <1>5 DEF UnlinkItems, server, locals, page, Steps, NoLines
  <1>6. CASE UnlinkRaw
    BY <1>6 DEF UnlinkRaw, server, locals, page, history, Steps, NoLines
  <1>7. CASE TruncateItems
    BY <1>7 DEF TruncateItems, KeepUpTo, server, locals, page, history, Steps
  <1>8. CASE TruncateRaw
    BY <1>8 DEF TruncateRaw, KeepUpTo, server, locals, page, history, Steps
  <1>9. CASE Begin
    <2>1. /\ entry' \in Entry /\ disk' \in Entry /\ exposed' \in BOOLEAN
          /\ pc' \in Steps
      BY <1>9, SaveTypes DEF Begin, Status, Steps
    <2>2. QED
      BY <1>9, <2>1 DEF Begin, server, files, locals, page
  <1>10. CASE Fetch
    <2>1. CASE FetchNothing
      BY <2>1 DEF FetchNothing, server, files, locals, page, Steps
    <2>2. ASSUME NEW rows \in SUBSET srv, NEW m \in rows, FetchPage(rows, m)
          PROVE  TypeOK'
      <3>1. rows \in SUBSET Ids /\ m \in Nat /\ Cardinality(rows) \in Nat
        BY IdsFinite DEF Ids
      <3>2. pending' \in SUBSET Ids /\ top' \in Nat /\ len' \in Nat
        BY <2>2, <3>1 DEF FetchPage, page
      <3>3. pc' \in Steps
        BY <2>2 DEF FetchPage, Steps
      <3>4. QED
        BY <2>2, <3>2, <3>3 DEF FetchPage, server, files, locals
    <2>3. QED
      BY <1>10, <2>1, <2>2 DEF Fetch
  <1>11. CASE WriteItems
    BY <1>11 DEF WriteItems, AppendLine, server, locals, page, history, Steps
  <1>12. CASE WriteRaw
    BY <1>12 DEF WriteRaw, AppendLine, server, history, Steps
  <1>13. CASE Checkpoint
    <2>1. /\ entry' \in Entry /\ disk' \in Entry /\ exposed' \in BOOLEAN
          /\ pc' \in Steps
      BY <1>13, SaveTypes DEF Checkpoint, Status, Steps
    <2>2. QED
      BY <1>13, <2>1 DEF Checkpoint, server, files, page
  <1>14. CASE Finish
    <2>1. /\ entry' \in Entry /\ disk' \in Entry /\ exposed' \in BOOLEAN
          /\ pc' \in Steps
      BY <1>14, SaveTypes DEF Finish, Status, Steps
    <2>2. QED
      BY <1>14, <2>1 DEF Finish, LocalsGone, server, files
  <1>15. CASE Raise
    BY <1>15 DEF Raise, MaybeTorn, server, locals, page, history, Steps, Files
  <1>16. CASE MarkFailed
    <2>1. entry' \in Entry /\ disk' \in Entry
      BY <1>16 DEF MarkFailed, Persist, Entry, Status
    <2>2. exposed' \in BOOLEAN
      BY <1>16 DEF MarkFailed, Persist
    <2>3. QED
      BY <1>16, <2>1, <2>2 DEF MarkFailed, LocalsGone, server, files, Steps
  <1>17. CASE Interrupt
    BY <1>17 DEF Interrupt, MaybeTorn, LocalsGone, server, history, Steps, Files
  <1>18. CASE UNCHANGED vars
    BY <1>18 DEF vars, server, files, locals, page, history
  <1>19. QED
    BY <1>1, <1>2, <1>3, <1>4, <1>5, <1>6, <1>7, <1>8, <1>9, <1>10, <1>11,
       <1>12, <1>13, <1>14, <1>15, <1>16, <1>17, <1>18
    DEF Next, Proceed, Environment

(* Type correctness of the crawl, its files and its checkpoint. *)
THEOREM TypeCorrect == Spec => []TypeOK
  BY InitTypeOK, NextTypeOK, PTL DEF Spec
(* The initial state satisfies the inductive invariant: no checkpoint, no  *)
(* lines, no process.                                                      *)
LEMMA InitIInv == Init => IInv
  <1> SUFFICES ASSUME Init PROVE IInv
    OBVIOUS
  <1>1. TypeOK
    BY InitTypeOK
  <1>2. ServerInv /\ ProcessInv /\ HandlerInv /\ NoDuplicates
    BY DEF Init, HandlerInv, ServerInv, ProcessInv, NoDuplicates, NoLines, InLoop
  <1>3. CoverInv /\ TailInv
    BY DEF Init, CoverInv, TailInv, NoLines, EmptyAbove
  <1>4. PageInv /\ TornInv /\ HorizonInv
    BY DEF Init, PageInv, TornInv, HorizonInv, Files, InLoop
  <1>5. QED
    BY <1>1, <1>2, <1>3, <1>4 DEF IInv

(* The server adds an item: its id is above every checkpoint. *)
LEMMA ServerAddsIInv == IInv /\ ServerAdds => IInv'
  <1> SUFFICES ASSUME IInv, ServerAdds PROVE IInv'
    OBVIOUS
  <1> USE DEF IInv, ServerAdds, files, locals, page, history
  <1>1. TypeOK'
    BY NextTypeOK DEF Next, Environment
  <1>h. HandlerInv'
    BY DEF TypeOK, Ids, Entry, ServerInv, ProcessInv, HandlerInv, InBoth
  <1>2. ServerInv' /\ ProcessInv' /\ NoDuplicates'
    BY DEF TypeOK, Ids, Entry, ServerInv, ProcessInv, NoDuplicates
  <1>3. CoverInv'
    BY DEF TypeOK, Ids, Entry, ServerInv, CoverInv, InBoth
  <1>4. TailInv' /\ TornInv'
    BY DEF TailInv, TornInv, EmptyAbove
  <1>5. PageInv'
    BY DEF TypeOK, Ids, ServerInv, PageInv
  <1>6. HorizonInv'
    BY DEF TypeOK, Ids, ServerInv, HorizonInv, LastPage
  <1>7. QED
    BY <1>h, <1>1, <1>2, <1>3, <1>4, <1>5, <1>6

(* The server deletes an item: less is left to be covered. *)
LEMMA ServerDeletesIInv ==
  ASSUME IInv, NEW d \in Ids, ServerDeletes(d)
  PROVE  IInv'
  <1> USE DEF IInv, ServerDeletes, files, locals, page, history
  <1>1. TypeOK'
    BY NextTypeOK DEF Next, Environment
  <1>h. HandlerInv'
    BY DEF TypeOK, Ids, Entry, ServerInv, ProcessInv, HandlerInv, InBoth
  <1>2. ServerInv' /\ ProcessInv' /\ NoDuplicates'
    BY DEF ServerInv, ProcessInv, NoDuplicates
  <1>3. CoverInv' /\ TailInv' /\ TornInv'
    BY DEF CoverInv, TailInv, TornInv, EmptyAbove, InBoth
  <1>4. PageInv' /\ HorizonInv'
    BY DEF PageInv, HorizonInv, LastPage
  <1>5. QED
    BY <1>h, <1>1, <1>2, <1>3, <1>4
(* A run from scratch starts: nothing has happened yet. *)
LEMMA StartFreshIInv == IInv /\ StartFresh => IInv'
  <1> SUFFICES ASSUME IInv, StartFresh PROVE IInv'
    OBVIOUS
  <1> USE DEF IInv, StartFresh, server, files, page, history
  <1>1. TypeOK'
    BY NextTypeOK DEF Next, Proceed, Environment
  <1>h. HandlerInv'
    BY DEF TypeOK, Ids, Entry, ServerInv, ProcessInv, HandlerInv, InBoth
  <1>2. ServerInv' /\ ProcessInv' /\ NoDuplicates'
    BY DEF TypeOK, Entry, ServerInv, ProcessInv, NoDuplicates, InLoop, NoLines, KeepUpTo
  <1>3. CoverInv'
    BY DEF TypeOK, Ids, Entry, ServerInv, ProcessInv, CoverInv, InBoth, NoLines, KeepUpTo
  <1>4. TailInv'
    BY DEF TypeOK, Ids, Entry, ProcessInv, TailInv, EmptyAbove, NoLines, KeepUpTo
  <1>5. PageInv'
    BY DEF PageInv, Files
  <1>6. TornInv'
    BY DEF TypeOK, TornInv, Files, InLoop
  <1>7. HorizonInv'
    BY DEF TypeOK, HorizonInv, Files
  <1>8. QED
    BY <1>h, <1>1, <1>2, <1>3, <1>4, <1>5, <1>6, <1>7

(* A resumed run takes last_id from the checkpoint. *)
LEMMA StartResumeIInv == IInv /\ StartResume => IInv'
  <1> SUFFICES ASSUME IInv, StartResume PROVE IInv'
    OBVIOUS
  <1> USE DEF IInv, StartResume, CanResume, server, files, page, history
  <1>1. TypeOK'
    BY NextTypeOK DEF Next, Proceed, Environment
  <1>h. HandlerInv'
    BY DEF TypeOK, Ids, Entry, ServerInv, ProcessInv, HandlerInv, InBoth
  <1>2. ServerInv' /\ ProcessInv' /\ NoDuplicates'
    BY DEF TypeOK, Entry, ServerInv, ProcessInv, NoDuplicates, InLoop, NoLines, KeepUpTo
  <1>3. CoverInv'
    BY DEF TypeOK, Ids, Entry, ServerInv, ProcessInv, CoverInv, InBoth, NoLines, KeepUpTo
  <1>4. TailInv'
    BY DEF TypeOK, Ids, Entry, ProcessInv, TailInv, EmptyAbove, NoLines, KeepUpTo
  <1>5. PageInv'
    BY DEF PageInv, Files
  <1>6. TornInv'
    BY DEF TypeOK, TornInv, Files, InLoop
  <1>7. HorizonInv'
    BY DEF TypeOK, HorizonInv, Files
  <1>8. QED
    BY <1>h, <1>1, <1>2, <1>3, <1>4, <1>5, <1>6, <1>7

(* Unlinking items.jsonl exposes every checkpoint but the zero one. *)
LEMMA UnlinkItemsIInv == IInv /\ UnlinkItems => IInv'
  <1> SUFFICES ASSUME IInv, UnlinkItems PROVE IInv'
    OBVIOUS
  <1> USE DEF IInv, UnlinkItems, server, locals, page
  <1>1. TypeOK'
    BY NextTypeOK DEF Next, Proceed, Environment
  <1>h. HandlerInv'
    BY DEF TypeOK, Ids, Entry, ServerInv, ProcessInv, HandlerInv, InBoth
  <1>2. ServerInv' /\ ProcessInv'
    BY DEF TypeOK, ServerInv, ProcessInv, InLoop
  <1>3. NoDuplicates'
    BY DEF NoDuplicates, NoLines
  <1>4. ~exposed' => ~exposed /\ disk.last = 0 /\ entry.last = 0
    BY DEF ProcessInv
  <1>5. CoverInv'
    BY <1>4 DEF TypeOK, Ids, CoverInv
  <1>6. TailInv'
    BY <1>4 DEF TailInv, EmptyAbove, NoLines
  <1>7. PageInv' /\ HorizonInv'
    BY <1>4 DEF PageInv, HorizonInv, Files
  <1>8. TornInv'
    BY <1>4 DEF TypeOK, TornInv, Files, InLoop
  <1>9. QED
    BY <1>h, <1>1, <1>2, <1>3, <1>5, <1>6, <1>7, <1>8

(* Unlinking items_raw.jsonl. *)
LEMMA UnlinkRawIInv == IInv /\ UnlinkRaw => IInv'
  <1> SUFFICES ASSUME IInv, UnlinkRaw PROVE IInv'
    OBVIOUS
  <1> USE DEF IInv, UnlinkRaw, server, locals, page, history
  <1>1. TypeOK'
    BY NextTypeOK DEF Next, Proceed, Environment
  <1>h. HandlerInv'
    BY DEF TypeOK, Ids, Entry, ServerInv, ProcessInv, HandlerInv, InBoth
  <1>2. ServerInv' /\ ProcessInv' /\ NoDuplicates'
    BY DEF TypeOK, Entry, ServerInv, ProcessInv, NoDuplicates, InLoop, NoLines, KeepUpTo
  <1>3. CoverInv'
    BY DEF TypeOK, Ids, Entry, ServerInv, ProcessInv, CoverInv, InBoth, NoLines, KeepUpTo
  <1>4. TailInv'
    BY DEF TypeOK, Ids, Entry, ProcessInv, TailInv, EmptyAbove, NoLines, KeepUpTo
  <1>5. PageInv'
    BY DEF PageInv, Files
  <1>6. TornInv'
    BY DEF TypeOK, TornInv, Files, InLoop
  <1>7. HorizonInv'
    BY DEF TypeOK, HorizonInv, Files
  <1>8. QED
    BY <1>h, <1>1, <1>2, <1>3, <1>4, <1>5, <1>6, <1>7

(* Dropping what items.jsonl holds past the checkpoint. *)
LEMMA TruncateItemsIInv == IInv /\ TruncateItems => IInv'
  <1> SUFFICES ASSUME IInv, TruncateItems PROVE IInv'
    OBVIOUS
  <1> USE DEF IInv, TruncateItems, server, locals, page, history
  <1>1. TypeOK'
    BY NextTypeOK DEF Next, Proceed, Environment
  <1>h. HandlerInv'
    BY DEF TypeOK, Ids, Entry, ServerInv, ProcessInv, HandlerInv, InBoth
  <1>2. ServerInv' /\ ProcessInv' /\ NoDuplicates'
    BY DEF TypeOK, Entry, ServerInv, ProcessInv, NoDuplicates, InLoop, NoLines, KeepUpTo
  <1>3. CoverInv'
    BY DEF TypeOK, Ids, Entry, ServerInv, ProcessInv, CoverInv, InBoth, NoLines, KeepUpTo
  <1>4. TailInv'
    BY DEF TypeOK, Ids, Entry, ProcessInv, TailInv, EmptyAbove, NoLines, KeepUpTo
  <1>5. PageInv'
    BY DEF PageInv, Files
  <1>6. TornInv'
    BY DEF TypeOK, TornInv, Files, InLoop
  <1>7. HorizonInv'
    BY DEF TypeOK, HorizonInv, Files
  <1>8. QED
    BY <1>h, <1>1, <1>2, <1>3, <1>4, <1>5, <1>6, <1>7

(* Dropping what items_raw.jsonl holds past the checkpoint. *)
LEMMA TruncateRawIInv == IInv /\ TruncateRaw => IInv'
  <1> SUFFICES ASSUME IInv, TruncateRaw PROVE IInv'
    OBVIOUS
  <1> USE DEF IInv, TruncateRaw, server, locals, page, history
  <1>1. TypeOK'
    BY NextTypeOK DEF Next, Proceed, Environment
  <1>h. HandlerInv'
    BY DEF TypeOK, Ids, Entry, ServerInv, ProcessInv, HandlerInv, InBoth
  <1>2. ServerInv' /\ ProcessInv' /\ NoDuplicates'
    BY DEF TypeOK, Entry, ServerInv, ProcessInv, NoDuplicates, InLoop, NoLines, KeepUpTo
  <1>3. CoverInv'
    BY DEF TypeOK, Ids, Entry, ServerInv, ProcessInv, CoverInv, InBoth, NoLines, KeepUpTo
  <1>4. TailInv'
    BY DEF TypeOK, Ids, Entry, ProcessInv, TailInv, EmptyAbove, NoLines, KeepUpTo
  <1>5. PageInv'
    BY DEF PageInv, Files
  <1>6. TornInv'
    BY DEF TypeOK, TornInv, Files, InLoop
  <1>7. HorizonInv'
    BY DEF TypeOK, HorizonInv, Files
  <1>8. QED
    BY <1>h, <1>1, <1>2, <1>3, <1>4, <1>5, <1>6, <1>7
(* The first save of a run: from here its last_id is the checkpoint, and a *)
(* run from scratch has nothing to answer for.                             *)
LEMMA BeginIInv == IInv /\ Begin => IInv'
  <1> SUFFICES ASSUME IInv, Begin PROVE IInv'
    OBVIOUS
  <1> USE DEF IInv, Begin, UpdateAndSave, Persist, server, files, locals, page
  <1>1. TypeOK'
    BY NextTypeOK DEF Next, Proceed
  <1>h. HandlerInv'
    <2>1. entry'.last \in {0, disk.last}
      BY DEF ProcessInv
    <2>2. pc' = "failed" => disk'.last = disk.last
      OBVIOUS
    <2>3. pc' = "failed" => entry'.last \in {0, disk'.last}
      BY <2>1, <2>2
    <2>4. QED
      BY ONLY <2>3 DEF HandlerInv
  <1>2. ServerInv' /\ NoDuplicates'
    BY DEF TypeOK, Entry, ServerInv, NoDuplicates
  <1>p. ProcessInv'
    <2>1. disk'.last = 0 => ~exposed'
      BY DEF TypeOK, ProcessInv
    <2>2. QED
      BY <2>1 DEF ProcessInv, InLoop
  <1>3. ~exposed' => ~exposed \/ (disk'.last = 0 /\ last = 0)
    BY DEF TypeOK
  <1>4. CoverInv'
    BY <1>3 DEF TypeOK, Ids, Entry, ProcessInv, CoverInv, InBoth
  <1>5. TailInv'
    BY DEF ProcessInv, TailInv, EmptyAbove
  <1>6. PageInv' /\ TornInv' /\ HorizonInv'
    BY DEF PageInv, TornInv, HorizonInv, Files, InLoop
  <1>7. QED
    BY <1>h, <1>p, <1>1, <1>2, <1>4, <1>5, <1>6

(* An empty reply: nothing exists above last_id. *)
LEMMA FetchNothingIInv == IInv /\ FetchNothing => IInv'
  <1> SUFFICES ASSUME IInv, FetchNothing PROVE IInv'
    OBVIOUS
  <1> USE DEF IInv, FetchNothing, server, files, locals, page
  <1>1. TypeOK'
    BY NextTypeOK DEF Next, Proceed, Fetch
  <1>h. HandlerInv'
    BY DEF TypeOK, Ids, Entry, ServerInv, ProcessInv, HandlerInv, InBoth
  <1>2. ServerInv' /\ ProcessInv' /\ NoDuplicates'
    BY DEF TypeOK, ServerInv, ProcessInv, NoDuplicates, InLoop
  <1>3. CoverInv' /\ TailInv'
    BY DEF CoverInv, TailInv, EmptyAbove, InBoth
  <1>4. PageInv' /\ TornInv'
    BY DEF PageInv, TornInv, Files, InLoop
  <1>5. ~\E i \in srv : i > last
    <2>1. Cardinality({}) = 0 /\ RowLimit # 0
      BY ConstantsAssumption, FS_EmptySet DEF RowLimit
    <2>2. Above(last) = {}
      BY <2>1 DEF Reply, IsPage, IsStalePage
    <2>3. QED
      BY <2>2 DEF Above
  <1>6. HorizonInv'
    BY <1>5 DEF TypeOK, Ids, ProcessInv, HorizonInv, Files, InLoop
  <1>7. QED
    BY <1>h, <1>1, <1>2, <1>3, <1>4, <1>6

(* A page that advances holds everything between last_id and its max_id,   *)
(* and nothing else; a short one holds everything above last_id.           *)
LEMMA PageFacts ==
  ASSUME IInv, NEW rows \in SUBSET srv, NEW m \in rows, FetchPage(rows, m),
         ~Stalled(m)
  PROVE  /\ \A i \in rows : last < i /\ i <= m
         /\ \A i \in srv : last < i /\ i <= m => i \in rows
         /\ (ServerCap >= PageSize /\ LastPage(Cardinality(rows))) =>
               \A i \in srv : i <= m
         /\ last < m /\ m \in Nat
  <1> USE DEF IInv, TypeOK, Ids
  <1>1. m \in Nat /\ last \in Nat /\ last < m
    BY DEF Stalled
  <1>2. IsPage(rows, last)
    <2>1. m \notin srv \ Above(last)
      BY <1>1 DEF Above
    <2>2. QED
      BY <2>1 DEF FetchPage, Reply, IsStalePage
  <1>3. \A i \in rows : last < i /\ i <= m
    BY <1>2 DEF IsPage, Above, FetchPage
  <1>4. \A i \in srv : last < i /\ i <= m => i \in rows
    BY <1>1, <1>2 DEF IsPage, Above
  <1>5. ASSUME ServerCap >= PageSize, LastPage(Cardinality(rows))
        PROVE  \A i \in srv : i <= m
    <2>1. Cardinality(rows) # RowLimit
      BY <1>5, ConstantsAssumption, IdsFinite DEF LastPage, RowLimit
    <2>2. rows = Above(last)
      BY <1>2, <2>1 DEF IsPage
    <2>3. QED
      BY <1>1, <1>3, <2>2 DEF Above
  <1>6. QED
    BY <1>1, <1>3, <1>4, <1>5

LEMMA FetchPageIInv ==
  ASSUME IInv, NEW rows \in SUBSET srv, NEW m \in rows, FetchPage(rows, m)
  PROVE  IInv'
  <1> USE DEF IInv, server, files, locals
  <1>1. TypeOK'
    BY NextTypeOK DEF Next, Proceed, Fetch
  <1>h. HandlerInv'
    BY DEF FetchPage, page, ProcessInv, HandlerInv
  <1>2. CASE Stalled(m)
    <2> USE <1>2 DEF FetchPage, page
    <2>1. ServerInv' /\ ProcessInv' /\ NoDuplicates'
      BY DEF TypeOK, ServerInv, ProcessInv, NoDuplicates, InLoop
    <2>2. CoverInv' /\ TailInv'
      BY DEF CoverInv, TailInv, EmptyAbove, InBoth
    <2>3. PageInv' /\ TornInv' /\ HorizonInv'
      BY DEF ProcessInv, PageInv, TornInv, HorizonInv, Files, InLoop
    <2>4. QED
      BY <1>h, <1>1, <2>1, <2>2, <2>3
  <1>3. CASE ~Stalled(m)
    <2> USE <1>3 DEF FetchPage
    <2>1. ServerInv' /\ ProcessInv' /\ NoDuplicates'
      BY DEF TypeOK, Ids, ServerInv, ProcessInv, NoDuplicates, InLoop
    <2>2. CoverInv' /\ TailInv'
      BY DEF CoverInv, TailInv, EmptyAbove, InBoth
    <2>3. PageInv'
      BY PageFacts DEF TypeOK, TailInv, EmptyAbove, PageInv, Files
    <2>4. TornInv'
      BY DEF TornInv, Files, InLoop
    <2>5. HorizonInv'
      BY PageFacts DEF TypeOK, ProcessInv, HorizonInv, LastPage, Files, InLoop
    <2>6. QED
      BY <1>h, <1>1, <2>1, <2>2, <2>3, <2>4, <2>5
  <1>4. QED
    BY <1>2, <1>3
(* The lowest pending row goes to items.jsonl, which had no line for it. *)
LEMMA WriteItemsIInv == IInv /\ WriteItems => IInv'
  <1> SUFFICES ASSUME IInv, WriteItems PROVE IInv'
    OBVIOUS
  <1>1. TypeOK'
    BY NextTypeOK DEF IInv, Next, Proceed
  <1>h. HandlerInv'
    BY DEF WriteItems, HandlerInv
  <1>2. PICK m \in pending : /\ \A j \in pending : m <= j
                             /\ items' = AppendLine(items, "items", m)
    BY DEF WriteItems
  <1> USE DEF IInv, WriteItems, server, locals, page, history
  <1>3. /\ m \in Ids /\ last < m /\ m <= top
        /\ items[m] = 0 /\ raw[m] = 0
        /\ items' = [items EXCEPT ![m] = 1]
    <2>1. m \in Ids /\ last < m /\ m <= top
      BY DEF TypeOK, PageInv, Files
    <2>2. raw[m] \in Nat /\ ~(raw[m] > 0) /\ items[m] = raw[m]
      BY <2>1 DEF TypeOK, PageInv, Files
    <2>3. torn = {}
      BY DEF TornInv, InLoop
    <2>4. items' = [items EXCEPT ![m] = items[m] + 1]
      BY <1>2, <2>3 DEF AppendLine
    <2>5. QED
      BY <2>1, <2>2, <2>4
  <1>4. ServerInv' /\ ProcessInv'
    BY DEF ServerInv, ProcessInv, InLoop
  <1>5. NoDuplicates'
    BY <1>3 DEF TypeOK, NoDuplicates
  <1>6. \A i \in Ids : i <= last => items'[i] = items[i]
    <2>1. \A i \in Ids : i # m => items'[i] = items[i]
      BY <1>3 DEF TypeOK
    <2>2. ~(m <= last)
      BY <1>3 DEF TypeOK, Ids
    <2>3. QED
      BY <2>1, <2>2
  <1>7. last = disk.last /\ entry = disk /\ disk.status = "in_progress"
    BY DEF ProcessInv, InLoop
  <1>8. CoverInv'
    BY <1>6, <1>7 DEF TypeOK, CoverInv, InBoth
  <1>9. TailInv' /\ HorizonInv'
    BY <1>7 DEF TailInv, HorizonInv, Files
  <1>10. TornInv'
    BY <1>7 DEF TornInv, InLoop
  <1>11. PageInv'
    BY <1>2, <1>3 DEF TypeOK, PageInv, Files
  <1>12. QED
    BY <1>h, <1>1, <1>4, <1>5, <1>8, <1>9, <1>10, <1>11

(* The same row goes to items_raw.jsonl and is no longer pending. *)
LEMMA WriteRawIInv == IInv /\ WriteRaw => IInv'
  <1> SUFFICES ASSUME IInv, WriteRaw PROVE IInv'
    OBVIOUS
  <1>1. TypeOK'
    BY NextTypeOK DEF IInv, Next, Proceed
  <1>h. HandlerInv'
    BY DEF WriteRaw, HandlerInv
  <1>2. PICK k \in pending : /\ \A j \in pending : k <= j
                             /\ raw' = AppendLine(raw, "raw", k)
                             /\ pending' = pending \ {k}
    BY DEF WriteRaw
  <1> USE DEF IInv, WriteRaw, server, history
  <1>3. PICK m \in pending :
               /\ \A j \in pending : m <= j
               /\ items[m] = 1
               /\ \A i \in Ids : last < i /\ i # m => items[i] = raw[i]
    BY DEF PageInv
  <1>4. m = k
    BY <1>2, <1>3 DEF TypeOK, Ids
  <1>5. /\ k \in Ids /\ last < k /\ k <= top
        /\ items[k] = 1 /\ raw[k] = 0
        /\ raw' = [raw EXCEPT ![k] = 1]
    <2>1. k \in Ids /\ last < k /\ k <= top
      BY DEF TypeOK, PageInv, Files
    <2>2. raw[k] \in Nat /\ ~(raw[k] > 0) /\ items[k] = 1
      BY <1>3, <1>4, <2>1 DEF TypeOK, PageInv, Files
    <2>3. torn = {}
      BY DEF TornInv, InLoop
    <2>4. raw' = [raw EXCEPT ![k] = raw[k] + 1]
      BY <1>2, <2>3 DEF AppendLine
    <2>5. QED
      BY <2>1, <2>2, <2>4
  <1>6. ServerInv' /\ ProcessInv'
    BY DEF ServerInv, ProcessInv, InLoop
  <1>7. NoDuplicates'
    BY <1>5 DEF TypeOK, NoDuplicates
  <1>8. \A i \in Ids : i <= last => raw'[i] = raw[i]
    <2>1. \A i \in Ids : i # k => raw'[i] = raw[i]
      BY <1>5 DEF TypeOK
    <2>2. ~(k <= last)
      BY <1>5 DEF TypeOK, Ids
    <2>3. QED
      BY <2>1, <2>2
  <1>9. last = disk.last /\ entry = disk /\ disk.status = "in_progress"
    BY DEF ProcessInv, InLoop
  <1>10. CoverInv'
    BY <1>8, <1>9 DEF TypeOK, CoverInv, InBoth
  <1>11. TailInv' /\ HorizonInv'
    BY <1>9 DEF TailInv, HorizonInv, Files
  <1>12. TornInv'
    BY <1>9 DEF TornInv, InLoop
  <1>13. \A i \in Ids : last < i => items'[i] = raw'[i]
    BY <1>3, <1>4, <1>5 DEF TypeOK, Ids
  <1>14. PageInv'
    <2>1. \A i \in pending' : last < i /\ i <= top
      BY <1>2 DEF PageInv, Files
    <2>2. \A i \in srv : last < i /\ i <= top => i \in pending' \/ raw'[i] > 0
      BY <1>2, <1>5 DEF TypeOK, PageInv, Files
    <2>3. \A i \in Ids : last < i /\ raw'[i] > 0 => i <= top /\ i \notin pending'
      BY <1>2, <1>5 DEF TypeOK, PageInv, Files
    <2>4. QED
      BY <1>13, <2>1, <2>2, <2>3 DEF PageInv, Files
  <1>15. QED
    BY <1>h, <1>1, <1>6, <1>7, <1>10, <1>11, <1>12, <1>14

(* A page written to the end of both files becomes the checkpoint. *)
LEMMA CheckpointIInv == IInv /\ Checkpoint => IInv'
  <1> SUFFICES ASSUME IInv, Checkpoint PROVE IInv'
    OBVIOUS
  <1> USE DEF IInv, Checkpoint, UpdateAndSave, Persist, server, files, page
  <1>1. TypeOK'
    BY NextTypeOK DEF Next, Proceed
  <1>2. last = disk.last /\ entry = disk /\ disk.status = "in_progress"
    BY DEF ProcessInv, InLoop
  <1>3. last < top /\ disk'.last \in {last, top} /\ entry'.last = top
    BY <1>2 DEF PageInv, Files
  <1>4. /\ \A i \in srv : last < i /\ i <= top => InBoth(i)
        /\ \A i \in Ids : last < i => items[i] = raw[i]
        /\ EmptyAbove(items, top) /\ EmptyAbove(raw, top)
    BY DEF TypeOK, Ids, PageInv, Files, InBoth, EmptyAbove
  <1>5. ServerInv' /\ NoDuplicates'
    BY <1>2, <1>3 DEF TypeOK, ServerInv, NoDuplicates
  <1>6. ProcessInv'
    <2>1. disk'.last = 0 => ~exposed'
      BY <1>2, <1>3 DEF TypeOK, ProcessInv
    <2>2. QED
      BY <1>2, <1>3, <2>1 DEF ProcessInv, InLoop
  <1>h. HandlerInv'
    <2>1. CASE pc' = "failed"
      <3>1. disk'.last = last /\ disk'.status = "in_progress"
        BY <1>2, <2>1
      <3>2. QED
        BY <1>3, <1>4, <3>1 DEF HandlerInv, InBoth
    <2>2. CASE pc' # "failed"
      BY <2>2 DEF HandlerInv
    <2>3. QED
      BY <2>1, <2>2
  <1>7. ~exposed' => ~exposed
    BY <1>3 DEF TypeOK
  <1>8. CoverInv'
    BY <1>2, <1>3, <1>4, <1>7 DEF TypeOK, Ids, CoverInv, InBoth
  <1>9. TailInv'
    BY <1>2, <1>4 DEF TailInv
  <1>10. PageInv' /\ TornInv'
    BY <1>2 DEF PageInv, TornInv, Files, InLoop
  <1>11. HorizonInv'
    BY <1>2, <1>3 DEF HorizonInv, Files
  <1>12. QED
    BY <1>h, <1>1, <1>5, <1>6, <1>8, <1>9, <1>10, <1>11

(* The list is marked complete: nothing is left above last_id. *)
LEMMA FinishIInv == IInv /\ Finish => IInv'
  <1> SUFFICES ASSUME IInv, Finish PROVE IInv'
    OBVIOUS
  <1> USE DEF IInv, Finish, UpdateAndSave, Persist, LocalsGone, server, files
  <1>1. TypeOK'
    BY NextTypeOK DEF Next, Proceed
  <1>2. last = disk.last /\ entry = disk /\ disk.status = "in_progress"
    BY DEF ProcessInv, InLoop
  <1>3. disk'.last = last /\ entry'.last = last
    BY <1>2
  <1>4. ServerInv' /\ NoDuplicates'
    BY <1>2, <1>3 DEF TypeOK, ServerInv, NoDuplicates
  <1>5. ProcessInv'
    <2>1. disk'.last = 0 => ~exposed'
      BY <1>2, <1>3 DEF TypeOK, ProcessInv
    <2>2. QED
      BY <1>2, <1>3, <2>1 DEF ProcessInv, InLoop
  <1>h. HandlerInv'
    BY <1>2, <1>3 DEF HandlerInv
  <1>6. ~exposed' => ~exposed \/ last = 0
    BY DEF TypeOK
  <1>7. CoverInv'
    BY <1>2, <1>3, <1>6 DEF TypeOK, Ids, CoverInv, InBoth
  <1>8. TailInv'
    BY <1>2, <1>3 DEF TailInv, EmptyAbove
  <1>9. PageInv' /\ TornInv'
    BY <1>2 DEF PageInv, TornInv, Files, InLoop
  <1>10. HorizonInv'
    BY <1>2, <1>3 DEF HorizonInv, Files
  <1>11. QED
    BY <1>h, <1>1, <1>4, <1>5, <1>7, <1>8, <1>9, <1>10

(* An exception leaves crawl_list wherever it was. *)
LEMMA RaiseIInv == IInv /\ Raise => IInv'
  <1> SUFFICES ASSUME IInv, Raise PROVE IInv'
    OBVIOUS
  <1> USE DEF IInv, Raise, server, locals, page, history
  <1>1. TypeOK'
    BY NextTypeOK DEF Next, Environment
  <1>h. HandlerInv'
    BY DEF TypeOK, Ids, Entry, ServerInv, ProcessInv, HandlerInv, InBoth
  <1>2. ServerInv' /\ ProcessInv' /\ NoDuplicates'
    BY DEF ServerInv, ProcessInv, NoDuplicates, InLoop
  <1>3. CoverInv' /\ TailInv'
    BY DEF CoverInv, TailInv, EmptyAbove, InBoth
  <1>4. PageInv' /\ HorizonInv'
    BY DEF PageInv, HorizonInv, Files
  <1>5. TornInv'
    BY DEF MaybeTorn, ProcessInv, TornInv, Files, InLoop
  <1>6. QED
    BY <1>h, <1>1, <1>2, <1>3, <1>4, <1>5

(* The handler persists the entry in memory, which vouches for no more     *)
(* than the files hold.                                                    *)
LEMMA MarkFailedIInv == IInv /\ MarkFailed => IInv'
  <1> SUFFICES ASSUME IInv, MarkFailed PROVE IInv'
    OBVIOUS
  <1> USE DEF IInv, MarkFailed, Persist, LocalsGone, server, files
  <1>1. TypeOK'
    BY NextTypeOK DEF Next, Proceed
  <1>h. HandlerInv'
    BY DEF TypeOK, Ids, Entry, ServerInv, ProcessInv, HandlerInv, InBoth
  <1>2. /\ disk'.last = entry.last /\ entry'.last = entry.last
        /\ disk'.status = "failed" /\ entry' = disk'
    BY DEF TypeOK, Entry
  <1>3. ServerInv' /\ NoDuplicates'
    BY <1>2 DEF TypeOK, ServerInv, NoDuplicates
  <1>4. ProcessInv'
    BY <1>2 DEF ProcessInv, InLoop
  <1>5. ~exposed' => ~exposed \/ entry.last = 0
    BY DEF TypeOK
  <1>6. CoverInv'
    BY <1>2, <1>5 DEF TypeOK, Ids, CoverInv, InBoth
  <1>7. TailInv' /\ PageInv'
    BY <1>2 DEF TailInv, PageInv, Files
  <1>8. TornInv' /\ HorizonInv'
    BY <1>2 DEF TornInv, HorizonInv, Files, InLoop
  <1>9. QED
    BY <1>h, <1>1, <1>3, <1>4, <1>6, <1>7, <1>8

(* A killed process leaves the files and the checkpoint as they are. *)
LEMMA InterruptIInv == IInv /\ Interrupt => IInv'
  <1> SUFFICES ASSUME IInv, Interrupt PROVE IInv'
    OBVIOUS
  <1> USE DEF IInv, Interrupt, LocalsGone, server, history
  <1>1. TypeOK'
    BY NextTypeOK DEF Next, Environment
  <1>h. HandlerInv'
    BY DEF TypeOK, Ids, Entry, ServerInv, ProcessInv, HandlerInv, InBoth
  <1>2. ServerInv' /\ ProcessInv' /\ NoDuplicates'
    BY DEF TypeOK, ServerInv, ProcessInv, NoDuplicates, InLoop
  <1>3. CoverInv' /\ TailInv'
    BY DEF CoverInv, TailInv, EmptyAbove, InBoth
  <1>4. PageInv' /\ HorizonInv'
    BY DEF PageInv, HorizonInv, Files
  <1>5. TornInv'
    BY DEF MaybeTorn, ProcessInv, TornInv, Files, InLoop
  <1>6. QED
    BY <1>h, <1>1, <1>2, <1>3, <1>4, <1>5

(* Steps that change nothing. *)
LEMMA StutterIInv == IInv /\ UNCHANGED vars => IInv'
  BY DEF IInv, TypeOK, ServerInv, ProcessInv, HandlerInv, CoverInv, NoDuplicates, TailInv,
         PageInv, TornInv, HorizonInv, EmptyAbove, InBoth, LastPage,
         vars, server, files, locals, page, history

(* Every step of the specification preserves the inductive invariant. *)
LEMMA NextIInv == IInv /\ [Next]_vars => IInv'
  <1> SUFFICES ASSUME IInv, [Next]_vars PROVE IInv'
    OBVIOUS
  <1>1. CASE Proceed
    BY <1>1, UnlinkItemsIInv, UnlinkRawIInv, TruncateItemsIInv,
       TruncateRawIInv, BeginIInv, FetchNothingIInv, FetchPageIInv,
       WriteItemsIInv, WriteRawIInv, CheckpointIInv, FinishIInv, MarkFailedIInv
    DEF Proceed, Fetch
  <1>2. CASE Environment
    BY <1>2, ServerAddsIInv, ServerDeletesIInv, StartFreshIInv,
       StartResumeIInv, RaiseIInv, InterruptIInv
    DEF Environment
  <1>3. CASE UNCHANGED vars
    BY <1>3, StutterIInv
  <1>4. QED
    BY <1>1, <1>2, <1>3 DEF Next

(* The inductive invariant holds in every reachable state. *)
THEOREM Invariance == Spec => []IInv
  BY InitIInv, NextIInv, PTL DEF Spec
(* No gaps below the checkpoint: whatever is interrupted, fails or is      *)
(* resumed, an item that exists at or below last_item_id is in both files, *)
(* unless a run from scratch was stopped before its first checkpoint.      *)
THEOREM NoGapsHolds == Spec => []NoGaps
  <1>1. IInv => NoGaps
    BY DEF IInv, CoverInv, NoGaps
  <1>2. QED
    BY <1>1, Invariance, PTL

(* No item ever has two lines in a file. *)
THEOREM NoDuplicatesHolds == Spec => []NoDuplicates
  <1>1. IInv => NoDuplicates
    BY DEF IInv
  <1>2. QED
    BY <1>1, Invariance, PTL

(* A list marked complete holds all that existed when its last page was    *)
(* asked for, if the server's cap does not shorten the pages.              *)
THEOREM CompleteIsWholeHolds == Spec => []CompleteIsWhole
  <1>1. IInv => CompleteIsWhole
    BY DEF IInv, CoverInv, HorizonInv, CompleteIsWhole
  <1>2. QED
    BY <1>1, Invariance, PTL

(* The two files of a complete list hold the same items, each line whole. *)
THEOREM CompleteIsLockstepHolds == Spec => []CompleteIsLockstep
  <1>1. IInv => CompleteIsLockstep
    <2> SUFFICES ASSUME IInv, disk.status = "complete", ~exposed
                 PROVE  items = raw /\ torn = {}
      BY DEF CompleteIsLockstep
    <2>1. torn = {}
      BY DEF IInv, TornInv
    <2>2. \A i \in Ids : i <= disk.last => items[i] = raw[i]
      BY DEF IInv, CoverInv
    <2>3. \A i \in Ids : i > disk.last => items[i] = raw[i]
      BY DEF IInv, TailInv, EmptyAbove
    <2>4. \A i \in Ids : items[i] = raw[i]
      BY <2>2, <2>3 DEF IInv, TypeOK, Entry, Ids
    <2>5. items = raw
      BY <2>4 DEF IInv, TypeOK
    <2>6. QED
      BY <2>1, <2>5
  <1>2. QED
    BY <1>1, Invariance, PTL
----------------------------------------------------------------------------
(* A step that leaves the checkpoint, and the lines it covers, as they are *)
(* is invisible to the mirror.                                             *)
LEMMA Invisible ==
  ASSUME UNCHANGED <<srv, nextId, disk, exposed>>,
         \A i \in Ids : i <= disk.last => (InBoth(i)' <=> InBoth(i))
  PROVE  UNCHANGED Mirror!vars
  <1>1. Captured' = Captured
    BY DEF Captured
  <1>2. QED
    BY <1>1 DEF Mirror!vars

(* Nothing is captured when the checkpoint is zero or a file is empty.     *)
LEMMA NothingCaptured ==
  ASSUME disk.last = 0 \/ \A i \in Ids : ~InBoth(i)
  PROVE  Captured = {}
  BY DEF Captured, Ids

(* A checkpoint that rises over an interval both files hold captures it.   *)
LEMMA Advances ==
  ASSUME IInv, UNCHANGED <<srv, nextId, items, raw, exposed>>,
         disk.status = "in_progress",
         disk'.status \in {"in_progress", "failed"},
         disk.last < disk'.last, disk'.last \in Nat, disk'.last < nextId,
         \A i \in srv : disk.last < i /\ i <= disk'.last => InBoth(i)
  PROVE  Mirror!Next
  <1> DEFINE h == disk'.last
             more == {i \in Ids : disk.last < i /\ i <= h /\ InBoth(i)}
  <1>1. disk.last \in Nat /\ nextId \in 1..(MaxId + 1) /\ srv \subseteq Ids
    BY DEF IInv, TypeOK, Entry
  <1>2. h \in 1..MaxId
    BY <1>1, ConstantsAssumption
  <1>3. more \in SUBSET (1..MaxId) /\ more \subseteq (disk.last + 1)..h
    BY <1>1 DEF Ids
  <1>4. {i \in srv : disk.last < i /\ i <= h} \subseteq more
    BY <1>1
  <1>5. Captured' = Captured \cup more
    <2>1. \A i \in Ids : InBoth(i)' <=> InBoth(i)
      BY DEF InBoth
    <2>2. \A i \in Ids : i <= h <=> (i <= disk.last \/ (disk.last < i /\ i <= h))
      BY <1>1 DEF Ids
    <2>3. QED
      BY <2>1, <2>2 DEF Captured
  <1>6. Mirror!Advance(more, h)
    <2>1. disk.last < h /\ h < nextId
      OBVIOUS
    <2>2. QED
      BY <1>3, <1>4, <1>5, <2>1 DEF Mirror!Advance
  <1>7. QED
    BY <1>2, <1>3, <1>6 DEF Mirror!Next

(* The actions on the files: unlinking gives up what is captured, and      *)
(* nothing else touches a line the checkpoint covers.                      *)
LEMMA FilesRefine ==
  ASSUME IInv, \/ UnlinkItems \/ UnlinkRaw \/ TruncateItems \/ TruncateRaw
               \/ WriteItems \/ WriteRaw
  PROVE  [Mirror!Next]_(Mirror!vars)
  <1> USE DEF IInv
  <1>1. CASE UnlinkItems
    <2>1. Captured' = {}
      BY <1>1 DEF UnlinkItems, Captured, InBoth, NoLines
    <2>2. CASE disk.last = 0
      <3>1. Captured = {}
        BY <2>2, NothingCaptured
      <3>2. ~exposed /\ ~exposed'
        BY <1>1, <2>2 DEF UnlinkItems, ProcessInv
      <3>3. exposed' = exposed
        BY <3>2, NextTypeOK, <1>1 DEF TypeOK, Next, Proceed
      <3>4. QED
        BY <1>1, <2>1, <3>1, <3>3 DEF UnlinkItems, server, Mirror!vars
    <2>3. CASE disk.last # 0
      <3>1. exposed'
        BY <1>1, <2>3 DEF UnlinkItems
      <3>2. exposed' = TRUE
        BY <3>1, NextTypeOK, <1>1 DEF TypeOK, Next, Proceed
      <3>3. Mirror!GiveUp
        BY <1>1, <2>1, <2>3, <3>2 DEF UnlinkItems, server, Mirror!GiveUp
      <3>4. QED
        BY <3>3 DEF Mirror!Next
    <2>4. QED
      BY <2>2, <2>3
  <1>2. CASE UnlinkRaw
    <2>1. \A i \in Ids : ~InBoth(i)
      BY <1>2 DEF UnlinkRaw, TypeOK, Ids, TailInv, EmptyAbove, InBoth
    <2>2. \A i \in Ids : ~InBoth(i)'
      BY <1>2 DEF UnlinkRaw, NoLines, InBoth
    <2>3. QED
      BY <1>2, <2>1, <2>2, Invisible DEF UnlinkRaw, server, history
  <1>3. CASE TruncateItems
    <2>1. last = disk.last
      BY <1>3 DEF TruncateItems, ProcessInv
    <2>2. \A i \in Ids : i <= last => items'[i] = items[i] /\ raw'[i] = raw[i]
      BY <1>3 DEF TruncateItems, KeepUpTo
    <2>3. QED
      BY <1>3, <2>1, <2>2, Invisible DEF TruncateItems, InBoth, server, history
  <1>4. CASE TruncateRaw
    <2>1. last = disk.last
      BY <1>4 DEF TruncateRaw, ProcessInv
    <2>2. \A i \in Ids : i <= last => items'[i] = items[i] /\ raw'[i] = raw[i]
      BY <1>4 DEF TruncateRaw, KeepUpTo
    <2>3. QED
      BY <1>4, <2>1, <2>2, Invisible DEF TruncateRaw, InBoth, server, history
  <1>5. CASE WriteItems
    <2>1. PICK m \in pending : items' = AppendLine(items, "items", m)
      BY <1>5 DEF WriteItems
    <2>2. last = disk.last /\ last < m /\ m \in Ids
      BY <1>5 DEF WriteItems, TypeOK, ProcessInv, PageInv, InLoop, Files
    <2>3. \A i \in Ids : i # m => items'[i] = items[i]
      BY <2>1 DEF AppendLine, TypeOK
    <2>4. \A i \in Ids : i <= last => items'[i] = items[i] /\ raw'[i] = raw[i]
      BY <1>5, <2>2, <2>3 DEF WriteItems, TypeOK, Ids
    <2>5. QED
      BY <1>5, <2>2, <2>4, Invisible DEF WriteItems, InBoth, server, history
  <1>6. CASE WriteRaw
    <2>1. PICK m \in pending : raw' = AppendLine(raw, "raw", m)
      BY <1>6 DEF WriteRaw
    <2>2. last = disk.last /\ last < m /\ m \in Ids
      BY <1>6 DEF WriteRaw, TypeOK, ProcessInv, PageInv, InLoop, Files
    <2>3. \A i \in Ids : i # m => raw'[i] = raw[i]
      BY <2>1 DEF AppendLine, TypeOK
    <2>4. \A i \in Ids : i <= last => items'[i] = items[i] /\ raw'[i] = raw[i]
      BY <1>6, <2>2, <2>3 DEF WriteRaw, TypeOK, Ids
    <2>5. QED
      BY <1>6, <2>2, <2>4, Invisible DEF WriteRaw, InBoth, server, history
  <1>7. QED
    BY <1>1, <1>2, <1>3, <1>4, <1>5, <1>6

(* A save takes the window flag down with a zero checkpoint and keeps it   *)
(* otherwise.                                                              *)
LEMMA PersistFlag ==
  ASSUME IInv, NEW e \in Entry, Persist(e)
  PROVE  /\ disk' = e
         /\ e.last = 0 => exposed' = FALSE
         /\ e.last # 0 => exposed' = exposed
  BY DEF Persist, IInv, TypeOK

(* The first save of a run starts the list over, or resumes it.            *)
LEMMA BeginRefines ==
  ASSUME IInv, Begin
  PROVE  [Mirror!Next]_(Mirror!vars)
  <1> DEFINE e == [status |-> "in_progress", last |-> last, written |-> written]
  <1>1. e \in Entry /\ e.last = last /\ e.status = "in_progress"
    BY DEF IInv, TypeOK, Entry, Status
  <1>2. UNCHANGED <<srv, nextId, items, raw>>
    BY DEF Begin, server, files
  <1> HIDE DEF e
  <1>3. CASE UNCHANGED <<disk, exposed>>
    BY <1>2, <1>3, Invisible DEF InBoth
  <1>4. CASE Persist(e)
    <2>1. CASE last = 0
      <3>1. disk'.last = 0 /\ disk'.status = "in_progress" /\ exposed' = FALSE
        BY <1>1, <1>4, <2>1, PersistFlag
      <3>2. Captured' = {}
        BY <3>1 DEF Captured, Ids
      <3>3. Mirror!StartOver
        BY <1>2, <3>1, <3>2 DEF Mirror!StartOver
      <3>4. QED
        BY <3>3 DEF Mirror!Next
    <2>2. CASE last # 0
      <3>1. disk'.last = last /\ disk'.status = "in_progress" /\ exposed' = exposed
        BY <1>1, <1>4, <2>2, PersistFlag
      <3>2. last = disk.last /\ disk.status # "complete"
        BY <2>2 DEF Begin, IInv, ProcessInv
      <3>3. Captured' = Captured
        BY <1>2, <3>1, <3>2 DEF Captured, InBoth
      <3>4. Mirror!Resume
        BY <1>2, <2>2, <3>1, <3>2, <3>3 DEF Mirror!Resume
      <3>5. QED
        BY <3>4 DEF Mirror!Next
    <2>3. QED
      BY <2>1, <2>2
  <1>5. QED
    BY <1>3, <1>4 DEF Begin, UpdateAndSave, e

(* A page's checkpoint advances the boundary, a failed save of it is not   *)
(* seen.                                                                   *)
LEMMA CheckpointRefines ==
  ASSUME IInv, Checkpoint
  PROVE  [Mirror!Next]_(Mirror!vars)
  <1> DEFINE e == [status |-> "in_progress", last |-> top, written |-> written]
  <1>1. e \in Entry /\ e.last = top /\ e.status = "in_progress"
    BY DEF IInv, TypeOK, Entry, Status
  <1>2. UNCHANGED <<srv, nextId, items, raw>>
    BY DEF Checkpoint, server, files
  <1> HIDE DEF e
  <1>3. CASE UNCHANGED <<disk, exposed>>
    BY <1>2, <1>3, Invisible DEF InBoth
  <1>4. CASE Persist(e)
    <2>1. last = disk.last /\ disk.status = "in_progress"
      BY DEF Checkpoint, IInv, ProcessInv, InLoop
    <2>2. last < top /\ top \in Nat /\ last \in Nat /\ top < nextId
      BY DEF Checkpoint, IInv, TypeOK, ServerInv, PageInv, Files
    <2>3. \A i \in srv : last < i /\ i <= top => InBoth(i)
      BY DEF Checkpoint, IInv, TypeOK, Ids, PageInv, Files, InBoth
    <2>4. disk'.last = top /\ disk'.status = "in_progress" /\ exposed' = exposed
      <3>1. top # 0
        BY <2>2
      <3>2. disk' = e /\ (e.last # 0 => exposed' = exposed)
        BY <1>1, <1>4, PersistFlag
      <3>3. QED
        BY <1>1, <3>1, <3>2
    <2>5. Mirror!Next
      BY <1>2, <2>1, <2>2, <2>3, <2>4, Advances
    <2>6. QED
      BY <2>5
  <1>5. QED
    BY <1>3, <1>4 DEF Checkpoint, UpdateAndSave, e

(* The last save of a run completes the list.                              *)
LEMMA FinishRefines ==
  ASSUME IInv, Finish
  PROVE  [Mirror!Next]_(Mirror!vars)
  <1> DEFINE e == [status |-> "complete", last |-> last, written |-> written]
  <1>1. e \in Entry /\ e.last = last /\ e.status = "complete"
    BY DEF IInv, TypeOK, Entry, Status
  <1>2. UNCHANGED <<srv, nextId, items, raw>>
    BY DEF Finish, server, files
  <1> HIDE DEF e
  <1>3. CASE UNCHANGED <<disk, exposed>>
    BY <1>2, <1>3, Invisible DEF InBoth
  <1>4. CASE Persist(e)
    <2>1. last = disk.last /\ disk.status = "in_progress"
      BY DEF Finish, IInv, ProcessInv, InLoop
    <2>2. last = 0 => exposed = FALSE
      BY <2>1 DEF IInv, TypeOK, ProcessInv
    <2>3. disk'.last = last /\ disk'.status = "complete" /\ exposed' = exposed
      <3>1. disk' = e /\ (last = 0 => exposed' = FALSE)
                     /\ (last # 0 => exposed' = exposed)
        BY <1>1, <1>4, PersistFlag
      <3>2. CASE last = 0
        BY <1>1, <2>2, <3>1, <3>2
      <3>3. CASE last # 0
        BY <1>1, <3>1, <3>3
      <3>4. QED
        BY <3>2, <3>3
    <2>4. Captured' = Captured
      BY <1>2, <2>1, <2>3 DEF Captured, InBoth
    <2>5. Mirror!Complete
      BY <1>2, <2>1, <2>3, <2>4 DEF Mirror!Complete
    <2>6. QED
      BY <2>5 DEF Mirror!Next
  <1>5. QED
    BY <1>3, <1>4 DEF Finish, UpdateAndSave, e

(* The exception handler persists the entry in memory: the checkpoint on   *)
(* disk, none, or the one whose save had failed.                           *)
LEMMA MarkFailedRefines ==
  ASSUME IInv, MarkFailed
  PROVE  [Mirror!Next]_(Mirror!vars)
  <1> DEFINE e == [entry EXCEPT !.status = "failed"]
  <1>1. e \in Entry /\ e.last = entry.last /\ e.status = "failed"
    BY DEF IInv, TypeOK, Entry, Status
  <1>2. UNCHANGED <<srv, nextId, items, raw>> /\ Persist(e)
    BY DEF MarkFailed, server, files
  <1>3. disk'.last = entry.last /\ disk'.status = "failed"
    BY <1>1, <1>2, PersistFlag
  <1>4. CASE entry.last = 0
    <2>1. exposed' = FALSE
      BY <1>1, <1>2, <1>4, PersistFlag
    <2>2. Captured' = {}
      BY <1>3, <1>4 DEF Captured, Ids
    <2>3. Mirror!StartOver
      BY <1>2, <1>3, <1>4, <2>1, <2>2 DEF Mirror!StartOver
    <2>4. QED
      BY <2>3 DEF Mirror!Next
  <1>5. CASE entry.last # 0 /\ entry.last = disk.last
    <2>1. exposed' = exposed
      BY <1>1, <1>2, <1>5, PersistFlag
    <2>2. Captured' = Captured
      BY <1>2, <1>3, <1>5 DEF Captured, InBoth
    <2>3. Mirror!Fail
      BY <1>2, <1>3, <1>5, <2>1, <2>2 DEF Mirror!Fail
    <2>4. QED
      BY <2>3 DEF Mirror!Next
  <1>6. CASE entry.last # 0 /\ entry.last # disk.last
    <2>1. exposed' = exposed
      BY <1>1, <1>2, <1>6, PersistFlag
    <2>2. /\ disk.last < entry.last /\ disk.status = "in_progress"
          /\ \A i \in srv : disk.last < i /\ i <= entry.last => InBoth(i)
      BY <1>6 DEF MarkFailed, IInv, HandlerInv
    <2>3. entry.last \in Nat /\ entry.last < nextId
      BY DEF IInv, TypeOK, Entry, ServerInv
    <2>4. Mirror!Next
      BY <1>2, <1>3, <2>1, <2>2, <2>3, Advances
    <2>5. QED
      BY <2>4
  <1>7. QED
    BY <1>4, <1>5, <1>6

(* Every step of the crawl and of its environment is a step of the mirror  *)
(* or invisible to it.                                                     *)
LEMMA NextRefines ==
  ASSUME IInv, [Next]_vars
  PROVE  [Mirror!Next]_(Mirror!vars)
  <1>1. CASE ServerAdds
    <2>1. UNCHANGED <<Captured, disk, exposed>>
      BY <1>1 DEF ServerAdds, files, history, Captured, InBoth
    <2>2. Mirror!ServerAdds
      BY <1>1, <2>1 DEF ServerAdds, Mirror!ServerAdds
    <2>3. QED
      BY <2>2 DEF Mirror!Next
  <1>2. ASSUME NEW d \in Ids, ServerDeletes(d) PROVE Mirror!Next
    <2>1. UNCHANGED <<Captured, disk, exposed>>
      BY <1>2 DEF ServerDeletes, files, history, Captured, InBoth
    <2>2. Mirror!ServerDeletes(d)
      BY <1>2, <2>1 DEF ServerDeletes, Mirror!ServerDeletes
    <2>3. QED
      BY <2>2 DEF Mirror!Next, Ids
  <1>3. CASE StartFresh \/ StartResume
    BY <1>3, Invisible DEF StartFresh, StartResume, server, files, history, InBoth
  <1>4. CASE Raise \/ Interrupt
    BY <1>4, Invisible DEF Raise, Interrupt, server, history, InBoth
  <1>5. CASE Fetch
    BY <1>5, Invisible
    DEF Fetch, FetchNothing, FetchPage, server, files, InBoth
  <1>6. CASE UNCHANGED vars
    BY <1>6, Invisible DEF vars, server, files, history, InBoth
  <1>7. QED
    BY <1>1, <1>2, <1>3, <1>4, <1>5, <1>6, FilesRefine, BeginRefines,
       CheckpointRefines, FinishRefines, MarkFailedRefines
    DEF Next, Proceed, Environment

(* The crawl implements the mirror: what a resumed, interrupted or failed  *)
(* run has captured is given up only by starting over, and the boundary    *)
(* never passes an item that is not captured.                              *)
THEOREM MirrorImplemented == Spec => ImplementsMirror
  <1>1. Init => Mirror!Init
    <2>1. ASSUME Init PROVE Mirror!Init
      <3>1. Captured = {}
        BY <2>1, NothingCaptured DEF Init
      <3>2. QED
        BY <2>1, <3>1 DEF Init, Mirror!Init
    <2>2. QED
      BY <2>1
  <1>2. IInv /\ [Next]_vars => [Mirror!Next]_(Mirror!vars)
    BY NextRefines
  <1>3. QED
    BY <1>1, <1>2, Invariance, PTL DEF Spec, ImplementsMirror, Mirror!Spec

-----------------------------------------------------------------------------
(* What the mirror promises, proved of the mirror alone: nothing below is  *)
(* said of files, pages or processes.                                      *)

(* Ids are handed out in order and the boundary never passes the next one, *)
(* so an item created later is above the boundary.                         *)
MirrorInv ==
    /\ srv \subseteq 1..MaxId
    /\ nextId \in Nat
    /\ disk.last \in Nat
    /\ \A i \in srv : i < nextId
    /\ disk.last < nextId
    /\ Mirror!Whole

(* One step of the mirror keeps its invariant.                             *)
LEMMA MirrorNextInv == MirrorInv /\ [Mirror!Next]_(Mirror!vars) => MirrorInv'
  <1> SUFFICES ASSUME MirrorInv, [Mirror!Next]_(Mirror!vars) PROVE MirrorInv'
    OBVIOUS
  <1> DEFINE have == Captured
             upTo == disk.last
  <1>0. /\ srv \subseteq 1..MaxId /\ nextId \in Nat /\ upTo \in Nat
        /\ \A i \in srv : i < nextId
        /\ upTo < nextId
        /\ ~exposed => \A i \in srv : i <= upTo => i \in have
    BY DEF MirrorInv, Mirror!Whole
  <1> DEFINE Kept == /\ srv' \subseteq 1..MaxId /\ nextId' \in Nat /\ upTo' \in Nat
                     /\ \A i \in srv' : i < nextId'
                     /\ upTo' < nextId'
                     /\ ~exposed' => \A i \in srv' : i <= upTo' => i \in have'
  <1> SUFFICES Kept
    BY DEF MirrorInv, Mirror!Whole
  <1>1. CASE Mirror!ServerAdds
    <2>1. /\ nextId <= MaxId /\ srv' = srv \cup {nextId} /\ nextId' = nextId + 1
          /\ have' = have /\ upTo' = upTo /\ exposed' = exposed
      BY <1>1 DEF Mirror!ServerAdds
    <2> HIDE DEF have, upTo
    <2>2. nextId \in 1..MaxId
      BY <1>0, <2>1, ConstantsAssumption
    <2> QED
      BY <1>0, <2>1, <2>2
  <1>2. ASSUME NEW i \in 1..MaxId, Mirror!ServerDeletes(i) PROVE Kept
    <2>1. /\ srv' = srv \ {i} /\ nextId' = nextId
          /\ have' = have /\ upTo' = upTo /\ exposed' = exposed
      BY <1>2 DEF Mirror!ServerDeletes
    <2> HIDE DEF have, upTo
    <2> QED
      BY <1>0, <2>1
  <1>3. CASE Mirror!GiveUp
    <2>1. exposed' = TRUE /\ srv' = srv /\ nextId' = nextId /\ upTo' = upTo
      BY <1>3 DEF Mirror!GiveUp
    <2> HIDE DEF have, upTo
    <2> QED
      BY <1>0, <2>1
  <1>4. CASE Mirror!StartOver
    <2>1. upTo' = 0 /\ srv' = srv /\ nextId' = nextId
      BY <1>4 DEF Mirror!StartOver
    <2> HIDE DEF have, upTo
    <2> QED
      BY <1>0, <2>1
  <1>5. ASSUME NEW more \in SUBSET (1..MaxId), NEW h \in 1..MaxId, Mirror!Advance(more, h)
        PROVE  Kept
    <2>1. /\ h < nextId /\ {i \in srv : upTo < i /\ i <= h} \subseteq more
          /\ have' = have \cup more /\ upTo' = h
          /\ srv' = srv /\ nextId' = nextId /\ exposed' = exposed
      BY <1>5 DEF Mirror!Advance
    <2> HIDE DEF have, upTo
    <2> QED
      BY <1>0, <2>1
  <1>6. CASE Mirror!Resume \/ Mirror!Complete \/ Mirror!Fail \/ UNCHANGED Mirror!vars
    <2>1. /\ have' = have /\ upTo' = upTo /\ exposed' = exposed
          /\ srv' = srv /\ nextId' = nextId
      BY <1>6 DEF Mirror!Resume, Mirror!Complete, Mirror!Fail, Mirror!vars
    <2> HIDE DEF have, upTo
    <2> QED
      BY <1>0, <2>1
  <1> HIDE DEF Kept
  <1> QED
    BY <1>1, <1>2, <1>3, <1>4, <1>5, <1>6 DEF Mirror!Next

(* At or below the boundary of the mirror everything that exists is        *)
(* captured, as long as no run has given the captured items up and not yet *)
(* started over.                                                           *)
THEOREM MirrorIsWhole == Mirror!Spec => []Mirror!Whole
  <1>1. Mirror!Init => MirrorInv
    BY DEF Mirror!Init, MirrorInv, Mirror!Whole
  <1>2. MirrorInv => Mirror!Whole
    BY DEF MirrorInv
  <1> QED
    BY <1>1, <1>2, MirrorNextInv, PTL DEF Mirror!Spec

(* Hence of every crawl that implements it, whatever its files go through. *)
THEOREM CapturedIsWhole == Spec => []Mirror!Whole
  <1> QED
    BY MirrorIsWhole, MirrorImplemented, PTL DEF ImplementsMirror
=============================================================================
