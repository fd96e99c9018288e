---------------------------- MODULE ListCrawlInv ----------------------------
(***************************************************************************)
(* The inductive invariant of ListCrawl.  Its parts say, for every place   *)
(* the process can be at, what the files hold at or below the checkpoint   *)
(* and above it; ListCrawlProofs proves it and derives the properties.     *)
(***************************************************************************)
EXTENDS ListCrawl

EmptyAbove(file, n) == \A i \in Ids : i > n => file[i] = 0

InLoop == {"fetch", "items", "raw", "finish"}

(* Ids are handed out in order, so everything the crawl has ever seen is   *)
(* below the id of the next item.                                          *)
ServerInv ==
    /\ \A i \in srv : i < nextId
    /\ disk.last < nextId /\ entry.last < nextId
    /\ last < nextId /\ top < nextId
    /\ horizon <= nextId

(* The entry in memory differs from the one on disk only between a failed  *)
(* save and the exception handler; last_id follows the entry.              *)
ProcessInv ==
    /\ pc # "failed" => entry = disk
    /\ pc \in {"unlink_items", "unlink_raw"} => last = 0
    /\ pc \in {"trunc_items", "trunc_raw"} =>
          last = disk.last /\ disk.status # "complete"
    /\ pc = "begin" =>
          last = 0 \/ (last = disk.last /\ disk.status # "complete")
    /\ pc \in InLoop => last = disk.last /\ disk.status = "in_progress"
    /\ pc = "unlink_raw" => exposed \/ disk.last = 0
    /\ disk.last = 0 => ~exposed

(* What the handler of a failed save is about to persist: the checkpoint   *)
(* on disk, none, or the one that failed to replace it, whose page is      *)
(* complete in both files.                                                 *)
HandlerInv ==
    pc = "failed" =>
        \/ entry.last \in {0, disk.last}
        \/ /\ disk.last < entry.last
           /\ disk.status = "in_progress"
           /\ \A i \in srv : disk.last < i /\ i <= entry.last => InBoth(i)

(* What a checkpoint, on disk or in memory, vouches for is in both files.  *)
CoverInv ==
    ~exposed =>
        /\ \A i \in srv : i <= disk.last \/ i <= entry.last => InBoth(i)
        /\ \A i \in Ids : i <= disk.last \/ i <= entry.last => items[i] = raw[i]

(* Above last_id the files are empty, except for the page being written.   *)
TailInv ==
    /\ pc = "unlink_raw" => EmptyAbove(items, 0)
    /\ pc = "trunc_raw" => EmptyAbove(items, last)
    /\ pc \in {"begin", "fetch", "finish"} =>
          EmptyAbove(items, last) /\ EmptyAbove(raw, last)
    /\ (disk.status = "complete" /\ ~exposed) =>
          EmptyAbove(items, disk.last) /\ EmptyAbove(raw, disk.last)

PageInv ==
    /\ pc \in Files =>
          /\ last < top
          /\ \A i \in pending : last < i /\ i <= top
          /\ \A i \in srv : last < i /\ i <= top => i \in pending \/ raw[i] > 0
          /\ \A i \in Ids : last < i /\ raw[i] > 0 => i <= top /\ i \notin pending
    /\ pc = "items" => \A i \in Ids : last < i => items[i] = raw[i]
    /\ pc = "raw" =>
          \E m \in pending :
              /\ \A j \in pending : m <= j
              /\ items[m] = 1
              /\ \A i \in Ids : last < i /\ i # m => items[i] = raw[i]

TornInv ==
    /\ pc \in {"unlink_raw", "trunc_raw"} => torn \subseteq {"raw"}
    /\ pc \in {"begin"} \cup InLoop => torn = {}
    /\ (disk.status = "complete" /\ ~exposed) => torn = {}

(* A page shorter than asked for reached past everything that existed when *)
(* it was asked for.                                                       *)
HorizonInv ==
    ServerCap >= PageSize =>
        /\ pc \in Files /\ LastPage(len) => \A i \in srv : i < horizon => i <= top
        /\ pc = "finish" => \A i \in srv : i < horizon => i <= last
        /\ (disk.status = "complete" /\ ~exposed) =>
              \A i \in srv : i < horizon => i <= disk.last

(* The inductive invariant.                                                *)
IInv ==
    /\ TypeOK
    /\ ServerInv
    /\ ProcessInv
    /\ HandlerInv
    /\ CoverInv
    /\ NoDuplicates
    /\ TailInv
    /\ PageInv
    /\ TornInv
    /\ HorizonInv
=============================================================================
