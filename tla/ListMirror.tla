----------------------------- MODULE ListMirror -----------------------------
(***************************************************************************)
(* What a full crawl promises of one list, with no files, pages, rows or   *)
(* processes: a set of captured items that grows by whole id intervals up  *)
(* to a persisted boundary `upTo`.  ListCrawl implements it.               *)
(*                                                                         *)
(* Capturing is lossless over an interval: whatever exists in it now and   *)
(* was not captured before is captured as the boundary passes it.  What is *)
(* captured is given up only when a run starts over, and there the promise *)
(* has a hole, which the specification shows instead of hiding: the items  *)
(* go first (GiveUp), the boundary is taken back in a later step           *)
(* (StartOver), and a run that ends between the two leaves them apart.     *)
(***************************************************************************)
EXTENDS Naturals

CONSTANTS
    MaxId       \* bound: the server creates item ids 1..MaxId, ever

VARIABLES
    srv,        \* ids of the items that exist on the server now
    nextId,     \* the id the server gives the next item
    have,       \* the captured ids the boundary covers
    upTo,       \* the persisted boundary, last_item_id
    status,     \* the persisted status of the list
    broken      \* the boundary covers items that were given up

vars == <<srv, nextId, have, upTo, status, broken>>

Init ==
    /\ srv = {} /\ nextId = 1
    /\ have = {} /\ upTo = 0
    /\ status = "pending"
    /\ broken = FALSE

ServerAdds ==
    /\ nextId <= MaxId
    /\ srv' = srv \cup {nextId}
    /\ nextId' = nextId + 1
    /\ UNCHANGED <<have, upTo, status, broken>>

ServerDeletes(i) ==
    /\ i \in srv
    /\ srv' = srv \ {i}
    /\ UNCHANGED <<nextId, have, upTo, status, broken>>

GiveUp ==
    /\ upTo # 0
    /\ have' = {}
    /\ broken' = TRUE
    /\ UNCHANGED <<srv, nextId, upTo, status>>

StartOver ==
    /\ have' = {} /\ upTo' = 0
    /\ status' \in {"in_progress", "failed"}
    /\ broken' = FALSE
    /\ UNCHANGED <<srv, nextId>>

Resume ==
    /\ upTo # 0 /\ status # "complete"
    /\ status' = "in_progress"
    /\ UNCHANGED <<srv, nextId, have, upTo, broken>>

Advance(more, h) ==
    /\ status = "in_progress"
    /\ upTo < h /\ h < nextId
    /\ more \subseteq (upTo + 1)..h
    /\ {i \in srv : upTo < i /\ i <= h} \subseteq more
    /\ have' = have \cup more
    /\ upTo' = h
    /\ status' \in {"in_progress", "failed"}
    /\ UNCHANGED <<srv, nextId, broken>>

Complete ==
    /\ status = "in_progress"
    /\ status' = "complete"
    /\ UNCHANGED <<srv, nextId, have, upTo, broken>>

Fail ==
    /\ status' = "failed"
    /\ UNCHANGED <<srv, nextId, have, upTo, broken>>

Next ==
    \/ ServerAdds
    \/ \E i \in 1..MaxId : ServerDeletes(i)
    \/ GiveUp \/ StartOver \/ Resume \/ Complete \/ Fail
    \/ \E more \in SUBSET (1..MaxId), h \in 1..MaxId : Advance(more, h)

Spec == Init /\ [][Next]_vars
----------------------------------------------------------------------------
(* The promise: at or below the boundary, everything that exists is        *)
(* captured.                                                               *)
Whole == ~broken => \A i \in srv : i <= upTo => i \in have
=============================================================================
