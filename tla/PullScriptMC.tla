---------------------------- MODULE PullScriptMC ----------------------------
(***************************************************************************)
(* A small farm for PullScript: two tickets, up to three comments on them,   *)
(* one user and two attachments, one of them a JSON file.                   *)
(***************************************************************************)
EXTENDS PullScript

FarmRows == [c \in Collections |-> CASE c = "tickets" -> {1, 2}
                                      [] c = "comments" -> {1, 2}
                                      [] c = "users" -> {1}
                                      [] c = "attachments" -> {1, 2}]
FarmOrder == <<1, 3, 2>>
FarmColumns == <<"BugId", "CreatedById", "RelatedId">>
FarmValue == [k \in ToSet(FarmColumns) |->
                CASE k = "BugId" -> <<1, 2, 1>>
                  [] k = "CreatedById" -> <<1, 1, 1>>
                  [] k = "RelatedId" -> <<2, 0, 4>>]
FarmCreated == <<2, 1, 1>>
FarmFiles == <<[item |-> 1, suffix |-> "bytes"], [item |-> 2, suffix |-> "json"],
               [item |-> 2, suffix |-> "html"]>>
FarmServers ==
    {[paging |-> "taken", users |-> TRUE, enumerates |-> FALSE],
     [paging |-> "refused", users |-> FALSE, enumerates |-> TRUE],
     [paging |-> "ignored", users |-> FALSE, enumerates |-> TRUE]}
Pull(language, limit, expand) ==
    [command |-> "pull", language |-> language, limit |-> limit, expand |-> expand]
FarmOptions ==
    {Pull("en", 0, {"tickets"}), Pull("de", 0, {}), Pull("en", 1, {}),
     [command |-> "attachments", language |-> "en", limit |-> 0, expand |-> {}]}
=============================================================================
