---------------------------- MODULE CrawlRunMC ----------------------------
(***************************************************************************)
(* A small farm for CrawlRun: a chain of sites longer than the depth limit  *)
(* of two, beside it one that lists itself and a site of the chain; three   *)
(* lists, two of them with titles that differ in an umlaut only.            *)
(***************************************************************************)
EXTENDS CrawlRun

FarmChildren == << <<2, 3>>, <<2, 3>>, <<4>>, <<5>>, <<>> >>
FarmWebOf == <<1, 1, 4>>
Plain == [system |-> FALSE, hidden |-> FALSE, include_hidden |-> FALSE, library |-> FALSE,
          include_libraries |-> TRUE, included |-> TRUE, excluded |-> FALSE]
FarmInfo == << [Plain EXCEPT !.hidden = TRUE], Plain, [Plain EXCEPT !.library = TRUE] >>
FarmTitle == << [uni |-> "pruefung", ascii |-> "prfung"], [uni |-> "praefung", ascii |-> "prfung"],
                [uni |-> "ticket", ascii |-> "ticket"] >>
FarmSetups == {[version |-> "11", api_mode |-> "soap", mangled |-> FALSE],
               [version |-> "14", api_mode |-> "odata", mangled |-> FALSE],
               [version |-> "14", api_mode |-> "odata", mangled |-> TRUE]}
OneSetup == {[version |-> "14", api_mode |-> "soap", mangled |-> FALSE]}
ByUrlAndTitle == {<<3, "title">>}
=============================================================================
