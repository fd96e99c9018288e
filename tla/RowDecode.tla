------------------------------- MODULE RowDecode -------------------------------
(***************************************************************************)
(* One list item on its way to items.jsonl by either backend: the ows_      *)
(* attributes of a SOAP row through decode.py, the entity of ListData.svc   *)
(* through parse_atom_value and ODataRowMapper of services/odata.py.        *)
(*                                                                         *)
(* A string is a sequence of atoms: the delimiter ";#", numbers, dates,     *)
(* term GUIDs, anything else.  A decoded value is a record that says what   *)
(* it is.  The two operators SoapOf and EntityOf are the servers': what an  *)
(* item is sent as, after the fixtures of tests/.                           *)
(***************************************************************************)
EXTENDS Integers, Sequences, SequencesExt

CONSTANTS
    Words,      \* atoms that are nothing in particular
    Columns,    \* the list's schema: a sequence of [name, type, candidates]
    Properties, \* what ListData.svc calls them: [of, key, uni, ascii, base, id];
                \* base is what is before a final "Id", id marks a lookup's id
    Items,      \* what is stored: functions from some column names to values
    Servings    \* how it may be sent: [atom, expanded, decimals, wrapped]

D == ";#"
Numbers == {"0", "1", "7", "9"}
Dates == {"2009-03-14"}
Guids == {"9f8e7d6c"}

NoId == "None"
Null == [null |-> TRUE]
Text(t) == [text |-> t]
Number(n) == [number |-> n]
Instant(d) == [instant |-> d]
Truth(b) == [bool |-> b]
List(s) == [list |-> s]
Reference(id, t) == [id |-> id, value |-> t]
Has(v, tag) == tag \in DOMAIN v

IsInt(t) == Len(t) = 1 /\ t[1] \in Numbers
IsDate(t) == Len(t) = 1 /\ t[1] \in Dates
Count(t) == Cardinality({i \in DOMAIN t : t[i] = D})
EndsIn(t, atom) == t # <<>> /\ Last(t) = atom

-----------------------------------------------------------------------------
(* decode.py.  A decoder answers a value and whether it warned.             *)

Plain(v) == [value |-> v, warned |-> FALSE]
Warned(v) == [value |-> v, warned |-> TRUE]

\* One wrapping delimiter goes at either end.
Unwrapped(v) ==
    LET w == IF v # <<>> /\ Head(v) = D THEN Tail(v) ELSE v
    IN  IF EndsIn(w, D) THEN Front(w) ELSE w

\* The member of a set of numbers that k others are less than.
Nth(S, k) == CHOOSE i \in S : Cardinality({j \in S : j < i}) = k

\* The k-th delimiter, one before the first atom and one behind the last.
Cuts(w) == {0, Len(w) + 1} \cup {i \in DOMAIN w : w[i] = D}
Cut(w, k) == Nth(Cuts(w), k)
Pieces(w) == [k \in 1 .. Count(w) + 1 |-> SubSeq(w, Cut(w, k - 1) + 1, Cut(w, k) - 1)]

SplitMulti(v) == IF Unwrapped(v) = <<>> THEN <<>> ELSE Pieces(Unwrapped(v))

Join(tokens) ==
    LET joined[k \in DOMAIN tokens] ==
            IF k = 1 THEN tokens[1] ELSE joined[k - 1] \o <<D>> \o tokens[k]
    IN  joined[Len(tokens)]

DecodeNumber(v) ==
    CASE v = <<>> -> Plain(Null)
      [] IsInt(v) -> Plain(Number(v[1]))
      [] OTHER -> Warned(Null)

DecodeBoolean(v) ==
    CASE v = <<>> -> Plain(Null)
      [] v \in {<<"0">>, <<"1">>} -> Plain(Truth(v = <<"1">>))
      [] OTHER -> Warned(Null)

DecodeDatetime(v) ==
    CASE v = <<>> -> Plain(Null)
      [] IsDate(v) -> Plain(Instant(v[1]))
      [] OTHER -> Warned(Null)

Filled(tokens) == {k \in DOMAIN tokens : tokens[k] # <<>>}
Chosen(v) ==
    LET tokens == SplitMulti(v)
    IN  [k \in 1 .. Cardinality(Filled(tokens)) |-> tokens[Nth(Filled(tokens), k - 1)]]
DecodeMultiChoice(v) == Plain(List([k \in DOMAIN Chosen(v) |-> Text(Chosen(v)[k])]))
DecodeChoice(v) ==
    CASE v = <<>> \/ Head(v) # D \/ Last(v) # D -> Plain(Text(v))
      [] OTHER -> Plain(IF Chosen(v) = <<>> THEN Null ELSE Text(Head(Chosen(v))))

Pair(tokens) ==
    IF IsInt(tokens[1]) THEN Reference(tokens[1][1], tokens[2])
    ELSE Reference(NoId, Join(tokens))

\* Mutant: of more than two tokens the first two are taken.
DecodeLookupFirstTwo(v) == IF Len(SplitMulti(v)) < 2 THEN Plain(Null) ELSE
    [value |-> Pair(SubSeq(SplitMulti(v), 1, 2)), warned |-> Len(SplitMulti(v)) > 2]
DecodeLookup(v) ==
    LET tokens == SplitMulti(v)
    IN  CASE Len(tokens) = 0 -> Plain(Null)
          [] Len(tokens) = 1 /\ IsInt(tokens[1]) -> Plain(Reference(tokens[1][1], <<>>))
          [] Len(tokens) = 1 /\ ~IsInt(tokens[1]) -> Warned(Reference(NoId, tokens[1]))
          [] Len(tokens) = 2 -> Plain(Pair(tokens))
          [] OTHER -> Warned(Pair(<<tokens[1], Join(Tail(tokens))>>))

\* An odd number of tokens costs the last one.
Pairs(tokens) == [k \in 1 .. Len(tokens) \div 2 |-> Pair(SubSeq(tokens, 2 * k - 1, 2 * k))]

\* Mutant: the orphan goes without a word.
DecodeLookupMultiSilent(v) == Plain(List(Pairs(SplitMulti(v))))
DecodeLookupMulti(v) ==
    LET tokens == SplitMulti(v)
    IN  [value |-> List(Pairs(tokens)), warned |-> Len(tokens) % 2 # 0]

\* _split_term: the part behind the last "|", if it is a GUID.
HasTerm(t) == Len(t) >= 2 /\ t[Len(t) - 1] = "|" /\ Last(t) \in Guids
Term(r) ==
    IF HasTerm(r.value)
    THEN [id |-> r.id, value |-> SubSeq(r.value, 1, Len(r.value) - 2), term |-> Last(r.value)]
    ELSE [id |-> r.id, value |-> r.value, term |-> "None"]
DecodeTaxonomy(v) ==
    LET r == DecodeLookup(v)
    IN  IF r.value = Null THEN r ELSE [r EXCEPT !.value = Term(r.value)]

\* The value behind its own type.
DecodeCalculated(v) ==
    LET cut == Cut(v, 1)
        rest == SubSeq(v, cut + 1, Len(v))
        prefix == SubSeq(v, 1, cut - 1)
    IN  CASE v = <<>> -> Plain(Null)
          [] v # <<>> /\ Count(v) = 0 -> Plain(Text(v))
          [] Count(v) # 0 /\ prefix = <<"float">> -> DecodeNumber(rest)
          [] Count(v) # 0 /\ prefix = <<"datetime">> -> DecodeDatetime(rest)
          [] Count(v) # 0 /\ prefix = <<"string">> -> Plain(Text(rest))
          [] OTHER -> Warned(Text(rest))

\* Bare or behind a lookup's id.
DecodeFSObjType(v) ==
    LET tokens == SplitMulti(v)
    IN  Plain(IF tokens # <<>> /\ IsInt(Last(tokens)) THEN Number(Last(tokens)[1]) ELSE Null)

MultiLookups == {"LookupMulti", "UserMulti"}
Parsed == {"Number", "Currency", "Counter", "Integer", "FSObjType", "Boolean", "DateTime",
           "Lookup", "User", "File", "TaxonomyFieldType", "Calculated"} \cup MultiLookups
DecodeValue(type, v) ==
    CASE type \in {"Number", "Currency", "Counter", "Integer"} -> DecodeNumber(v)
      [] type = "Boolean" -> DecodeBoolean(v)
      [] type = "DateTime" -> DecodeDatetime(v)
      [] type = "Choice" -> DecodeChoice(v)
      [] type = "MultiChoice" -> DecodeMultiChoice(v)
      [] type \in {"Lookup", "User", "File"} -> DecodeLookup(v)
      [] type \in MultiLookups -> DecodeLookupMulti(v)
      [] type = "TaxonomyFieldType" -> DecodeTaxonomy(v)
      [] type = "Calculated" -> DecodeCalculated(v)
      [] type = "FSObjType" -> DecodeFSObjType(v)
      [] OTHER -> Plain(Text(v))

ColumnNames == {Columns[i].name : i \in DOMAIN Columns}
TypeOf(c) == Columns[CHOOSE i \in DOMAIN Columns : Columns[i].name = c].type

DecodeRow(raw) == [c \in DOMAIN raw |-> DecodeValue(TypeOf(c), raw[c])]

-----------------------------------------------------------------------------
(* services/odata.py                                                        *)

\* parse_atom_value: what verbose JSON would have sent.
ParseAtomValue(el) ==
    CASE Has(el, "null") \/ Has(el, "deferred") \/ Has(el, "entity") \/ Has(el, "results") -> el
      [] Has(el, "edm") /\ el.edm = "Edm.Boolean" -> Truth(el.content = <<"true">>)
      [] Has(el, "edm") /\ el.edm = "Edm.Int32" /\ IsInt(el.content) -> Number(el.content[1])
      [] OTHER -> Text(el.content)

\* _by_normalised: a fold belongs to the first field that claims it.  A
\* property is looked up with every letter and then with ASCII alone.
Claimant(fold) == SelectInSeq(Columns, LAMBDA c : \E n \in c.candidates : fold \in {n.uni, n.ascii})
Field(n) == IF Claimant(n.uni) # 0 THEN Claimant(n.uni) ELSE Claimant(n.ascii)

InternalName(n) == IF Field(n) # 0 THEN Columns[Field(n)].name ELSE "None"
Target(p) == IF InternalName(p) # "None" THEN InternalName(p) ELSE p.key

ReferenceOf(e) == Reference(e.id, e.title)
Convert(v) ==
    CASE Has(v, "text") -> IF IsDate(v.text) THEN Instant(v.text[1]) ELSE v
      [] Has(v, "entity") -> ReferenceOf(v.entity)
      [] Has(v, "results") ->
            List([k \in DOMAIN v.results |->
                    IF Has(v.results[k], "entity") THEN ReferenceOf(v.results[k].entity)
                    ELSE IF IsDate(v.results[k].text) THEN Instant(v.results[k].text[1])
                    ELSE v.results[k]])
      [] OTHER -> v

\* Mutant: a decimal stays the string it came as.
CoerceNothing(c, v) == v
Coerce(c, v) ==
    IF /\ c \in ColumnNames /\ Has(v, "text") /\ IsInt(v.text)
       /\ TypeOf(c) \in {"Number", "Currency", "Integer", "Counter"}
    THEN Number(v.text[1]) ELSE v

\* coerce_item_id, on a raw row of either backend.
\* Mutant: only the bare number is an id.
CoerceItemIdBare(v) == IF Has(v, "number") THEN v.number ELSE
    IF IsInt(v.text) THEN v.text[1] ELSE NoId
CoerceItemId(v) ==
    LET tokens == IF Has(v, "text") THEN SplitMulti(v.text) ELSE <<>>
    IN  CASE Has(v, "number") -> v.number
          [] Has(v, "text") /\ IsInt(v.text) -> v.text[1]
          [] OTHER -> IF tokens # <<>> /\ IsInt(tokens[1]) THEN tokens[1][1] ELSE NoId

-----------------------------------------------------------------------------
(* The servers.                                                             *)

Encoded(r) == IF r.id = NoId THEN r.value ELSE <<r.id, D>> \o r.value

\* An empty text is not sent at all, an empty anything else is sent as "".
Sent(stored) == {c \in DOMAIN stored : stored[c] = Null => TypeOf(c) \in Parsed}

\* The string a stored value is sent as; some builds wrap a single choice and
\* put a lookup's id before a number.
SoapOf(type, v, wrapped) ==
    CASE v = Null -> <<>>
      [] Has(v, "text") -> IF type = "Choice" /\ wrapped THEN <<D>> \o v.text \o <<D>>
                           ELSE IF type = "Calculated" THEN <<"string", D>> \o v.text
                           ELSE v.text
      [] Has(v, "number") -> IF type = "Calculated" THEN <<"float", D, v.number>>
                             ELSE IF type = "Counter" /\ wrapped THEN <<v.number, D, v.number>>
                             ELSE IF type = "FSObjType" /\ wrapped THEN <<"1", D, v.number>>
                             ELSE <<v.number>>
      [] Has(v, "bool") -> <<IF v.bool THEN "1" ELSE "0">>
      [] Has(v, "instant") -> <<v.instant>>
      [] Has(v, "term") -> <<v.id, D>> \o v.value \o <<"|", v.term>>
      [] Has(v, "id") /\ ~Has(v, "term") -> Encoded(v)
      [] OTHER ->
            IF v.list = <<>> THEN <<>>
            ELSE IF type = "MultiChoice"
            THEN <<D>> \o Join([k \in DOMAIN v.list |-> v.list[k].text]) \o <<D>>
            ELSE Join([k \in DOMAIN v.list |-> Encoded(v.list[k])])

Entity(r) == [entity |-> [id |-> r.id, title |-> r.value]]
Deferred == [deferred |-> TRUE]

\* What a property of the entity holds: numbers as numbers or as the strings
\* of Edm.Decimal, dates as strings, lookups deferred unless expanded.
EntityOf(type, v, expanded, decimals) ==
    CASE Has(v, "number") /\ decimals /\ type # "Counter" -> Text(<<v.number>>)
      [] Has(v, "instant") -> Text(<<v.instant>>)
      [] Has(v, "id") -> IF expanded THEN Entity(v) ELSE Deferred
      [] type = "MultiChoice" -> [results |-> v.list]
      [] type \in MultiLookups ->
            IF expanded THEN [results |-> [k \in DOMAIN v.list |-> Entity(v.list[k])]] ELSE Deferred
      [] OTHER -> v

\* The same property as an Atom element.  An empty collection has no children.
Element(v) ==
    CASE Has(v, "bool") -> [edm |-> "Edm.Boolean", content |-> IF v.bool THEN <<"true">> ELSE <<"false">>]
      [] Has(v, "number") -> [edm |-> "Edm.Int32", content |-> <<v.number>>]
      [] Has(v, "text") -> [edm |-> "Edm.String", content |-> v.text]
      [] Has(v, "results") -> IF v.results = <<>> THEN [edm |-> "Edm.String", content |-> <<>>] ELSE v
      [] OTHER -> v

\* The keys of an item's entity; a lookup has its scalar id beside it.
PropertiesOf(stored) == {p \in Properties : p.of \in DOMAIN stored \cup {"None"}}
Held(p, stored, expanded, decimals) ==
    CASE p.of = "None" -> Text(<<"9">>)
      [] p.of # "None" /\ p.id -> IF stored[p.of] = Null THEN Null ELSE Number(stored[p.of].id)
      [] OTHER -> EntityOf(TypeOf(p.of), stored[p.of], expanded, decimals)

(***************************************************************************)
(* What is stored fits its column, the ids of lookups over REST are         *)
(* numbers, an entity has a key once, and a key that is a column's own name *)
(* is claimed by that column or another: its name is one of its candidates  *)
(* (services/odata.py:632-642).  Which column claims a property is left     *)
(* open: two may share a folding, and any may be called as another's id is. *)
(***************************************************************************)
Atoms == Words \cup Numbers \cup Dates \cup Guids \cup {D, "|"}
Texts == Seq(Atoms)
References == [id : Numbers \cup {NoId}, value : Texts]
Numbered == [id : Numbers, value : Texts]
Tagged == [id : Numbers, value : Texts, term : Guids]
Fits(type, v) ==
    CASE type = "MultiChoice" -> v \in [list : Seq([text : Texts])]
      [] type \in MultiLookups -> v \in [list : Seq(Numbered)]
      [] type \in {"Lookup", "User", "File"} -> v \in {Null} \cup References
      [] type = "TaxonomyFieldType" -> v \in {Null} \cup Tagged
      [] type \in {"Number", "Currency", "Counter", "Integer", "FSObjType"} ->
            v \in {Null} \cup [number : Numbers]
      [] type = "Boolean" -> v \in {Null} \cup [bool : BOOLEAN]
      [] type = "DateTime" -> v \in {Null} \cup [instant : Dates]
      [] type = "Calculated" -> v \in {Null} \cup [text : Texts] \cup [number : Numbers]
      [] OTHER -> v \in {Null} \cup [text : Texts]

Foldings(column) == UNION {{n.uni, n.ascii} : n \in column.candidates}

ASSUME DecodeAssumption ==
    /\ Columns \in Seq([name : STRING, type : STRING,
                        candidates : SUBSET [uni : STRING, ascii : STRING]])
    /\ "None" \notin ColumnNames /\ TypeOf("ID") = "Counter"
    /\ Servings \subseteq [atom : BOOLEAN, expanded : BOOLEAN, decimals : BOOLEAN, wrapped : BOOLEAN]
    /\ \A s \in Items :
          /\ DOMAIN s \subseteq ColumnNames /\ "ID" \in DOMAIN s /\ Has(s["ID"], "number")
          /\ \A c \in DOMAIN s : Fits(TypeOf(c), s[c])
    /\ \E p \in Properties : p.key = "Id"
    /\ \A p \in Properties :
          /\ p.of \in ColumnNames \cup {"None"} /\ p.id \in BOOLEAN
          /\ \A q \in Properties : q.key = p.key => q = p
          /\ InternalName(p) = "None" => p.key \notin ColumnNames
          /\ p.key = "Id" => p.of = "ID"
          /\ p.id => p.of \in ColumnNames \ {"ID"} /\ p.base # <<>>
          /\ p.id => \A s \in Items : p.of \in DOMAIN s => s[p.of] \in {Null} \cup Numbered
-----------------------------------------------------------------------------
VARIABLES
    item,       \* what is stored
    served,     \* how it is sent
    raw,        \* the ows_ attributes of the SOAP row
    soap,       \* RowDecoder.decode_row of them, per column with its warning
    entity,     \* the entity's properties
    left,       \* properties map_row has not come to
    row,        \* what map_row has decoded so far
    ids,        \* lookup_ids of map_row
    pc

vars == <<item, served, raw, soap, entity, left, row, ids, pc>>
Nothing == [x \in {} |-> x]
Put(f, k, v) == [x \in DOMAIN f \cup {k} |-> IF x = k THEN v ELSE f[x]]

Init ==
    /\ item \in Items
    /\ served \in Servings
    /\ raw = Nothing /\ soap = Nothing /\ entity = Nothing
    /\ left = {} /\ row = Nothing /\ ids = Nothing
    /\ pc = "soap"

DecodeSoapRow ==
    /\ pc = "soap" /\ pc' = "read"
    /\ raw' = [c \in Sent(item) |-> SoapOf(TypeOf(c), item[c], served.wrapped)]
    /\ soap' = DecodeRow(raw')
    /\ UNCHANGED <<item, served, entity, left, row, ids>>

ReadEntity ==
    /\ pc = "read" /\ pc' = "map"
    /\ entity' = [p \in PropertiesOf(item) |-> Held(p, item, served.expanded, served.decimals)]
    /\ left' = PropertiesOf(item)
    /\ UNCHANGED <<item, served, raw, soap, row, ids>>

Read(p) == IF served.atom THEN ParseAtomValue(Element(entity[p])) ELSE entity[p]

\* An int to Python: a truth is one, and a number but for Atom's Edm.Double.
Floats == {"Number", "Currency", "Calculated"}
IsInteger(p) ==
    \/ Has(Read(p), "bool")
    \/ Has(Read(p), "number") /\ (served.atom => p.id \/ TypeOf(p.of) \notin Floats)
IntOf(v) == IF Has(v, "number") THEN v.number ELSE IF v.bool THEN "1" ELSE "0"

\* An integer whose name is a column's and "Id" is taken for that column's id,
\* whether or not the column is a lookup and the integer its id.
IsLookupId(p) == p.base # <<>> /\ IsInteger(p) /\ InternalName(p.base[1]) # "None"
Written(p) == Coerce(InternalName(p), Convert(Read(p)))

\* Mutant: what has no column is left out.
MapPropertyKnown(p) ==
    /\ IF IsLookupId(p)
       THEN ids' = Put(ids, InternalName(p.base[1]), IntOf(Read(p))) /\ UNCHANGED row
       ELSE /\ UNCHANGED ids
            /\ row' = IF Has(Read(p), "deferred") \/ InternalName(p) = "None" THEN row
                      ELSE Put(row, Target(p), Written(p))
MapProperty(p) ==
    /\ IF IsLookupId(p)
       THEN ids' = Put(ids, InternalName(p.base[1]), IntOf(Read(p))) /\ UNCHANGED row
       ELSE /\ UNCHANGED ids
            /\ row' = IF Has(Read(p), "deferred") THEN row
                      ELSE Put(row, Target(p), Written(p))

MapNext ==
    /\ pc = "map"
    /\ \E p \in left : MapProperty(p) /\ left' = left \ {p}
    /\ UNCHANGED <<item, served, raw, soap, entity, pc>>

\* The id beside a label, or beside nothing.  A column that came as a list, a
\* number or a date keeps what it has.
WithId(c) ==
    IF c \notin DOMAIN row \/ row[c] = Null THEN Reference(ids[c], <<>>)
    ELSE IF Has(row[c], "text") THEN Reference(ids[c], row[c].text)
    ELSE row[c]

RowWithIds == [c \in DOMAIN row \cup DOMAIN ids |-> IF c \in DOMAIN ids THEN WithId(c) ELSE row[c]]

\* The entity's own Id, for a row whose ID went elsewhere.
KeyId == {p \in DOMAIN entity : p.key = "Id"}
JoinIds ==
    /\ pc = "map" /\ left = {} /\ pc' = "done"
    /\ row' = IF "ID" \in DOMAIN RowWithIds THEN RowWithIds
              ELSE Put(RowWithIds, "ID", IF KeyId = {} THEN Null ELSE Read(CHOOSE p \in KeyId : TRUE))
    /\ UNCHANGED <<item, served, raw, soap, entity, left, ids>>

Next == DecodeSoapRow \/ ReadEntity \/ MapNext \/ JoinIds
Spec == Init /\ [][Next]_vars
-----------------------------------------------------------------------------
Value(c) == IF c \in DOMAIN soap THEN soap[c].value ELSE Null
Ids == Numbers \cup {NoId}
IsValue(v) ==
    \/ v = Null \/ Has(v, "text") \/ Has(v, "bool")
    \/ Has(v, "number") /\ v.number \in Numbers
    \/ Has(v, "instant") /\ v.instant \in Dates
    \/ Has(v, "id") /\ v.id \in Ids
    \/ Has(v, "list") /\ \A k \in DOMAIN v.list : Has(v.list[k], "id") => v.list[k].id \in Ids

TypeOK ==
    /\ DOMAIN item \subseteq ColumnNames /\ pc \in {"soap", "read", "map", "done"}
    /\ DOMAIN soap \subseteq DOMAIN item
    /\ pc = "read" => \A c \in DOMAIN soap : IsValue(Value(c)) /\ soap[c].warned \in BOOLEAN
    /\ left \subseteq PropertiesOf(item)
    /\ \A c \in DOMAIN row : IsValue(row[c])
    /\ DOMAIN ids \subseteq ColumnNames /\ \A c \in DOMAIN ids : ids[c] \in Ids

(***************************************************************************)
(* Where the encoding is ambiguous: a text that ends in the delimiter, a    *)
(* text with it in a value of several or in a choice, an empty choice, an   *)
(* empty last text, a text behind no id that is empty, reads like an id or  *)
(* has the delimiter.  An id sent as "42;#42" is the item's id              *)
(* (coerce_item_id), but no number for the ID column.                       *)
(***************************************************************************)
Surplus(v) ==
    LET counted[k \in 0 .. Len(v.list)] ==
            IF k = 0 THEN 0 ELSE counted[k - 1] + Count(v.list[k].value)
    IN  counted[Len(v.list)] + IF v.list # <<>> /\ Last(v.list).value = <<>> THEN 1 ELSE 0
Choosable(t) == t # <<>> /\ Count(t) = 0
Clean(c) ==
    LET v == item[c]
    IN  CASE TypeOf(c) \in MultiLookups -> Surplus(v) = 0
          [] TypeOf(c) = "MultiChoice" -> \A k \in DOMAIN v.list : Choosable(v.list[k].text)
          [] TypeOf(c) = "Choice" -> v = Null \/ Choosable(v.text)
          [] TypeOf(c) = "Counter" -> ~served.wrapped
          [] Has(v, "id") /\ v.id = NoId -> Choosable(v.value) /\ ~IsInt(v.value)
          [] Has(v, "id") /\ v.id # NoId -> ~EndsIn(v.value, D)
          [] OTHER -> TRUE

(***************************************************************************)
(* The ows_ decoders undo the encoding: what was stored is what is written, *)
(* wherever the encoding is not ambiguous, and of a single lookup the id is *)
(* kept always, whatever its text holds (decode.py:117-278, 340-485).       *)
(***************************************************************************)
RoundTrip ==
    pc = "read" => \A c \in DOMAIN soap :
        /\ Clean(c) => Value(c) = item[c]
        /\ Has(item[c], "id") /\ item[c].id # NoId => Value(c).id = item[c].id

(***************************************************************************)
(* A value of several lookups that decodes to anything else has been warned *)
(* about, if one thing alone is wrong with it: one delimiter in one of its  *)
(* texts, or an empty last text.  Two such things cancel out and nothing is *)
(* said (decode.py:268-278).                                                *)
(***************************************************************************)
WarnedOrWhole ==
    pc = "read" => \A c \in DOMAIN soap :
        /\ TypeOf(c) \in MultiLookups
        /\ Surplus(item[c]) <= 1
        /\ item[c].list # <<>> => ~EndsIn(Last(item[c].list).value, D)
        => soap[c].warned \/ Value(c) = item[c]

(***************************************************************************)
(* A property is disturbed where names clash: it is taken for another       *)
(* column's or for an id that it is not, or another property is taken for   *)
(* its column's.  A folding belongs to the first column that has it, so of  *)
(* two columns that share one both are written in the place of the first;   *)
(* and an integer column called <X>Id beside a column <X> is taken for its  *)
(* id (services/odata.py:632-642, 661-667).                                 *)
(***************************************************************************)
Taken(p) == IF IsLookupId(p) THEN InternalName(p.base[1]) ELSE Target(p)
Own(p) == IF p.of = "None" THEN p.key ELSE p.of
Fitting(p) == Taken(p) = Own(p) /\ (IsLookupId(p) <=> p.id)
Undisturbed(p) ==
    /\ Fitting(p)
    /\ \A q \in DOMAIN entity :
          Taken(q) = Own(p) /\ ~Has(entity[q], "deferred") => q.of = p.of /\ Fitting(q)

(***************************************************************************)
(* The two backends write the same values, whichever representation and     *)
(* order the service sends (crawl.py:332-362, services/odata.py:615-715).   *)
(* Excepted are a text that is a date, which is one over REST alone; a      *)
(* calculated number sent as a decimal, which stays a text there; the term  *)
(* of a taxonomy value, which does not come; a lookup that was not          *)
(* expanded, of which the id alone has come and of several nothing; an      *)
(* empty collection sent as Atom, which comes as an empty text; a column    *)
(* whose name clashes with another's; and what SOAP had already got wrong.  *)
(***************************************************************************)
IsReference(c) == Has(item[c], "id")
Comparable(c) ==
    /\ Clean(c)
    /\ \E p \in DOMAIN entity :
          p.of = c /\ (p.id <=> IsReference(c) /\ ~served.expanded) /\ Undisturbed(p)
    /\ Has(item[c], "text") => ~IsDate(item[c].text)
    /\ TypeOf(c) = "MultiChoice" => \A k \in DOMAIN item[c].list : ~IsDate(item[c].list[k].text)
    /\ TypeOf(c) \in {"Calculated", "FSObjType"} /\ Has(item[c], "number") => ~served.decimals
    /\ ~Has(item[c], "term")
    /\ TypeOf(c) \in MultiLookups => served.expanded
    /\ Has(item[c], "list") /\ served.atom => item[c].list # <<>>
Over(c) == IF c \in DOMAIN row THEN row[c] ELSE Null
BackendsAgree ==
    pc = "done" =>
        \A c \in DOMAIN item : Comparable(c) =>
            IF IsReference(c) /\ ~served.expanded
            THEN Over(c).id = Value(c).id
            ELSE Over(c) = Value(c)

(***************************************************************************)
(* No column is lost but to a clash of names: what a property held is in    *)
(* the row, under its column's name or else under its own, and a lookup's   *)
(* id is in the row of its lookup.  "Losing a column silently is the one    *)
(* unacceptable outcome" (services/odata.py:613-615) is not true of the     *)
(* disturbed ones, of which one overwrites another, or changes its shape.   *)
(***************************************************************************)
NoColumnLost ==
    pc = "done" =>
        \A p \in DOMAIN entity : Undisturbed(p) =>
            \/ Has(entity[p], "deferred")
            \/ /\ Own(p) \in DOMAIN row
               /\ IF p.id THEN row[Own(p)].id = entity[p].number ELSE row[Own(p)] = Written(p)

(***************************************************************************)
(* An item has one identity: the id is read from either raw row, bare or    *)
(* behind a lookup's id, and doc_id and the checkpoint with it              *)
(* (decode.py:553-569, crawl.py:491-560).                                   *)
(***************************************************************************)
RawId == {CoerceItemId(Read(p)) : p \in {q \in DOMAIN entity : q.of = "ID"}}
SameItem ==
    pc = "done" => RawId = {CoerceItemId(Text(raw["ID"]))}

\* Types, and one identity of an item.
Consistent == TypeOK /\ SameItem
=============================================================================
