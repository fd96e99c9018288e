--------------------------- MODULE RowDecodeProofs ---------------------------
(***************************************************************************)
(* Proofs about RowDecode, for any list, items and ways of sending them: no *)
(* column is lost where no names clash, every value is well formed, an item *)
(* has one id, and what was stored is what either backend writes, wherever  *)
(* neither the encoding nor a name is ambiguous.  The invariant comes after *)
(* what is read of a row.  Then the strings: the k-th delimiter of one, the *)
(* pieces between, and how splitting and joining undo each other.  Then     *)
(* each kind of value, sent and decoded.                                    *)
(***************************************************************************)
EXTENDS RowDecode, FiniteSetTheorems, SequenceTheorems, WellFoundedInduction,
        NaturalsInduction, TLAPS

SoapRow == [c \in Sent(item) |-> SoapOf(TypeOf(c), item[c], served.wrapped)]
Whole == [p \in PropertiesOf(item) |-> Held(p, item, served.expanded, served.decimals)]

(* The stages of an item: the SOAP row is read first, then the entity.      *)
StageInv ==
    /\ item \in Items /\ served \in Servings
    /\ pc = "soap" => soap = Nothing
    /\ pc # "soap" => raw = SoapRow /\ soap = DecodeRow(raw)
    /\ pc \in {"soap", "read"} => left = {} /\ row = Nothing /\ ids = Nothing
    /\ pc \in {"map", "done"} => entity = Whole
    /\ pc = "done" => left = {}

(* What the row and the ids hold came of a property that is taken for them. *)
Adds(p) == ~IsLookupId(p) /\ ~Has(entity[p], "deferred")
OriginInv ==
    pc = "map" =>
        /\ \A c \in DOMAIN row :
              \E p \in DOMAIN entity : Adds(p) /\ Target(p) = c /\ row[c] = Written(p)
        /\ \A c \in DOMAIN ids :
              \E p \in DOMAIN entity : IsLookupId(p) /\ Taken(p) = c /\ ids[c] = IntOf(Read(p))

(* Every property that map_row has come to has something where it is taken. *)
MapInv ==
    pc = "map" => \A p \in DOMAIN entity \ left :
        /\ Adds(p) => Target(p) \in DOMAIN row
        /\ IsLookupId(p) => Taken(p) \in DOMAIN ids

IInv == StageInv /\ TypeOK /\ OriginInv /\ MapInv /\ NoColumnLost
-----------------------------------------------------------------------------
(* A set of numbers has a least one.                                        *)
LEMMA LeastNumber ==
  ASSUME NEW S \in SUBSET Nat, S # {}
  PROVE  Min(S) \in S /\ \A y \in S : Min(S) <= y
<1> DEFINE Less == {ss \in Nat \X Nat : ss[1] < ss[2]}
<1>1. IsWellFoundedOn(Less, Nat)
  BY NatLessThanWellFounded DEF OpToRel
<1> HIDE DEF Less
<1>2. PICK x \in S : \A y \in S : ~ (<<y, x>> \in Less)
  BY <1>1, WFMin
<1>3. \A y \in S : ~ (y < x)
  BY <1>2 DEF Less
<1>4. \A y \in S : x <= y
  BY <1>3
<1> QED
  BY <1>4 DEF Min

(* The column that claims a folding is one that has it.                     *)
LEMMA ClaimantIs ==
  ASSUME NEW fold
  PROVE  \/ Claimant(fold) \in DOMAIN Columns /\ fold \in Foldings(Columns[Claimant(fold)])
         \/ Claimant(fold) = 0 /\ \A i \in DOMAIN Columns : fold \notin Foldings(Columns[i])
<1> DEFINE claims == {i \in 1 .. Len(Columns) :
                         \E n \in Columns[i].candidates : fold \in {n.uni, n.ascii}}
<1>1. Claimant(fold) = IF claims # {} THEN Min(claims) ELSE 0
  BY DEF Claimant, SelectInSeq
<1>2. Len(Columns) \in Nat /\ DOMAIN Columns = 1 .. Len(Columns)
  BY DecodeAssumption
<1>3. \A i \in DOMAIN Columns : i \in claims <=> fold \in Foldings(Columns[i])
  BY <1>2 DEF Foldings
<1>4. claims \in SUBSET Nat
  BY <1>2
<1>5. claims # {} => Min(claims) \in claims
  BY <1>4, LeastNumber
<1> HIDE DEF claims
<1>6. claims \subseteq DOMAIN Columns
  BY <1>2 DEF claims
<1> QED
  BY <1>1, <1>3, <1>5, <1>6

(* A name leads to a column, or to none.                                    *)
LEMMA InternalNameIs ==
  ASSUME NEW n
  PROVE  InternalName(n) \in ColumnNames \cup {"None"}
<1>1. \A i \in DOMAIN Columns : Columns[i].name \in ColumnNames
  BY DEF ColumnNames
<1>2. Field(n) \in DOMAIN Columns \/ Field(n) = 0
  BY ClaimantIs DEF Field
<1> QED
  BY <1>1, <1>2 DEF InternalName

(* What the assumption says of one property.                                *)
LEMMA PropertyIs ==
  ASSUME NEW p \in Properties
  PROVE  /\ p.of \in ColumnNames \cup {"None"} /\ p.id \in BOOLEAN
         /\ \A q \in Properties : q.key = p.key => q = p
         /\ p.key = "Id" => p.of = "ID"
         /\ p.id => p.of \in ColumnNames /\ p.of # "ID" /\ p.of # "None"
         /\ \A c \in ColumnNames : Target(p) = c => InternalName(p) = c
<1>1. /\ p.of \in ColumnNames \cup {"None"} /\ p.id \in BOOLEAN
      /\ \A q \in Properties : q.key = p.key => q = p
      /\ InternalName(p) = "None" => p.key \notin ColumnNames
      /\ p.key = "Id" => p.of = "ID"
      /\ p.id => p.of \in ColumnNames \ {"ID"}
  BY DecodeAssumption
<1>2. "None" \notin ColumnNames
  BY DecodeAssumption
<1> QED
  BY <1>1, <1>2 DEF Target

-----------------------------------------------------------------------------
(* What is sent.                                                            *)

Labels == [entity : [id : Numbers \cup {NoId}, title : Texts]]
Values ==
    {Null, Deferred} \cup [text : Texts] \cup [number : Numbers] \cup [bool : BOOLEAN]
        \cup Labels \cup [results : Seq([text : Texts])] \cup [results : Seq(Labels)]

(* A value is of one form, and its form is what Has asks for.               *)
LEMMA FormIs ==
  ASSUME NEW v \in Values
  PROVE  \/ v = Null /\ DOMAIN v = {"null"}
         \/ v = Deferred /\ DOMAIN v = {"deferred"}
         \/ DOMAIN v = {"text"} /\ v.text \in Texts /\ v = Text(v.text)
         \/ DOMAIN v = {"number"} /\ v.number \in Numbers /\ v = Number(v.number)
         \/ DOMAIN v = {"bool"} /\ v.bool \in BOOLEAN /\ v = Truth(v.bool)
         \/ /\ DOMAIN v = {"entity"} /\ v.entity.id \in Numbers \cup {NoId}
            /\ v.entity.title \in Texts
         \/ /\ DOMAIN v = {"results"}
            /\ v.results \in Seq([text : Texts]) \/ v.results \in Seq(Labels)
<1>1. CASE v \in {Null, Deferred}
  BY <1>1 DEF Null, Deferred
<1>2. CASE v \in [text : Texts]
  BY <1>2 DEF Text
<1>3. CASE v \in [number : Numbers]
  BY <1>3 DEF Number
<1>4. CASE v \in [bool : BOOLEAN]
  BY <1>4 DEF Truth
<1>5. CASE v \in Labels
  BY <1>5 DEF Labels
<1>6. CASE v \in [results : Seq([text : Texts])]
  BY <1>6
<1>7. CASE v \in [results : Seq(Labels)]
  BY <1>7
<1> QED
  BY <1>1, <1>2, <1>3, <1>4, <1>5, <1>6, <1>7 DEF Values

(* What a stored value can be.                                              *)
LEMMA StoredIs ==
  ASSUME NEW type, NEW v, Fits(type, v)
  PROVE  /\ type = "MultiChoice" => DOMAIN v = {"list"} /\ v.list \in Seq([text : Texts])
         /\ type \in {"LookupMulti", "UserMulti"} =>
                DOMAIN v = {"list"} /\ v.list \in Seq(Numbered)
         /\ type \notin {"MultiChoice", "LookupMulti", "UserMulti"} =>
                \/ v = Null /\ DOMAIN v = {"null"}
                \/ DOMAIN v = {"text"} /\ v \in [text : Texts]
                \/ DOMAIN v = {"number"} /\ v \in [number : Numbers]
                \/ DOMAIN v = {"bool"} /\ v \in [bool : BOOLEAN]
                \/ DOMAIN v = {"instant"} /\ v \in [instant : Dates]
                \/ "id" \in DOMAIN v /\ DOMAIN v \subseteq {"id", "value", "term"}
                   /\ v.id \in Numbers \cup {NoId} /\ v.value \in Texts
<1>1. CASE type = "MultiChoice"
  BY <1>1 DEF Fits, MultiLookups
<1>2. CASE type \in {"LookupMulti", "UserMulti"}
  BY <1>2 DEF Fits, MultiLookups
<1>3. CASE type \notin {"MultiChoice", "LookupMulti", "UserMulti"}
  <2>1. v \in {Null} \cup [text : Texts] \cup [number : Numbers] \cup [bool : BOOLEAN]
                \cup [instant : Dates] \cup References \cup Tagged
    BY <1>3 DEF Fits, MultiLookups, References, Tagged
  <2> QED
    BY <1>3, <2>1 DEF Null, References, Tagged
<1> QED
  BY <1>1, <1>2, <1>3

(* One word, or none, is a text.                                            *)
LEMMA WordIsText ==
  ASSUME NEW w \in Numbers \cup Dates
  PROVE  <<w>> \in Texts /\ <<>> \in Texts
<1>1. w \in Atoms
  BY DEF Atoms
<1> QED
  BY <1>1 DEF Texts

(* An entity holds values.                                                  *)
LEMMA EntityOfIs ==
  ASSUME NEW type, NEW v, Fits(type, v), NEW expanded \in BOOLEAN, NEW decimals \in BOOLEAN
  PROVE  EntityOf(type, v, expanded, decimals) \in Values
<1>0. /\ Null \in Values /\ Deferred \in Values /\ [text : Texts] \subseteq Values
      /\ [number : Numbers] \subseteq Values /\ [bool : BOOLEAN] \subseteq Values
      /\ Labels \subseteq Values /\ [results : Seq([text : Texts])] \subseteq Values
      /\ [results : Seq(Labels)] \subseteq Values
  BY DEF Values
<1>1. CASE type = "MultiChoice"
  <2>1. DOMAIN v = {"list"} /\ v.list \in Seq([text : Texts])
    BY <1>1, StoredIs
  <2>2. EntityOf(type, v, expanded, decimals) = [results |-> v.list]
    BY <1>1, <2>1 DEF EntityOf, MultiLookups, Has
  <2> QED
    BY <1>0, <2>1, <2>2
<1>2. CASE type \in {"LookupMulti", "UserMulti"}
  <2>1. DOMAIN v = {"list"} /\ v.list \in Seq(Numbered)
    BY <1>2, StoredIs
  <2>2. EntityOf(type, v, expanded, decimals) =
          IF expanded THEN [results |-> [k \in DOMAIN v.list |-> Entity(v.list[k])]] ELSE Deferred
    BY <1>2, <2>1 DEF EntityOf, MultiLookups, Has
  <2>3. [k \in DOMAIN v.list |-> Entity(v.list[k])] \in Seq(Labels)
    <3>1. \A r \in Numbered : Entity(r) \in Labels
      BY DEF Numbered, Entity, Labels
    <3> QED
      BY <2>1, <3>1
  <2> QED
    BY <1>0, <2>2, <2>3
<1>3. CASE type \notin {"MultiChoice", "LookupMulti", "UserMulti"}
  <2>1. CASE v = Null /\ DOMAIN v = {"null"}
    BY <1>0, <1>3, <2>1 DEF EntityOf, MultiLookups, Has
  <2>2. CASE DOMAIN v = {"text"} /\ v \in [text : Texts]
    BY <1>0, <1>3, <2>2 DEF EntityOf, MultiLookups, Has
  <2>3. CASE DOMAIN v = {"number"} /\ v \in [number : Numbers]
    <3>1. /\ EntityOf(type, v, expanded, decimals) \in {v, Text(<<v.number>>)}
          /\ v.number \in Numbers
      BY <1>3, <2>3 DEF EntityOf, MultiLookups, Has
    <3>2. <<v.number>> \in Texts
      BY <3>1, WordIsText
    <3> QED
      BY <1>0, <2>3, <3>1, <3>2 DEF Text
  <2>4. CASE DOMAIN v = {"bool"} /\ v \in [bool : BOOLEAN]
    BY <1>0, <1>3, <2>4 DEF EntityOf, MultiLookups, Has
  <2>5. CASE DOMAIN v = {"instant"} /\ v \in [instant : Dates]
    <3>1. EntityOf(type, v, expanded, decimals) = Text(<<v.instant>>) /\ v.instant \in Dates
      BY <1>3, <2>5 DEF EntityOf, MultiLookups, Has
    <3>2. <<v.instant>> \in Texts
      BY <3>1, WordIsText
    <3> QED
      BY <1>0, <3>1, <3>2 DEF Text
  <2>6. CASE /\ "id" \in DOMAIN v /\ DOMAIN v \subseteq {"id", "value", "term"}
             /\ v.id \in Numbers \cup {NoId} /\ v.value \in Texts
    <3>1. EntityOf(type, v, expanded, decimals) = IF expanded THEN Entity(v) ELSE Deferred
      BY <1>3, <2>6 DEF EntityOf, MultiLookups, Has
    <3>2. Entity(v) \in Labels
      BY <2>6 DEF Entity, Labels
    <3> QED
      BY <1>0, <3>1, <3>2
  <2> QED
    BY <1>3, <2>1, <2>2, <2>3, <2>4, <2>5, <2>6, StoredIs
<1> QED
  BY <1>1, <1>2, <1>3

(* parse_atom_value of the element gives back the value, but for an empty   *)
(* collection, which comes as an empty text, and an id that is no number.   *)
AsRead(v) == IF served.atom THEN ParseAtomValue(Element(v)) ELSE v
LEMMA AsReadIs ==
  ASSUME NEW v \in Values
  PROVE  /\ AsRead(v) \in Values
         /\ Has(v, "deferred") <=> Has(AsRead(v), "deferred")
         /\ v = Null \/ Has(v, "entity") => AsRead(v) = v
         /\ Has(v, "number") => AsRead(v) = v
         /\ (Has(v, "results") /\ served.atom => v.results # <<>>) => AsRead(v) = v
<1>0. /\ Null \in Values /\ Deferred \in Values /\ [text : Texts] \subseteq Values
  BY DEF Values
<1>1. CASE ~served.atom
  BY <1>1 DEF AsRead
<1>2. CASE served.atom
  <2>1. CASE v = Null /\ DOMAIN v = {"null"}
    BY <1>2, <2>1 DEF AsRead, ParseAtomValue, Element, Has
  <2>2. CASE v = Deferred /\ DOMAIN v = {"deferred"}
    BY <1>2, <2>2 DEF AsRead, ParseAtomValue, Element, Has
  <2>3. CASE DOMAIN v = {"text"} /\ v.text \in Texts /\ v = Text(v.text)
    <3>1. Element(v) = [edm |-> "Edm.String", content |-> v.text]
      BY <2>3 DEF Element, Has
    <3>2. AsRead(v) = v
      BY <1>2, <2>3, <3>1 DEF AsRead, ParseAtomValue, Has
    <3> QED
      BY <2>3, <3>2
  <2>4. CASE DOMAIN v = {"number"} /\ v.number \in Numbers /\ v = Number(v.number)
    <3>1. Element(v) = [edm |-> "Edm.Int32", content |-> <<v.number>>]
      BY <2>4 DEF Element, Has
    <3>2. AsRead(v) = v
      BY <1>2, <2>4, <3>1 DEF AsRead, ParseAtomValue, Has, IsInt
    <3> QED
      BY <2>4, <3>2
  <2>5. CASE DOMAIN v = {"bool"} /\ v.bool \in BOOLEAN /\ v = Truth(v.bool)
    <3>1. Element(v) = [edm |-> "Edm.Boolean", content |-> IF v.bool THEN <<"true">> ELSE <<"false">>]
      BY <2>5 DEF Element, Has
    <3>2. AsRead(v) = v
      BY <1>2, <2>5, <3>1 DEF AsRead, ParseAtomValue, Has, Truth
    <3> QED
      BY <2>5, <3>2
  <2>6. CASE DOMAIN v = {"entity"}
    BY <1>2, <2>6 DEF AsRead, ParseAtomValue, Element, Has
  <2>7. CASE DOMAIN v = {"results"}
    <3>1. CASE v.results = <<>>
      <4>1. Element(v) = [edm |-> "Edm.String", content |-> <<>>]
        BY <2>7, <3>1 DEF Element, Has
      <4>2. AsRead(v) = Text(<<>>)
        BY <1>2, <4>1 DEF AsRead, ParseAtomValue, Has
      <4>3. Text(<<>>) \in Values /\ DOMAIN Text(<<>>) = {"text"}
        BY <1>0, WordIsText DEF Text, Numbers
      <4> QED
        BY <1>2, <2>7, <3>1, <4>2, <4>3 DEF Has, Null
    <3>2. CASE v.results # <<>>
      BY <1>2, <2>7, <3>2 DEF AsRead, ParseAtomValue, Element, Has
    <3> QED
      BY <3>1, <3>2
  <2> QED
    BY <2>1, <2>2, <2>3, <2>4, <2>5, <2>6, <2>7, FormIs
<1> QED
  BY <1>1, <1>2

-----------------------------------------------------------------------------
(* What is read is turned into values.                                      *)

LEMMA MemberIs ==
  ASSUME NEW S, NEW s \in Seq(S), NEW k \in DOMAIN s
  PROVE  s[k] \in S
<1> QED
  OBVIOUS

LEMMA ConvertIs ==
  ASSUME NEW v \in Values, ~Has(v, "deferred")
  PROVE  /\ IsValue(Convert(v))
         /\ v = Null => Convert(v) = Null
         /\ Has(v, "entity") => /\ Convert(v) = Reference(v.entity.id, v.entity.title)
                                /\ DOMAIN Convert(v) = {"id", "value"}
<1>1. CASE v = Null /\ DOMAIN v = {"null"}
  BY <1>1 DEF Convert, Has, IsValue
<1>2. CASE DOMAIN v = {"text"} /\ v.text \in Texts /\ v = Text(v.text)
  <2>1. Convert(v) = IF IsDate(v.text) THEN Instant(v.text[1]) ELSE v
    BY <1>2 DEF Convert, Has
  <2>2. IsDate(v.text) => IsValue(Instant(v.text[1]))
    BY DEF IsDate, Instant, IsValue, Has
  <2>3. IsValue(v)
    BY <1>2 DEF IsValue, Has
  <2>4. v # Null
    BY <1>2 DEF Null
  <2> QED
    BY <1>2, <2>1, <2>2, <2>3, <2>4 DEF Has
<1>3. CASE DOMAIN v = {"number"} /\ v.number \in Numbers /\ v = Number(v.number)
  BY <1>3 DEF Convert, Has, IsValue, Null
<1>4. CASE DOMAIN v = {"bool"} /\ v.bool \in BOOLEAN /\ v = Truth(v.bool)
  BY <1>4 DEF Convert, Has, IsValue, Null
<1>5. CASE /\ DOMAIN v = {"entity"} /\ v.entity.id \in Numbers \cup {NoId}
           /\ v.entity.title \in Texts
  <2>1. Convert(v) = Reference(v.entity.id, v.entity.title)
    BY <1>5 DEF Convert, Has, ReferenceOf
  <2>2. IsValue(Convert(v)) /\ DOMAIN Convert(v) = {"id", "value"}
    BY <1>5, <2>1 DEF IsValue, Has, Reference, Ids
  <2>3. v # Null
    BY <1>5 DEF Null
  <2> QED
    BY <2>1, <2>2, <2>3
<1>6. CASE /\ DOMAIN v = {"results"}
           /\ v.results \in Seq([text : Texts]) \/ v.results \in Seq(Labels)
  <2> DEFINE one(k) == IF Has(v.results[k], "entity") THEN ReferenceOf(v.results[k].entity)
                       ELSE IF IsDate(v.results[k].text) THEN Instant(v.results[k].text[1])
                       ELSE v.results[k]
  <2>1. Convert(v) = List([k \in DOMAIN v.results |-> one(k)])
    BY <1>6 DEF Convert, Has
  <2>2. ASSUME NEW k \in DOMAIN v.results, Has(one(k), "id") PROVE one(k).id \in Ids
    <3>1. CASE v.results \in Seq([text : Texts])
      <4>1. v.results[k] \in [text : Texts]
        <5> HIDE DEF one
        <5> QED
          BY <3>1, MemberIs
      <4>2. DOMAIN v.results[k] = {"text"}
        BY <4>1
      <4>3. one(k) \in {Instant(v.results[k].text[1]), v.results[k]}
        BY <4>2 DEF Has
      <4>4. ~Has(one(k), "id")
        BY <4>2, <4>3 DEF Has, Instant
      <4> QED
        BY <2>2, <4>4
    <3>2. CASE v.results \in Seq(Labels)
      <4>1. v.results[k] \in Labels
        BY <3>2
      <4>2. Has(v.results[k], "entity") /\ v.results[k].entity.id \in Ids
        BY <4>1 DEF Labels, Has, Ids
      <4>3. one(k) = ReferenceOf(v.results[k].entity)
        BY <4>2
      <4> QED
        BY <4>2, <4>3 DEF ReferenceOf, Reference
    <3> QED
      BY <1>6, <3>1, <3>2
  <2> HIDE DEF one
  <2>3. IsValue(Convert(v))
    BY <2>1, <2>2 DEF IsValue, List, Has
  <2>4. v # Null
    BY <1>6 DEF Null
  <2> QED
    BY <1>6, <2>3, <2>4 DEF Has
<1> QED
  BY <1>1, <1>2, <1>3, <1>4, <1>5, <1>6, FormIs DEF Has

LEMMA CoerceIs ==
  ASSUME NEW c, NEW v, IsValue(v)
  PROVE  /\ IsValue(Coerce(c, v))
         /\ ~Has(v, "text") => Coerce(c, v) = v
<1>1. CASE Coerce(c, v) = v
  BY <1>1
<1>2. CASE Coerce(c, v) # v
  <2>1. Has(v, "text") /\ IsInt(v.text) /\ Coerce(c, v) = Number(v.text[1])
    BY <1>2 DEF Coerce
  <2> QED
    BY <2>1 DEF IsInt, Number, IsValue, Has
<1> QED
  BY <1>1, <1>2

(* A decoder answers a value, whatever the string.                          *)
Decoded(r) == IsValue(r.value) /\ r.warned \in BOOLEAN

LEMMA ValuesAre ==
  /\ IsValue(Null)
  /\ \A t : IsValue(Text(t))
  /\ \A n \in Numbers : IsValue(Number(n))
  /\ \A d \in Dates : IsValue(Instant(d))
  /\ \A b : IsValue(Truth(b))
  /\ \A i \in Ids : \A t : IsValue(Reference(i, t)) /\ Reference(i, t).id = i
<1>1. IsValue(Null)
  BY DEF IsValue
<1>2. \A t : IsValue(Text(t)) /\ IsValue(Truth(t))
  BY DEF IsValue, Text, Truth, Has
<1>3. \A n \in Numbers : IsValue(Number(n))
  BY DEF IsValue, Number, Has
<1>4. \A d \in Dates : IsValue(Instant(d))
  BY DEF IsValue, Instant, Has
<1>5. \A i \in Ids : \A t : IsValue(Reference(i, t)) /\ Reference(i, t).id = i
  BY DEF IsValue, Reference, Has
<1> QED
  BY <1>1, <1>2, <1>3, <1>4, <1>5

LEMMA PlainIs ==
  ASSUME NEW v, IsValue(v)
  PROVE  Decoded(Plain(v)) /\ Decoded(Warned(v))
<1> QED
  BY DEF Decoded, Plain, Warned

LEMMA PairIs ==
  ASSUME NEW tokens
  PROVE  \E i \in Ids : \E t : Pair(tokens) = Reference(i, t)
<1> QED
  BY DEF Pair, IsInt, Ids

LEMMA SimpleDecoded ==
  ASSUME NEW v
  PROVE  /\ Decoded(DecodeNumber(v)) /\ Decoded(DecodeBoolean(v))
         /\ Decoded(DecodeDatetime(v)) /\ Decoded(DecodeChoice(v))
         /\ Decoded(DecodeFSObjType(v))
<1>1. Decoded(DecodeNumber(v))
  BY ValuesAre, PlainIs DEF DecodeNumber, IsInt
<1>2. Decoded(DecodeBoolean(v))
  BY ValuesAre, PlainIs DEF DecodeBoolean
<1>3. Decoded(DecodeDatetime(v))
  BY ValuesAre, PlainIs DEF DecodeDatetime, IsDate
<1>4. Decoded(DecodeChoice(v))
  BY ValuesAre, PlainIs DEF DecodeChoice
<1>5. Decoded(DecodeFSObjType(v))
  <2> DEFINE tokens == SplitMulti(v)
             n == IF tokens # <<>> /\ IsInt(Last(tokens)) THEN Number(Last(tokens)[1]) ELSE Null
  <2>1. IsValue(n)
    BY ValuesAre DEF IsInt
  <2>2. DecodeFSObjType(v) = Plain(n)
    BY DEF DecodeFSObjType
  <2> QED
    BY <2>1, <2>2, PlainIs
<1> QED
  BY <1>1, <1>2, <1>3, <1>4, <1>5

LEMMA LookupDecoded ==
  ASSUME NEW v
  PROVE  /\ Decoded(DecodeLookup(v))
         /\ DecodeLookup(v) \in {Plain(DecodeLookup(v).value), Warned(DecodeLookup(v).value)}
         /\ \/ DecodeLookup(v).value = Null
            \/ \E i \in Ids : \E t : DecodeLookup(v).value = Reference(i, t)
<1> DEFINE tokens == SplitMulti(v)
<1>1. \/ DecodeLookup(v) = Plain(Null)
      \/ IsInt(tokens[1]) /\ DecodeLookup(v) = Plain(Reference(tokens[1][1], <<>>))
      \/ DecodeLookup(v) = Warned(Reference(NoId, tokens[1]))
      \/ DecodeLookup(v) = Plain(Pair(tokens))
      \/ DecodeLookup(v) = Warned(Pair(<<tokens[1], Join(Tail(tokens))>>))
  BY DEF DecodeLookup
<1> HIDE DEF tokens
<1> DEFINE Answer(r) == /\ DecodeLookup(v) \in {Plain(r), Warned(r)}
                        /\ r = Null \/ \E i \in Ids : \E t : r = Reference(i, t)
<1>2. NoId \in Ids /\ (IsInt(tokens[1]) => tokens[1][1] \in Ids)
  BY DEF IsInt, Ids
<1>3. PICK r : Answer(r)
  <2>1. CASE DecodeLookup(v) = Plain(Null)
    <3>1. Answer(Null)
      BY <2>1
    <3> QED
      BY <3>1
  <2>2. CASE IsInt(tokens[1]) /\ DecodeLookup(v) = Plain(Reference(tokens[1][1], <<>>))
    <3>1. Answer(Reference(tokens[1][1], <<>>))
      BY <1>2, <2>2
    <3> QED
      BY <3>1
  <2>3. CASE DecodeLookup(v) = Warned(Reference(NoId, tokens[1]))
    <3>1. Answer(Reference(NoId, tokens[1]))
      BY <1>2, <2>3
    <3> QED
      BY <3>1
  <2>4. CASE DecodeLookup(v) = Plain(Pair(tokens))
    <3>1. Answer(Pair(tokens))
      BY <2>4, PairIs
    <3> QED
      BY <3>1
  <2>5. CASE DecodeLookup(v) = Warned(Pair(<<tokens[1], Join(Tail(tokens))>>))
    <3>1. Answer(Pair(<<tokens[1], Join(Tail(tokens))>>))
      BY <2>5, PairIs
    <3> QED
      BY <3>1
  <2> QED
    BY <1>1, <2>1, <2>2, <2>3, <2>4, <2>5
<1>4. IsValue(r) /\ DecodeLookup(v).value = r
  BY <1>3, ValuesAre DEF Plain, Warned
<1> QED
  BY <1>3, <1>4, PlainIs

LEMMA ListsDecoded ==
  ASSUME NEW v
  PROVE  Decoded(DecodeMultiChoice(v)) /\ Decoded(DecodeLookupMulti(v))
<1>1. Decoded(DecodeMultiChoice(v))
  <2> DEFINE s == [k \in DOMAIN Chosen(v) |-> Text(Chosen(v)[k])]
  <2>1. \A k \in DOMAIN s : ~Has(s[k], "id")
    BY DEF Text, Has
  <2> HIDE DEF s
  <2>2. IsValue(List(s))
    BY <2>1 DEF IsValue, List, Has
  <2>3. DecodeMultiChoice(v) = Plain(List(s))
    BY DEF DecodeMultiChoice, s
  <2> QED
    BY <2>2, <2>3, PlainIs
<1>2. Decoded(DecodeLookupMulti(v))
  <2> DEFINE tokens == SplitMulti(v)
             s == Pairs(tokens)
  <2>1. \A k \in DOMAIN s : s[k].id \in Ids
    <3> SUFFICES ASSUME NEW k \in DOMAIN s PROVE s[k].id \in Ids
      OBVIOUS
    <3>1. s[k] = Pair(SubSeq(tokens, 2 * k - 1, 2 * k))
      BY DEF Pairs
    <3> HIDE DEF s, tokens
    <3>2. PICK i \in Ids : \E t : Pair(SubSeq(tokens, 2 * k - 1, 2 * k)) = Reference(i, t)
      BY PairIs
    <3> QED
      BY <3>1, <3>2 DEF Reference
  <2>2. DecodeLookupMulti(v) = [value |-> List(s), warned |-> Len(tokens) % 2 # 0]
    BY DEF DecodeLookupMulti
  <2> HIDE DEF s, tokens
  <2>3. IsValue(List(s))
    BY <2>1 DEF IsValue, List, Has
  <2> QED
    BY <2>2, <2>3 DEF Decoded
<1> QED
  BY <1>1, <1>2

LEMMA TaxonomyDecoded ==
  ASSUME NEW v
  PROVE  Decoded(DecodeTaxonomy(v))
<1> DEFINE r == DecodeLookup(v)
<1>1. Decoded(r) /\ (r.value = Null \/ \E i \in Ids : \E t : r.value = Reference(i, t))
  BY LookupDecoded
<1>2. r \in {Plain(r.value), Warned(r.value)}
  BY LookupDecoded
<1>3. DecodeTaxonomy(v) = IF r.value = Null THEN r ELSE [r EXCEPT !.value = Term(r.value)]
  BY DEF DecodeTaxonomy
<1> HIDE DEF r
<1>4. CASE r.value = Null
  BY <1>1, <1>3, <1>4
<1>5. CASE r.value # Null
  <2>1. DecodeTaxonomy(v) \in {Plain(Term(r.value)), Warned(Term(r.value))}
    <3>1. DecodeTaxonomy(v) = [r EXCEPT !.value = Term(r.value)]
      BY <1>3, <1>5
    <3>2. PICK x : \E w \in BOOLEAN : r = [value |-> x, warned |-> w]
      <4>1. CASE r = Plain(r.value)
        <5>1. r = [value |-> r.value, warned |-> FALSE]
          BY <4>1, Zenon DEF Plain
        <5> QED
          BY <5>1, Zenon
      <4>2. CASE r = Warned(r.value)
        <5>1. r = [value |-> r.value, warned |-> TRUE]
          BY <4>2, Zenon DEF Warned
        <5> QED
          BY <5>1, Zenon
      <4> QED
        BY <1>2, <4>1, <4>2
    <3>3. PICK w \in BOOLEAN : r = [value |-> x, warned |-> w]
      BY <3>2
    <3>4. \A y : [r EXCEPT !.value = y] = [value |-> y, warned |-> w]
      BY <3>3
    <3> QED
      BY <3>1, <3>4 DEF Plain, Warned
  <2>2. PICK i \in Ids : \E t : r.value = Reference(i, t)
    BY <1>1, <1>5
  <2>3. Has(Term(r.value), "id") /\ Term(r.value).id = i
    BY <2>2 DEF Term, Reference, Has
  <2>4. IsValue(Term(r.value))
    BY <2>3 DEF IsValue, Has
  <2> QED
    BY <2>1, <2>4, PlainIs
<1> QED
  BY <1>4, <1>5

LEMMA CalculatedDecoded ==
  ASSUME NEW v
  PROVE  Decoded(DecodeCalculated(v))
<1> DEFINE rest == SubSeq(v, Cut(v, 1) + 1, Len(v))
<1>1. \/ DecodeCalculated(v) \in {Plain(Null), Plain(Text(v)), Plain(Text(rest)), Warned(Text(rest))}
      \/ DecodeCalculated(v) = DecodeNumber(rest)
      \/ DecodeCalculated(v) = DecodeDatetime(rest)
  BY DEF DecodeCalculated
<1> HIDE DEF rest
<1> QED
  BY <1>1, ValuesAre, PlainIs, SimpleDecoded

(* Hence RowDecoder's value of any column.                                  *)
LEMMA ValueDecoded ==
  ASSUME NEW type, NEW v
  PROVE  Decoded(DecodeValue(type, v))
<1>1. Decoded(Plain(Text(v)))
  BY ValuesAre, PlainIs
<1>2. DecodeValue(type, v) \in
        { DecodeNumber(v), DecodeBoolean(v), DecodeDatetime(v), DecodeChoice(v),
          DecodeMultiChoice(v), DecodeLookup(v), DecodeLookupMulti(v), DecodeTaxonomy(v),
          DecodeCalculated(v), DecodeFSObjType(v), Plain(Text(v)) }
  BY DEF DecodeValue
<1> QED
  BY <1>1, <1>2, SimpleDecoded, ListsDecoded, LookupDecoded, TaxonomyDecoded, CalculatedDecoded
-----------------------------------------------------------------------------
(* What map_row reads, from where it stands.                                *)

LEMMA ItemIs ==
  ASSUME NEW s \in Items
  PROVE  /\ DOMAIN s \subseteq ColumnNames /\ "ID" \in DOMAIN s
         /\ Has(s["ID"], "number")
         /\ \A c \in DOMAIN s : Fits(TypeOf(c), s[c])
         /\ \A p \in Properties : p.id /\ p.of \in DOMAIN s =>
                s[p.of] = Null \/ s[p.of] \in [id : Numbers, value : Texts]
<1>1. /\ DOMAIN s \subseteq ColumnNames /\ "ID" \in DOMAIN s
      /\ Has(s["ID"], "number")
      /\ \A c \in DOMAIN s : Fits(TypeOf(c), s[c])
  BY DecodeAssumption
<1>2. ASSUME NEW p \in Properties, p.id, p.of \in DOMAIN s
      PROVE  s[p.of] = Null \/ s[p.of] \in [id : Numbers, value : Texts]
  BY <1>2, DecodeAssumption DEF Numbered
<1> QED
  BY <1>1, <1>2

(* A lookup's id property holds the stored id, or nothing if it has none.   *)
Lookup(c) == c \in DOMAIN item /\ item[c] # Null /\ item[c] \in [id : Numbers, value : Texts]
LEMMA EntityIs ==
  ASSUME StageInv, pc \in {"map", "done"}, NEW p \in DOMAIN entity
  PROVE  /\ p \in Properties /\ p.of \in DOMAIN item \cup {"None"} /\ entity[p] \in Values
         /\ p.id =>
                /\ p.of \in DOMAIN item
                /\ IF item[p.of] = Null THEN entity[p] = Null
                   ELSE Lookup(p.of) /\ entity[p] = Number(item[p.of].id)
         /\ ~p.id /\ p.of # "None" =>
                /\ p.of \in DOMAIN item
                /\ entity[p] = EntityOf(TypeOf(p.of), item[p.of], served.expanded, served.decimals)
<1>1. /\ item \in Items /\ served.expanded \in BOOLEAN /\ served.decimals \in BOOLEAN
      /\ entity = Whole /\ p \in PropertiesOf(item)
      /\ entity[p] = Held(p, item, served.expanded, served.decimals)
  <2>1. item \in Items /\ served \in Servings /\ entity = Whole
    BY DEF StageInv
  <2>2. served \in [atom : BOOLEAN, expanded : BOOLEAN, decimals : BOOLEAN, wrapped : BOOLEAN]
    BY <2>1, DecodeAssumption
  <2> QED
    BY <2>1, <2>2 DEF Whole
<1>2. p \in Properties /\ p.of \in DOMAIN item \cup {"None"}
  BY <1>1 DEF PropertiesOf
<1>3. /\ Null \in Values /\ [text : Texts] \subseteq Values /\ [number : Numbers] \subseteq Values
  BY DEF Values
<1>4. CASE p.of = "None"
  <2>1. ~p.id
    BY <1>2, <1>4, PropertyIs
  <2>2. entity[p] = Text(<<"9">>)
    BY <1>1, <1>4, <2>1 DEF Held
  <2>3. <<"9">> \in Texts
    BY WordIsText DEF Numbers
  <2> QED
    BY <1>2, <1>3, <1>4, <2>1, <2>2, <2>3 DEF Text
<1>5. CASE p.of # "None" /\ ~p.id
  <2>1. entity[p] = EntityOf(TypeOf(p.of), item[p.of], served.expanded, served.decimals)
    BY <1>1, <1>5 DEF Held
  <2>2. p.of \in DOMAIN item /\ Fits(TypeOf(p.of), item[p.of])
    BY <1>1, <1>2, <1>5, ItemIs
  <2> QED
    BY <1>1, <1>2, <1>5, <2>1, <2>2, EntityOfIs
<1>6. CASE p.of # "None" /\ p.id
  <2>1. entity[p] = IF item[p.of] = Null THEN Null ELSE Number(item[p.of].id)
    BY <1>1, <1>6 DEF Held
  <2>2. p.of \in DOMAIN item
        /\ (item[p.of] = Null \/ item[p.of] \in [id : Numbers, value : Texts])
    BY <1>1, <1>2, <1>6, ItemIs
  <2>3. item[p.of] # Null => item[p.of].id \in Numbers
    BY <2>2
  <2>4. entity[p] \in Values
    BY <1>3, <2>1, <2>3 DEF Number
  <2> QED
    BY <1>2, <1>6, <2>1, <2>2, <2>3, <2>4 DEF Lookup
<1> QED
  BY <1>4, <1>5, <1>6

LEMMA ReadIs ==
  ASSUME NEW p
  PROVE  Read(p) = AsRead(entity[p])
<1> QED
  BY DEF Read, AsRead

(* What is read of the entity changes only with it.                         *)
LEMMA SameReading ==
  ASSUME entity' = entity, served' = served
  PROVE  \A p : /\ Adds(p)' = Adds(p) /\ IsLookupId(p)' = IsLookupId(p) /\ Taken(p)' = Taken(p)
                /\ Target(p)' = Target(p) /\ Written(p)' = Written(p) /\ Read(p)' = Read(p)
                /\ Undisturbed(p)' = Undisturbed(p)
<1>1. \A p : Read(p)' = Read(p) /\ Target(p)' = Target(p)
  BY DEF Read, Target
<1>2. \A p : IsLookupId(p)' = IsLookupId(p) /\ Written(p)' = Written(p)
  BY <1>1 DEF IsLookupId, IsInteger, Written
<1>3. \A p : Taken(p)' = Taken(p) /\ Adds(p)' = Adds(p)
  BY <1>1, <1>2 DEF Taken, Adds
<1>4. \A p : Fitting(p)' = Fitting(p) /\ Own(p)' = Own(p)
  BY <1>2, <1>3 DEF Fitting, Own
<1>5. \A p : Undisturbed(p)' = Undisturbed(p)
  BY <1>3, <1>4 DEF Undisturbed
<1> QED
  BY <1>1, <1>2, <1>3, <1>5

(* What is taken for an id is a number, and goes to a column.               *)
LEMMA LookupIdIs ==
  ASSUME StageInv, pc = "map", NEW p \in DOMAIN entity, IsLookupId(p)
  PROVE  /\ Taken(p) = InternalName(p.base[1]) /\ Taken(p) \in ColumnNames
         /\ IntOf(Read(p)) \in Numbers
<1>1. Taken(p) = InternalName(p.base[1]) /\ Taken(p) \in ColumnNames
  BY InternalNameIs DEF Taken, IsLookupId
<1>2. Read(p) \in Values /\ (Has(Read(p), "number") \/ Has(Read(p), "bool"))
  BY EntityIs, AsReadIs, ReadIs DEF IsLookupId, IsInteger
<1>3. Has(Read(p), "number") => Read(p).number \in Numbers
  BY <1>2, FormIs DEF Has, Null, Deferred
<1>4. IntOf(Read(p)) \in {Read(p).number, "0", "1"} /\ (Has(Read(p), "number") => IntOf(Read(p)) = Read(p).number)
      /\ (~Has(Read(p), "number") => IntOf(Read(p)) \in {"0", "1"})
  BY DEF IntOf
<1> QED
  BY <1>1, <1>3, <1>4 DEF Numbers

(* The id of a lookup is the stored one.                                    *)
LEMMA OwnIdIs ==
  ASSUME StageInv, pc = "map", NEW p \in DOMAIN entity, p.id, IsLookupId(p)
  PROVE  /\ Lookup(p.of) /\ IntOf(Read(p)) = item[p.of].id
         /\ entity[p] = Number(item[p.of].id) /\ ~Has(entity[p], "deferred")
<1>1. /\ entity[p] \in Values
      /\ IF item[p.of] = Null THEN entity[p] = Null
         ELSE Lookup(p.of) /\ entity[p] = Number(item[p.of].id)
  BY EntityIs
<1>2. item[p.of] # Null
  <2> SUFFICES ASSUME item[p.of] = Null PROVE FALSE
    OBVIOUS
  <2>1. Read(p) = Null
    BY <1>1, AsReadIs, ReadIs
  <2> QED
    BY <2>1 DEF IsLookupId, IsInteger, Has, Null
<1>3. \A n : Has(Number(n), "number") /\ ~Has(Number(n), "deferred") /\ Number(n).number = n
  BY DEF Has, Number
<1>4. Read(p) = entity[p]
  BY <1>1, <1>2, <1>3, AsReadIs, ReadIs
<1> QED
  BY <1>1, <1>2, <1>3, <1>4 DEF IntOf

(* What a property adds to the row.                                         *)
LEMMA WrittenIs ==
  ASSUME StageInv, pc = "map", NEW p \in DOMAIN entity
  PROVE  /\ Has(Read(p), "deferred") <=> Has(entity[p], "deferred")
         /\ Adds(p) => IsValue(Written(p))
<1>1. entity[p] \in Values
  BY EntityIs
<1>2. Read(p) \in Values /\ (Has(Read(p), "deferred") <=> Has(entity[p], "deferred"))
  BY <1>1, AsReadIs, ReadIs
<1>3. ASSUME Adds(p) PROVE IsValue(Written(p))
  <2>1. IsValue(Convert(Read(p)))
    BY <1>2, <1>3, ConvertIs DEF Adds
  <2> QED
    BY <2>1, CoerceIs DEF Written
<1> QED
  BY <1>2, <1>3

(* Of a lookup that is there the label is written with the id.              *)
LEMMA LabelIs ==
  ASSUME StageInv, pc = "map", NEW p \in DOMAIN entity, ~p.id, Adds(p), Lookup(p.of)
  PROVE  /\ Has(Written(p), "id") /\ Written(p).id = item[p.of].id
         /\ ~Has(Written(p), "text") /\ Written(p) # Null
<1> DEFINE v == item[p.of]
<1>1. /\ v \in [id : Numbers, value : Texts] /\ DOMAIN v = {"id", "value"}
      /\ p.of # "None" /\ entity[p] \in Values
      /\ entity[p] = EntityOf(TypeOf(p.of), v, served.expanded, served.decimals)
  <2>1. p.of \in ColumnNames
    BY ItemIs DEF Lookup, StageInv
  <2>2. p.of # "None"
    BY <2>1, DecodeAssumption
  <2>3. v \in [id : Numbers, value : Texts]
    BY DEF Lookup
  <2> QED
    BY <2>2, <2>3, EntityIs
<1>2. Fits(TypeOf(p.of), v)
  BY ItemIs DEF Lookup, StageInv
<1> HIDE DEF v
<1>3. TypeOf(p.of) \notin {"MultiChoice", "LookupMulti", "UserMulti"}
  <2>1. DOMAIN v # {"list"}
    BY <1>1
  <2> QED
    BY <1>2, <2>1, StoredIs
<1>4. entity[p] = IF served.expanded THEN Entity(v) ELSE Deferred
  BY <1>1, <1>3 DEF EntityOf, MultiLookups, Has
<1>5. entity[p] = Entity(v)
  BY <1>4 DEF Adds, Deferred, Has
<1>6. Has(entity[p], "entity") /\ entity[p].entity.id = v.id
  BY <1>5 DEF Entity, Has
<1>7. Read(p) = entity[p] /\ ~Has(entity[p], "deferred")
  BY <1>1, <1>6, AsReadIs, ReadIs DEF Adds
<1>8. /\ Convert(entity[p]) = Reference(entity[p].entity.id, entity[p].entity.title)
      /\ DOMAIN Convert(entity[p]) = {"id", "value"}
      /\ IsValue(Convert(entity[p]))
  BY <1>1, <1>6, <1>7, ConvertIs
<1>9. Written(p) = Convert(entity[p])
  BY <1>7, <1>8, CoerceIs DEF Written, Has
<1>10. Written(p).id = v.id
  BY <1>6, <1>8, <1>9 DEF Reference
<1> QED
  BY <1>8, <1>9, <1>10 DEF Has, Null, v

(* Two properties taken for one column that is the column of both are       *)
(* written alike.                                                           *)
LEMMA WrittenAlike ==
  ASSUME StageInv, pc \in {"map", "done"}, NEW p \in DOMAIN entity, NEW q \in DOMAIN entity,
         q.of = p.of, Taken(q) = Own(p), Fitting(p), Fitting(q), ~p.id, ~q.id
  PROVE  Written(q) = Written(p)
<1>1. p \in Properties /\ q \in Properties
  BY EntityIs
<1>2. Target(p) = Own(p) /\ Target(q) = Own(q) /\ Own(q) = Own(p)
  BY DEF Fitting, Taken
<1>3. CASE p.of = "None"
  BY <1>1, <1>2, <1>3, PropertyIs DEF Own
<1>4. CASE p.of # "None"
  <2>1. p.of \in ColumnNames /\ Target(p) = p.of /\ Target(q) = p.of
    BY <1>1, <1>2, <1>4, PropertyIs DEF Own
  <2>2. InternalName(p) = p.of /\ InternalName(q) = p.of
    BY <1>1, <2>1, PropertyIs
  <2>3. entity[p] = entity[q]
    BY <1>4, EntityIs
  <2> QED
    BY <2>2, <2>3, ReadIs DEF Written
<1> QED
  BY <1>3, <1>4

(* The stored id of an item, as the two raw rows have it.                   *)
LEMMA StoredId ==
  ASSUME StageInv
  PROVE  \E n \in Numbers : item["ID"] = Number(n)
<1>1. Has(item["ID"], "number") /\ Fits("Counter", item["ID"])
  BY ItemIs, DecodeAssumption DEF StageInv
<1>2. /\ \/ item["ID"] = Null
         \/ item["ID"] \in [number : Numbers]
         \/ "number" \notin DOMAIN item["ID"]
  BY <1>1, StoredIs
<1> QED
  BY <1>1, <1>2 DEF Has, Null, Number

(* The property that is the item's own id holds it.                         *)
LEMMA KeyIdIs ==
  ASSUME StageInv, pc \in {"map", "done"}, NEW p \in DOMAIN entity, p.of = "ID"
  PROVE  Read(p) = item["ID"] /\ IsValue(Read(p))
<1>1. PICK n \in Numbers : item["ID"] = Number(n)
  BY StoredId
<1>2. ~p.id /\ p.of # "None"
  <2>1. "ID" \in ColumnNames /\ p \in Properties
    BY EntityIs, ItemIs DEF StageInv
  <2> QED
    BY <2>1, PropertyIs, DecodeAssumption
<1>3. /\ entity[p] = EntityOf("Counter", item["ID"], served.expanded, served.decimals)
      /\ entity[p] \in Values
  BY <1>2, EntityIs, DecodeAssumption
<1>4. DOMAIN item["ID"] = {"number"} /\ item["ID"].number = n
  BY <1>1 DEF Number
<1>5. entity[p] = item["ID"]
  BY <1>3, <1>4 DEF EntityOf, MultiLookups, Has
<1>6. Read(p) = item["ID"]
  BY <1>3, <1>4, <1>5, AsReadIs, ReadIs DEF Has
<1> QED
  BY <1>1, <1>6, ValuesAre
-----------------------------------------------------------------------------
(* The invariant.                                                           *)

LEMMA InitIInv == Init => IInv
<1> SUFFICES ASSUME Init PROVE IInv
  OBVIOUS
<1> USE DEF Init
<1>1. DOMAIN Nothing = {}
  BY DEF Nothing
<1>2. StageInv
  BY DEF StageInv
<1>3. DOMAIN item \subseteq ColumnNames
  BY ItemIs
<1>4. TypeOK
  BY <1>1, <1>3 DEF TypeOK
<1>5. OriginInv /\ MapInv /\ NoColumnLost
  BY DEF OriginInv, MapInv, NoColumnLost
<1> QED
  BY <1>2, <1>4, <1>5 DEF IInv

LEMMA DecodeSoapRowIInv == IInv /\ DecodeSoapRow => IInv'
<1> SUFFICES ASSUME IInv, DecodeSoapRow PROVE IInv'
  OBVIOUS
<1>1. /\ pc = "soap" /\ pc' = "read" /\ item' = item /\ served' = served
      /\ entity' = entity /\ left' = left /\ row' = row /\ ids' = ids
      /\ raw' = SoapRow' /\ soap' = DecodeRow(raw')
  BY DEF DecodeSoapRow, SoapRow
<1>2. StageInv'
  BY <1>1 DEF IInv, StageInv
<1>3. left = {} /\ row = Nothing /\ ids = Nothing /\ DOMAIN Nothing = {}
  BY <1>1 DEF IInv, StageInv, Nothing
<1>4. DOMAIN soap' = DOMAIN raw' /\ DOMAIN raw' \subseteq DOMAIN item
  BY <1>1 DEF DecodeRow, SoapRow, Sent
<1>5. ASSUME NEW c \in DOMAIN soap' PROVE IsValue(Value(c)') /\ soap'[c].warned \in BOOLEAN
  <2>1. soap'[c] = DecodeValue(TypeOf(c), raw'[c])
    BY <1>1, <1>4 DEF DecodeRow
  <2>2. Decoded(soap'[c])
    BY <2>1, ValueDecoded
  <2> QED
    BY <2>2 DEF Decoded, Value
<1>6. TypeOK'
  BY <1>1, <1>3, <1>4, <1>5 DEF IInv, TypeOK
<1>7. OriginInv' /\ MapInv' /\ NoColumnLost'
  BY <1>1 DEF OriginInv, MapInv, NoColumnLost
<1> QED
  BY <1>2, <1>6, <1>7 DEF IInv

LEMMA ReadEntityIInv == IInv /\ ReadEntity => IInv'
<1> SUFFICES ASSUME IInv, ReadEntity PROVE IInv'
  OBVIOUS
<1>1. /\ pc = "read" /\ pc' = "map" /\ item' = item /\ served' = served
      /\ raw' = raw /\ soap' = soap /\ row' = row /\ ids' = ids
      /\ entity' = Whole' /\ left' = PropertiesOf(item)
  BY DEF ReadEntity, Whole
<1>2. StageInv'
  BY <1>1 DEF IInv, StageInv, SoapRow
<1>3. row = Nothing /\ ids = Nothing /\ DOMAIN Nothing = {}
  BY <1>1 DEF IInv, StageInv, Nothing
<1>4. TypeOK'
  BY <1>1, <1>3 DEF IInv, TypeOK
<1>5. DOMAIN entity' = left'
  BY <1>1 DEF Whole
<1>6. OriginInv' /\ MapInv' /\ NoColumnLost'
  BY <1>1, <1>3, <1>5 DEF OriginInv, MapInv, NoColumnLost
<1> QED
  BY <1>2, <1>4, <1>6 DEF IInv

LEMMA MapNextIInv == IInv /\ MapNext => IInv'
<1> SUFFICES ASSUME IInv, MapNext PROVE IInv'
  OBVIOUS
<1>1. /\ pc = "map" /\ pc' = pc /\ item' = item /\ served' = served
      /\ raw' = raw /\ soap' = soap /\ entity' = entity
  BY DEF MapNext
<1>2. PICK p \in left : MapProperty(p) /\ left' = left \ {p}
  BY DEF MapNext
<1>3. StageInv /\ TypeOK /\ OriginInv /\ MapInv /\ DOMAIN entity = PropertiesOf(item)
  BY <1>1 DEF IInv, StageInv, Whole
<1>4. p \in DOMAIN entity /\ left \subseteq DOMAIN entity
  BY <1>2, <1>3 DEF TypeOK
<1>5. StageInv'
  BY <1>1, <1>3 DEF StageInv, SoapRow, Whole
<1>6. NoColumnLost'
  BY <1>1 DEF NoColumnLost
<1>7. \A q : /\ Adds(q)' = Adds(q) /\ IsLookupId(q)' = IsLookupId(q) /\ Taken(q)' = Taken(q)
             /\ Target(q)' = Target(q) /\ Written(q)' = Written(q) /\ Read(q)' = Read(q)
  BY <1>1, SameReading
<1>8. /\ \A c \in DOMAIN row :
            \E q \in DOMAIN entity : Adds(q) /\ Target(q) = c /\ row[c] = Written(q)
      /\ \A c \in DOMAIN ids :
            \E q \in DOMAIN entity : IsLookupId(q) /\ Taken(q) = c /\ ids[c] = IntOf(Read(q))
      /\ \A q \in DOMAIN entity \ left : /\ Adds(q) => Target(q) \in DOMAIN row
                                         /\ IsLookupId(q) => Taken(q) \in DOMAIN ids
  BY <1>1, <1>3 DEF OriginInv, MapInv
<1>9. Has(Read(p), "deferred") <=> Has(entity[p], "deferred")
  BY <1>1, <1>3, <1>4, WrittenIs
<1>10. CASE IsLookupId(p)
  <2>1. ids' = Put(ids, Taken(p), IntOf(Read(p))) /\ row' = row
    BY <1>2, <1>10 DEF MapProperty, Taken
  <2>2. /\ DOMAIN ids' = DOMAIN ids \cup {Taken(p)} /\ ids'[Taken(p)] = IntOf(Read(p))
        /\ \A c \in DOMAIN ids : c # Taken(p) => ids'[c] = ids[c]
    BY <2>1 DEF Put
  <2>3. TypeOK'
    <3>1. Taken(p) \in ColumnNames /\ IntOf(Read(p)) \in Ids
      BY <1>1, <1>3, <1>4, <1>10, LookupIdIs DEF Ids
    <3>2. \A c \in DOMAIN ids' : c \in ColumnNames /\ ids'[c] \in Ids
      BY <1>3, <2>2, <3>1 DEF TypeOK
    <3> QED
      BY <1>1, <1>2, <1>3, <2>1, <3>2 DEF TypeOK
  <2>4. OriginInv'
    <3>1. ASSUME NEW c \in DOMAIN ids'
          PROVE  \E q \in DOMAIN entity : IsLookupId(q) /\ Taken(q) = c /\ ids'[c] = IntOf(Read(q))
      <4>1. CASE c = Taken(p)
        BY <1>4, <1>10, <2>2, <4>1
      <4>2. CASE c # Taken(p)
        BY <1>8, <2>2, <4>2
      <4> QED
        BY <4>1, <4>2
    <3> QED
      BY <1>1, <1>7, <1>8, <2>1, <3>1 DEF OriginInv
  <2>5. MapInv'
    <3>1. ASSUME NEW q \in DOMAIN entity \ left'
          PROVE  /\ Adds(q) => Target(q) \in DOMAIN row
                 /\ IsLookupId(q) => Taken(q) \in DOMAIN ids'
      <4>1. CASE q = p
        BY <1>10, <2>2, <4>1 DEF Adds
      <4>2. CASE q # p
        BY <1>2, <1>8, <2>2, <4>2
      <4> QED
        BY <4>1, <4>2
    <3> QED
      BY <1>1, <1>7, <2>1, <3>1 DEF MapInv
  <2> QED
    BY <1>5, <1>6, <2>3, <2>4, <2>5 DEF IInv
<1>11. CASE Adds(p)
  <2>1. ids' = ids /\ row' = Put(row, Target(p), Written(p))
    BY <1>2, <1>9, <1>11 DEF MapProperty, Adds
  <2>2. /\ DOMAIN row' = DOMAIN row \cup {Target(p)} /\ row'[Target(p)] = Written(p)
        /\ \A c \in DOMAIN row : c # Target(p) => row'[c] = row[c]
    BY <2>1 DEF Put
  <2>3. TypeOK'
    <3>1. IsValue(Written(p))
      BY <1>1, <1>3, <1>4, <1>11, WrittenIs
    <3>2. \A c \in DOMAIN row' : IsValue(row'[c])
      BY <1>3, <2>2, <3>1 DEF TypeOK
    <3> QED
      BY <1>1, <1>2, <1>3, <2>1, <3>2 DEF TypeOK
  <2>4. OriginInv'
    <3>1. ASSUME NEW c \in DOMAIN row'
          PROVE  \E q \in DOMAIN entity : Adds(q) /\ Target(q) = c /\ row'[c] = Written(q)
      <4>1. CASE c = Target(p)
        BY <1>4, <1>11, <2>2, <4>1
      <4>2. CASE c # Target(p)
        BY <1>8, <2>2, <4>2
      <4> QED
        BY <4>1, <4>2
    <3> QED
      BY <1>1, <1>7, <1>8, <2>1, <3>1 DEF OriginInv
  <2>5. MapInv'
    <3>1. ASSUME NEW q \in DOMAIN entity \ left'
          PROVE  /\ Adds(q) => Target(q) \in DOMAIN row'
                 /\ IsLookupId(q) => Taken(q) \in DOMAIN ids
      <4>1. CASE q = p
        BY <1>11, <2>2, <4>1 DEF Adds
      <4>2. CASE q # p
        BY <1>2, <1>8, <2>2, <4>2
      <4> QED
        BY <4>1, <4>2
    <3> QED
      BY <1>1, <1>7, <2>1, <3>1 DEF MapInv
  <2> QED
    BY <1>5, <1>6, <2>3, <2>4, <2>5 DEF IInv
<1>12. CASE ~IsLookupId(p) /\ ~Adds(p)
  <2>1. ids' = ids /\ row' = row
    BY <1>2, <1>9, <1>12 DEF MapProperty, Adds
  <2>2. TypeOK'
    BY <1>1, <1>2, <1>3, <2>1 DEF TypeOK
  <2>3. OriginInv'
    BY <1>1, <1>7, <1>8, <2>1 DEF OriginInv
  <2>4. MapInv'
    BY <1>1, <1>2, <1>7, <1>8, <1>12, <2>1 DEF MapInv
  <2> QED
    BY <1>5, <1>6, <2>2, <2>3, <2>4 DEF IInv
<1> QED
  BY <1>10, <1>11, <1>12

(* A column that an undisturbed property is taken for has nothing but it.   *)
LEMMA JoinedIs ==
  ASSUME IInv, pc = "map", left = {}, NEW p \in DOMAIN entity,
         Undisturbed(p), ~Has(entity[p], "deferred")
  PROVE  /\ Own(p) \in DOMAIN RowWithIds
         /\ IF p.id THEN RowWithIds[Own(p)].id = entity[p].number ELSE RowWithIds[Own(p)] = Written(p)
<1> DEFINE c == Own(p)
<1>1. StageInv
  BY DEF IInv
<1>2. /\ \A x \in DOMAIN row :
            \E q \in DOMAIN entity : Adds(q) /\ Target(q) = x /\ row[x] = Written(q)
      /\ \A x \in DOMAIN ids :
            \E q \in DOMAIN entity : IsLookupId(q) /\ Taken(q) = x /\ ids[x] = IntOf(Read(q))
      /\ Adds(p) => Target(p) \in DOMAIN row
      /\ IsLookupId(p) => Taken(p) \in DOMAIN ids
  BY DEF IInv, OriginInv, MapInv
<1>3. /\ Fitting(p) /\ Taken(p) = c
      /\ \A q \in DOMAIN entity :
            Taken(q) = c /\ ~Has(entity[q], "deferred") => q.of = p.of /\ Fitting(q)
      /\ p.id \in BOOLEAN
  <2>1. p \in Properties
    BY <1>1, EntityIs
  <2> QED
    BY <2>1, PropertyIs DEF Undisturbed, Fitting
<1>4. /\ DOMAIN RowWithIds = DOMAIN row \cup DOMAIN ids
      /\ c \in DOMAIN ids => RowWithIds[c] = WithId(c)
      /\ c \in DOMAIN row /\ c \notin DOMAIN ids => RowWithIds[c] = row[c]
  BY DEF RowWithIds
<1>5. c \in DOMAIN ids => \E q \in DOMAIN entity : /\ q.id /\ q.of = p.of /\ Lookup(p.of)
                                                   /\ ids[c] = item[p.of].id
  <2> SUFFICES ASSUME c \in DOMAIN ids
               PROVE  \E q \in DOMAIN entity : /\ q.id /\ q.of = p.of /\ Lookup(p.of)
                                               /\ ids[c] = item[p.of].id
    OBVIOUS
  <2>1. PICK q \in DOMAIN entity : IsLookupId(q) /\ Taken(q) = c /\ ids[c] = IntOf(Read(q))
    BY <1>2
  <2>2. ~Has(entity[q], "deferred")
    <3>1. entity[q] \in Values /\ (Has(Read(q), "number") \/ Has(Read(q), "bool"))
      BY <1>1, <2>1, EntityIs DEF IsLookupId, IsInteger
    <3> SUFFICES ASSUME Has(entity[q], "deferred") PROVE FALSE
      OBVIOUS
    <3>2. Read(q) \in Values /\ Has(Read(q), "deferred")
      BY <3>1, AsReadIs, ReadIs
    <3> QED
      BY <3>1, <3>2, FormIs DEF Has, Null, Deferred
  <2>3. q.of = p.of /\ q.id
    BY <1>3, <2>1, <2>2 DEF Fitting
  <2> QED
    BY <1>1, <2>1, <2>3, OwnIdIs
<1>6. ASSUME c \in DOMAIN row
      PROVE  \E q \in DOMAIN entity : /\ Adds(q) /\ row[c] = Written(q) /\ Taken(q) = c
                                      /\ q.of = p.of /\ Fitting(q) /\ ~q.id
  <2>1. PICK q \in DOMAIN entity : Adds(q) /\ Target(q) = c /\ row[c] = Written(q)
    BY <1>2, <1>6
  <2>2. Taken(q) = c
    BY <2>1 DEF Taken, Adds
  <2> QED
    BY <1>3, <2>1, <2>2 DEF Adds, Fitting
<1> HIDE DEF c
<1>7. CASE p.id
  <2>1. IsLookupId(p) /\ c \in DOMAIN ids
    BY <1>2, <1>3, <1>7 DEF Fitting
  <2>2. Lookup(p.of) /\ ids[c] = item[p.of].id
    BY <1>5, <2>1
  <2>3. entity[p].number = item[p.of].id
    BY <1>1, <1>7, <2>1, OwnIdIs DEF Number
  <2>4. WithId(c).id = item[p.of].id
    <3>1. \A t : Reference(ids[c], t).id = ids[c]
      BY DEF Reference
    <3>2. CASE c \notin DOMAIN row
      BY <2>2, <3>1, <3>2 DEF WithId
    <3>3. CASE c \in DOMAIN row
      <4>1. PICK q \in DOMAIN entity : Adds(q) /\ row[c] = Written(q) /\ q.of = p.of /\ ~q.id
        BY <1>6, <3>3
      <4>2. Has(row[c], "id") /\ row[c].id = item[p.of].id /\ ~Has(row[c], "text") /\ row[c] # Null
        BY <1>1, <2>2, <4>1, LabelIs
      <4> QED
        BY <3>3, <4>2 DEF WithId
    <3> QED
      BY <3>2, <3>3
  <2> QED
    BY <1>4, <1>7, <2>1, <2>3, <2>4 DEF c
<1>8. CASE ~p.id
  <2>1. Adds(p) /\ Target(p) = c
    BY <1>3, <1>8 DEF Adds, Fitting, Taken
  <2>2. c \in DOMAIN row
    BY <1>2, <2>1
  <2>3. PICK q \in DOMAIN entity : /\ Adds(q) /\ row[c] = Written(q) /\ Taken(q) = c
                                   /\ q.of = p.of /\ Fitting(q) /\ ~q.id
    BY <1>6, <2>2
  <2>4. row[c] = Written(p)
    BY <1>1, <1>3, <1>8, <2>3, WrittenAlike DEF c
  <2>5. CASE c \in DOMAIN ids
    <3>1. Lookup(p.of)
      BY <1>5, <2>5
    <3>2. ~Has(row[c], "text") /\ row[c] # Null
      BY <1>1, <1>8, <2>1, <2>4, <3>1, LabelIs
    <3>3. WithId(c) = row[c]
      BY <2>2, <3>2 DEF WithId
    <3> QED
      BY <1>4, <1>8, <2>2, <2>4, <2>5, <3>3 DEF c
  <2>6. CASE c \notin DOMAIN ids
    BY <1>4, <1>8, <2>2, <2>4, <2>6 DEF c
  <2> QED
    BY <2>5, <2>6
<1> QED
  BY <1>3, <1>7, <1>8

LEMMA JoinIdsIInv == IInv /\ JoinIds => IInv'
<1> SUFFICES ASSUME IInv, JoinIds PROVE IInv'
  OBVIOUS
<1> DEFINE key == IF KeyId = {} THEN Null ELSE Read(CHOOSE p \in KeyId : TRUE)
<1>1. /\ pc = "map" /\ pc' = "done" /\ item' = item /\ served' = served /\ left = {}
      /\ raw' = raw /\ soap' = soap /\ entity' = entity /\ left' = left /\ ids' = ids
      /\ row' = IF "ID" \in DOMAIN RowWithIds THEN RowWithIds ELSE Put(RowWithIds, "ID", key)
  BY DEF JoinIds
<1>2. StageInv /\ TypeOK
  BY DEF IInv
<1>3. StageInv'
  BY <1>1, <1>2 DEF StageInv, SoapRow, Whole
<1>4. IsValue(key)
  <2>1. CASE KeyId = {}
    BY <2>1, ValuesAre
  <2>2. CASE KeyId # {}
    <3>1. PICK p \in DOMAIN entity : p.key = "Id" /\ key = Read(p)
      BY <2>2 DEF KeyId
    <3>2. p.of = "ID"
      BY <1>1, <1>2, <3>1, EntityIs, PropertyIs
    <3> HIDE DEF key
    <3> QED
      BY <1>1, <1>2, <3>1, <3>2, KeyIdIs
  <2> QED
    BY <2>1, <2>2
<1> HIDE DEF key
<1>5. /\ DOMAIN RowWithIds \subseteq DOMAIN row'
      /\ \A c \in DOMAIN RowWithIds : row'[c] = RowWithIds[c]
      /\ \A c \in DOMAIN row' : c \notin DOMAIN RowWithIds => row'[c] = key
  BY <1>1 DEF Put
<1>6. ASSUME NEW c \in DOMAIN RowWithIds PROVE IsValue(RowWithIds[c])
  <2>1. /\ c \in DOMAIN row \cup DOMAIN ids
        /\ RowWithIds[c] = IF c \in DOMAIN ids THEN WithId(c) ELSE row[c]
        /\ c \in DOMAIN row => IsValue(row[c])
        /\ c \in DOMAIN ids => ids[c] \in Ids
    BY <1>2, <1>6 DEF RowWithIds, TypeOK
  <2>2. c \in DOMAIN ids => \A t : IsValue(Reference(ids[c], t))
    BY <2>1, ValuesAre
  <2> QED
    BY <2>1, <2>2 DEF WithId
<1>7. TypeOK'
  <2>1. \A c \in DOMAIN row' : IsValue(row'[c])
    BY <1>4, <1>5, <1>6
  <2> QED
    BY <1>1, <1>2, <2>1 DEF TypeOK
<1>8. NoColumnLost'
  <2> SUFFICES ASSUME NEW p \in DOMAIN entity, Undisturbed(p), ~Has(entity[p], "deferred")
               PROVE  /\ Own(p) \in DOMAIN row'
                      /\ IF p.id THEN row'[Own(p)].id = entity[p].number
                         ELSE row'[Own(p)] = Written(p)
    BY <1>1, SameReading DEF NoColumnLost, Own
  <2>1. /\ Own(p) \in DOMAIN RowWithIds
        /\ IF p.id THEN RowWithIds[Own(p)].id = entity[p].number ELSE RowWithIds[Own(p)] = Written(p)
    BY <1>1, JoinedIs
  <2> QED
    BY <1>5, <2>1
<1>9. OriginInv' /\ MapInv'
  BY <1>1 DEF OriginInv, MapInv
<1> QED
  BY <1>3, <1>7, <1>8, <1>9 DEF IInv

(* The inductive invariant holds in every reachable state.                  *)
THEOREM Invariance == Spec => []IInv
<1>1. IInv /\ UNCHANGED vars => IInv'
  <2> SUFFICES ASSUME IInv, UNCHANGED vars PROVE IInv'
    OBVIOUS
  <2>1. \A p : /\ Adds(p)' = Adds(p) /\ IsLookupId(p)' = IsLookupId(p) /\ Taken(p)' = Taken(p)
               /\ Target(p)' = Target(p) /\ Written(p)' = Written(p) /\ Read(p)' = Read(p)
               /\ Undisturbed(p)' = Undisturbed(p)
    BY SameReading DEF vars
  <2>2. StageInv' /\ TypeOK'
    BY DEF vars, IInv, StageInv, TypeOK, SoapRow, Whole, Value
  <2>3. OriginInv' /\ MapInv'
    BY <2>1 DEF vars, IInv, OriginInv, MapInv
  <2>4. NoColumnLost'
    BY <2>1 DEF vars, IInv, NoColumnLost, Own
  <2> QED
    BY <2>2, <2>3, <2>4 DEF IInv
<1>2. IInv /\ [Next]_vars => IInv'
  BY <1>1, DecodeSoapRowIInv, ReadEntityIInv, MapNextIInv, JoinIdsIInv DEF Next
<1> QED
  BY <1>2, InitIInv, PTL DEF Spec

(* No column is lost on the way from the entity to the row but to a clash   *)
(* of names: a property that no other is taken with, and that is taken for  *)
(* its own column, is written there, whatever order the properties come in  *)
(* (services/odata.py:651-681).                                             *)
THEOREM NoColumnLostHolds == Spec => []NoColumnLost
<1>1. IInv => NoColumnLost
  BY DEF IInv
<1> QED
  BY <1>1, Invariance, PTL
-----------------------------------------------------------------------------
(* The item's id.                                                           *)

LEMMA TwoAreTwo ==
  ASSUME NEW x, NEW y, x # y
  PROVE  Cardinality({x, y}) = 2
<1>1. IsFiniteSet({x}) /\ Cardinality({x}) = 1 /\ y \notin {x}
  BY FS_Singleton
<1>2. Cardinality({x} \cup {y}) = Cardinality({x}) + 1
  BY <1>1, FS_AddElement, Zenon
<1>3. {x, y} = {x} \cup {y}
  OBVIOUS
<1> QED
  BY <1>1, <1>2, <1>3

(* Split at its delimiters, an id behind itself begins with itself.         *)
LEMMA DoubledId ==
  ASSUME NEW n \in Numbers
  PROVE  SplitMulti(<<n, D, n>>) # <<>> /\ SplitMulti(<<n, D, n>>)[1] = <<n>>
<1> DEFINE w == <<n, D, n>>
<1>1. n # D
  BY DEF Numbers, D
<1>2. Head(w) = n /\ w # <<>> /\ Last(w) = n
  BY DEF Last
<1>3. Unwrapped(w) = w
  BY <1>1, <1>2 DEF Unwrapped, EndsIn
<1>4. SplitMulti(w) = Pieces(w)
  BY <1>2, <1>3 DEF SplitMulti
<1>5. {i \in DOMAIN w : w[i] = D} = {2} /\ Len(w) = 3
  BY <1>1
<1>6. Cuts(w) = {0, 2, 4}
  BY <1>5 DEF Cuts
<1>7. Count(w) = 1
  BY <1>5, FS_Singleton DEF Count
<1>8. Cut(w, 0) = 0
  <2>1. {j \in Cuts(w) : j < 0} = {}
    BY <1>6
  <2>2. {j \in Cuts(w) : j < 2} = {0} /\ {j \in Cuts(w) : j < 4} = {0, 2}
    BY <1>6
  <2>3. Cardinality({}) = 0 /\ Cardinality({0}) = 1
    BY FS_EmptySet, FS_Singleton
  <2>4. Cardinality({0, 2}) = 2
    BY TwoAreTwo
  <2> QED
    BY <1>6, <2>1, <2>2, <2>3, <2>4 DEF Cut, Nth
<1>9. Cut(w, 1) = 2
  <2>1. {j \in Cuts(w) : j < 0} = {}
    BY <1>6
  <2>2. {j \in Cuts(w) : j < 2} = {0} /\ {j \in Cuts(w) : j < 4} = {0, 2}
    BY <1>6
  <2>3. Cardinality({}) = 0 /\ Cardinality({0}) = 1
    BY FS_EmptySet, FS_Singleton
  <2>4. Cardinality({0, 2}) = 2
    BY TwoAreTwo
  <2> QED
    BY <1>6, <2>1, <2>2, <2>3, <2>4 DEF Cut, Nth
<1>10. Pieces(w) = [k \in 1 .. 2 |-> SubSeq(w, Cut(w, k - 1) + 1, Cut(w, k) - 1)]
  BY <1>7 DEF Pieces
<1>11. Pieces(w)[1] = SubSeq(w, 1, 1) /\ Pieces(w) # <<>>
  <2> HIDE DEF w
  <2>1. 1 \in 1 .. 2 /\ 1 - 1 = 0 /\ 0 + 1 = 1 /\ 2 - 1 = 1
    OBVIOUS
  <2>2. Pieces(w)[1] = SubSeq(w, Cut(w, 1 - 1) + 1, Cut(w, 1) - 1)
    BY <1>10, <2>1, Zenon
  <2>3. Pieces(w)[1] = SubSeq(w, 1, 1)
    BY <1>8, <1>9, <2>1, <2>2, Zenon
  <2>4. DOMAIN Pieces(w) = 1 .. 2
    BY <1>10, Zenon
  <2> QED
    BY <2>3, <2>4
<1>12. SubSeq(w, 1, 1) = <<n>>
  <2>1. w \in Seq({n, D}) /\ Len(w) = 3 /\ w[1] = n
    OBVIOUS
  <2> HIDE DEF w
  <2>2. /\ SubSeq(w, 1, 1) \in Seq({n, D}) /\ Len(SubSeq(w, 1, 1)) = 1
        /\ SubSeq(w, 1, 1)[1] = n
    BY <2>1, SubSeqProperties
  <2>3. <<n>> \in Seq({n, D}) /\ Len(<<n>>) = 1 /\ <<n>>[1] = n
    OBVIOUS
  <2> DEFINE s == SubSeq(w, 1, 1)
             t == <<n>>
  <2>4. s \in Seq({n, D}) /\ t \in Seq({n, D}) /\ Len(s) = 1 /\ Len(t) = 1 /\ s[1] = t[1]
    BY <2>2, <2>3
  <2> HIDE DEF s, t
  <2>5. Len(s) = Len(t) /\ \A i \in 1 .. Len(s) : s[i] = t[i]
    BY <2>4
  <2>6. s = t
    BY <2>4, <2>5, SeqEqual, Zenon
  <2> QED
    BY <2>6 DEF s, t
<1> QED
  BY <1>4, <1>11, <1>12

LEMMA SoapId ==
  ASSUME StageInv, pc = "done", NEW n \in Numbers, item["ID"] = Number(n)
  PROVE  CoerceItemId(Text(raw["ID"])) = n
<1>1. /\ "ID" \in DOMAIN item /\ TypeOf("ID") = "Counter" /\ raw = SoapRow
      /\ DOMAIN item["ID"] = {"number"} /\ item["ID"].number = n /\ item["ID"] # Null
  BY ItemIs, DecodeAssumption DEF StageInv, Number, Null
<1>2. raw["ID"] = SoapOf("Counter", item["ID"], served.wrapped)
  BY <1>1 DEF SoapRow, Sent
<1>3. raw["ID"] = IF served.wrapped THEN <<n, D, n>> ELSE <<n>>
  BY <1>1, <1>2 DEF SoapOf, Has
<1>4. \A t : DOMAIN Text(t) = {"text"} /\ Text(t).text = t
  BY DEF Text
<1>5. CASE served.wrapped
  <2>1. ~IsInt(<<n, D, n>>) /\ IsInt(<<n>>) /\ <<n>>[1] = n
    BY DEF IsInt
  <2>2. SplitMulti(<<n, D, n>>) # <<>> /\ SplitMulti(<<n, D, n>>)[1] = <<n>>
    BY DoubledId
  <2>3. raw["ID"] = <<n, D, n>>
    BY <1>3, <1>5
  <2> DEFINE v == Text(<<n, D, n>>)
  <2>4. ~Has(v, "number") /\ Has(v, "text") /\ v.text = <<n, D, n>>
    BY <1>4 DEF Has
  <2> HIDE DEF v
  <2>5. CoerceItemId(v) = n
    BY <2>1, <2>2, <2>4 DEF CoerceItemId
  <2> QED
    BY <2>3, <2>5 DEF v
<1>6. CASE ~served.wrapped
  <2>1. IsInt(<<n>>) /\ <<n>>[1] = n
    BY DEF IsInt
  <2>2. raw["ID"] = <<n>>
    BY <1>3, <1>6
  <2> DEFINE v == Text(<<n>>)
  <2>3. ~Has(v, "number") /\ Has(v, "text") /\ v.text = <<n>>
    BY <1>4 DEF Has
  <2> HIDE DEF v
  <2>4. CoerceItemId(v) = n
    BY <2>1, <2>3 DEF CoerceItemId
  <2> QED
    BY <2>2, <2>4 DEF v
<1> QED
  BY <1>5, <1>6

LEMMA EntityId ==
  ASSUME StageInv, pc = "done", NEW n \in Numbers, item["ID"] = Number(n),
         NEW p \in DOMAIN entity, p.of = "ID"
  PROVE  CoerceItemId(Read(p)) = n
<1>1. Read(p) = Number(n)
  BY KeyIdIs
<1> QED
  BY <1>1 DEF CoerceItemId, Has, Number

(* Types, and one identity of an item: the two raw rows give the same id,   *)
(* bare or behind itself (decode.py:553-569, crawl.py:491-560).             *)
THEOREM ConsistentHolds == Spec => []Consistent
<1>1. ASSUME StageInv, pc = "done" PROVE SameItem
  <2>1. PICK n \in Numbers : item["ID"] = Number(n)
    BY <1>1, StoredId
  <2>2. CoerceItemId(Text(raw["ID"])) = n
    BY <1>1, <2>1, SoapId
  <2>3. \A p \in DOMAIN entity : p.of = "ID" => CoerceItemId(Read(p)) = n
    BY <1>1, <2>1, EntityId
  <2>4. \E p \in DOMAIN entity : p.of = "ID"
    <3>1. PICK p \in Properties : p.of = "ID"
      BY DecodeAssumption, PropertyIs
    <3>2. "ID" \in DOMAIN item /\ entity = Whole
      BY <1>1, ItemIs DEF StageInv
    <3> QED
      BY <3>1, <3>2 DEF Whole, PropertiesOf
  <2>5. RawId = {n}
    BY <2>3, <2>4 DEF RawId
  <2> QED
    BY <2>2, <2>5 DEF SameItem
<1>2. IInv => Consistent
  BY <1>1 DEF IInv, Consistent, SameItem
<1> QED
  BY <1>2, Invariance, PTL

-----------------------------------------------------------------------------
(* Splitting and joining.                                                   *)

Below(S, i) == {j \in S : j < i}
IsNth(S, k, i) == i \in S /\ Cardinality(Below(S, i)) = k

(* Of two members of a set the lesser one has fewer below it.               *)
LEMMA FewerBelow ==
  ASSUME NEW S \in SUBSET Nat, IsFiniteSet(S), NEW i \in S, NEW j \in S, i < j
  PROVE  /\ Cardinality(Below(S, i)) \in Nat /\ Cardinality(Below(S, j)) \in Nat
         /\ Cardinality(Below(S, i)) < Cardinality(Below(S, j))
<1>1. IsFiniteSet(Below(S, j)) /\ IsFiniteSet(Below(S, i))
  <2>1. Below(S, j) \in SUBSET S /\ Below(S, i) \in SUBSET S
    BY DEF Below
  <2> QED
    BY <2>1, FS_Subset
<1>2. Below(S, i) \in SUBSET Below(S, j) /\ i \in Below(S, j) /\ i \notin Below(S, i)
  <2>1. i \in Nat /\ j \in Nat /\ \A x \in S : x \in Nat
    OBVIOUS
  <2>2. \A x \in S : x < i => x < j
    BY <2>1
  <2>3. i \in Below(S, j) /\ i \notin Below(S, i)
    BY <2>1 DEF Below
  <2> QED
    BY <2>2, <2>3 DEF Below
<1>3. Cardinality(Below(S, i)) <= Cardinality(Below(S, j))
  BY <1>1, <1>2, FS_Subset
<1>4. Cardinality(Below(S, j)) # Cardinality(Below(S, i))
  BY <1>1, <1>2, FS_Subset
<1>5. Cardinality(Below(S, i)) \in Nat /\ Cardinality(Below(S, j)) \in Nat
  BY <1>1, FS_CardinalityType
<1> QED
  BY <1>3, <1>4, <1>5

(* A member is the one that has so many below it.                           *)
LEMMA NthIs ==
  ASSUME NEW S \in SUBSET Nat, IsFiniteSet(S), NEW k, NEW i, IsNth(S, k, i)
  PROVE  Nth(S, k) = i
<1>1. ASSUME NEW j \in S, IsNth(S, k, j) PROVE j = i
  <2>1. i \in Nat /\ j \in Nat /\ i \in S
    BY DEF IsNth
  <2>2. ~(i < j) /\ ~(j < i)
    BY <1>1, <2>1, FewerBelow DEF IsNth
  <2> QED
    BY <2>1, <2>2
<1>2. \A j \in S : Cardinality({x \in S : x < j}) = k <=> j = i
  BY <1>1 DEF IsNth, Below
<1>3. i \in S
  BY DEF IsNth
<1> QED
  BY <1>2, <1>3 DEF Nth

(* And there is one for every number less than the set's: the count of      *)
(* those below is one to one into the numbers less than the set's own.      *)
LEMMA NthExists ==
  ASSUME NEW S \in SUBSET Nat, IsFiniteSet(S), NEW k \in 0 .. Cardinality(S) - 1
  PROVE  IsNth(S, k, Nth(S, k))
<1> DEFINE n == Cardinality(S)
           T == 0 .. n - 1
           f == [i \in S |-> Cardinality(Below(S, i))]
<1>1. n \in Nat
  BY FS_CardinalityType
<1>2. IsFiniteSet(T) /\ Cardinality(T) = n
  BY <1>1, FS_Interval
<1>3. ASSUME NEW i \in S PROVE Cardinality(Below(S, i)) \in T
  <2>1. Below(S, i) \in SUBSET S /\ i \notin Below(S, i)
    BY DEF Below
  <2>2. /\ Cardinality(Below(S, i)) \in Nat /\ Cardinality(Below(S, i)) <= n
        /\ Cardinality(Below(S, i)) # n
    BY <2>1, FS_Subset, FS_CardinalityType
  <2> QED
    BY <1>1, <2>2
<1>4. ASSUME NEW i \in S, NEW j \in S, i # j
      PROVE  Cardinality(Below(S, i)) # Cardinality(Below(S, j))
  <2>1. i \in Nat /\ j \in Nat
    OBVIOUS
  <2>2. i < j \/ j < i
    BY <1>4, <2>1
  <2> QED
    BY <2>2, FewerBelow
<1> HIDE DEF T, n
<1>5. f \in Injection(S, T)
  BY <1>3, <1>4 DEF Injection, IsInjective
<1>6. f \in Surjection(S, T)
  BY <1>2, <1>5, FS_Injection DEF n
<1>7. k \in T
  BY DEF T, n
<1>8. \E i \in S : f[i] = k
  BY <1>6, <1>7 DEF Surjection
<1>9. PICK i \in S : Cardinality(Below(S, i)) = k
  BY <1>8
<1>10. IsNth(S, k, i)
  BY <1>9 DEF IsNth
<1> QED
  BY <1>10, NthIs

(* The cuts of a string: its delimiters, one place before it and one behind. *)
LEMMA CutsAre ==
  ASSUME NEW A, NEW w \in Seq(A)
  PROVE  /\ Cuts(w) \in SUBSET Nat /\ IsFiniteSet(Cuts(w)) /\ Cuts(w) \subseteq 0 .. Len(w) + 1
         /\ Count(w) \in Nat /\ Cardinality(Cuts(w)) = Count(w) + 2
         /\ Len(w) \in Nat
<1> DEFINE ds == {i \in DOMAIN w : w[i] = D}
<1>1. Len(w) \in Nat /\ DOMAIN w = 1 .. Len(w)
  BY LenProperties
<1>2. ds \in SUBSET (1 .. Len(w)) /\ 0 \notin ds /\ Len(w) + 1 \notin ds /\ Len(w) + 1 # 0
  BY <1>1
<1>3. IsFiniteSet(ds)
  <2>1. IsFiniteSet(1 .. Len(w))
    BY <1>1, FS_Interval
  <2> HIDE DEF ds
  <2> QED
    BY <1>2, <2>1, FS_Subset
<1>4. Cuts(w) = (ds \cup {0}) \cup {Len(w) + 1} /\ Count(w) = Cardinality(ds)
  BY DEF Cuts, Count
<1> HIDE DEF ds
<1>5. Cardinality(ds) \in Nat
  BY <1>3, FS_CardinalityType
<1>6. IsFiniteSet(ds \cup {0}) /\ Cardinality(ds \cup {0}) = Cardinality(ds) + 1
  BY <1>2, <1>3, FS_AddElement
<1>7. Len(w) + 1 \notin ds \cup {0}
  BY <1>2
<1>8. /\ IsFiniteSet((ds \cup {0}) \cup {Len(w) + 1})
      /\ Cardinality((ds \cup {0}) \cup {Len(w) + 1}) = Cardinality(ds) + 1 + 1
  BY <1>6, <1>7, FS_AddElement
<1>9. IsFiniteSet(Cuts(w)) /\ Cardinality(Cuts(w)) = Count(w) + 2
  BY <1>4, <1>5, <1>8
<1>10. Cuts(w) \subseteq 0 .. Len(w) + 1
  <2>1. \A i \in 1 .. Len(w) : i \in 0 .. Len(w) + 1
    BY <1>1
  <2>2. 0 \in 0 .. Len(w) + 1 /\ Len(w) + 1 \in 0 .. Len(w) + 1
    BY <1>1
  <2> QED
    BY <1>2, <1>4, <2>1, <2>2
<1>11. Cuts(w) \in SUBSET Nat
  BY <1>1, <1>10
<1> QED
  BY <1>1, <1>4, <1>5, <1>9, <1>10, <1>11

(* A delimiter, or an end, that has k cuts before it is the k-th cut.       *)
LEMMA CutIs ==
  ASSUME NEW A, NEW w \in Seq(A), NEW k, NEW i, IsNth(Cuts(w), k, i)
  PROVE  Cut(w, k) = i
  BY CutsAre, NthIs DEF Cut

LEMMA CutExists ==
  ASSUME NEW A, NEW w \in Seq(A), NEW k \in 0 .. Count(w) + 1
  PROVE  IsNth(Cuts(w), k, Cut(w, k)) /\ Cut(w, k) \in 0 .. Len(w) + 1
<1>1. k \in 0 .. Cardinality(Cuts(w)) - 1
  BY CutsAre
<1>2. IsNth(Cuts(w), k, Cut(w, k))
  BY <1>1, CutsAre, NthExists DEF Cut
<1> QED
  BY <1>2, CutsAre DEF IsNth

(* The first cut is before the string, the last one behind it.              *)
LEMMA EndCuts ==
  ASSUME NEW A, NEW w \in Seq(A)
  PROVE  Cut(w, 0) = 0 /\ Cut(w, Count(w) + 1) = Len(w) + 1
<1>1. Cuts(w) \subseteq 0 .. Len(w) + 1 /\ 0 \in Cuts(w) /\ Len(w) + 1 \in Cuts(w)
      /\ Len(w) \in Nat /\ Count(w) \in Nat
  BY CutsAre DEF Cuts
<1>2. Cut(w, 0) = 0
  <2>1. Below(Cuts(w), 0) = {}
    BY <1>1 DEF Below
  <2>2. IsNth(Cuts(w), 0, 0)
    BY <1>1, <2>1, FS_EmptySet DEF IsNth
  <2> QED
    BY <2>2, CutIs
<1>3. Cut(w, Count(w) + 1) = Len(w) + 1
  <2>1. Below(Cuts(w), Len(w) + 1) = Cuts(w) \ {Len(w) + 1}
    BY <1>1 DEF Below
  <2>2. Cardinality(Cuts(w) \ {Len(w) + 1}) = (Count(w) + 2) - 1
    <3>1. IsFiniteSet(Cuts(w)) /\ Cardinality(Cuts(w)) = Count(w) + 2
      BY CutsAre
    <3> DEFINE S == Cuts(w)
               x == Len(w) + 1
    <3>2. IsFiniteSet(S) /\ x \in S
      BY <1>1, <3>1
    <3> HIDE DEF S, x
    <3>3. Cardinality(S \ {x}) = Cardinality(S) - 1
      BY <3>2, FS_RemoveElement
    <3> QED
      BY <1>1, <3>1, <3>3 DEF S, x
  <2>3. (Count(w) + 2) - 1 = Count(w) + 1
    BY <1>1
  <2>4. IsNth(Cuts(w), Count(w) + 1, Len(w) + 1)
    BY <1>1, <2>1, <2>2, <2>3 DEF IsNth
  <2> QED
    BY <2>4, CutIs
<1> QED
  BY <1>2, <1>3

(* The pieces of a string are one more than its delimiters, and strings.    *)
LEMMA PiecesAre ==
  ASSUME NEW A, NEW w \in Seq(A)
  PROVE  /\ Pieces(w) \in Seq(Seq(A)) /\ Len(Pieces(w)) = Count(w) + 1
         /\ \A k \in 1 .. Count(w) + 1 :
               Pieces(w)[k] = SubSeq(w, Cut(w, k - 1) + 1, Cut(w, k) - 1)
<1>1. Count(w) \in Nat /\ Len(w) \in Nat
  BY CutsAre
<1>2. ASSUME NEW k \in 1 .. Count(w) + 1
      PROVE  SubSeq(w, Cut(w, k - 1) + 1, Cut(w, k) - 1) \in Seq(A)
  <2>1. k - 1 \in 0 .. Count(w) + 1 /\ k \in 0 .. Count(w) + 1
    BY <1>1
  <2>2. Cut(w, k - 1) \in 0 .. Len(w) + 1 /\ Cut(w, k) \in 0 .. Len(w) + 1
    BY <2>1, CutExists
  <2> DEFINE m == Cut(w, k - 1) + 1
             n == Cut(w, k) - 1
  <2>3. m \in Int /\ n \in Int /\ 1 <= m /\ n <= Len(w)
    BY <1>1, <2>2
  <2> HIDE DEF m, n
  <2>4. \A i \in m .. n : i \in 1 .. Len(w)
    BY <1>1, <2>3
  <2>5. \A i \in m .. n : w[i] \in A
    BY <2>4, ElementOfSeq
  <2>6. SubSeq(w, m, n) \in Seq(A)
    BY <2>3, <2>5, SubSeqProperties
  <2> QED
    BY <2>6 DEF m, n
<1>3. Pieces(w) = [k \in 1 .. Count(w) + 1 |-> SubSeq(w, Cut(w, k - 1) + 1, Cut(w, k) - 1)]
  BY DEF Pieces
<1> DEFINE n == Count(w) + 1
           S == Seq(A)
<1>4. n \in Nat
  BY <1>1
<1>5. DOMAIN Pieces(w) = 1 .. n /\ \A k \in 1 .. n : Pieces(w)[k] \in S
  BY <1>2, <1>3
<1>6. Pieces(w) = [k \in 1 .. n |-> Pieces(w)[k]]
  BY <1>3
<1> HIDE DEF n, S
<1>7. Pieces(w) \in Seq(S) /\ Len(Pieces(w)) = n
  BY <1>4, <1>5, <1>6
<1> QED
  BY <1>3, <1>7 DEF n, S

(* Two strings with a delimiter between them.                               *)
Delimited(s, t) == s \o <<D>> \o t
Shifted(S, n) == {n + j : j \in S}

LEMMA DelimitedIs ==
  ASSUME NEW A, D \in A, NEW s \in Seq(A), NEW t \in Seq(A)
  PROVE  /\ Delimited(s, t) \in Seq(A) /\ Len(Delimited(s, t)) = Len(s) + 1 + Len(t)
         /\ \A i \in 1 .. Len(s) : Delimited(s, t)[i] = s[i]
         /\ Delimited(s, t)[Len(s) + 1] = D
         /\ \A i \in 1 .. Len(t) : Delimited(s, t)[Len(s) + 1 + i] = t[i]
         /\ Len(s) \in Nat /\ Len(t) \in Nat
<1> DEFINE d == <<D>>
<1>1. Len(s) \in Nat /\ Len(t) \in Nat
  BY LenProperties
<1>2. d \in Seq(A) /\ Len(d) = 1 /\ d[1] = D
  OBVIOUS
<1> HIDE DEF d
<1>3. /\ s \o d \in Seq(A) /\ Len(s \o d) = Len(s) + 1
      /\ \A i \in 1 .. Len(s) + 1 : (s \o d)[i] = IF i <= Len(s) THEN s[i] ELSE d[i - Len(s)]
  BY <1>2, ConcatProperties
<1> DEFINE sd == s \o d
<1>4. /\ sd \in Seq(A) /\ Len(sd) = Len(s) + 1
      /\ \A i \in 1 .. Len(s) : sd[i] = s[i]
      /\ sd[Len(s) + 1] = D
  <2>1. \A i \in 1 .. Len(s) : i \in 1 .. Len(s) + 1 /\ i <= Len(s)
    BY <1>1
  <2>2. Len(s) + 1 \in 1 .. Len(s) + 1 /\ ~(Len(s) + 1 <= Len(s)) /\ Len(s) + 1 - Len(s) = 1
    BY <1>1
  <2> QED
    BY <1>2, <1>3, <2>1, <2>2
<1> HIDE DEF sd
<1>5. /\ sd \o t \in Seq(A) /\ Len(sd \o t) = Len(s) + 1 + Len(t)
      /\ \A i \in 1 .. Len(s) + 1 + Len(t) :
            (sd \o t)[i] = IF i <= Len(s) + 1 THEN sd[i] ELSE t[i - (Len(s) + 1)]
  <2>1. /\ sd \o t \in Seq(A) /\ Len(sd \o t) = Len(sd) + Len(t)
        /\ \A i \in 1 .. Len(sd) + Len(t) :
              (sd \o t)[i] = IF i <= Len(sd) THEN sd[i] ELSE t[i - Len(sd)]
    BY <1>4, ConcatProperties
  <2>2. Len(sd) = Len(s) + 1
    BY <1>4
  <2> QED
    BY <2>1, <2>2
<1>6. Delimited(s, t) = sd \o t
  BY DEF Delimited, sd, d
<1> DEFINE w == sd \o t
<1>7. \A i \in 1 .. Len(s) + 1 : i \in 1 .. Len(s) + 1 + Len(t) /\ i <= Len(s) + 1
  BY <1>1
<1>8. \A i \in 1 .. Len(t) : /\ Len(s) + 1 + i \in 1 .. Len(s) + 1 + Len(t)
                             /\ ~(Len(s) + 1 + i <= Len(s) + 1)
                             /\ (Len(s) + 1 + i) - (Len(s) + 1) = i
  BY <1>1
<1>9. \A i \in 1 .. Len(s) + 1 : w[i] = sd[i]
  BY <1>5, <1>7
<1>10. \A i \in 1 .. Len(t) : w[Len(s) + 1 + i] = t[i]
  BY <1>5, <1>8
<1>11. \A i \in 1 .. Len(s) : i \in 1 .. Len(s) + 1
  BY <1>1
<1>12. Len(s) + 1 \in 1 .. Len(s) + 1
  BY <1>1
<1> HIDE DEF w
<1>13. \A i \in 1 .. Len(s) : w[i] = s[i]
  BY <1>4, <1>9, <1>11
<1>14. w[Len(s) + 1] = D
  BY <1>4, <1>9, <1>12
<1> QED
  BY <1>1, <1>5, <1>6, <1>10, <1>13, <1>14 DEF w

(* Each half of that string read by itself.                                 *)
LEMMA SecondHalf ==
  ASSUME NEW A, NEW x \in Seq(A), NEW t \in Seq(A), NEW n, n = Len(x)
  PROVE  \A i \in 1 .. Len(t) : (x \o t)[n + i] = t[i]
<1>1. n \in Nat /\ Len(t) \in Nat
  BY LenProperties
<1>2. \A i \in 1 .. n + Len(t) : (x \o t)[i] = IF i <= n THEN x[i] ELSE t[i - n]
  BY ConcatProperties
<1> DEFINE w == x \o t
<1> HIDE DEF w
<1>3. \A i \in 1 .. Len(t) : n + i \in 1 .. n + Len(t) /\ ~(n + i <= n) /\ (n + i) - n = i
  BY <1>1
<1>4. \A i \in 1 .. Len(t) : w[n + i] = t[i]
  BY <1>2, <1>3 DEF w
<1> QED
  BY <1>4 DEF w

LEMMA DelimitedFirst ==
  ASSUME NEW A, D \in A, NEW s \in Seq(A), NEW t \in Seq(A)
  PROVE  \A i \in 1 .. Len(s) : Delimited(s, t)[i] = s[i]
<1> SUFFICES ASSUME NEW i \in 1 .. Len(s) PROVE Delimited(s, t)[i] = s[i]
  OBVIOUS
<1> QED
  BY DelimitedIs

LEMMA DelimitedSecond ==
  ASSUME NEW A, D \in A, NEW s \in Seq(A), NEW t \in Seq(A)
  PROVE  \A i \in 1 .. Len(t) : Delimited(s, t)[Len(s) + 1 + i] = t[i]
<1> DEFINE x == s \o <<D>>
           n == Len(s) + 1
<1>1. x \in Seq(A) /\ n = Len(x)
  OBVIOUS
<1>2. Delimited(s, t) = x \o t
  BY DEF Delimited
<1> HIDE DEF x, n
<1>3. \A i \in 1 .. Len(t) : (x \o t)[n + i] = t[i]
  BY <1>1, SecondHalf
<1> QED
  BY <1>2, <1>3, Zenon DEF n

LEMMA ShiftedIs ==
  ASSUME NEW S \in SUBSET Nat, IsFiniteSet(S), NEW n \in Nat
  PROVE  IsFiniteSet(Shifted(S, n)) /\ Cardinality(Shifted(S, n)) = Cardinality(S)
<1> DEFINE T == Shifted(S, n)
           f == [j \in S |-> n + j]
<1>1. \A j \in S : j \in Nat /\ n + j \in T
  BY DEF Shifted
<1>2. \A i, j \in S : n + i = n + j => i = j
  BY <1>1
<1>3. \A x \in T : \E j \in S : x = n + j
  BY DEF Shifted
<1> HIDE DEF T
<1>4. f \in Bijection(S, T)
  BY <1>1, <1>2, <1>3 DEF Bijection, Injection, Surjection, IsInjective
<1>5. ExistsBijection(S, T)
  BY <1>4 DEF ExistsBijection
<1>6. IsFiniteSet(T) /\ Cardinality(T) = Cardinality(S)
  BY <1>5, FS_Bijection
<1> QED
  BY <1>6 DEF T

(* The cuts of the two strings, with the delimiter as the last of the one   *)
(* and the first of the other.                                              *)
LEMMA CutsOfDelimited ==
  ASSUME NEW A, D \in A, NEW s \in Seq(A), NEW t \in Seq(A)
  PROVE  /\ Cuts(Delimited(s, t)) = Cuts(s) \cup Shifted(Cuts(t), Len(s) + 1)
         /\ \A i \in Cuts(s) : Below(Cuts(Delimited(s, t)), i) = Below(Cuts(s), i)
         /\ \A i \in Cuts(t) : Below(Cuts(Delimited(s, t)), Len(s) + 1 + i) =
                Below(Cuts(s), Len(s) + 1) \cup Shifted(Below(Cuts(t), i), Len(s) + 1)
<1> DEFINE w == Delimited(s, t)
           n == Len(s) + 1
<1>1. /\ w \in Seq(A) /\ Len(w) = n + Len(t) /\ DOMAIN w = 1 .. Len(w)
      /\ DOMAIN s = 1 .. Len(s) /\ DOMAIN t = 1 .. Len(t)
      /\ \A i \in 1 .. Len(s) : w[i] = s[i]
      /\ w[n] = D
      /\ \A i \in 1 .. Len(t) : w[n + i] = t[i]
  <2>1. w \in Seq(A) /\ Len(w) = Len(s) + 1 + Len(t)
    BY DelimitedIs
  <2>2. DOMAIN w = 1 .. Len(w) /\ DOMAIN s = 1 .. Len(s) /\ DOMAIN t = 1 .. Len(t)
    BY <2>1, LenProperties
  <2>3. \A i \in 1 .. Len(s) : w[i] = s[i]
    BY DelimitedFirst, Zenon
  <2>4. w[n] = D
    BY DelimitedIs
  <2>5. \A i \in 1 .. Len(t) : w[n + i] = t[i]
    BY DelimitedSecond, Zenon
  <2> QED
    BY <2>1, <2>2, <2>3, <2>4, <2>5
<1>2. n \in Nat /\ Len(t) \in Nat /\ Len(s) \in Nat /\ n = Len(s) + 1
  BY DelimitedIs
<1> HIDE DEF w, n
<1>3. /\ Cuts(s) = {0, n} \cup {i \in 1 .. Len(s) : s[i] = D}
      /\ Cuts(t) = {0, Len(t) + 1} \cup {i \in 1 .. Len(t) : t[i] = D}
      /\ Cuts(w) = {0, n + Len(t) + 1} \cup {i \in 1 .. Len(w) : w[i] = D}
  BY <1>1, <1>2 DEF Cuts
<1>4. Cuts(w) = Cuts(s) \cup Shifted(Cuts(t), n)
  <2>1. ASSUME NEW i \in Cuts(w) PROVE i \in Cuts(s) \cup Shifted(Cuts(t), n)
    <3>1. CASE i \in 1 .. Len(s)
      BY <1>1, <1>2, <1>3, <3>1
    <3>2. CASE i \in {0, n}
      BY <1>3, <3>2
    <3>3. CASE i - n \in Cuts(t) /\ i \in Nat
      <4>1. i = n + (i - n)
        BY <1>2, <3>3
      <4> QED
        BY <3>3, <4>1 DEF Shifted
    <3>4. i \in Nat /\ i <= n + Len(t) + 1
      BY <1>1, <1>2, <1>3
    <3>5. i \in 1 .. Len(s) \/ i \in {0, n} \/ i - n \in 1 .. Len(t) \/ i = n + Len(t) + 1
      BY <1>2, <3>4
    <3>6. CASE i - n \in 1 .. Len(t)
      <4>1. w[n + (i - n)] = t[i - n] /\ i = n + (i - n)
        <5>1. w[n + (i - n)] = t[i - n]
          BY <1>1, <3>6
        <5>2. i = n + (i - n)
          BY <1>2, <3>4
        <5> QED
          BY <5>1, <5>2
      <4>2. w[i] = D
        BY <1>2, <1>3, <3>4, <3>6
      <4> QED
        BY <1>3, <3>3, <3>4, <3>6, <4>1, <4>2
    <3>7. CASE i = n + Len(t) + 1
      BY <1>2, <1>3, <3>3, <3>7
    <3> QED
      BY <3>1, <3>2, <3>5, <3>6, <3>7
  <2>2. ASSUME NEW i \in Cuts(s) PROVE i \in Cuts(w)
    BY <1>1, <1>2, <1>3
  <2>3. ASSUME NEW j \in Cuts(t) PROVE n + j \in Cuts(w)
    <3>1. CASE j \in 1 .. Len(t)
      BY <1>1, <1>2, <1>3, <3>1
    <3>2. CASE j = 0
      BY <1>1, <1>2, <1>3, <3>2
    <3>3. CASE j = Len(t) + 1
      BY <1>1, <1>2, <1>3, <3>3
    <3> QED
      BY <1>3, <3>1, <3>2, <3>3
  <2> QED
    BY <2>1, <2>2, <2>3 DEF Shifted
<1>5. /\ \A i \in Cuts(s) : i \in 0 .. n
      /\ \A j \in Cuts(t) : j \in Nat
  BY <1>2, <1>3
<1>6. ASSUME NEW i \in Cuts(s) PROVE Below(Cuts(w), i) = Below(Cuts(s), i)
  <2>1. \A j \in Shifted(Cuts(t), n) : ~(j < i)
    BY <1>2, <1>5 DEF Shifted
  <2> QED
    BY <1>4, <2>1 DEF Below
<1>7. ASSUME NEW i \in Cuts(t)
      PROVE  Below(Cuts(w), n + i) = Below(Cuts(s), n) \cup Shifted(Below(Cuts(t), i), n)
  <2>1. ASSUME NEW j \in Below(Cuts(w), n + i)
        PROVE  j \in Below(Cuts(s), n) \cup Shifted(Below(Cuts(t), i), n)
    <3>1. j \in Cuts(w) /\ j < n + i
      BY DEF Below
    <3>2. CASE j \in Cuts(s) /\ j # n
      BY <1>2, <1>5, <3>2 DEF Below
    <3>3. CASE j \in Shifted(Cuts(t), n)
      <4>1. PICK k \in Cuts(t) : j = n + k
        BY <3>3 DEF Shifted
      <4>2. k < i
        BY <1>2, <1>5, <3>1, <4>1
      <4> QED
        BY <4>1, <4>2 DEF Shifted, Below
    <3>4. n \in Shifted(Cuts(t), n)
      <4>1. 0 \in Cuts(t) /\ n = n + 0
        BY <1>2, <1>3
      <4> QED
        BY <4>1 DEF Shifted
    <3> QED
      BY <1>4, <3>1, <3>2, <3>3, <3>4
  <2>2. ASSUME NEW j \in Below(Cuts(s), n) PROVE j \in Below(Cuts(w), n + i)
    <3>1. j \in Cuts(s) /\ j < n
      BY DEF Below
    <3>2. j < n + i
      BY <1>2, <1>5, <3>1
    <3> QED
      BY <1>4, <3>1, <3>2 DEF Below
  <2>3. ASSUME NEW k \in Below(Cuts(t), i) PROVE n + k \in Below(Cuts(w), n + i)
    <3>1. k \in Cuts(t) /\ k < i
      BY DEF Below
    <3>2. n + k < n + i
      BY <1>2, <1>5, <3>1
    <3> QED
      BY <1>4, <3>1, <3>2 DEF Below, Shifted
  <2>4. Shifted(Below(Cuts(t), i), n) \subseteq Below(Cuts(w), n + i)
    BY <2>3 DEF Shifted
  <2> QED
    BY <2>1, <2>2, <2>4
<1> QED
  BY <1>4, <1>6, <1>7 DEF w, n

(* A stretch of a string that another string is a part of.                  *)
LEMMA SubSeqOfPart ==
  ASSUME NEW A, NEW w \in Seq(A), NEW t \in Seq(A), NEW n \in Nat, n + Len(t) <= Len(w),
         \A i \in 1 .. Len(t) : w[n + i] = t[i],
         NEW a \in Nat, NEW b \in Int, 1 <= a, b <= Len(t)
  PROVE  SubSeq(w, n + a, n + b) = SubSeq(t, a, b) /\ SubSeq(t, a, b) \in Seq(A)
<1>1. Len(w) \in Nat /\ Len(t) \in Nat
  BY LenProperties
<1>2. \A i \in a .. b : t[i] \in A
  <2>1. \A i \in a .. b : i \in 1 .. Len(t)
    BY <1>1
  <2> QED
    BY <2>1, ElementOfSeq
<1>3. \A i \in n + a .. n + b : w[i] \in A
  <2>1. \A i \in n + a .. n + b : i \in 1 .. Len(w)
    BY <1>1
  <2> QED
    BY <2>1, ElementOfSeq
<1> DEFINE x == SubSeq(w, n + a, n + b)
           y == SubSeq(t, a, b)
           m == IF a <= b THEN b - a + 1 ELSE 0
<1>4. y \in Seq(A) /\ Len(y) = m /\ \A i \in 1 .. b - a + 1 : y[i] = t[a + i - 1]
  BY <1>2, SubSeqProperties
<1>5. /\ x \in Seq(A) /\ Len(x) = IF n + a <= n + b THEN (n + b) - (n + a) + 1 ELSE 0
      /\ \A i \in 1 .. (n + b) - (n + a) + 1 : x[i] = w[(n + a) + i - 1]
  <2> DEFINE c == n + a
             d == n + b
  <2>1. c \in Int /\ d \in Int /\ \A i \in c .. d : w[i] \in A
    BY <1>3
  <2> HIDE DEF c, d
  <2>2. /\ SubSeq(w, c, d) \in Seq(A)
        /\ Len(SubSeq(w, c, d)) = IF c <= d THEN d - c + 1 ELSE 0
        /\ \A i \in 1 .. d - c + 1 : SubSeq(w, c, d)[i] = w[c + i - 1]
    <3>1. \A i, j \in Int :
              (\A k \in i .. j : w[k] \in A) =>
                /\ SubSeq(w, i, j) \in Seq(A)
                /\ Len(SubSeq(w, i, j)) = IF i <= j THEN j - i + 1 ELSE 0
                /\ \A k \in 1 .. j - i + 1 : SubSeq(w, i, j)[k] = w[i + k - 1]
      BY SubSeqProperties, SMTT(30)
    <3> QED
      BY <2>1, <3>1, Zenon
  <2> QED
    BY <2>2 DEF c, d
<1> HIDE DEF x, y
<1>6. Len(x) = m
  BY <1>5
<1>7. ASSUME NEW i \in 1 .. Len(x) PROVE x[i] = y[i]
  <2>1. a <= b /\ i \in 1 .. b - a + 1 /\ i \in 1 .. (n + b) - (n + a) + 1
    BY <1>6
  <2>2. (n + a) + i - 1 = n + (a + i - 1) /\ a + i - 1 \in 1 .. Len(t)
    BY <1>1, <2>1
  <2>3. x[i] = w[n + (a + i - 1)]
    BY <1>5, <2>1, <2>2
  <2>4. w[n + (a + i - 1)] = t[a + i - 1]
    BY <2>2
  <2>5. y[i] = t[a + i - 1]
    BY <1>4, <2>1
  <2> QED
    BY <2>3, <2>4, <2>5
<1>8. x = y
  BY <1>4, <1>5, <1>6, <1>7, SeqEqual
<1> QED
  BY <1>4, <1>8 DEF x, y

(* The first cuts of two strings are the one's, the rest the other's.       *)
LEMMA CutOfFirst ==
  ASSUME NEW A, D \in A, NEW s \in Seq(A), NEW t \in Seq(A), NEW k \in 0 .. Count(s) + 1
  PROVE  Cut(Delimited(s, t), k) = Cut(s, k)
<1> DEFINE i == Cut(s, k)
           w == Delimited(s, t)
<1>1. IsNth(Cuts(s), k, i)
  BY CutExists
<1>2. i \in Cuts(s) /\ w \in Seq(A)
  BY <1>1, DelimitedIs DEF IsNth
<1>3. i \in Cuts(w) /\ Below(Cuts(w), i) = Below(Cuts(s), i)
  BY <1>2, CutsOfDelimited
<1> HIDE DEF i, w
<1>4. IsNth(Cuts(w), k, i)
  BY <1>1, <1>3 DEF IsNth
<1>5. Cut(w, k) = i
  BY <1>2, <1>4, CutIs
<1> QED
  BY <1>5 DEF i, w

LEMMA NthOfSecond ==
  ASSUME NEW A, D \in A, NEW s \in Seq(A), NEW t \in Seq(A), NEW k \in 0 .. Count(t) + 1
  PROVE  IsNth(Cuts(Delimited(s, t)), Count(s) + 1 + k, Len(s) + 1 + Cut(t, k))
<1> DEFINE i == Cut(t, k)
           w == Delimited(s, t)
           n == Len(s) + 1
           B1 == Below(Cuts(s), n)
           B2 == Below(Cuts(t), i)
           B3 == Shifted(B2, n)
<1>1. IsNth(Cuts(t), k, i)
  BY CutExists
<1>2. i \in Cuts(t) /\ n \in Nat
  BY <1>1, CutsAre DEF IsNth
<1>3. n + i \in Cuts(w) /\ Below(Cuts(w), n + i) = B1 \cup B3
  <2>1. /\ Cuts(w) = Cuts(s) \cup Shifted(Cuts(t), n)
        /\ Below(Cuts(w), n + i) = B1 \cup B3
    BY <1>2, CutsOfDelimited
  <2> QED
    BY <1>2, <2>1 DEF Shifted
<1>4. IsFiniteSet(B1) /\ Cardinality(B1) = Count(s) + 1
  <2>1. Count(s) \in Nat
    BY CutsAre
  <2>2. IsNth(Cuts(s), Count(s) + 1, Cut(s, Count(s) + 1)) /\ Cut(s, Count(s) + 1) = n
    BY <2>1, CutExists, EndCuts
  <2>3. B1 \in SUBSET Cuts(s)
    BY DEF Below
  <2>4. IsFiniteSet(B1)
    BY <2>3, CutsAre, FS_Subset
  <2> QED
    BY <2>2, <2>4 DEF IsNth
<1>5. IsFiniteSet(B3) /\ Cardinality(B3) = k
  <2>1. B2 \in SUBSET Cuts(t) /\ Cuts(t) \in SUBSET Nat /\ IsFiniteSet(Cuts(t))
    BY CutsAre DEF Below
  <2>2. IsFiniteSet(B2) /\ B2 \in SUBSET Nat
    BY <2>1, FS_Subset
  <2>3. Cardinality(B2) = k
    BY <1>1 DEF IsNth
  <2> HIDE DEF B2, n
  <2> QED
    BY <1>2, <2>2, <2>3, ShiftedIs
<1>6. B1 \cap B3 = {}
  <2>1. \A j \in B1 : j \in Nat /\ j < n
    BY CutsAre DEF Below
  <2>2. \A j \in B2 : j \in Nat
    BY CutsAre DEF Below
  <2> HIDE DEF B1, B2, n
  <2>3. \A j \in B3 : ~(j < n)
    BY <1>2, <2>2 DEF Shifted
  <2> QED
    BY <2>1, <2>3
<1>7. Count(s) \in Nat
  BY CutsAre
<1> HIDE DEF B1, B3, w, n, i
<1>8. Cardinality(B1 \cup B3) = (Count(s) + 1) + k - 0
  BY <1>4, <1>5, <1>6, FS_Union, FS_EmptySet
<1>9. Cardinality(B1 \cup B3) = Count(s) + 1 + k
  BY <1>7, <1>8
<1>10. IsNth(Cuts(w), Count(s) + 1 + k, n + i)
  BY <1>3, <1>9 DEF IsNth
<1> QED
  BY <1>10 DEF w, n, i

LEMMA CutOfSecond ==
  ASSUME NEW A, D \in A, NEW s \in Seq(A), NEW t \in Seq(A), NEW k \in 0 .. Count(t) + 1
  PROVE  Cut(Delimited(s, t), Count(s) + 1 + k) = Len(s) + 1 + Cut(t, k)
<1>1. Delimited(s, t) \in Seq(A)
  BY DelimitedIs
<1> QED
  BY <1>1, NthOfSecond, CutIs

(* Hence the delimiters of the two and the one between them, and the pieces *)
(* of the one before those of the other.                                    *)
LEMMA CountDelimited ==
  ASSUME NEW A, D \in A, NEW s \in Seq(A), NEW t \in Seq(A)
  PROVE  Count(Delimited(s, t)) = Count(s) + Count(t) + 1
<1> DEFINE w == Delimited(s, t)
<1>1. /\ w \in Seq(A) /\ Len(w) = Len(s) + 1 + Len(t)
      /\ Len(s) \in Nat /\ Len(t) \in Nat
  BY DelimitedIs
<1> HIDE DEF w
<1>2. Count(w) \in Nat /\ Count(s) \in Nat /\ Count(t) \in Nat
  BY <1>1, CutsAre
<1>3. Count(t) + 1 \in 0 .. Count(t) + 1 /\ Cut(t, Count(t) + 1) = Len(t) + 1
  BY <1>2, EndCuts
<1>4. IsNth(Cuts(w), Count(s) + 1 + (Count(t) + 1), Len(s) + 1 + (Len(t) + 1))
  BY <1>3, NthOfSecond DEF w
<1>5. Len(s) + 1 + (Len(t) + 1) = Len(w) + 1
  BY <1>1
<1>6. Count(w) + 1 \in 0 .. Count(w) + 1
  BY <1>2
<1>7. IsNth(Cuts(w), Count(w) + 1, Len(w) + 1)
  BY <1>1, <1>6, CutExists, EndCuts
<1>8. Count(w) + 1 = Count(s) + 1 + (Count(t) + 1)
  BY <1>4, <1>5, <1>7 DEF IsNth
<1>9. Count(w) = Count(s) + Count(t) + 1
  BY <1>2, <1>8
<1> QED
  BY <1>9 DEF w

LEMMA PiecesDelimited ==
  ASSUME NEW A, D \in A, NEW s \in Seq(A), NEW t \in Seq(A)
  PROVE  Pieces(Delimited(s, t)) = Pieces(s) \o Pieces(t)
<1> DEFINE w == Delimited(s, t)
           m == Count(s) + 1
           l == Count(t) + 1
<1>1. /\ w \in Seq(A) /\ Len(w) = Len(s) + 1 + Len(t)
      /\ Len(s) \in Nat /\ Len(t) \in Nat
      /\ \A i \in 1 .. Len(s) : w[0 + i] = s[i]
      /\ \A i \in 1 .. Len(t) : w[Len(s) + 1 + i] = t[i]
  <2>1. \A i \in 1 .. Len(s) : 0 + i = i
    OBVIOUS
  <2>2. /\ w \in Seq(A) /\ Len(w) = Len(s) + 1 + Len(t)
        /\ Len(s) \in Nat /\ Len(t) \in Nat
    BY DelimitedIs
  <2>3. \A i \in 1 .. Len(s) : w[i] = s[i]
    BY DelimitedFirst, Zenon
  <2>4. \A i \in 1 .. Len(t) : w[Len(s) + 1 + i] = t[i]
    BY DelimitedSecond, Zenon
  <2> HIDE DEF w
  <2> QED
    BY <2>1, <2>2, <2>3, <2>4
<1>2. m \in Nat /\ l \in Nat /\ Count(w) + 1 = m + l /\ Count(s) \in Nat /\ Count(t) \in Nat
  <2>1. Count(w) = Count(s) + Count(t) + 1
    BY CountDelimited
  <2> QED
    BY <2>1, CutsAre
<1>3. ASSUME NEW k \in 1 .. m PROVE Pieces(w)[k] = Pieces(s)[k]
  <2>1. k \in 1 .. Count(w) + 1 /\ k - 1 \in 0 .. Count(s) + 1 /\ k \in 0 .. Count(s) + 1
    BY <1>2
  <2>2. Cut(w, k - 1) = Cut(s, k - 1) /\ Cut(w, k) = Cut(s, k)
    BY <2>1, CutOfFirst
  <2> DEFINE a == Cut(s, k - 1) + 1
             b == Cut(s, k) - 1
  <2>3. a \in Nat /\ b \in Int /\ 1 <= a /\ b <= Len(s) /\ 0 + a = a /\ 0 + b = b
    <3>1. Cut(s, k - 1) \in 0 .. Len(s) + 1 /\ Cut(s, k) \in 0 .. Len(s) + 1
      BY <2>1, CutExists
    <3> QED
      BY <1>1, <3>1
  <2>4. Pieces(w)[k] = SubSeq(w, a, b) /\ Pieces(s)[k] = SubSeq(s, a, b)
    <3>1. /\ \A j \in 1 .. Count(w) + 1 :
                Pieces(w)[j] = SubSeq(w, Cut(w, j - 1) + 1, Cut(w, j) - 1)
          /\ \A j \in 1 .. Count(s) + 1 :
                Pieces(s)[j] = SubSeq(s, Cut(s, j - 1) + 1, Cut(s, j) - 1)
      BY <1>1, PiecesAre
    <3> QED
      BY <2>1, <2>2, <3>1, Zenon
  <2> HIDE DEF a, b, w
  <2>5. 0 \in Nat /\ 0 + Len(s) <= Len(w)
    BY <1>1
  <2>6. SubSeq(w, 0 + a, 0 + b) = SubSeq(s, a, b)
    BY <1>1, <2>3, <2>5, SubSeqOfPart
  <2> QED
    BY <2>3, <2>4, <2>6
<1>4. ASSUME NEW k \in 1 .. l PROVE Pieces(w)[m + k] = Pieces(t)[k]
  <2> DEFINE j == m + k
             n == Len(s) + 1
             c == Cut(t, k - 1)
             d == Cut(t, k)
             a == c + 1
             b == d - 1
  <2>1. /\ j \in 1 .. Count(w) + 1 /\ k - 1 \in 0 .. Count(t) + 1 /\ k \in 0 .. Count(t) + 1
        /\ j - 1 = Count(s) + 1 + (k - 1) /\ j = Count(s) + 1 + k
    BY <1>2
  <2>2. Cut(w, Count(s) + 1 + (k - 1)) = n + c /\ Cut(w, Count(s) + 1 + k) = n + d
    BY <2>1, CutOfSecond
  <2>3. c \in 0 .. Len(t) + 1 /\ d \in 0 .. Len(t) + 1 /\ Pieces(t)[k] = SubSeq(t, a, b)
    BY <2>1, CutExists, PiecesAre
  <2>4. n + Len(t) <= Len(w) /\ (\A i \in 1 .. Len(t) : w[n + i] = t[i]) /\ n \in Nat
        /\ w \in Seq(A)
    BY <1>1
  <2> HIDE DEF c, d, j, n, w
  <2>5. /\ a \in Nat /\ b \in Int /\ 1 <= a /\ b <= Len(t)
        /\ (n + c) + 1 = n + a /\ (n + d) - 1 = n + b
    BY <1>1, <2>3, <2>4
  <2>6. Pieces(w)[j] = SubSeq(w, Cut(w, j - 1) + 1, Cut(w, j) - 1)
    BY <1>1, <2>1, PiecesAre
  <2>7. Cut(w, j - 1) = n + c /\ Cut(w, j) = n + d
    BY <2>1, <2>2
  <2> HIDE DEF a, b
  <2>8. Pieces(w)[j] = SubSeq(w, n + a, n + b)
    BY <2>5, <2>6, <2>7
  <2>9. SubSeq(w, n + a, n + b) = SubSeq(t, a, b)
    BY <2>4, <2>5, SubSeqOfPart
  <2> QED
    BY <2>3, <2>8, <2>9 DEF j, a, b
<1> DEFINE S == Seq(A)
           x == Pieces(w)
           y == Pieces(s)
           z == Pieces(t)
<1>5. /\ x \in Seq(S) /\ y \in Seq(S) /\ z \in Seq(S)
      /\ Len(x) = Count(w) + 1 /\ Len(y) = m /\ Len(z) = l
  BY <1>1, PiecesAre
<1>6. /\ \A k \in 1 .. m : x[k] = y[k]
      /\ \A k \in 1 .. l : x[m + k] = z[k]
  BY <1>3, <1>4
<1> HIDE DEF x, y, z, S, m, l, w
<1>7. /\ y \o z \in Seq(S) /\ Len(y \o z) = m + l
      /\ \A k \in 1 .. m + l : (y \o z)[k] = IF k <= m THEN y[k] ELSE z[k - m]
  BY <1>5, ConcatProperties
<1>8. ASSUME NEW k \in 1 .. m + l PROVE x[k] = (y \o z)[k]
  <2>1. CASE k <= m
    <3>1. k \in 1 .. m
      BY <1>2, <2>1
    <3> QED
      BY <1>6, <1>7, <2>1, <3>1
  <2>2. CASE ~(k <= m)
    <3>1. k - m \in 1 .. l /\ m + (k - m) = k
      BY <1>2, <2>2
    <3> QED
      BY <1>6, <1>7, <2>2, <3>1
  <2> QED
    BY <2>1, <2>2
<1>9. Len(x) = m + l
  BY <1>2, <1>5
<1>10. x = y \o z
  BY <1>5, <1>7, <1>8, <1>9, SeqEqual
<1> QED
  BY <1>10 DEF x, y, z, w

(* A string without a delimiter is its only piece, and one with a delimiter *)
(* is two shorter strings around it.                                        *)
LEMMA CountIsZero ==
  ASSUME NEW A, NEW w \in Seq(A)
  PROVE  Count(w) = 0 <=> \A i \in 1 .. Len(w) : w[i] # D
<1> DEFINE ds == {i \in DOMAIN w : w[i] = D}
<1>1. DOMAIN w = 1 .. Len(w) /\ Len(w) \in Nat
  BY LenProperties
<1>2. IsFiniteSet(ds)
  <2>1. IsFiniteSet(DOMAIN w)
    BY <1>1, FS_Interval
  <2>2. ds \in SUBSET DOMAIN w
    OBVIOUS
  <2> HIDE DEF ds
  <2> QED
    BY <2>1, <2>2, FS_Subset
<1>3. Count(w) = Cardinality(ds)
  BY DEF Count
<1>4. ds = {} <=> \A i \in 1 .. Len(w) : w[i] # D
  BY <1>1
<1> HIDE DEF ds
<1> QED
  BY <1>2, <1>3, <1>4, FS_EmptySet

LEMMA OnePiece ==
  ASSUME NEW A, NEW w \in Seq(A), Count(w) = 0
  PROVE  Pieces(w) = <<w>>
<1>1. Cut(w, 0) = 0 /\ Cut(w, 1) = Len(w) + 1 /\ Len(w) \in Nat
  <2>1. Count(w) + 1 = 1
    OBVIOUS
  <2> QED
    BY <2>1, EndCuts, CutsAre
<1>2. Pieces(w) \in Seq(Seq(A)) /\ Len(Pieces(w)) = 1
  <2>1. Pieces(w) \in Seq(Seq(A)) /\ Len(Pieces(w)) = Count(w) + 1
    BY PiecesAre
  <2> QED
    BY <2>1
<1>3. Pieces(w)[1] = SubSeq(w, Cut(w, 0) + 1, Cut(w, 1) - 1)
  <2>1. 1 \in 1 .. Count(w) + 1 /\ 1 - 1 = 0
    OBVIOUS
  <2> QED
    BY <2>1, PiecesAre
<1>4. 0 + 1 = 1 /\ (Len(w) + 1) - 1 = Len(w)
  BY <1>1
<1>5. Pieces(w)[1] = w
  BY <1>1, <1>3, <1>4, SubSeqFull
<1> DEFINE S == Seq(A)
           s == Pieces(w)
           t == <<w>>
<1>6. s \in Seq(S) /\ t \in Seq(S) /\ Len(s) = Len(t) /\ s[1] = t[1] /\ Len(s) = 1
  BY <1>2, <1>5
<1> HIDE DEF S, s, t
<1>7. \A i \in 1 .. Len(s) : s[i] = t[i]
  BY <1>6
<1>8. s = t
  BY <1>6, <1>7, SeqEqual
<1> QED
  BY <1>8 DEF s, t

(* A string is in two parts around a delimiter if it has one there.         *)
LEMMA PartedAt ==
  ASSUME NEW A, D \in A, NEW w \in Seq(A), NEW i \in 1 .. Len(w), w[i] = D
  PROVE  /\ SubSeq(w, 1, i - 1) \in Seq(A) /\ Len(SubSeq(w, 1, i - 1)) = i - 1
         /\ SubSeq(w, i + 1, Len(w)) \in Seq(A) /\ Len(SubSeq(w, i + 1, Len(w))) = Len(w) - i
         /\ w = Delimited(SubSeq(w, 1, i - 1), SubSeq(w, i + 1, Len(w)))
<1> DEFINE s == SubSeq(w, 1, i - 1)
           t == SubSeq(w, i + 1, Len(w))
<1>1. Len(w) \in Nat /\ i \in Nat /\ 1 <= i /\ i <= Len(w)
  BY LenProperties
<1>2. /\ s \in Seq(A) /\ Len(s) = i - 1
      /\ \A j \in 1 .. i - 1 : s[j] = w[j]
  <2>1. \A j \in 1 .. i - 1 : w[j] \in A
    <3>1. \A j \in 1 .. i - 1 : j \in 1 .. Len(w)
      BY <1>1
    <3> QED
      BY <3>1, ElementOfSeq
  <2>2. 1 \in Int /\ i - 1 \in Int
    BY <1>1
  <2>3. /\ s \in Seq(A) /\ Len(s) = IF 1 <= i - 1 THEN (i - 1) - 1 + 1 ELSE 0
        /\ \A j \in 1 .. (i - 1) - 1 + 1 : s[j] = w[1 + j - 1]
    BY <2>1, <2>2, SubSeqProperties
  <2> HIDE DEF s
  <2>4. \A j \in 1 .. i - 1 : j \in 1 .. (i - 1) - 1 + 1 /\ 1 + j - 1 = j
    BY <1>1
  <2> QED
    BY <1>1, <2>3, <2>4
<1>3. /\ t \in Seq(A) /\ Len(t) = Len(w) - i
      /\ \A j \in 1 .. Len(w) - i : t[j] = w[i + j]
  <2>1. \A j \in i + 1 .. Len(w) : w[j] \in A
    <3>1. \A j \in i + 1 .. Len(w) : j \in 1 .. Len(w)
      BY <1>1
    <3> QED
      BY <3>1, ElementOfSeq
  <2>2. i + 1 \in Int /\ Len(w) \in Int
    BY <1>1
  <2>3. /\ t \in Seq(A) /\ Len(t) = IF i + 1 <= Len(w) THEN Len(w) - (i + 1) + 1 ELSE 0
        /\ \A j \in 1 .. Len(w) - (i + 1) + 1 : t[j] = w[(i + 1) + j - 1]
    BY <2>1, <2>2, SubSeqProperties
  <2> HIDE DEF t
  <2>4. \A j \in 1 .. Len(w) - i : j \in 1 .. Len(w) - (i + 1) + 1 /\ (i + 1) + j - 1 = i + j
    BY <1>1
  <2> QED
    BY <1>1, <2>3, <2>4
<1> HIDE DEF s, t
<1> DEFINE x == Delimited(s, t)
<1>4. /\ x \in Seq(A) /\ Len(x) = Len(s) + 1 + Len(t)
      /\ \A j \in 1 .. Len(s) : x[j] = s[j]
      /\ x[Len(s) + 1] = D
      /\ \A j \in 1 .. Len(t) : x[Len(s) + 1 + j] = t[j]
  <2>0. s \in Seq(A) /\ t \in Seq(A)
    BY <1>2, <1>3
  <2>1. x \in Seq(A) /\ Len(x) = Len(s) + 1 + Len(t) /\ x[Len(s) + 1] = D
    BY <2>0, DelimitedIs
  <2>2. \A j \in 1 .. Len(s) : x[j] = s[j]
    BY <2>0, DelimitedFirst, Zenon
  <2>3. \A j \in 1 .. Len(t) : x[Len(s) + 1 + j] = t[j]
    BY <2>0, DelimitedSecond, Zenon
  <2> QED
    BY <2>1, <2>2, <2>3
<1> HIDE DEF x
<1>5. Len(x) = Len(w) /\ Len(s) + 1 = i
  BY <1>1, <1>2, <1>3, <1>4
<1>6. ASSUME NEW j \in 1 .. Len(w) PROVE w[j] = x[j]
  <2>1. CASE j \in 1 .. i - 1
    BY <1>2, <1>4, <2>1
  <2>2. CASE j = i
    BY <1>4, <1>5, <2>2
  <2>3. CASE j - i \in 1 .. Len(w) - i
    <3>1. x[i + (j - i)] = t[j - i] /\ t[j - i] = w[i + (j - i)]
      BY <1>3, <1>4, <1>5, <2>3
    <3>2. i + (j - i) = j
      BY <1>1
    <3> QED
      BY <3>1, <3>2
  <2>4. j \in 1 .. i - 1 \/ j = i \/ j - i \in 1 .. Len(w) - i
    BY <1>1
  <2> QED
    BY <2>1, <2>2, <2>3, <2>4
<1>7. w = x
  BY <1>4, <1>5, <1>6, SeqEqual
<1> QED
  BY <1>2, <1>3, <1>7 DEF s, t, x

LEMMA Parted ==
  ASSUME NEW A, D \in A, NEW w \in Seq(A), Count(w) # 0
  PROVE  \E s, t \in Seq(A) : w = Delimited(s, t) /\ Len(s) < Len(w) /\ Len(t) < Len(w)
<1>1. PICK i \in 1 .. Len(w) : w[i] = D
  BY CountIsZero
<1> DEFINE s == SubSeq(w, 1, i - 1)
           t == SubSeq(w, i + 1, Len(w))
<1>2. /\ s \in Seq(A) /\ Len(s) = i - 1 /\ t \in Seq(A) /\ Len(t) = Len(w) - i
      /\ w = Delimited(s, t)
  BY <1>1, PartedAt
<1> HIDE DEF s, t
<1>3. Len(s) < Len(w) /\ Len(t) < Len(w)
  BY <1>2, LenProperties
<1> QED
  BY <1>2, <1>3

(* Strings are put together in any grouping: under a name of its own, for   *)
(* the provers to take the concatenation as it is.                          *)
Cat(s, t) == s \o t

LEMMA Associative ==
  ASSUME NEW A
  PROVE  /\ \A p, q, r \in Seq(A) : Cat(Cat(p, q), r) = Cat(p, Cat(q, r))
         /\ \A p, q \in Seq(A) : Cat(p, q) \in Seq(A)
<1>1. \A p, q, r \in Seq(A) : (p \o q) \o r = p \o (q \o r)
  BY ConcatAssociative, SMTT(30)
<1>2. \A p, q \in Seq(A) : p \o q \in Seq(A)
  BY ConcatProperties, SMTT(30)
<1> QED
  BY <1>1, <1>2 DEF Cat

LEMMA DelimitedTwice ==
  ASSUME NEW A, D \in A
  PROVE  \A s, t, u \in Seq(A) :
            Delimited(Delimited(s, t), u) = Delimited(s, Delimited(t, u))
<1> DEFINE d == <<D>>
<1>1. d \in Seq(A)
  OBVIOUS
<1>2. \A s, t : Delimited(s, t) = Cat(Cat(s, d), t)
  BY DEF Delimited, Cat
<1> HIDE DEF d
<1>3. /\ \A p, q, r \in Seq(A) : Cat(Cat(p, q), r) = Cat(p, Cat(q, r))
      /\ \A p, q \in Seq(A) : Cat(p, q) \in Seq(A)
  BY Associative
<1>4. ASSUME NEW s \in Seq(A), NEW t \in Seq(A), NEW u \in Seq(A)
      PROVE  Delimited(Delimited(s, t), u) = Delimited(s, Delimited(t, u))
  <2> DEFINE x == Cat(s, d)
             y == Cat(t, d)
  <2>1. x \in Seq(A) /\ y \in Seq(A)
    BY <1>1, <1>3
  <2>2. Cat(Cat(x, t), d) = Cat(x, y) /\ Cat(Cat(x, y), u) = Cat(x, Cat(y, u))
    BY <1>1, <1>3, <2>1
  <2> QED
    BY <1>2, <2>2
<1> QED
  BY <1>4

-----------------------------------------------------------------------------
(* Recursive definitions: induction up to n, and that there is a function.  *)

LEMMA UpTo ==
  ASSUME NEW n \in Nat, NEW S, 0 \in S, \A i \in 1 .. n : i - 1 \in S => i \in S
  PROVE  \A i \in 0 .. n : i \in S
<1> SUFFICES ASSUME (0 .. n) \ S # {} PROVE FALSE
  OBVIOUS
<1> DEFINE T == (0 .. n) \ S
<1>1. T \in SUBSET Nat /\ T # {}
  OBVIOUS
<1> HIDE DEF T
<1>2. PICK k \in T : \A y \in T : k <= y
  BY <1>1, LeastNumber
<1>3. k \in 1 .. n
  BY <1>2 DEF T
<1>4. k - 1 \in S
  BY <1>2, <1>3 DEF T
<1> QED
  BY <1>2, <1>3, <1>4 DEF T

Follows(f, n, V, a, F) ==
    f \in [0 .. n -> V] /\ f[0] = a /\ \A i \in 1 .. n : f[i] = F[i][f[i - 1]]

LEMMA Recursion ==
  ASSUME NEW n \in Nat, NEW V, NEW a \in V, NEW F \in [1 .. n -> [V -> V]]
  PROVE  \E f : Follows(f, n, V, a, F)
<1> DEFINE Good(f, m) == f[0] = a /\ \A i \in 1 .. m : f[i] = F[i][f[i - 1]]
           S == {m \in 0 .. n : \E f \in [0 .. n -> V] : Good(f, m)}
<1>1. 0 \in S
  <2> DEFINE c == [i \in 0 .. n |-> a]
  <2>1. c \in [0 .. n -> V] /\ c[0] = a
    OBVIOUS
  <2> HIDE DEF c
  <2>2. Good(c, 0)
    BY <2>1
  <2> QED
    BY <2>1, <2>2
<1>2. ASSUME NEW i \in 1 .. n, i - 1 \in S PROVE i \in S
  <2>1. PICK f \in [0 .. n -> V] : Good(f, i - 1)
    BY <1>2
  <2> DEFINE v == F[i][f[i - 1]]
             g == [f EXCEPT ![i] = v]
  <2>2. v \in V
    OBVIOUS
  <2> HIDE DEF v
  <2>3. g \in [0 .. n -> V] /\ g[i] = v /\ \A j \in 0 .. i - 1 : g[j] = f[j]
    BY <2>2
  <2> HIDE DEF g
  <2>4. \A j \in 1 .. i - 1 : j \in 0 .. i - 1 /\ j - 1 \in 0 .. i - 1
    OBVIOUS
  <2>5. ASSUME NEW j \in 1 .. i PROVE g[j] = F[j][g[j - 1]]
    <3>1. CASE j = i
      BY <2>3, <3>1 DEF v
    <3>2. CASE j \in 1 .. i - 1
      BY <2>1, <2>3, <2>4, <3>2
    <3> QED
      BY <3>1, <3>2
  <2>6. Good(g, i)
    BY <2>1, <2>3, <2>5
  <2>7. i \in 0 .. n
    OBVIOUS
  <2> HIDE DEF Good
  <2> QED
    BY <2>3, <2>6, <2>7
<1> HIDE DEF S
<1>3. \A i \in 0 .. n : i \in S
  BY <1>1, <1>2, UpTo
<1>4. n \in S
  BY <1>3
<1> QED
  BY <1>4 DEF S, Follows

(* Join takes one token after the other.                                    *)
Joins(f, tokens) ==
    /\ f[1] = tokens[1]
    /\ \A k \in 2 .. Len(tokens) : f[k] = Delimited(f[k - 1], tokens[k])

LEMMA JoinIs ==
  ASSUME NEW A, D \in A, NEW tokens \in Seq(Seq(A)), tokens # <<>>
  PROVE  \E f \in [1 .. Len(tokens) -> Seq(A)] :
            Joins(f, tokens) /\ Join(tokens) = f[Len(tokens)]
<1> DEFINE n == Len(tokens)
           S == Seq(A)
           One(s, t) == s \o <<D>> \o t
           F == [i \in 1 .. n - 1 |-> [s \in S |-> One(s, tokens[i + 1])]]
           joined[k \in DOMAIN tokens] ==
              IF k = 1 THEN tokens[1] ELSE joined[k - 1] \o <<D>> \o tokens[k]
<1>1. n \in Nat \ {0} /\ DOMAIN tokens = 1 .. n /\ \A i \in 1 .. n : tokens[i] \in S
  <2>1. n \in Nat \ {0} /\ DOMAIN tokens = 1 .. n
    BY EmptySeq, LenProperties
  <2> QED
    BY <2>1, ElementOfSeq
<1>2. \A s \in S : \A t \in S : One(s, t) \in S
  BY DelimitedIs DEF Delimited
<1> HIDE DEF n, S, One
<1>3. \A i \in 1 .. n - 1 : i + 1 \in 1 .. n
  BY <1>1
<1>4. F \in [1 .. n - 1 -> [S -> S]] /\ n - 1 \in Nat /\ tokens[1] \in S
  BY <1>1, <1>2, <1>3
<1>5. PICK g : Follows(g, n - 1, S, tokens[1], F)
  <2> HIDE DEF F
  <2> QED
    BY <1>4, Recursion, Zenon
<1>6. \A i \in 1 .. n - 1 : g[i] = One(g[i - 1], tokens[i + 1])
  <2>1. \A i \in 1 .. n - 1 : g[i - 1] \in S
    BY <1>1, <1>5 DEF Follows
  <2> QED
    BY <1>5, <2>1 DEF Follows
<1> DEFINE f == [k \in 1 .. n |-> g[k - 1]]
<1>7. f \in [1 .. n -> S] /\ f[1] = tokens[1]
  <2>1. \A k \in 1 .. n : k - 1 \in 0 .. n - 1
    BY <1>1
  <2> QED
    BY <1>1, <1>5, <2>1 DEF Follows
<1>8. \A k \in 2 .. n : f[k] = One(f[k - 1], tokens[k])
  <2>1. \A k \in 2 .. n : /\ k \in 1 .. n /\ k - 1 \in 1 .. n /\ k - 1 \in 1 .. n - 1
                          /\ (k - 1) + 1 = k
    BY <1>1
  <2> QED
    BY <1>6, <2>1
<1> HIDE DEF f
<1>9. f = [k \in DOMAIN tokens |->
              IF k = 1 THEN tokens[1] ELSE f[k - 1] \o <<D>> \o tokens[k]]
  <2>1. \A k \in 1 .. n : k = 1 \/ k \in 2 .. n
    BY <1>1
  <2>2. DOMAIN f = 1 .. n /\ f = [k \in 1 .. n |-> f[k]]
    BY <1>7
  <2>3. \A k \in 2 .. n : k # 1 /\ f[k] = f[k - 1] \o <<D>> \o tokens[k]
    <3>1. \A k \in 2 .. n : k # 1
      OBVIOUS
    <3>2. \A k \in 2 .. n : f[k] = f[k - 1] \o <<D>> \o tokens[k]
      BY <1>8, Zenon DEF One
    <3> QED
      BY <3>1, <3>2
  <2>4. \A k \in 1 .. n : f[k] = IF k = 1 THEN tokens[1] ELSE f[k - 1] \o <<D>> \o tokens[k]
    BY <1>7, <2>1, <2>3
  <2> QED
    BY <1>1, <2>2, <2>4
<1>10. joined = [k \in DOMAIN tokens |->
              IF k = 1 THEN tokens[1] ELSE joined[k - 1] \o <<D>> \o tokens[k]]
  BY <1>9, Zenon
<1>11. Join(tokens) = joined[n]
  BY DEF Join, n
<1> HIDE DEF joined
<1> DEFINE T == {i \in 0 .. n - 1 : joined[i + 1] = f[i + 1]}
<1>12. 0 \in T
  <2>1. 1 \in DOMAIN tokens
    BY <1>1
  <2>2. joined[1] = tokens[1]
    BY <1>10, <2>1
  <2> QED
    BY <1>1, <1>7, <2>2
<1>13. ASSUME NEW i \in 1 .. n - 1, i - 1 \in T PROVE i \in T
  <2>1. /\ i + 1 \in 2 .. n /\ i + 1 \in DOMAIN tokens /\ i + 1 # 1 /\ (i + 1) - 1 = i
        /\ (i - 1) + 1 = i
    BY <1>1
  <2>2. joined[i] = f[i]
    BY <1>13, <2>1
  <2> DEFINE k == i + 1
  <2>3. joined[k] = joined[k - 1] \o <<D>> \o tokens[k] /\ k - 1 = i
    <3>1. k \in DOMAIN tokens /\ k # 1 /\ k - 1 = i
      BY <2>1
    <3> HIDE DEF k
    <3> QED
      BY <1>10, <3>1
  <2>4. f[k] = One(f[k - 1], tokens[k])
    BY <1>8, <2>1
  <2>5. joined[k] = f[k]
    BY <2>2, <2>3, <2>4 DEF One
  <2> QED
    BY <2>5
<1>14. n - 1 \in T
  <2> HIDE DEF T
  <2>1. n - 1 \in Nat /\ n - 1 \in 0 .. n - 1
    BY <1>1
  <2> QED
    BY <1>12, <1>13, <2>1, UpTo
<1>15. joined[n] = f[n]
  BY <1>1, <1>14
<1>16. Joins(f, tokens)
  BY <1>7, <1>8 DEF Joins, One, Delimited, n
<1> QED
  BY <1>7, <1>11, <1>15, <1>16 DEF n, S

LEMMA JoinOne ==
  ASSUME NEW A, D \in A, NEW t \in Seq(A)
  PROVE  Join(<<t>>) = t
<1> DEFINE ts == <<t>>
           S == Seq(A)
<1>1. ts \in Seq(S) /\ ts # <<>> /\ Len(ts) = 1 /\ ts[1] = t
  OBVIOUS
<1> HIDE DEF ts
<1>2. PICK f \in [1 .. Len(ts) -> S] : Joins(f, ts) /\ Join(ts) = f[Len(ts)]
  BY <1>1, JoinIs
<1>3. Join(ts) = t
  BY <1>1, <1>2 DEF Joins
<1> QED
  BY <1>3 DEF ts

LEMMA JoinConcat ==
  ASSUME NEW A, D \in A, NEW a \in Seq(Seq(A)), NEW b \in Seq(Seq(A)), a # <<>>, b # <<>>
  PROVE  /\ Join(a) \in Seq(A) /\ Join(b) \in Seq(A)
         /\ Join(a \o b) = Delimited(Join(a), Join(b))
<1> DEFINE S == Seq(A)
           c == a \o b
           m == Len(a)
           l == Len(b)
<1>1. m \in Nat \ {0} /\ l \in Nat \ {0}
  BY EmptySeq
<1>2. /\ c \in Seq(S) /\ Len(c) = m + l
      /\ \A i \in 1 .. m + l : c[i] = IF i <= m THEN a[i] ELSE b[i - m]
  BY ConcatProperties
<1>3. a \in Seq(S) /\ b \in Seq(S)
  OBVIOUS
<1> HIDE DEF c, m, l
<1>4. /\ \A i \in 1 .. m : c[i] = a[i]
      /\ \A i \in 1 .. l : c[m + i] = b[i]
  <2>1. \A i \in 1 .. m : i \in 1 .. m + l /\ i <= m
    BY <1>1
  <2>2. \A i \in 1 .. l : m + i \in 1 .. m + l /\ ~(m + i <= m) /\ (m + i) - m = i
    BY <1>1
  <2> QED
    BY <1>2, <2>1, <2>2
<1>5. c # <<>>
  BY <1>1, <1>2
<1>6. PICK f \in [1 .. Len(c) -> S] : Joins(f, c) /\ Join(c) = f[Len(c)]
  BY <1>2, <1>5, JoinIs
<1>7. PICK g \in [1 .. Len(a) -> S] : Joins(g, a) /\ Join(a) = g[Len(a)]
  BY <1>3, JoinIs
<1>8. PICK h \in [1 .. Len(b) -> S] : Joins(h, b) /\ Join(b) = h[Len(b)]
  BY <1>3, JoinIs
<1>9. /\ f[1] = c[1] /\ \A k \in 2 .. m + l : f[k] = Delimited(f[k - 1], c[k])
      /\ g[1] = a[1] /\ \A k \in 2 .. m : g[k] = Delimited(g[k - 1], a[k])
      /\ h[1] = b[1] /\ \A k \in 2 .. l : h[k] = Delimited(h[k - 1], b[k])
      /\ Join(c) = f[m + l] /\ Join(a) = g[m] /\ Join(b) = h[l]
  BY <1>2, <1>6, <1>7, <1>8 DEF Joins, m, l
<1>10. /\ \A k \in 1 .. m : g[k] \in S
       /\ \A k \in 1 .. l : h[k] \in S
       /\ \A k \in 1 .. l : b[k] \in S
  BY <1>3, <1>7, <1>8, ElementOfSeq DEF m, l
<1> HIDE DEF S
<1> DEFINE T1 == {i \in 0 .. m - 1 : f[i + 1] = g[i + 1]}
<1>11. 0 \in T1
  BY <1>1, <1>4, <1>9
<1>12. ASSUME NEW i \in 1 .. m - 1, i - 1 \in T1 PROVE i \in T1
  <2> DEFINE k == i + 1
  <2>1. /\ k \in 2 .. m + l /\ k \in 2 .. m /\ k \in 1 .. m /\ k - 1 = i /\ (i - 1) + 1 = i
    BY <1>1
  <2>2. f[i] = g[i]
    BY <1>12, <2>1
  <2> HIDE DEF k
  <2>3. f[k] = Delimited(f[i], c[k]) /\ g[k] = Delimited(g[i], a[k]) /\ c[k] = a[k]
    BY <1>4, <1>9, <2>1
  <2>4. f[k] = g[k]
    BY <2>2, <2>3
  <2> QED
    BY <2>4 DEF k
<1>13. f[m] = g[m]
  <2> HIDE DEF T1
  <2>1. m - 1 \in Nat /\ m - 1 \in 0 .. m - 1
    BY <1>1
  <2>2. \A i \in 0 .. m - 1 : i \in T1
    BY <1>11, <1>12, <2>1, UpTo
  <2>3. m - 1 \in T1
    BY <2>1, <2>2
  <2> QED
    BY <1>1, <2>3 DEF T1
<1> DEFINE T2 == {i \in 0 .. l - 1 : f[m + (i + 1)] = Delimited(g[m], h[i + 1])}
<1>14. 0 \in T2
  <2>1. m + 1 \in 2 .. m + l /\ (m + 1) - 1 = m /\ 1 \in 1 .. l
    BY <1>1
  <2>2. f[m + 1] = Delimited(f[m], c[m + 1])
    BY <1>9, <2>1
  <2>3. f[m + 1] = Delimited(g[m], h[1])
    BY <1>4, <1>9, <1>13, <2>1, <2>2
  <2> QED
    BY <1>1, <2>3
<1>15. ASSUME NEW i \in 1 .. l - 1, i - 1 \in T2 PROVE i \in T2
  <2> DEFINE k == i + 1
             n == m + k
  <2>1. /\ n \in 2 .. m + l /\ k \in 2 .. l /\ k \in 1 .. l /\ i \in 1 .. l /\ m \in 1 .. m
        /\ n - 1 = m + i /\ k - 1 = i /\ (i - 1) + 1 = i
    BY <1>1
  <2>2. f[m + i] = Delimited(g[m], h[i])
    BY <1>15, <2>1
  <2>3. c[n] = b[k]
    BY <1>4, <2>1
  <2> HIDE DEF k, n
  <2>4. f[n] = Delimited(f[m + i], b[k]) /\ h[k] = Delimited(h[i], b[k])
    BY <1>9, <2>1, <2>3
  <2>5. Delimited(Delimited(g[m], h[i]), b[k]) = Delimited(g[m], Delimited(h[i], b[k]))
    <3>1. g[m] \in S /\ h[i] \in S /\ b[k] \in S
      BY <1>10, <2>1
    <3> QED
      BY <3>1, DelimitedTwice DEF S
  <2>6. f[n] = Delimited(g[m], h[k])
    BY <2>2, <2>4, <2>5
  <2> QED
    BY <2>6 DEF k, n
<1>16. f[m + l] = Delimited(g[m], h[l])
  <2> HIDE DEF T2
  <2>1. l - 1 \in Nat /\ l - 1 \in 0 .. l - 1 /\ (l - 1) + 1 = l
    BY <1>1
  <2>2. \A i \in 0 .. l - 1 : i \in T2
    BY <1>14, <1>15, <2>1, UpTo
  <2>3. l - 1 \in T2
    BY <2>1, <2>2
  <2> QED
    BY <2>1, <2>3 DEF T2
<1>17. g[m] \in S /\ h[l] \in S
  BY <1>1, <1>10
<1> QED
  BY <1>9, <1>16, <1>17 DEF S, c

(* Joining the pieces of a string gives the string back.                    *)
LEMMA JoinPieces ==
  ASSUME NEW A, D \in A, NEW v \in Seq(A)
  PROVE  Join(Pieces(v)) = v
<1> SUFFICES ASSUME Join(Pieces(v)) # v PROVE FALSE
  OBVIOUS
<1> DEFINE T == {n \in Nat : \E w \in Seq(A) : Len(w) = n /\ Join(Pieces(w)) # w}
<1>1. Len(v) \in T
  BY LenProperties
<1>2. T \in SUBSET Nat /\ T # {}
  BY <1>1
<1> HIDE DEF T
<1>3. PICK n \in T : \A y \in T : n <= y
  BY <1>2, LeastNumber
<1>4. PICK w \in Seq(A) : Len(w) = n /\ Join(Pieces(w)) # w
  BY <1>3 DEF T
<1>5. \A s \in Seq(A) : Len(s) < n => Join(Pieces(s)) = s
  <2> SUFFICES ASSUME NEW s \in Seq(A), Len(s) < n, Join(Pieces(s)) # s PROVE FALSE
    OBVIOUS
  <2>1. Len(s) \in Nat /\ n \in Nat
    BY <1>2, <1>3, LenProperties
  <2>2. Len(s) \in T
    BY <2>1 DEF T
  <2> QED
    BY <1>3, <2>1, <2>2
<1>6. CASE Count(w) = 0
  <2>1. Pieces(w) = <<w>>
    BY <1>6, OnePiece
  <2> QED
    BY <1>4, <2>1, JoinOne
<1>7. CASE Count(w) # 0
  <2>1. PICK s, t \in Seq(A) : w = Delimited(s, t) /\ Len(s) < Len(w) /\ Len(t) < Len(w)
    BY <1>7, Parted
  <2>2. Pieces(w) = Pieces(s) \o Pieces(t)
    BY <2>1, PiecesDelimited
  <2>3. /\ Pieces(s) \in Seq(Seq(A)) /\ Pieces(s) # <<>>
        /\ Pieces(t) \in Seq(Seq(A)) /\ Pieces(t) # <<>>
    <3>1. ASSUME NEW u \in Seq(A) PROVE Pieces(u) \in Seq(Seq(A)) /\ Len(Pieces(u)) # 0
      <4>1. Pieces(u) \in Seq(Seq(A)) /\ Len(Pieces(u)) = Count(u) + 1
        BY PiecesAre
      <4>2. Count(u) \in Nat
        BY CutsAre
      <4> QED
        BY <4>1, <4>2
    <3> QED
      BY <3>1
  <2>4. Join(Pieces(w)) = Delimited(Join(Pieces(s)), Join(Pieces(t)))
    BY <2>2, <2>3, JoinConcat
  <2>5. Join(Pieces(s)) = s /\ Join(Pieces(t)) = t
    BY <1>4, <1>5, <2>1
  <2> QED
    BY <1>4, <2>1, <2>4, <2>5
<1> QED
  BY <1>6, <1>7

(* And the pieces of joined tokens are the tokens, if none holds the        *)
(* delimiter.                                                               *)
LEMMA PiecesJoin ==
  ASSUME NEW A, D \in A, NEW tokens \in Seq(Seq(A)), tokens # <<>>,
         \A k \in 1 .. Len(tokens) : Count(tokens[k]) = 0
  PROVE  Join(tokens) \in Seq(A) /\ Pieces(Join(tokens)) = tokens
<1> DEFINE n == Len(tokens)
           S == Seq(A)
<1>1. n \in Nat \ {0} /\ \A k \in 1 .. n : tokens[k] \in S
  BY EmptySeq, ElementOfSeq
<1>2. PICK f \in [1 .. n -> S] : Joins(f, tokens) /\ Join(tokens) = f[n]
  BY JoinIs
<1>3. f[1] = tokens[1] /\ \A k \in 2 .. n : f[k] = Delimited(f[k - 1], tokens[k])
  BY <1>2 DEF Joins
<1>4. \A k \in 1 .. n : Count(tokens[k]) = 0
  OBVIOUS
<1> HIDE DEF n
<1>5. \A k \in 1 .. n : Pieces(tokens[k]) = <<tokens[k]>>
  BY <1>1, <1>4, OnePiece
<1> DEFINE T == {i \in 0 .. n - 1 : Pieces(f[i + 1]) = SubSeq(tokens, 1, i + 1)}
<1>6. tokens \in Seq(S) /\ n = Len(tokens)
  BY DEF n
<1> HIDE DEF S
<1>7. \A k \in 1 .. n : SubSeq(tokens, 1, k) = SubSeq(tokens, 1, k - 1) \o <<tokens[k]>>
  <2>1. ASSUME NEW k \in 1 .. n
        PROVE  SubSeq(tokens, 1, k) = SubSeq(tokens, 1, k - 1) \o <<tokens[k]>>
    <3>1. 1 \in 1 .. Len(tokens) /\ k \in 1 .. Len(tokens)
      BY <1>1, <1>6
    <3> QED
      BY <1>6, <3>1, SubSeqRecursiveSecond
  <2> QED
    BY <2>1
<1>8. 0 \in T
  <2>1. 1 \in 1 .. n /\ 1 - 1 = 0
    BY <1>1
  <2>2. SubSeq(tokens, 1, 0) = <<>>
    BY SubSeqEmpty
  <2>3. <<>> \o <<tokens[1]>> = <<tokens[1]>>
    <3>1. <<tokens[1]>> \in Seq(S)
      BY <1>1, <2>1
    <3> QED
      BY <3>1, ConcatEmptySeq
  <2>4. SubSeq(tokens, 1, 1) = <<tokens[1]>>
    BY <1>7, <2>1, <2>2, <2>3
  <2>5. Pieces(f[1]) = SubSeq(tokens, 1, 1)
    BY <1>3, <1>5, <2>1, <2>4
  <2> QED
    BY <1>1, <2>5
<1>9. ASSUME NEW i \in 1 .. n - 1, i - 1 \in T PROVE i \in T
  <2> DEFINE k == i + 1
  <2>1. k \in 2 .. n /\ k \in 1 .. n /\ k - 1 = i /\ (i - 1) + 1 = i /\ i \in 1 .. n
    BY <1>1
  <2>2. Pieces(f[i]) = SubSeq(tokens, 1, i)
    BY <1>9, <2>1
  <2> HIDE DEF k
  <2>3. f[k] = Delimited(f[i], tokens[k]) /\ f[i] \in S /\ tokens[k] \in S
    BY <1>1, <1>2, <1>3, <2>1
  <2>4. Pieces(f[k]) = Pieces(f[i]) \o Pieces(tokens[k])
    BY <2>3, PiecesDelimited DEF S
  <2>5. SubSeq(tokens, 1, k) = SubSeq(tokens, 1, i) \o <<tokens[k]>>
    BY <1>7, <2>1
  <2>6. Pieces(f[k]) = SubSeq(tokens, 1, k)
    BY <1>5, <2>1, <2>2, <2>4, <2>5
  <2> QED
    BY <2>6 DEF k
<1>10. Pieces(f[n]) = SubSeq(tokens, 1, n)
  <2> HIDE DEF T
  <2>1. n - 1 \in Nat /\ n - 1 \in 0 .. n - 1 /\ (n - 1) + 1 = n
    BY <1>1
  <2>2. \A i \in 0 .. n - 1 : i \in T
    BY <1>8, <1>9, <2>1, UpTo
  <2>3. n - 1 \in T
    BY <2>1, <2>2
  <2> QED
    BY <2>1, <2>3 DEF T
<1>11. SubSeq(tokens, 1, n) = tokens
  BY <1>6, SubSeqFull
<1>12. f[n] \in S
  BY <1>1, <1>2
<1> QED
  BY <1>2, <1>10, <1>11, <1>12 DEF S

-----------------------------------------------------------------------------
(* A lookup: its id, the delimiter and its text.                            *)

LEMMA AtomsAre ==
  /\ D \in Atoms /\ Texts = Seq(Atoms) /\ <<>> \in Texts /\ <<D>> \in Texts
  /\ \A n \in Numbers : /\ n \in Atoms /\ n # D /\ <<n>> \in Texts /\ IsInt(<<n>>) /\ <<n>>[1] = n
<1>1. \A n \in Numbers : n # D
  BY DEF Numbers, D
<1> QED
  BY <1>1 DEF Atoms, Texts, IsInt

LEMMA IdIs ==
  ASSUME NEW id \in Numbers
  PROVE  Count(<<id>>) = 0 /\ Pieces(<<id>>) = <<<<id>>>>
<1> DEFINE w == <<id>>
<1>1. w \in Seq(Atoms) /\ Len(w) = 1 /\ w[1] # D
  BY AtomsAre
<1> HIDE DEF w
<1>2. \A i \in 1 .. Len(w) : w[i] # D
  BY <1>1
<1>3. Count(w) = 0
  BY <1>1, <1>2, CountIsZero
<1>4. Pieces(w) = <<w>>
  BY <1>1, <1>3, OnePiece
<1> QED
  BY <1>3, <1>4 DEF w

(* A string that a delimiter ends is one without it and the delimiter.      *)
LEMMA EndDelimited ==
  ASSUME NEW A, D \in A, NEW u \in Seq(A)
  PROVE  LET w == Delimited(u, <<>>) IN
         w \in Seq(A) /\ w # <<>> /\ Last(w) = D /\ Front(w) = u
<1> DEFINE e == <<>>
           w == Delimited(u, e)
<1>1. e \in Seq(A) /\ Len(e) = 0
  OBVIOUS
<1> HIDE DEF e
<1>2. /\ w \in Seq(A) /\ Len(w) = Len(u) + 1 + Len(e)
      /\ w[Len(u) + 1] = D /\ Len(u) \in Nat
  BY <1>1, DelimitedIs
<1>3. \A i \in 1 .. Len(u) : w[i] = u[i]
  BY <1>1, DelimitedFirst, Zenon
<1> HIDE DEF w
<1>4. Len(w) = Len(u) + 1 /\ w # <<>>
  BY <1>1, <1>2
<1>5. Last(w) = D
  BY <1>2, <1>4 DEF Last
<1>6. Front(w) = SubSeq(w, 1, Len(w) - 1)
  BY DEF Front
<1>7. SubSeq(w, 0 + 1, 0 + Len(u)) = SubSeq(u, 1, Len(u))
  <2>1. 0 + Len(u) <= Len(w) /\ (\A i \in 1 .. Len(u) : w[0 + i] = u[i])
    BY <1>2, <1>3, <1>4
  <2>2. 0 \in Nat /\ 1 \in Nat /\ Len(u) \in Int /\ 1 <= 1 /\ Len(u) <= Len(u)
    BY <1>2
  <2> QED
    BY <1>2, <2>1, <2>2, SubSeqOfPart
<1>8. 0 + 1 = 1 /\ 0 + Len(u) = Len(u) /\ Len(w) - 1 = Len(u)
  BY <1>2, <1>4
<1>9. Front(w) = u
  BY <1>6, <1>7, <1>8, SubSeqFull
<1> QED
  BY <1>2, <1>4, <1>5, <1>9 DEF w, e

LEMMA EndsInIs ==
  ASSUME NEW A, D \in A, NEW w \in Seq(A), EndsIn(w, D)
  PROVE  \E u \in Seq(A) : w = Delimited(u, <<>>)
<1>1. Len(w) \in Nat \ {0} /\ w[Len(w)] = D
  BY EmptySeq DEF EndsIn, Last
<1> DEFINE i == Len(w)
           u == SubSeq(w, 1, i - 1)
           t == SubSeq(w, i + 1, Len(w))
<1>2. i \in 1 .. Len(w) /\ w[i] = D
  BY <1>1
<1> HIDE DEF i
<1>3. /\ u \in Seq(A) /\ t \in Seq(A) /\ Len(t) = Len(w) - i /\ w = Delimited(u, t)
  BY <1>2, PartedAt
<1> HIDE DEF u, t
<1>4. Len(t) = 0
  BY <1>1, <1>3 DEF i
<1>5. t = <<>>
  BY <1>3, <1>4
<1> QED
  BY <1>3, <1>5

(* What is split of a string that does not begin with the delimiter.        *)
LEMMA UnwrappedIs ==
  ASSUME NEW A, D \in A, NEW w \in Seq(A), w # <<>>, w[1] # D
  PROVE  /\ ~EndsIn(w, D) => Unwrapped(w) = w
         /\ \A u \in Seq(A) : w = Delimited(u, <<>>) => Unwrapped(w) = u
<1>1. Head(w) = w[1]
  OBVIOUS
<1>2. Unwrapped(w) = IF EndsIn(w, D) THEN Front(w) ELSE w
  BY <1>1 DEF Unwrapped
<1>3. ASSUME NEW u \in Seq(A), w = Delimited(u, <<>>) PROVE Unwrapped(w) = u
  <2>1. EndsIn(w, D) /\ Front(w) = u
    BY <1>3, EndDelimited DEF EndsIn
  <2> QED
    BY <1>2, <2>1
<1> QED
  BY <1>2, <1>3

LEMMA BehindIdIs ==
  ASSUME NEW id \in Numbers, NEW rest \in Texts
  PROVE  LET v == Delimited(<<id>>, rest) IN
         /\ v \in Texts /\ v # <<>> /\ v[1] = id /\ v[1] # D
         /\ rest # <<>> => (EndsIn(v, D) <=> EndsIn(rest, D))
<1> DEFINE s == <<id>>
           v == Delimited(s, rest)
<1>1. s \in Seq(Atoms) /\ Len(s) = 1 /\ s[1] = id /\ id # D /\ D \in Atoms /\ rest \in Seq(Atoms)
  BY AtomsAre
<1> HIDE DEF s
<1>2. v \in Seq(Atoms) /\ Len(v) = Len(s) + 1 + Len(rest) /\ Len(rest) \in Nat
  <2>1. v \in Seq(Atoms)
    BY <1>1, DelimitedIs
  <2>2. Len(v) = Len(s) + 1 + Len(rest)
    BY <1>1, DelimitedIs
  <2> QED
    BY <1>1, <2>1, <2>2, LenProperties
<1>3. \A i \in 1 .. Len(s) : v[i] = s[i]
  BY <1>1, DelimitedFirst, Zenon
<1>4. \A i \in 1 .. Len(rest) : v[Len(s) + 1 + i] = rest[i]
  <2>1. s \in Seq(Atoms) /\ rest \in Seq(Atoms) /\ D \in Atoms
    BY <1>1
  <2> QED
    BY <2>1, DelimitedSecond, Zenon
<1> HIDE DEF v
<1>5. v # <<>> /\ v[1] = id
  BY <1>1, <1>2, <1>3
<1>6. ASSUME rest # <<>> PROVE EndsIn(v, D) <=> EndsIn(rest, D)
  <2>1. Len(rest) \in 1 .. Len(rest)
    BY <1>1, <1>6, EmptySeq
  <2>2. v[Len(s) + 1 + Len(rest)] = rest[Len(rest)]
    BY <1>4, <2>1
  <2>3. v[Len(v)] = rest[Len(rest)]
    BY <1>2, <2>2
  <2> QED
    BY <1>5, <1>6, <2>3 DEF EndsIn, Last
<1> QED
  BY <1>1, <1>2, <1>5, <1>6 DEF v, s, Texts

(* An id and what is behind it, split.                                      *)
Tokens(id, u) == <<<<id>>>> \o Pieces(u)

LEMMA TokensAre ==
  ASSUME NEW id \in Numbers, NEW u \in Texts
  PROVE  /\ Tokens(id, u) \in Seq(Texts) /\ Len(Tokens(id, u)) = Count(u) + 2 /\ Count(u) \in Nat
         /\ Tokens(id, u)[1] = <<id>> /\ Tail(Tokens(id, u)) = Pieces(u)
         /\ Count(u) = 0 => Tokens(id, u)[2] = u
         /\ Pieces(Delimited(<<id>>, u)) = Tokens(id, u)
<1> DEFINE a == <<<<id>>>>
           b == Pieces(u)
           w == Tokens(id, u)
<1>1. a \in Seq(Texts) /\ Len(a) = 1 /\ a[1] = <<id>>
  BY AtomsAre
<1>2. b \in Seq(Texts) /\ Len(b) = Count(u) + 1 /\ Count(u) \in Nat
  BY PiecesAre, CutsAre DEF Texts
<1>3. Count(u) = 0 => b[1] = u
  <2>1. Count(u) = 0 => b = <<u>>
    BY OnePiece DEF Texts
  <2> HIDE DEF b
  <2> QED
    BY <2>1
<1>4. w = a \o b
  BY DEF Tokens
<1>5. Pieces(Delimited(<<id>>, u)) = w
  BY <1>4, IdIs, AtomsAre, PiecesDelimited
<1> HIDE DEF a, b, w
<1>6. /\ w \in Seq(Texts) /\ Len(w) = Count(u) + 2
      /\ \A i \in 1 .. Count(u) + 2 : w[i] = IF i <= 1 THEN a[i] ELSE b[i - 1]
  <2>1. /\ a \o b \in Seq(Texts) /\ Len(a \o b) = Len(a) + Len(b)
        /\ \A i \in 1 .. Len(a) + Len(b) : (a \o b)[i] = IF i <= Len(a) THEN a[i] ELSE b[i - Len(a)]
    BY <1>1, <1>2, ConcatProperties
  <2>2. Len(a) + Len(b) = Count(u) + 2 /\ Len(a) = 1
    BY <1>1, <1>2
  <2> QED
    BY <1>4, <2>1, <2>2
<1>7. w[1] = <<id>> /\ w[2] = b[1] /\ w # <<>>
  <2>1. 1 \in 1 .. Count(u) + 2 /\ 2 \in 1 .. Count(u) + 2 /\ ~(2 <= 1) /\ 2 - 1 = 1
    BY <1>2
  <2> QED
    BY <1>1, <1>2, <1>6, <2>1
<1>8. Tail(w) = b
  <2>1. /\ Tail(w) \in Seq(Texts) /\ Len(Tail(w)) = Len(w) - 1
        /\ \A i \in 1 .. Len(Tail(w)) : Tail(w)[i] = w[i + 1]
    BY <1>6, <1>7, HeadTailProperties
  <2>2. \A i \in 1 .. Count(u) + 1 : i + 1 \in 1 .. Count(u) + 2 /\ ~(i + 1 <= 1) /\ (i + 1) - 1 = i
    BY <1>2
  <2>3. Len(Tail(w)) = Len(b) /\ Len(b) = Count(u) + 1
    BY <1>2, <1>6, <2>1
  <2>4. \A i \in 1 .. Len(Tail(w)) : Tail(w)[i] = b[i]
    BY <1>6, <2>1, <2>2, <2>3
  <2> QED
    BY <1>2, <2>1, <2>3, <2>4, SeqEqual
<1> QED
  BY <1>2, <1>3, <1>5, <1>6, <1>7, <1>8 DEF w, b

LEMMA LookupSplit ==
  ASSUME NEW id \in Numbers, NEW rest \in Texts
  PROVE  LET tokens == SplitMulti(Delimited(<<id>>, rest)) IN
         /\ rest = <<>> => tokens = <<<<id>>>>
         /\ rest # <<>> /\ ~EndsIn(rest, D) => tokens = Tokens(id, rest)
         /\ EndsIn(rest, D) => \E u \in Texts : tokens = Tokens(id, u)
<1> DEFINE v == Delimited(<<id>>, rest)
<1>1. /\ v \in Texts /\ v # <<>> /\ v[1] # D
      /\ rest # <<>> => (EndsIn(v, D) <=> EndsIn(rest, D))
  BY BehindIdIs
<1>2. D \in Atoms /\ Texts = Seq(Atoms) /\ <<id>> \in Texts /\ <<>> \in Texts
  BY AtomsAre
<1>3. ASSUME NEW x \in Texts, x # <<>>, Unwrapped(v) = x PROVE SplitMulti(v) = Pieces(x)
  BY <1>3 DEF SplitMulti
<1>4. CASE rest = <<>>
  <2>1. Unwrapped(v) = <<id>>
    BY <1>1, <1>2, <1>4, UnwrappedIs
  <2>2. SplitMulti(v) = <<<<id>>>>
    BY <1>2, <1>3, <2>1, IdIs
  <2> QED
    BY <1>4, <2>2 DEF EndsIn
<1>5. CASE rest # <<>> /\ ~EndsIn(rest, D)
  <2>1. Unwrapped(v) = v
    BY <1>1, <1>2, <1>5, UnwrappedIs
  <2>2. SplitMulti(v) = Tokens(id, rest)
    BY <1>1, <1>3, <2>1, TokensAre
  <2> QED
    BY <1>5, <2>2
<1>6. CASE EndsIn(rest, D)
  <2>1. PICK u \in Texts : rest = Delimited(u, <<>>)
    BY <1>2, <1>6, EndsInIs
  <2> DEFINE x == Delimited(<<id>>, u)
  <2>2. v = Delimited(x, <<>>)
    <3> DEFINE s == <<id>>
               e == <<>>
    <3>1. s \in Seq(Atoms) /\ e \in Seq(Atoms) /\ u \in Seq(Atoms) /\ rest = Delimited(u, e)
      BY <1>2, <2>1
    <3> HIDE DEF s, e
    <3>2. Delimited(Delimited(s, u), e) = Delimited(s, Delimited(u, e))
      BY <1>2, <3>1, DelimitedTwice
    <3> QED
      BY <3>1, <3>2 DEF s, e
  <2>3. x \in Texts /\ x # <<>>
    BY <2>1, BehindIdIs
  <2> HIDE DEF v, x
  <2>4. Unwrapped(v) = x
    BY <1>1, <1>2, <2>2, <2>3, UnwrappedIs
  <2>5. SplitMulti(v) = Pieces(x)
    BY <1>3, <2>3, <2>4
  <2>6. SplitMulti(v) = Tokens(id, u)
    BY <2>1, <2>5, TokensAre DEF x
  <2>7. rest # <<>>
    BY <1>6 DEF EndsIn
  <2> QED
    BY <1>6, <2>1, <2>6, <2>7 DEF v
<1> QED
  BY <1>4, <1>5, <1>6

LEMMA BehindIdDecodes ==
  ASSUME NEW v, NEW id \in Numbers, NEW u \in Texts, SplitMulti(v) = Tokens(id, u)
  PROVE  DecodeLookup(v).value = Reference(id, u)
<1> DEFINE tokens == SplitMulti(v)
<1>1. /\ Len(tokens) = Count(u) + 2 /\ Count(u) \in Nat
      /\ tokens[1] = <<id>> /\ Tail(tokens) = Pieces(u)
      /\ Count(u) = 0 => tokens[2] = u
  BY TokensAre
<1>2. IsInt(tokens[1]) /\ tokens[1][1] = id
  BY <1>1, AtomsAre
<1> HIDE DEF tokens
<1>3. CASE Count(u) = 0
  <2>1. Len(tokens) = 2 /\ tokens[2] = u
    BY <1>1, <1>3
  <2>2. DecodeLookup(v) = Plain(Pair(tokens))
    BY <2>1 DEF DecodeLookup, tokens
  <2> QED
    BY <1>2, <2>1, <2>2 DEF Plain, Pair
<1>4. CASE Count(u) # 0
  <2>1. Len(tokens) # 0 /\ Len(tokens) # 1 /\ Len(tokens) # 2
    BY <1>1, <1>4
  <2> DEFINE pair == <<tokens[1], Join(Tail(tokens))>>
  <2>2. DecodeLookup(v) = Warned(Pair(pair))
    BY <2>1 DEF DecodeLookup, tokens
  <2>3. Join(Tail(tokens)) = u
    BY <1>1, AtomsAre, JoinPieces
  <2>4. pair[1] = tokens[1] /\ pair[2] = u
    BY <2>3
  <2> HIDE DEF pair
  <2>5. Pair(pair) = Reference(id, u)
    BY <1>2, <2>4 DEF Pair
  <2> QED
    BY <2>2, <2>5 DEF Warned
<1> QED
  BY <1>3, <1>4

LEMMA LookupDecodes ==
  ASSUME NEW id \in Numbers, NEW rest \in Texts
  PROVE  LET r == DecodeLookup(Delimited(<<id>>, rest)) IN
         /\ r.value.id = id
         /\ ~EndsIn(rest, D) => r.value = Reference(id, rest)
<1> DEFINE v == Delimited(<<id>>, rest)
<1>1. \A t : Reference(id, t).id = id
  BY DEF Reference
<1>2. CASE rest = <<>>
  <2>1. SplitMulti(v) = <<<<id>>>>
    BY <1>2, LookupSplit
  <2>2. DecodeLookup(v) = Plain(Reference(id, <<>>))
    <3> DEFINE tokens == SplitMulti(v)
    <3>1. Len(tokens) = 1 /\ IsInt(tokens[1]) /\ tokens[1][1] = id
      BY <2>1, AtomsAre
    <3> HIDE DEF tokens
    <3> QED
      BY <3>1 DEF DecodeLookup, tokens
  <2> QED
    BY <1>1, <1>2, <2>2 DEF Plain
<1>3. CASE rest # <<>> /\ ~EndsIn(rest, D)
  <2>1. SplitMulti(v) = Tokens(id, rest)
    BY <1>3, LookupSplit
  <2>2. DecodeLookup(v).value = Reference(id, rest)
    BY <2>1, BehindIdDecodes
  <2> QED
    BY <1>1, <2>2
<1>4. CASE EndsIn(rest, D)
  <2>1. PICK u \in Texts : SplitMulti(v) = Tokens(id, u)
    BY <1>4, LookupSplit
  <2>2. DecodeLookup(v).value = Reference(id, u)
    BY <2>1, BehindIdDecodes
  <2> QED
    BY <1>1, <1>4, <2>2
<1> QED
  BY <1>2, <1>3, <1>4

(* A text that is neither empty nor holds the delimiter is one token.       *)
LEMMA PlainSplit ==
  ASSUME NEW t \in Texts, Choosable(t)
  PROVE  /\ t[1] # D /\ Last(t) # D /\ Len(t) \in Nat \ {0}
         /\ Unwrapped(t) = t /\ SplitMulti(t) = <<t>>
<1>1. t \in Seq(Atoms) /\ D \in Atoms /\ t # <<>> /\ Count(t) = 0
  BY AtomsAre DEF Choosable
<1>2. Len(t) \in Nat \ {0}
  BY <1>1, EmptySeq
<1>3. \A i \in 1 .. Len(t) : t[i] # D
  BY <1>1, CountIsZero
<1>4. t[1] # D /\ t[Len(t)] # D
  BY <1>2, <1>3
<1>5. ~EndsIn(t, D) /\ Last(t) # D
  BY <1>4 DEF EndsIn, Last
<1>6. Unwrapped(t) = t
  BY <1>1, <1>4, <1>5, UnwrappedIs
<1>7. SplitMulti(t) = <<t>>
  BY <1>1, <1>6, OnePiece DEF SplitMulti
<1> QED
  BY <1>2, <1>4, <1>5, <1>6, <1>7

LEMMA LabelDecodes ==
  ASSUME NEW t \in Texts, Choosable(t), ~IsInt(t)
  PROVE  DecodeLookup(t).value = Reference(NoId, t)
<1> DEFINE tokens == SplitMulti(t)
<1>1. Len(tokens) = 1 /\ tokens[1] = t
  BY PlainSplit
<1> HIDE DEF tokens
<1>2. DecodeLookup(t) = Warned(Reference(NoId, t))
  BY <1>1 DEF DecodeLookup, tokens
<1> QED
  BY <1>2 DEF Warned

LEMMA EmptyCount == Count(<<>>) = 0
<1> DEFINE e == <<>>
<1>1. e \in Seq(Atoms) /\ Len(e) = 0
  OBVIOUS
<1> HIDE DEF e
<1>2. \A i \in 1 .. Len(e) : e[i] # D
  BY <1>1
<1>3. Count(e) = 0
  BY <1>1, <1>2, CountIsZero
<1> QED
  BY <1>3 DEF e

LEMMA EmptySplit == SplitMulti(<<>>) = <<>>
<1>1. Unwrapped(<<>>) = <<>>
  BY DEF Unwrapped, EndsIn
<1> QED
  BY <1>1 DEF SplitMulti

(* A term behind its label and a bar.                                       *)
LEMMA TermDecodes ==
  ASSUME NEW v \in Tagged
  PROVE  DecodeTaxonomy(<<v.id, D>> \o v.value \o <<"|", v.term>>).value = v
<1> DEFINE label == v.value
           tail == <<"|", v.term>>
           rest == label \o tail
           w == <<v.id, D>> \o label \o tail
<1>1. v.id \in Numbers /\ label \in Texts /\ v.term \in Guids
  BY DEF Tagged
<1>2. tail \in Texts /\ Len(tail) = 2 /\ tail[1] = "|" /\ tail[2] = v.term /\ v.term # D
  <2>1. v.term \in Atoms /\ "|" \in Atoms /\ v.term # D
    BY <1>1 DEF Atoms, Guids, D
  <2> QED
    BY <2>1 DEF Texts
<1> DEFINE n == Len(label)
<1>3. n \in Nat
  BY <1>1, LenProperties DEF Texts
<1> HIDE DEF label, tail
<1>4. /\ rest \in Texts /\ Len(rest) = n + 2
      /\ \A i \in 1 .. n + 2 : rest[i] = IF i <= n THEN label[i] ELSE tail[i - n]
  <2>1. /\ label \o tail \in Seq(Atoms) /\ Len(label \o tail) = Len(label) + Len(tail)
        /\ \A i \in 1 .. Len(label) + Len(tail) :
              (label \o tail)[i] = IF i <= Len(label) THEN label[i] ELSE tail[i - Len(label)]
    BY <1>1, <1>2, ConcatProperties DEF Texts
  <2> QED
    BY <1>2, <2>1 DEF Texts
<1>5. w = Delimited(<<v.id>>, rest)
  <2> DEFINE d == <<D>>
             i == <<v.id>>
  <2>1. d \in Seq(Atoms) /\ i \in Seq(Atoms) /\ label \in Seq(Atoms) /\ tail \in Seq(Atoms)
    BY <1>1, <1>2, AtomsAre
  <2>2. <<v.id, D>> = i \o d
    OBVIOUS
  <2> HIDE DEF d, i
  <2>3. i \o d \in Seq(Atoms)
    BY <2>1, ConcatProperties
  <2>4. ((i \o d) \o label) \o tail = (i \o d) \o (label \o tail)
    <3>1. \A p, q, r \in Seq(Atoms) : (p \o q) \o r = p \o (q \o r)
      BY Associative DEF Cat
    <3> QED
      BY <2>1, <2>3, <3>1, Zenon
  <2> QED
    BY <2>2, <2>4 DEF Delimited, d, i
<1> HIDE DEF rest, n
<1>6. rest[n + 1] = "|" /\ rest[n + 2] = v.term /\ \A i \in 1 .. n : rest[i] = label[i]
  <2>1. /\ n + 1 \in 1 .. n + 2 /\ ~(n + 1 <= n) /\ (n + 1) - n = 1
        /\ n + 2 \in 1 .. n + 2 /\ ~(n + 2 <= n) /\ (n + 2) - n = 2
    BY <1>3
  <2>2. \A i \in 1 .. n : i \in 1 .. n + 2 /\ i <= n
    BY <1>3
  <2> QED
    BY <1>2, <1>4, <2>1, <2>2
<1>7. rest # <<>> /\ Last(rest) = v.term
  BY <1>3, <1>4, <1>6 DEF Last
<1>8. HasTerm(rest)
  <2>1. Len(rest) >= 2 /\ Len(rest) - 1 = n + 1
    BY <1>3, <1>4
  <2> QED
    BY <1>1, <1>6, <1>7, <2>1 DEF HasTerm
<1>9. ~EndsIn(rest, D)
  BY <1>2, <1>7 DEF EndsIn
<1>10. DecodeLookup(w).value = Reference(v.id, rest)
  <2>1. DecodeLookup(Delimited(<<v.id>>, rest)).value = Reference(v.id, rest)
    BY <1>1, <1>4, <1>9, LookupDecodes
  <2> QED
    BY <1>5, <2>1
<1>11. SubSeq(rest, 1, Len(rest) - 2) = label
  <2>1. SubSeq(rest, 0 + 1, 0 + n) = SubSeq(label, 1, n)
    <3>1. 0 + Len(label) <= Len(rest) /\ \A i \in 1 .. Len(label) : rest[0 + i] = label[i]
      BY <1>3, <1>4, <1>6 DEF n
    <3>2. 0 \in Nat /\ 1 \in Nat /\ n \in Int /\ 1 <= 1 /\ n <= Len(label)
      BY <1>3 DEF n
    <3> QED
      BY <1>1, <1>4, <3>1, <3>2, SubSeqOfPart DEF Texts
  <2>2. 0 + 1 = 1 /\ 0 + n = n /\ Len(rest) - 2 = n
    BY <1>3, <1>4
  <2>3. SubSeq(label, 1, n) = label
    BY <1>1, SubSeqFull DEF Texts, n
  <2> QED
    BY <2>1, <2>2, <2>3
<1> HIDE DEF w
<1>12. Term(Reference(v.id, rest)) = [id |-> v.id, value |-> label, term |-> v.term]
  <2>1. Reference(v.id, rest).id = v.id /\ Reference(v.id, rest).value = rest
    BY DEF Reference
  <2> HIDE DEF rest
  <2> QED
    BY <1>7, <1>8, <1>11, <2>1 DEF Term
<1> DEFINE r == DecodeLookup(w)
<1>13. r \in {Plain(r.value), Warned(r.value)} /\ r.value = Reference(v.id, rest)
  BY <1>10, LookupDecoded
<1>14. r.value # Null
  BY <1>13 DEF Reference, Null
<1>15. DecodeTaxonomy(w) = [r EXCEPT !.value = Term(r.value)]
  BY <1>14 DEF DecodeTaxonomy
<1> HIDE DEF r
<1>16. "value" \in DOMAIN r
  BY <1>13 DEF Plain, Warned
<1>17. DecodeTaxonomy(w).value = Term(r.value)
  BY <1>15, <1>16
<1>18. v = [id |-> v.id, value |-> v.value, term |-> v.term]
  BY DEF Tagged
<1> QED
  BY <1>12, <1>13, <1>17, <1>18 DEF label, w, tail

-----------------------------------------------------------------------------
(* Choices.                                                                 *)

(* What is wrapped in delimiters comes out of them.                         *)
LEMMA WrappedIs ==
  ASSUME NEW x \in Texts
  PROVE  LET v == <<D>> \o x \o <<D>> IN
         v # <<>> /\ Head(v) = D /\ Last(v) = D /\ Unwrapped(v) = x
<1> DEFINE d == <<D>>
           e == <<>>
           y == Delimited(x, e)
           v == d \o x \o d
<1>1. /\ d \in Seq(Atoms) /\ x \in Seq(Atoms) /\ e \in Seq(Atoms) /\ D \in Atoms
      /\ Len(d) = 1 /\ d[1] = D
  BY AtomsAre
<1> HIDE DEF d
<1>2. x \o d \in Seq(Atoms)
  BY <1>1, ConcatProperties
<1>3. y = x \o d
  <2>1. (x \o d) \o e = x \o d
    BY <1>2, ConcatEmptySeq
  <2> QED
    BY <2>1 DEF Delimited, d
<1>4. v = d \o y
  <2>1. \A p, q, r \in Seq(Atoms) : (p \o q) \o r = p \o (q \o r)
    BY Associative DEF Cat
  <2>2. (d \o x) \o d = d \o (x \o d)
    BY <1>1, <2>1, Zenon
  <2> HIDE DEF y
  <2> QED
    BY <1>3, <2>2
<1>5. y \in Seq(Atoms) /\ y # <<>> /\ Last(y) = D /\ Front(y) = x
  BY <1>1, EndDelimited
<1> HIDE DEF y, e
<1> DEFINE z == d \o y
<1>6. /\ z \in Seq(Atoms) /\ Len(z) = 1 + Len(y) /\ Len(y) \in Nat \ {0}
      /\ \A i \in 1 .. 1 + Len(y) : z[i] = IF i <= 1 THEN d[i] ELSE y[i - 1]
  <2>1. /\ d \o y \in Seq(Atoms) /\ Len(d \o y) = Len(d) + Len(y)
        /\ \A i \in 1 .. Len(d) + Len(y) : (d \o y)[i] = IF i <= Len(d) THEN d[i] ELSE y[i - Len(d)]
    BY <1>1, <1>5, ConcatProperties
  <2>2. Len(y) \in Nat \ {0}
    BY <1>5, EmptySeq
  <2> QED
    BY <1>1, <2>1, <2>2
<1> HIDE DEF z
<1>7. z # <<>> /\ z[1] = D
  BY <1>1, <1>6
<1>8. Head(z) = D
  BY <1>6, <1>7
<1>9. Tail(z) = y
  <2>1. /\ Tail(z) \in Seq(Atoms) /\ Len(Tail(z)) = Len(z) - 1
        /\ \A i \in 1 .. Len(Tail(z)) : Tail(z)[i] = z[i + 1]
    BY <1>6, <1>7, HeadTailProperties
  <2>2. \A i \in 1 .. Len(y) : i + 1 \in 1 .. 1 + Len(y) /\ ~(i + 1 <= 1) /\ (i + 1) - 1 = i
    BY <1>6
  <2>3. Len(Tail(z)) = Len(y)
    BY <1>6, <2>1
  <2>4. \A i \in 1 .. Len(Tail(z)) : Tail(z)[i] = y[i]
    BY <1>6, <2>1, <2>2, <2>3
  <2> QED
    BY <1>5, <2>1, <2>3, <2>4, SeqEqual
<1>10. Unwrapped(z) = x
  BY <1>5, <1>7, <1>8, <1>9 DEF Unwrapped, EndsIn
<1>11. Last(z) = D
  <2>1. Len(z) \in 1 .. 1 + Len(y) /\ ~(Len(z) <= 1) /\ Len(z) - 1 = Len(y)
    BY <1>6
  <2>2. z[Len(z)] = y[Len(y)]
    BY <1>6, <2>1
  <2> QED
    BY <1>5, <2>2 DEF Last
<1>12. v = z
  BY <1>4 DEF z
<1> QED
  BY <1>7, <1>8, <1>10, <1>11, <1>12 DEF d

(* Of tokens that are all filled all are chosen.                            *)
LEMMA ChosenIs ==
  ASSUME NEW v, SplitMulti(v) \in Seq(Texts),
         \A k \in DOMAIN SplitMulti(v) : SplitMulti(v)[k] # <<>>
  PROVE  Chosen(v) = SplitMulti(v)
<1> DEFINE s == SplitMulti(v)
           n == Len(s)
           S == 1 .. n
<1>1. n \in Nat /\ DOMAIN s = 1 .. n /\ s = [k \in 1 .. n |-> s[k]]
  BY LenProperties
<1>2. Filled(s) = S
  BY <1>1 DEF Filled
<1>3. IsFiniteSet(S) /\ Cardinality(S) = n
  <2> HIDE DEF n
  <2>1. 1 \in Int /\ n \in Int
    BY <1>1
  <2>2. IsFiniteSet(S) /\ Cardinality(S) = IF 1 > n THEN 0 ELSE n - 1 + 1
    BY <2>1, FS_Interval
  <2> QED
    BY <1>1, <2>2
<1> HIDE DEF s, n
<1>4. ASSUME NEW k \in 1 .. n PROVE Nth(S, k - 1) = k
  <2>1. Below(S, k) = 1 .. k - 1
    BY <1>1 DEF Below
  <2>2. Cardinality(1 .. k - 1) = k - 1
    <3>1. 1 \in Int /\ k - 1 \in Int
      OBVIOUS
    <3>2. Cardinality(1 .. k - 1) = IF 1 > k - 1 THEN 0 ELSE (k - 1) - 1 + 1
      BY <3>1, FS_Interval
    <3> QED
      BY <3>2
  <2>3. IsNth(S, k - 1, k)
    BY <2>1, <2>2 DEF IsNth
  <2>4. S \in SUBSET Nat
    OBVIOUS
  <2> HIDE DEF S
  <2> QED
    BY <1>3, <2>3, <2>4, NthIs
<1>5. Chosen(v) = [k \in 1 .. Cardinality(Filled(s)) |-> s[Nth(Filled(s), k - 1)]]
  BY DEF Chosen, s
<1> HIDE DEF S
<1>6. Chosen(v) = [k \in 1 .. n |-> s[Nth(S, k - 1)]]
  BY <1>2, <1>3, <1>5
<1>7. Chosen(v) = [k \in 1 .. n |-> s[k]]
  BY <1>4, <1>6
<1> QED
  BY <1>1, <1>7 DEF s

LEMMA ChoicesDecode ==
  ASSUME NEW s \in Seq([text : Texts]), s # <<>>, \A k \in DOMAIN s : Choosable(s[k].text)
  PROVE  DecodeMultiChoice(<<D>> \o Join([k \in DOMAIN s |-> s[k].text]) \o <<D>>).value = List(s)
<1> DEFINE n == Len(s)
           ts == [k \in DOMAIN s |-> s[k].text]
<1>1. n \in Nat \ {0} /\ DOMAIN s = 1 .. n /\ \A k \in 1 .. n : s[k] \in [text : Texts]
  <2>1. n \in Nat \ {0} /\ DOMAIN s = 1 .. n
    BY EmptySeq, LenProperties
  <2> QED
    BY <2>1, ElementOfSeq
<1>2. \A k \in 1 .. n : s[k].text \in Texts /\ s[k] = Text(s[k].text)
  BY <1>1 DEF Text
<1>3. ts \in Seq(Texts) /\ Len(ts) = n /\ \A k \in 1 .. n : ts[k] = s[k].text
  BY <1>1, <1>2
<1>4. \A k \in 1 .. n : Count(ts[k]) = 0 /\ ts[k] # <<>>
  BY <1>1, <1>3 DEF Choosable
<1> HIDE DEF n, ts
<1>5. ts # <<>>
  BY <1>1, <1>3
<1> DEFINE x == Join(ts)
           v == <<D>> \o x \o <<D>>
<1>6. x \in Texts /\ Pieces(x) = ts
  <2>1. /\ ts \in Seq(Seq(Atoms)) /\ \A k \in 1 .. Len(ts) : Count(ts[k]) = 0
    BY <1>3, <1>4 DEF Texts
  <2> QED
    BY <1>5, <2>1, AtomsAre, PiecesJoin
<1> HIDE DEF x
<1>7. x # <<>>
  <2> SUFFICES ASSUME x = <<>> PROVE FALSE
    OBVIOUS
  <2>1. Count(<<>>) = 0
    BY EmptyCount
  <2>2. Pieces(x) = <<x>>
    BY <1>6, <2>1, OnePiece DEF Texts
  <2>3. ts[1] = <<>>
    BY <1>6, <2>2
  <2> QED
    BY <1>1, <1>4, <2>3
<1>8. SplitMulti(v) = ts
  <2>1. Unwrapped(v) = x
    BY <1>6, WrappedIs
  <2> QED
    BY <1>6, <1>7, <2>1 DEF SplitMulti
<1>9. Chosen(v) = ts
  <2>1. DOMAIN ts = 1 .. n
    BY <1>1, <1>3
  <2> HIDE DEF v
  <2> QED
    BY <1>3, <1>4, <1>8, <2>1, ChosenIs
<1> HIDE DEF v
<1>10. DecodeMultiChoice(v) = Plain(List([k \in DOMAIN ts |-> Text(ts[k])]))
  BY <1>9 DEF DecodeMultiChoice
<1>11. [k \in DOMAIN ts |-> Text(ts[k])] = s
  <2>1. DOMAIN ts = 1 .. n /\ s = [k \in 1 .. n |-> s[k]]
    BY <1>1, <1>3
  <2>2. \A k \in 1 .. n : Text(ts[k]) = s[k]
    BY <1>2, <1>3
  <2> QED
    BY <2>1, <2>2
<1> QED
  BY <1>10, <1>11 DEF Plain, v, x, ts

LEMMA ChoiceDecodes ==
  ASSUME NEW t \in Texts, Choosable(t)
  PROVE  /\ DecodeChoice(t).value = Text(t)
         /\ DecodeChoice(<<D>> \o t \o <<D>>).value = Text(t)
<1>1. t # <<>> /\ Head(t) # D /\ Unwrapped(t) = t /\ SplitMulti(t) = <<t>>
  <2>1. t # <<>> /\ t[1] # D /\ Unwrapped(t) = t /\ SplitMulti(t) = <<t>>
    BY PlainSplit DEF Choosable
  <2> QED
    BY <2>1
<1>2. DecodeChoice(t).value = Text(t)
  <2>1. DecodeChoice(t) = Plain(Text(t))
    BY <1>1 DEF DecodeChoice
  <2> QED
    BY <2>1 DEF Plain
<1> DEFINE v == <<D>> \o t \o <<D>>
<1>3. v # <<>> /\ Head(v) = D /\ Last(v) = D /\ Unwrapped(v) = t
  BY WrappedIs
<1> HIDE DEF v
<1>4. SplitMulti(v) = <<t>>
  <2>1. SplitMulti(v) = SplitMulti(t)
    BY <1>1, <1>3 DEF SplitMulti
  <2> QED
    BY <1>1, <2>1
<1>5. Chosen(v) = <<t>>
  <2>1. <<t>> \in Seq(Texts) /\ \A k \in DOMAIN <<t>> : <<t>>[k] # <<>>
    BY <1>1
  <2> QED
    BY <1>4, <2>1, ChosenIs
<1>6. Chosen(v) # <<>> /\ Head(Chosen(v)) = t
  BY <1>5
<1>7. DecodeChoice(v) = Plain(Text(t))
  BY <1>3, <1>6 DEF DecodeChoice
<1> QED
  BY <1>2, <1>7 DEF Plain, v

-----------------------------------------------------------------------------
(* Numbers, truths, dates, calculated values and the object type.           *)

LEMMA WordDecodes ==
  /\ \A n \in Numbers : DecodeNumber(<<n>>).value = Number(n)
  /\ \A b \in BOOLEAN : DecodeBoolean(<<IF b THEN "1" ELSE "0">>).value = Truth(b)
  /\ \A d \in Dates : DecodeDatetime(<<d>>).value = Instant(d)
  /\ DecodeNumber(<<>>).value = Null /\ DecodeBoolean(<<>>).value = Null
  /\ DecodeDatetime(<<>>).value = Null
<1>0. \A v : Plain(v).value = v
  BY DEF Plain
<1>1. ASSUME NEW n \in Numbers PROVE DecodeNumber(<<n>>).value = Number(n)
  BY DEF DecodeNumber, IsInt, Plain
<1>2. ASSUME NEW b \in BOOLEAN
      PROVE  DecodeBoolean(<<IF b THEN "1" ELSE "0">>).value = Truth(b)
  <2>1. CASE b
    <3>1. DecodeBoolean(<<"1">>) = Plain(Truth(TRUE))
      BY DEF DecodeBoolean
    <3>2. DecodeBoolean(<<"1">>).value = Truth(TRUE)
      BY <1>0, <3>1, Zenon
    <3>3. b = TRUE /\ <<IF b THEN "1" ELSE "0">> = <<"1">>
      BY <2>1
    <3> QED
      BY <3>2, <3>3
  <2>2. CASE ~b
    <3>1. <<"0">> # <<"1">>
      OBVIOUS
    <3>2. DecodeBoolean(<<"0">>) = Plain(Truth(FALSE))
      BY <3>1 DEF DecodeBoolean
    <3>3. DecodeBoolean(<<"0">>).value = Truth(FALSE)
      BY <1>0, <3>2, Zenon
    <3>4. b = FALSE /\ <<IF b THEN "1" ELSE "0">> = <<"0">>
      BY <2>2
    <3> QED
      BY <3>3, <3>4
  <2> QED
    BY <2>1, <2>2
<1>3. ASSUME NEW d \in Dates PROVE DecodeDatetime(<<d>>).value = Instant(d)
  BY DEF DecodeDatetime, IsDate, Plain
<1>4. /\ DecodeNumber(<<>>).value = Null /\ DecodeBoolean(<<>>).value = Null
      /\ DecodeDatetime(<<>>).value = Null
  <2>1. /\ DecodeNumber(<<>>) = Plain(Null) /\ DecodeDatetime(<<>>) = Plain(Null)
    BY DEF DecodeNumber, DecodeDatetime, IsInt, IsDate
  <2>2. DecodeBoolean(<<>>) = Plain(Null)
    BY DEF DecodeBoolean
  <2> QED
    BY <2>1, <2>2 DEF Plain
<1> QED
  BY <1>1, <1>2, <1>3, <1>4

LEMMA TripleIs ==
  ASSUME NEW x, NEW y
  PROVE  Delimited(<<x>>, <<y>>) = <<x, D, y>>
<1> DEFINE A == {x, y, D}
           s == <<x>>
           t == <<y>>
           v == Delimited(s, t)
           w == <<x, D, y>>
<1>1. /\ D \in A /\ s \in Seq(A) /\ t \in Seq(A) /\ Len(s) = 1 /\ Len(t) = 1 /\ s[1] = x /\ t[1] = y
      /\ w \in Seq(A) /\ Len(w) = 3 /\ w[1] = x /\ w[2] = D /\ w[3] = y
  OBVIOUS
<1>2. D \in A /\ s \in Seq(A) /\ t \in Seq(A) /\ 1 \in 1 .. 1
  BY <1>1
<1> HIDE DEF A, s, t, w
<1>3. v \in Seq(A) /\ v[Len(s) + 1] = D
  BY <1>2, DelimitedIs
<1>4. Len(v) = Len(s) + 1 + Len(t)
  BY <1>2, DelimitedIs
<1>5. \A i \in 1 .. Len(s) : v[i] = s[i]
  BY <1>2, DelimitedFirst, Zenon
<1>6. \A i \in 1 .. Len(t) : v[Len(s) + 1 + i] = t[i]
  BY <1>2, DelimitedSecond, Zenon
<1> HIDE DEF v
<1>7. Len(v) = 3 /\ v[1] = x /\ v[2] = D /\ v[3] = y
  BY <1>1, <1>3, <1>4, <1>5, <1>6
<1>8. \A i \in 1 .. Len(v) : v[i] = w[i]
  BY <1>1, <1>7
<1>9. v = w
  BY <1>1, <1>3, <1>7, <1>8, SeqEqual
<1> QED
  BY <1>9 DEF v, w, s, t

(* What is behind the name of a type.                                       *)
LEMMA PrefixIs ==
  ASSUME NEW p, p # D, NEW t \in Texts
  PROVE  LET v == Delimited(<<p>>, t) IN
         /\ v # <<>> /\ Count(v) # 0
         /\ SubSeq(v, 1, Cut(v, 1) - 1) = <<p>> /\ SubSeq(v, Cut(v, 1) + 1, Len(v)) = t
<1> DEFINE A == Atoms \cup {p}
           s == <<p>>
           v == Delimited(s, t)
<1>1. D \in A /\ s \in Seq(A) /\ t \in Seq(A) /\ Len(s) = 1 /\ s[1] = p
  <2>1. t \in Seq(Atoms) /\ D \in Atoms /\ Atoms \subseteq A /\ p \in A
    BY AtomsAre
  <2> HIDE DEF A
  <2> QED
    BY <2>1, SeqMonotonic
<1> HIDE DEF A, s
<1>2. Count(s) = 0
  <2>1. \A i \in 1 .. Len(s) : s[i] # D
    BY <1>1
  <2> QED
    BY <1>1, <2>1, CountIsZero
<1>3. Cut(v, 1) = 2
  <2>1. 1 \in 0 .. Count(s) + 1 /\ Count(s) + 1 = 1
    BY <1>2
  <2>2. Cut(v, 1) = Cut(s, 1) /\ Cut(s, 1) = Len(s) + 1
    <3>1. Cut(v, 1) = Cut(s, 1)
      BY <1>1, <2>1, CutOfFirst
    <3>2. Cut(s, Count(s) + 1) = Len(s) + 1
      BY <1>1, EndCuts
    <3> QED
      BY <2>1, <3>1, <3>2
  <2> QED
    BY <1>1, <2>2
<1>4. Count(v) = Count(s) + Count(t) + 1 /\ Count(t) \in Nat
  <2>1. Count(v) = Count(s) + Count(t) + 1
    BY <1>1, CountDelimited
  <2> QED
    BY <1>1, <2>1, CutsAre
<1>5. v \in Seq(A) /\ Len(v) = Len(s) + 1 + Len(t) /\ Len(t) \in Nat
  <2>1. v \in Seq(A)
    BY <1>1, DelimitedIs
  <2>2. Len(v) = Len(s) + 1 + Len(t)
    BY <1>1, DelimitedIs
  <2> QED
    BY <1>1, <2>1, <2>2, LenProperties
<1>6. \A i \in 1 .. Len(s) : v[i] = s[i]
  <2>1. D \in A /\ s \in Seq(A) /\ t \in Seq(A)
    BY <1>1
  <2> QED
    BY <2>1, DelimitedFirst, Zenon
<1>7. \A i \in 1 .. Len(t) : v[Len(s) + 1 + i] = t[i]
  <2>1. D \in A /\ s \in Seq(A) /\ t \in Seq(A)
    BY <1>1
  <2> QED
    BY <2>1, DelimitedSecond, Zenon
<1> HIDE DEF v
<1>8. SubSeq(v, 1, 1) = s
  <2>1. 0 + Len(s) <= Len(v) /\ \A i \in 1 .. Len(s) : v[0 + i] = s[i]
    BY <1>1, <1>5, <1>6
  <2>2. 0 \in Nat /\ 1 \in Nat /\ 1 \in Int /\ 1 <= 1 /\ 1 <= Len(s)
    BY <1>1
  <2>3. SubSeq(v, 0 + 1, 0 + 1) = SubSeq(s, 1, 1)
    BY <1>1, <1>5, <2>1, <2>2, SubSeqOfPart
  <2>4. SubSeq(s, 1, Len(s)) = s /\ 0 + 1 = 1
    BY <1>1, SubSeqFull
  <2> QED
    BY <1>1, <2>3, <2>4
<1>9. SubSeq(v, 3, Len(v)) = t
  <2>1. 2 + Len(t) <= Len(v) /\ \A i \in 1 .. Len(t) : v[2 + i] = t[i]
    BY <1>1, <1>5, <1>7
  <2>2. 2 \in Nat /\ 1 \in Nat /\ Len(t) \in Int /\ 1 <= 1 /\ Len(t) <= Len(t)
    BY <1>5
  <2>3. SubSeq(v, 2 + 1, 2 + Len(t)) = SubSeq(t, 1, Len(t))
    BY <1>1, <1>5, <2>1, <2>2, SubSeqOfPart
  <2>4. SubSeq(t, 1, Len(t)) = t /\ 2 + 1 = 3 /\ 2 + Len(t) = Len(v)
    BY <1>1, <1>5, SubSeqFull
  <2> QED
    BY <2>3, <2>4
<1>10. v # <<>> /\ Count(v) # 0
  BY <1>1, <1>2, <1>4, <1>5
<1>11. Cut(v, 1) - 1 = 1 /\ Cut(v, 1) + 1 = 3
  BY <1>3
<1> QED
  BY <1>8, <1>9, <1>10, <1>11 DEF v, s

LEMMA CalculatedDecodes ==
  /\ \A t \in Texts : DecodeCalculated(<<"string", D>> \o t).value = Text(t)
  /\ \A n \in Numbers : DecodeCalculated(<<"float", D, n>>).value = Number(n)
  /\ DecodeCalculated(<<>>).value = Null
<1>1. ASSUME NEW t \in Texts PROVE DecodeCalculated(<<"string", D>> \o t).value = Text(t)
  <2> DEFINE v == Delimited(<<"string">>, t)
  <2>1. <<"string", D>> \o t = v
    BY DEF Delimited
  <2>2. /\ v # <<>> /\ Count(v) # 0
        /\ SubSeq(v, 1, Cut(v, 1) - 1) = <<"string">> /\ SubSeq(v, Cut(v, 1) + 1, Len(v)) = t
    BY PrefixIs DEF D
  <2> HIDE DEF v
  <2>3. <<"string">> # <<"float">> /\ <<"string">> # <<"datetime">>
    OBVIOUS
  <2>4. DecodeCalculated(v) = Plain(Text(t))
    BY <2>2, <2>3 DEF DecodeCalculated
  <2>5. DecodeCalculated(v).value = Text(t)
    BY <2>4 DEF Plain
  <2> QED
    BY <2>1, <2>5
<1>2. ASSUME NEW n \in Numbers PROVE DecodeCalculated(<<"float", D, n>>).value = Number(n)
  <2> DEFINE v == Delimited(<<"float">>, <<n>>)
  <2>1. <<"float", D, n>> = v
    BY TripleIs
  <2>2. /\ v # <<>> /\ Count(v) # 0
        /\ SubSeq(v, 1, Cut(v, 1) - 1) = <<"float">> /\ SubSeq(v, Cut(v, 1) + 1, Len(v)) = <<n>>
    BY PrefixIs, AtomsAre DEF D
  <2> DEFINE number == <<n>>
  <2> HIDE DEF v
  <2>3. <<"float">> # <<"string">> /\ <<"float">> # <<"datetime">>
    OBVIOUS
  <2>4. SubSeq(v, Cut(v, 1) + 1, Len(v)) = number
    BY <2>2
  <2> HIDE DEF number
  <2>5. DecodeCalculated(v) = DecodeNumber(number)
    BY <2>2, <2>3, <2>4 DEF DecodeCalculated
  <2>6. DecodeNumber(number).value = Number(n)
    BY WordDecodes DEF number
  <2> QED
    BY <2>1, <2>5, <2>6
<1>3. DecodeCalculated(<<>>).value = Null
  <2>1. DecodeCalculated(<<>>) = Plain(Null)
    BY EmptyCount DEF DecodeCalculated
  <2> QED
    BY <2>1 DEF Plain
<1> QED
  BY <1>1, <1>2, <1>3

LEMMA ObjectTypeDecodes ==
  /\ \A n \in Numbers : /\ DecodeFSObjType(<<n>>).value = Number(n)
                        /\ DecodeFSObjType(<<"1", D, n>>).value = Number(n)
  /\ DecodeFSObjType(<<>>).value = Null
<1>1. ASSUME NEW v, NEW n \in Numbers, SplitMulti(v) # <<>>, Last(SplitMulti(v)) = <<n>>
      PROVE  DecodeFSObjType(v).value = Number(n)
  <2>1. IsInt(<<n>>) /\ <<n>>[1] = n
    BY AtomsAre
  <2>2. DecodeFSObjType(v) = Plain(Number(n))
    BY <1>1, <2>1 DEF DecodeFSObjType
  <2> QED
    BY <2>2 DEF Plain
<1>2. ASSUME NEW n \in Numbers PROVE DecodeFSObjType(<<n>>).value = Number(n)
  <2>1. SplitMulti(<<n>>) = <<<<n>>>>
    <3>1. Choosable(<<n>>)
      BY IdIs DEF Choosable
    <3> QED
      BY <3>1, AtomsAre, PlainSplit
  <2>2. SplitMulti(<<n>>) # <<>> /\ Last(SplitMulti(<<n>>)) = <<n>>
    BY <2>1 DEF Last
  <2> QED
    BY <1>1, <2>2
<1>3. ASSUME NEW n \in Numbers PROVE DecodeFSObjType(<<"1", D, n>>).value = Number(n)
  <2>0. Delimited(<<"1">>, <<n>>) = <<"1", D, n>>
    BY TripleIs
  <2> DEFINE t == <<n>>
             v == Delimited(<<"1">>, t)
             s == SplitMulti(v)
  <2>1. "1" \in Numbers /\ t \in Texts /\ t # <<>> /\ Count(t) = 0
    BY AtomsAre, IdIs DEF Numbers
  <2>2. ~EndsIn(t, D)
    BY AtomsAre DEF EndsIn, Last
  <2> HIDE DEF t, v
  <2>4. s = Tokens("1", t)
    BY <2>1, <2>2, LookupSplit DEF v
  <2>5. Len(s) = Count(t) + 2 /\ s[2] = t
    BY <2>1, <2>4, TokensAre
  <2> HIDE DEF s
  <2>6. Len(s) = 2
    BY <2>1, <2>5
  <2>7. s # <<>>
    BY <2>6
  <2>8. Last(s) = t
    BY <2>5, <2>6 DEF Last
  <2>9. DecodeFSObjType(v).value = Number(n)
    BY <1>1, <2>7, <2>8 DEF s, t
  <2> QED
    BY <2>0, <2>9 DEF v, t
<1>4. DecodeFSObjType(<<>>).value = Null
  BY EmptySplit DEF DecodeFSObjType, Plain
<1> QED
  BY <1>2, <1>3, <1>4

-----------------------------------------------------------------------------
(* Several lookups.                                                         *)

LEMMA EndOfDelimited ==
  ASSUME NEW x \in Texts, NEW t \in Texts
  PROVE  /\ Delimited(x, t) \in Texts /\ Delimited(x, t) # <<>>
         /\ t # <<>> => (EndsIn(Delimited(x, t), D) <=> EndsIn(t, D))
<1> DEFINE v == Delimited(x, t)
<1>1. x \in Seq(Atoms) /\ t \in Seq(Atoms) /\ D \in Atoms
  BY AtomsAre
<1>2. Len(x) \in Nat /\ Len(t) \in Nat
  BY <1>1, LenProperties
<1>3. v \in Seq(Atoms)
  BY <1>1, DelimitedIs
<1>4. Len(v) = Len(x) + 1 + Len(t)
  BY <1>1, DelimitedIs
<1>5. \A i \in 1 .. Len(t) : v[Len(x) + 1 + i] = t[i]
  BY <1>1, DelimitedSecond, Zenon
<1> HIDE DEF v
<1>6. v # <<>>
  BY <1>2, <1>3, <1>4
<1>7. ASSUME t # <<>> PROVE EndsIn(v, D) <=> EndsIn(t, D)
  <2>1. Len(t) \in 1 .. Len(t)
    BY <1>1, <1>7, EmptySeq
  <2>2. v[Len(x) + 1 + Len(t)] = t[Len(t)]
    BY <1>5, <2>1
  <2>3. v[Len(v)] = t[Len(t)]
    BY <1>4, <2>2
  <2> QED
    BY <1>6, <1>7, <2>3 DEF EndsIn, Last
<1> QED
  BY <1>3, <1>6, <1>7 DEF v, Texts

(* The delimiters in the first texts of a list.                             *)
Counts(g, s) ==
    g[0] = 0 /\ \A k \in 1 .. Len(s) : g[k] = g[k - 1] + Count(s[k].value)

LEMMA SurplusIs ==
  ASSUME NEW v, v.list \in Seq(Numbered)
  PROVE  \E g \in [0 .. Len(v.list) -> Nat] :
            /\ Counts(g, v.list)
            /\ Surplus(v) = g[Len(v.list)]
                               + IF v.list # <<>> /\ Last(v.list).value = <<>> THEN 1 ELSE 0
<1> DEFINE s == v.list
           n == Len(s)
           C(k) == Count(s[k].value)
           F == [k \in 1 .. n |-> [m \in Nat |-> m + C(k)]]
           counted[k \in 0 .. Len(v.list)] ==
              IF k = 0 THEN 0 ELSE counted[k - 1] + Count(v.list[k].value)
<1>1. n \in Nat /\ \A k \in 1 .. n : C(k) \in Nat
  <2>1. ASSUME NEW k \in 1 .. n PROVE C(k) \in Nat
    <3>1. s[k] \in Numbered
      BY ElementOfSeq
    <3>2. s[k].value \in Seq(Atoms)
      BY <3>1 DEF Numbered, Texts
    <3> QED
      BY <3>2, CutsAre
  <2> QED
    BY <2>1, LenProperties
<1> HIDE DEF C, n
<1>2. F \in [1 .. n -> [Nat -> Nat]]
  BY <1>1
<1>3. PICK f : Follows(f, n, Nat, 0, F)
  <2>1. 0 \in Nat
    OBVIOUS
  <2> HIDE DEF F
  <2> QED
    BY <1>1, <1>2, <2>1, Recursion, Zenon
<1>4. f \in [0 .. n -> Nat] /\ f[0] = 0 /\ \A k \in 1 .. n : f[k] = f[k - 1] + C(k)
  <2>1. \A k \in 1 .. n : f[k - 1] \in Nat
    BY <1>1, <1>3 DEF Follows
  <2> QED
    BY <1>3, <2>1 DEF Follows
<1>5. f = [k \in 0 .. n |-> IF k = 0 THEN 0 ELSE f[k - 1] + C(k)]
  <2>1. \A k \in 0 .. n : k = 0 \/ k \in 1 .. n
    BY <1>1
  <2> QED
    BY <1>4, <2>1
<1>6. f = [k \in 0 .. Len(v.list) |-> IF k = 0 THEN 0 ELSE f[k - 1] + Count(v.list[k].value)]
  BY <1>5 DEF n, C
<1>7. counted = [k \in 0 .. Len(v.list) |->
                    IF k = 0 THEN 0 ELSE counted[k - 1] + Count(v.list[k].value)]
  BY <1>6, Zenon
<1>8. Surplus(v) = counted[Len(v.list)]
                      + IF v.list # <<>> /\ Last(v.list).value = <<>> THEN 1 ELSE 0
  BY DEF Surplus
<1> HIDE DEF counted
<1>9. counted[0] = 0 /\ \A k \in 1 .. n : counted[k] = counted[k - 1] + C(k)
  <2>1. 0 \in 0 .. n /\ \A k \in 1 .. n : k \in 0 .. n /\ k # 0
    BY <1>1
  <2>2. counted = [k \in 0 .. n |-> IF k = 0 THEN 0 ELSE counted[k - 1] + C(k)]
    BY <1>7 DEF n, C
  <2> QED
    BY <2>1, <2>2
<1>10. \A k \in 0 .. n : counted[k] \in Nat
  <2> DEFINE S == {k \in 0 .. n : counted[k] \in Nat}
  <2>1. 0 \in S
    BY <1>1, <1>9
  <2>2. \A k \in 1 .. n : k - 1 \in S => k \in S
    BY <1>1, <1>9
  <2> HIDE DEF S
  <2>3. \A k \in 0 .. n : k \in S
    BY <1>1, <2>1, <2>2, UpTo
  <2> QED
    BY <2>3 DEF S
<1>11. counted \in [0 .. n -> Nat]
  <2>1. counted = [k \in 0 .. n |-> counted[k]]
    BY <1>7 DEF n
  <2> QED
    BY <1>10, <2>1
<1>12. Counts(counted, v.list)
  BY <1>9 DEF Counts, n, C
<1> QED
  BY <1>8, <1>11, <1>12 DEF n

(* The delimiters of the first texts are no more than all.                  *)
LEMMA NoCounts ==
  ASSUME NEW s \in Seq(Numbered), NEW g \in [0 .. Len(s) -> Nat], Counts(g, s), g[Len(s)] = 0
  PROVE  \A k \in 1 .. Len(s) : g[k] = 0 /\ Count(s[k].value) = 0
<1> DEFINE n == Len(s)
<1>1. n \in Nat
  BY LenProperties
<1>2. \A k \in 1 .. n : g[k] = g[k - 1] + Count(s[k].value)
  BY DEF Counts
<1>3. \A k \in 1 .. n : Count(s[k].value) \in Nat
  <2>1. ASSUME NEW k \in 1 .. n PROVE Count(s[k].value) \in Nat
    <3>1. s[k] \in Numbered
      BY ElementOfSeq
    <3>2. s[k].value \in Seq(Atoms)
      BY <3>1 DEF Numbered, Texts
    <3> QED
      BY <3>2, CutsAre
  <2> QED
    BY <2>1
<1>4. g[n] = 0 /\ \A k \in 0 .. n : g[k] \in Nat
  OBVIOUS
<1> HIDE DEF n
<1> DEFINE S == {j \in 0 .. n : g[n - j] = 0}
<1>5. 0 \in S
  BY <1>1, <1>4
<1>6. ASSUME NEW j \in 1 .. n, j - 1 \in S PROVE j \in S
  <2> DEFINE k == n - (j - 1)
  <2>1. k \in 1 .. n /\ k - 1 = n - j /\ k - 1 \in 0 .. n
    BY <1>1
  <2>2. g[k] = 0
    BY <1>6
  <2> HIDE DEF k
  <2>3. g[k - 1] = 0
    BY <1>2, <1>3, <1>4, <2>1, <2>2
  <2> QED
    BY <2>1, <2>3
<1>7. \A j \in 0 .. n : j \in S
  <2> HIDE DEF S
  <2> QED
    BY <1>1, <1>5, <1>6, UpTo
<1>8. \A k \in 0 .. n : g[k] = 0
  <2> SUFFICES ASSUME NEW k \in 0 .. n PROVE g[k] = 0
    OBVIOUS
  <2>1. n - k \in 0 .. n /\ n - (n - k) = k
    BY <1>1
  <2>2. n - k \in S
    BY <1>7, <2>1
  <2> QED
    BY <2>1, <2>2
<1>9. ASSUME NEW k \in 1 .. n PROVE g[k] = 0 /\ Count(s[k].value) = 0
  <2>1. k \in 0 .. n /\ k - 1 \in 0 .. n
    BY <1>1
  <2> QED
    BY <1>2, <1>3, <1>8, <2>1
<1> QED
  BY <1>9 DEF n

(* A list is joined one lookup after the other.                             *)
Pieced(r) == Delimited(<<r.id>>, r.value)
Joined(f, s) ==
    /\ f \in [1 .. Len(s) -> Texts]
    /\ f[1] = Pieced(s[1])
    /\ \A k \in 2 .. Len(s) : f[k] = Delimited(f[k - 1], Pieced(s[k]))

LEMMA EncodedIs ==
  ASSUME NEW r \in Numbered
  PROVE  /\ r.id \in Numbers /\ r.value \in Texts /\ <<r.id>> \in Texts
         /\ r = Reference(r.id, r.value)
         /\ Encoded(r) = Pieced(r) /\ Pieced(r) \in Texts
<1>1. r.id \in Numbers /\ r.value \in Texts /\ r = Reference(r.id, r.value)
  BY DEF Numbered, Reference
<1>2. r.id # NoId
  BY <1>1 DEF Numbers, NoId
<1>3. <<r.id, D>> = <<r.id>> \o <<D>>
  OBVIOUS
<1>4. Encoded(r) = Pieced(r)
  BY <1>2, <1>3 DEF Encoded, Pieced, Delimited
<1>5. Pieced(r) \in Texts
  BY <1>1, BehindIdIs DEF Pieced
<1> QED
  BY <1>1, <1>4, <1>5, AtomsAre

LEMMA ListJoined ==
  ASSUME NEW s \in Seq(Numbered), s # <<>>
  PROVE  \E f : Joined(f, s) /\ Join([k \in DOMAIN s |-> Encoded(s[k])]) = f[Len(s)]
<1> DEFINE n == Len(s)
           ts == [k \in DOMAIN s |-> Encoded(s[k])]
<1>1. n \in Nat \ {0} /\ DOMAIN s = 1 .. n /\ \A k \in 1 .. n : s[k] \in Numbered
  <2>1. n \in Nat \ {0} /\ DOMAIN s = 1 .. n
    BY EmptySeq, LenProperties
  <2> QED
    BY <2>1, ElementOfSeq
<1>2. \A k \in 1 .. n : Encoded(s[k]) = Pieced(s[k]) /\ Encoded(s[k]) \in Texts
  BY <1>1, EncodedIs
<1>3. ts \in Seq(Texts) /\ Len(ts) = n /\ \A k \in 1 .. n : ts[k] = Pieced(s[k])
  BY <1>1, <1>2
<1> HIDE DEF n, ts
<1>4. ts # <<>> /\ ts \in Seq(Seq(Atoms)) /\ D \in Atoms
  BY <1>1, <1>3, AtomsAre
<1>5. PICK f \in [1 .. Len(ts) -> Seq(Atoms)] : Joins(f, ts) /\ Join(ts) = f[Len(ts)]
  BY <1>4, JoinIs
<1>6. f \in [1 .. n -> Texts] /\ f[1] = ts[1] /\ Join(ts) = f[n]
      /\ \A k \in 2 .. n : f[k] = Delimited(f[k - 1], ts[k])
  BY <1>3, <1>5 DEF Joins, Texts
<1>7. 1 \in 1 .. n /\ \A k \in 2 .. n : k \in 1 .. n
  BY <1>1
<1>8. f[1] = Pieced(s[1]) /\ \A k \in 2 .. n : f[k] = Delimited(f[k - 1], Pieced(s[k]))
  BY <1>3, <1>6, <1>7
<1>9. Joined(f, s)
  BY <1>6, <1>8 DEF Joined, n
<1> QED
  BY <1>6, <1>9 DEF n, ts

(* What holds of the first lookup and is kept by each further one.          *)
LEMMA OneAfterAnother ==
  ASSUME NEW s \in Seq(Numbered), s # <<>>, NEW S, 1 \in S,
         \A k \in 2 .. Len(s) : k - 1 \in S => k \in S
  PROVE  \A k \in 1 .. Len(s) : k \in S
<1> DEFINE n == Len(s)
           T == {i \in 0 .. n - 1 : i + 1 \in S}
<1>1. n \in Nat \ {0}
  BY EmptySeq
<1>2. \A k \in 2 .. n : k - 1 \in S => k \in S
  OBVIOUS
<1> HIDE DEF n
<1>3. 0 \in T
  BY <1>1
<1>4. ASSUME NEW i \in 1 .. n - 1, i - 1 \in T PROVE i \in T
  <2>1. i + 1 \in 2 .. n /\ (i + 1) - 1 = i /\ (i - 1) + 1 = i /\ i \in 0 .. n - 1
    BY <1>1
  <2> QED
    BY <1>2, <1>4, <2>1
<1>5. \A i \in 0 .. n - 1 : i \in T
  <2>1. n - 1 \in Nat
    BY <1>1
  <2> HIDE DEF T
  <2> QED
    BY <1>3, <1>4, <2>1, UpTo
<1>6. ASSUME NEW k \in 1 .. n PROVE k \in S
  <2>1. k - 1 \in 0 .. n - 1 /\ (k - 1) + 1 = k
    BY <1>1
  <2> QED
    BY <1>5, <2>1
<1> QED
  BY <1>6 DEF n

(* It begins with an id, and ends in the last text.                         *)
LEMMA ListEnds ==
  ASSUME NEW s \in Seq(Numbered), s # <<>>, NEW f, Joined(f, s), NEW n, n = Len(s)
  PROVE  /\ f[n] \in Texts /\ f[n] # <<>> /\ f[n][1] # D
         /\ \E x \in Texts : f[n] = Delimited(x, s[n].value) /\ x # <<>>
<1>1. n \in Nat \ {0}
  BY EmptySeq
<1>2. \A k \in 1 .. n : s[k] \in Numbered
  BY ElementOfSeq
<1>3. \A k \in 1 .. n : /\ s[k].id \in Numbers /\ s[k].value \in Texts /\ <<s[k].id>> \in Texts
                        /\ Pieced(s[k]) \in Texts
  BY <1>2, EncodedIs
<1>4. /\ f \in [1 .. n -> Texts] /\ f[1] = Pieced(s[1])
      /\ \A k \in 2 .. n : f[k] = Delimited(f[k - 1], Pieced(s[k]))
  BY DEF Joined
<1> DEFINE id == s[1].id
           S == {k \in 1 .. n : \E u \in Texts : f[k] = Delimited(<<id>>, u)}
<1>5. 1 \in S
  BY <1>1, <1>3, <1>4 DEF Pieced
<1>6. ASSUME NEW k \in 2 .. n, k - 1 \in S PROVE k \in S
  <2>1. PICK u \in Texts : f[k - 1] = Delimited(<<id>>, u)
    BY <1>6
  <2> DEFINE t == Pieced(s[k])
             i == <<id>>
  <2>2. k \in 1 .. n /\ 1 \in 1 .. n
    BY <1>1
  <2>3. f[k] = Delimited(Delimited(i, u), t) /\ i \in Texts /\ t \in Texts
    BY <1>3, <1>4, <2>1, <2>2
  <2> HIDE DEF t, i
  <2>4. f[k] = Delimited(i, Delimited(u, t))
    BY <2>3, AtomsAre, DelimitedTwice
  <2>5. Delimited(u, t) \in Texts
    BY <2>3, EndOfDelimited
  <2> QED
    BY <2>2, <2>4, <2>5 DEF i
<1>7. n \in S
  <2> HIDE DEF S
  <2>1. \A k \in 1 .. n : k \in S
    BY <1>5, <1>6, OneAfterAnother
  <2> QED
    BY <1>1, <2>1
<1>8. f[n] \in Texts /\ f[n] # <<>> /\ f[n][1] # D
  <2>1. PICK u \in Texts : f[n] = Delimited(<<id>>, u)
    BY <1>7
  <2>2. 1 \in 1 .. n
    BY <1>1
  <2>3. id \in Numbers
    BY <1>3, <2>2
  <2> QED
    BY <2>1, <2>3, BehindIdIs
<1>9. \E x \in Texts : f[n] = Delimited(x, s[n].value) /\ x # <<>>
  <2>1. CASE n = 1
    <3>1. f[n] = Delimited(<<s[1].id>>, s[n].value) /\ <<s[1].id>> \in Texts /\ <<s[1].id>> # <<>>
      BY <1>1, <1>3, <1>4, <2>1 DEF Pieced
    <3> QED
      BY <3>1
  <2>2. CASE n # 1
    <3> DEFINE y == f[n - 1]
               i == <<s[n].id>>
               t == s[n].value
    <3>1. n \in 2 .. n /\ n \in 1 .. n /\ n - 1 \in 1 .. n
      BY <1>1, <2>2
    <3>2. f[n] = Delimited(y, Delimited(i, t)) /\ y \in Texts /\ i \in Texts /\ t \in Texts
      BY <1>3, <1>4, <3>1 DEF Pieced
    <3> HIDE DEF y, i, t
    <3>3. f[n] = Delimited(Delimited(y, i), t)
      BY <3>2, AtomsAre, DelimitedTwice
    <3>4. Delimited(y, i) \in Texts /\ Delimited(y, i) # <<>>
      BY <3>2, EndOfDelimited
    <3> QED
      BY <3>3, <3>4 DEF t
  <2> QED
    BY <2>1, <2>2
<1> QED
  BY <1>8, <1>9

(* It has a delimiter behind every id, one between two lookups, and those   *)
(* of the texts.                                                            *)
LEMMA ListCount ==
  ASSUME NEW s \in Seq(Numbered), s # <<>>, NEW f, Joined(f, s),
         NEW g \in [0 .. Len(s) -> Nat], Counts(g, s), NEW n, n = Len(s)
  PROVE  Count(f[n]) = 2 * n - 1 + g[n] /\ g[n] \in Nat
<1>1. n \in Nat \ {0}
  BY EmptySeq
<1>2. \A k \in 1 .. n : s[k] \in Numbered
  BY ElementOfSeq
<1>3. \A k \in 1 .. n : /\ s[k].id \in Numbers /\ s[k].value \in Texts
                        /\ Pieced(s[k]) \in Texts
  BY <1>2, EncodedIs
<1>4. /\ f \in [1 .. n -> Texts] /\ f[1] = Pieced(s[1])
      /\ \A k \in 2 .. n : f[k] = Delimited(f[k - 1], Pieced(s[k]))
      /\ g \in [0 .. n -> Nat] /\ g[0] = 0
      /\ \A k \in 1 .. n : g[k] = g[k - 1] + Count(s[k].value)
  BY DEF Joined, Counts
<1>5. ASSUME NEW k \in 1 .. n
      PROVE  Count(Pieced(s[k])) = Count(s[k].value) + 1 /\ Count(s[k].value) \in Nat
  <2> DEFINE i == <<s[k].id>>
             t == s[k].value
  <2>1. i \in Seq(Atoms) /\ t \in Seq(Atoms) /\ D \in Atoms
    BY <1>3, AtomsAre
  <2>2. Count(i) = 0
    BY <1>3, IdIs
  <2> HIDE DEF i, t
  <2>3. Count(Delimited(i, t)) = Count(i) + Count(t) + 1
    BY <2>1, CountDelimited
  <2>4. Count(t) \in Nat
    BY <2>1, CutsAre
  <2>5. Count(Delimited(i, t)) = Count(t) + 1
    BY <2>2, <2>3, <2>4
  <2> QED
    BY <2>4, <2>5 DEF i, t, Pieced
<1> DEFINE S == {k \in 1 .. n : Count(f[k]) = (2 * k - 1) + g[k]}
<1>6. 1 \in S
  <2>1. 1 \in 1 .. n /\ 1 - 1 = 0 /\ 2 * 1 - 1 = 1
    BY <1>1
  <2>2. g[1] = Count(s[1].value) /\ Count(f[1]) = Count(s[1].value) + 1
    BY <1>4, <1>5, <2>1
  <2> QED
    BY <1>5, <2>1, <2>2
<1>7. ASSUME NEW k \in 2 .. n, k - 1 \in S PROVE k \in S
  <2>1. k \in 1 .. n /\ k - 1 \in 1 .. n /\ k - 1 \in 0 .. n /\ k \in 0 .. n
    BY <1>1
  <2> DEFINE x == f[k - 1]
             t == Pieced(s[k])
             c == Count(s[k].value)
  <2>2. x \in Seq(Atoms) /\ t \in Seq(Atoms) /\ D \in Atoms
    BY <1>3, <1>4, <2>1, AtomsAre
  <2>3. Count(t) = c + 1 /\ c \in Nat
    BY <1>5, <2>1
  <2>4. Count(x) = (2 * (k - 1) - 1) + g[k - 1]
    BY <1>7
  <2>5. f[k] = Delimited(x, t) /\ g[k] = g[k - 1] + c /\ g[k - 1] \in Nat
    BY <1>4, <2>1
  <2> HIDE DEF x, t, c
  <2>6. Count(f[k]) = Count(x) + Count(t) + 1
    BY <2>2, <2>5, CountDelimited
  <2>7. Count(f[k]) = (2 * k - 1) + g[k]
    BY <2>1, <2>3, <2>4, <2>5, <2>6
  <2> QED
    BY <2>1, <2>7
<1>8. n \in S
  <2> HIDE DEF S
  <2>1. \A k \in 1 .. n : k \in S
    BY <1>6, <1>7, OneAfterAnother
  <2> QED
    BY <1>1, <2>1
<1> QED
  BY <1>1, <1>4, <1>8

(* Without delimiters in its texts its pieces are ids and texts in turn.    *)
LEMMA ListPieces ==
  ASSUME NEW s \in Seq(Numbered), s # <<>>, NEW f, Joined(f, s), NEW n, n = Len(s),
         \A k \in 1 .. n : Count(s[k].value) = 0
  PROVE  /\ Len(Pieces(f[n])) = 2 * n
         /\ \A k \in 1 .. n : /\ Pieces(f[n])[2 * k - 1] = <<s[k].id>>
                              /\ Pieces(f[n])[2 * k] = s[k].value
<1>1. n \in Nat \ {0}
  BY EmptySeq
<1>2. \A k \in 1 .. n : s[k] \in Numbered
  BY ElementOfSeq
<1>3. \A k \in 1 .. n : /\ s[k].id \in Numbers /\ s[k].value \in Texts
                        /\ Pieced(s[k]) \in Texts /\ Count(s[k].value) = 0
  BY <1>2, EncodedIs
<1>4. /\ f \in [1 .. n -> Texts] /\ f[1] = Pieced(s[1])
      /\ \A k \in 2 .. n : f[k] = Delimited(f[k - 1], Pieced(s[k]))
  BY DEF Joined
<1>5. ASSUME NEW k \in 1 .. n
      PROVE  /\ Pieces(Pieced(s[k])) \in Seq(Texts) /\ Len(Pieces(Pieced(s[k]))) = 2
             /\ Pieces(Pieced(s[k]))[1] = <<s[k].id>> /\ Pieces(Pieced(s[k]))[2] = s[k].value
  <2> DEFINE id == s[k].id
             t == s[k].value
  <2>1. id \in Numbers /\ t \in Texts /\ Count(t) = 0
    BY <1>3
  <2> HIDE DEF id, t
  <2>2. /\ Tokens(id, t) \in Seq(Texts) /\ Len(Tokens(id, t)) = Count(t) + 2
        /\ Tokens(id, t)[1] = <<id>> /\ Tokens(id, t)[2] = t
        /\ Pieces(Delimited(<<id>>, t)) = Tokens(id, t)
    BY <2>1, TokensAre
  <2>3. Len(Tokens(id, t)) = 2
    BY <2>1, <2>2
  <2> QED
    BY <2>2, <2>3 DEF id, t, Pieced
<1> DEFINE InTurn(k) ==
             /\ Len(Pieces(f[k])) = 2 * k
             /\ \A j \in 1 .. k : /\ Pieces(f[k])[2 * j - 1] = <<s[j].id>>
                                  /\ Pieces(f[k])[2 * j] = s[j].value
           S == {k \in 1 .. n : InTurn(k)}
<1>6. 1 \in S
  <2>1. 1 \in 1 .. n /\ 2 * 1 = 2 /\ 2 * 1 - 1 = 1
    BY <1>1
  <2>2. InTurn(1)
    <3>1. \A j \in 1 .. 1 : j = 1
      OBVIOUS
    <3> QED
      BY <1>4, <1>5, <2>1, <3>1
  <2> QED
    BY <2>1, <2>2
<1>7. ASSUME NEW k \in 2 .. n, k - 1 \in S PROVE k \in S
  <2>1. k \in 1 .. n /\ k - 1 \in 1 .. n
    BY <1>1
  <2> DEFINE x == f[k - 1]
             t == Pieced(s[k])
             a == Pieces(x)
             b == Pieces(t)
             m == 2 * (k - 1)
  <2>2. x \in Seq(Atoms) /\ t \in Seq(Atoms) /\ D \in Atoms /\ f[k] = Delimited(x, t)
    BY <1>3, <1>4, <2>1, AtomsAre
  <2>3. /\ b \in Seq(Texts) /\ Len(b) = 2 /\ b[1] = <<s[k].id>> /\ b[2] = s[k].value
    BY <1>5, <2>1
  <2>4. InTurn(k - 1)
    BY <1>7
  <2>5. /\ Len(a) = m
        /\ \A j \in 1 .. k - 1 : a[2 * j - 1] = <<s[j].id>> /\ a[2 * j] = s[j].value
    BY <2>4
  <2> HIDE DEF x, t
  <2>6. a \in Seq(Texts) /\ Pieces(f[k]) = a \o b
    BY <2>2, PiecesAre, PiecesDelimited, AtomsAre
  <2> HIDE DEF a, b
  <2> DEFINE c == a \o b
  <2>7. /\ Len(c) = m + 2 /\ m \in Nat
        /\ \A i \in 1 .. m + 2 : c[i] = IF i <= m THEN a[i] ELSE b[i - m]
    <3>1. /\ Len(c) = Len(a) + Len(b)
          /\ \A i \in 1 .. Len(a) + Len(b) : c[i] = IF i <= Len(a) THEN a[i] ELSE b[i - Len(a)]
      BY <2>3, <2>6, ConcatProperties
    <3> HIDE DEF c
    <3>2. m \in Nat
      BY <2>1
    <3> HIDE DEF m
    <3>3. Len(a) = m /\ Len(b) = 2
      BY <2>3, <2>5
    <3> QED
      BY <3>1, <3>2, <3>3
  <2> HIDE DEF c
  <2>8. Len(c) = 2 * k
    BY <2>1, <2>7
  <2>9. ASSUME NEW j \in 1 .. k PROVE c[2 * j - 1] = <<s[j].id>> /\ c[2 * j] = s[j].value
    <3>1. CASE j = k
      <4>1. /\ 2 * j - 1 \in 1 .. m + 2 /\ ~(2 * j - 1 <= m) /\ (2 * j - 1) - m = 1
            /\ 2 * j \in 1 .. m + 2 /\ ~(2 * j <= m) /\ 2 * j - m = 2
        BY <2>1, <3>1
      <4> HIDE DEF m
      <4>2. c[2 * j - 1] = b[1] /\ c[2 * j] = b[2]
        BY <2>7, <4>1
      <4> QED
        BY <2>3, <3>1, <4>2
    <3>2. CASE j # k
      <4>1. /\ 2 * j - 1 \in 1 .. m + 2 /\ 2 * j - 1 <= m
            /\ 2 * j \in 1 .. m + 2 /\ 2 * j <= m /\ j \in 1 .. k - 1
        BY <2>1, <3>2
      <4> HIDE DEF m
      <4>2. c[2 * j - 1] = a[2 * j - 1] /\ c[2 * j] = a[2 * j]
        BY <2>7, <4>1
      <4> QED
        BY <2>5, <4>1, <4>2
    <3> QED
      BY <3>1, <3>2
  <2>10. InTurn(k)
    BY <2>6, <2>8, <2>9 DEF c
  <2> QED
    BY <2>1, <2>10
<1>8. n \in S
  <2> HIDE DEF S
  <2>1. \A k \in 1 .. n : k \in S
    BY <1>6, <1>7, OneAfterAnother
  <2> QED
    BY <1>1, <2>1
<1> QED
  BY <1>8

(* What is split of a list: all of it, unless it ends in an empty text.     *)
LEMMA ListSplit ==
  ASSUME NEW s \in Seq(Numbered), s # <<>>, NEW f, Joined(f, s), NEW n, n = Len(s),
         NEW g \in [0 .. Len(s) -> Nat], Counts(g, s),
         NEW t, t = s[n].value, ~EndsIn(t, D)
  PROVE  LET tokens == SplitMulti(f[n]) IN
         /\ n \in Nat \ {0} /\ g[n] \in Nat
         /\ t # <<>> => tokens = Pieces(f[n]) /\ Len(tokens) = 2 * n + g[n]
         /\ t = <<>> => Len(tokens) = (2 * n - 1) + g[n]
<1> DEFINE v == f[n]
<1>1. n \in Nat \ {0} /\ n \in 1 .. n
  BY EmptySeq
<1>2. t \in Texts
  <2>1. s[n] \in Numbered
    BY <1>1, ElementOfSeq
  <2> QED
    BY <2>1, EncodedIs
<1>3. v \in Texts /\ v # <<>> /\ v[1] # D
  BY ListEnds
<1>4. PICK x \in Texts : v = Delimited(x, t) /\ x # <<>>
  BY ListEnds
<1>5. Count(v) = (2 * n - 1) + g[n] /\ g[n] \in Nat
  <2>1. Count(v) = 2 * n - 1 + g[n] /\ g[n] \in Nat
    BY ListCount
  <2> QED
    BY <1>1, <2>1
<1> HIDE DEF v
<1>6. v \in Seq(Atoms) /\ x \in Seq(Atoms) /\ t \in Seq(Atoms) /\ D \in Atoms
  BY <1>2, <1>3, <1>4, AtomsAre
<1>7. ASSUME t # <<>>
      PROVE  SplitMulti(v) = Pieces(v) /\ Len(SplitMulti(v)) = 2 * n + g[n]
  <2>1. ~EndsIn(v, D)
    BY <1>2, <1>4, <1>7, EndOfDelimited
  <2>2. Unwrapped(v) = v
    BY <1>3, <1>6, <2>1, UnwrappedIs
  <2>3. SplitMulti(v) = Pieces(v)
    BY <1>3, <2>2 DEF SplitMulti
  <2>4. Len(Pieces(v)) = Count(v) + 1
    BY <1>6, PiecesAre
  <2> QED
    BY <1>1, <1>5, <2>3, <2>4
<1>8. ASSUME t = <<>> PROVE Len(SplitMulti(v)) = (2 * n - 1) + g[n]
  <2>1. v = Delimited(x, <<>>)
    BY <1>4, <1>8
  <2>2. Unwrapped(v) = x
    BY <1>3, <1>6, <2>1, UnwrappedIs
  <2>3. SplitMulti(v) = Pieces(x)
    BY <1>4, <2>2 DEF SplitMulti
  <2>4. Len(Pieces(x)) = Count(x) + 1
    BY <1>6, PiecesAre
  <2>5. Count(x) \in Nat
    BY <1>6, CutsAre
  <2>6. Count(v) = Count(x) + Count(t) + 1
    BY <1>4, <1>6, CountDelimited
  <2>7. Count(t) = 0
    BY <1>8, EmptyCount
  <2> QED
    BY <1>1, <1>5, <2>3, <2>4, <2>5, <2>6, <2>7
<1> QED
  BY <1>1, <1>5, <1>7, <1>8 DEF v

(* Ids and texts in turn are the lookups.                                   *)
LEMMA PairsAre ==
  ASSUME NEW s \in Seq(Numbered), NEW tokens, Len(tokens) = 2 * Len(s),
         \A k \in 1 .. Len(s) : /\ tokens[2 * k - 1] = <<s[k].id>>
                                /\ tokens[2 * k] = s[k].value
  PROVE  Pairs(tokens) = s
<1> DEFINE n == Len(s)
<1>1. n \in Nat /\ Len(tokens) \div 2 = n
  <2>1. n \in Nat
    BY LenProperties
  <2> QED
    BY <2>1
<1>2. ASSUME NEW k \in 1 .. n PROVE Pair(SubSeq(tokens, 2 * k - 1, 2 * k)) = s[k]
  <2> DEFINE u == SubSeq(tokens, 2 * k - 1, 2 * k)
             id == s[k].id
             t == s[k].value
  <2>1. id \in Numbers /\ s[k] = Reference(id, t)
    <3>1. s[k] \in Numbered
      BY <1>2, ElementOfSeq
    <3> QED
      BY <3>1, EncodedIs
  <2>2. tokens[2 * k - 1] = <<id>> /\ tokens[2 * k] = t
    BY <1>2
  <2> HIDE DEF id, t
  <2>3. u = [i \in 1 .. 2 |-> tokens[(i + (2 * k - 1)) - 1]]
    BY <1>1, <1>2
  <2>4. (1 + (2 * k - 1)) - 1 = 2 * k - 1 /\ (2 + (2 * k - 1)) - 1 = 2 * k
    BY <1>1, <1>2
  <2>5. u[1] = <<id>> /\ u[2] = t
    BY <2>2, <2>3, <2>4
  <2> HIDE DEF u
  <2>6. IsInt(u[1]) /\ u[1][1] = id /\ u[2] = t
    BY <2>1, <2>5, AtomsAre
  <2> QED
    BY <2>1, <2>6 DEF Pair, u
<1>3. Pairs(tokens) = [k \in 1 .. n |-> s[k]]
  BY <1>1, <1>2 DEF Pairs
<1> QED
  BY <1>3

LEMMA ListWhole ==
  ASSUME NEW s \in Seq(Numbered), s # <<>>, NEW f, Joined(f, s), NEW n, n = Len(s),
         NEW g \in [0 .. Len(s) -> Nat], Counts(g, s), g[n] = 0,
         NEW t, t = s[n].value, t # <<>>
  PROVE  DecodeLookupMulti(f[n]).value = List(s)
<1>1. n \in Nat \ {0} /\ n \in 1 .. n
  BY EmptySeq
<1>2. t \in Texts
  <2>1. s[n] \in Numbered
    BY <1>1, ElementOfSeq
  <2> QED
    BY <2>1, EncodedIs
<1>3. \A k \in 1 .. n : Count(s[k].value) = 0
  BY NoCounts
<1>4. ~EndsIn(t, D)
  <2>1. Count(t) = 0 /\ t \in Seq(Atoms)
    BY <1>1, <1>2, <1>3, AtomsAre
  <2>2. \A i \in 1 .. Len(t) : t[i] # D
    BY <2>1, CountIsZero
  <2>3. Len(t) \in 1 .. Len(t)
    BY <2>1, EmptySeq
  <2> QED
    BY <2>2, <2>3 DEF EndsIn, Last
<1>5. SplitMulti(f[n]) = Pieces(f[n])
  BY <1>4, ListSplit
<1>6. /\ Len(Pieces(f[n])) = 2 * n
      /\ \A k \in 1 .. n : /\ Pieces(f[n])[2 * k - 1] = <<s[k].id>>
                           /\ Pieces(f[n])[2 * k] = s[k].value
  BY <1>3, ListPieces
<1>7. Pairs(Pieces(f[n])) = s
  <2> DEFINE tokens == Pieces(f[n])
  <2>1. /\ Len(tokens) = 2 * n
        /\ \A k \in 1 .. n : tokens[2 * k - 1] = <<s[k].id>> /\ tokens[2 * k] = s[k].value
    BY <1>6
  <2> HIDE DEF tokens
  <2>2. /\ Len(tokens) = 2 * Len(s)
        /\ \A k \in 1 .. Len(s) : /\ tokens[2 * k - 1] = <<s[k].id>>
                                  /\ tokens[2 * k] = s[k].value
    BY <2>1
  <2>3. Pairs(tokens) = s
    BY <2>2, PairsAre, Zenon
  <2> QED
    BY <2>3 DEF tokens
<1> QED
  BY <1>5, <1>7 DEF DecodeLookupMulti

(* A list is decoded to itself if nothing is wrong with it, and what one    *)
(* thing is wrong with is warned about.                                     *)
LEMMA ListDecodes ==
  ASSUME NEW v, v.list \in Seq(Numbered), v.list # <<>>
  PROVE  LET r == DecodeLookupMulti(Join([k \in DOMAIN v.list |-> Encoded(v.list[k])])) IN
         /\ Surplus(v) = 0 => r.value = List(v.list)
         /\ Surplus(v) = 1 /\ ~EndsIn(Last(v.list).value, D) => r.warned
         /\ Surplus(v) \in Nat
<1> DEFINE s == v.list
           n == Len(s)
           t == s[n].value
           w == Join([k \in DOMAIN s |-> Encoded(s[k])])
<1>1. PICK f : Joined(f, s) /\ w = f[n]
  BY ListJoined
<1>2. PICK g \in [0 .. n -> Nat] : Counts(g, s) /\ Surplus(v) = g[n] + IF t = <<>> THEN 1 ELSE 0
  BY SurplusIs DEF Last
<1>3. n \in Nat \ {0} /\ n \in 0 .. n /\ n \in 1 .. n
  BY EmptySeq
<1>4. g[n] \in Nat /\ s \in Seq(Numbered) /\ s # <<>>
  BY <1>2, <1>3
<1>5. t \in Texts
  <2>1. s[n] \in Numbered
    BY <1>3, ElementOfSeq
  <2> QED
    BY <2>1, EncodedIs
<1> HIDE DEF w
<1>6. ASSUME Surplus(v) = 0 PROVE DecodeLookupMulti(w).value = List(s)
  <2>1. g[n] = 0 /\ t # <<>>
    BY <1>2, <1>4, <1>6
  <2> HIDE DEF s
  <2> QED
    BY <1>1, <1>2, <1>4, <2>1, ListWhole
<1>7. ASSUME Surplus(v) = 1, ~EndsIn(t, D) PROVE DecodeLookupMulti(w).warned
  <2> DEFINE m == Len(SplitMulti(w))
  <2>1. /\ t # <<>> => m = 2 * n + g[n]
        /\ t = <<>> => m = (2 * n - 1) + g[n]
    <3> HIDE DEF s
    <3> QED
      BY <1>1, <1>2, <1>4, <1>7, ListSplit, SMTT(30)
  <2> HIDE DEF m
  <2>2. /\ t # <<>> => g[n] = 1
        /\ t = <<>> => g[n] = 0
    BY <1>2, <1>4, <1>7
  <2>3. m = 2 * n + 1 \/ m = 2 * n - 1
    BY <1>3, <2>1, <2>2
  <2>4. m % 2 = 1
    BY <1>3, <2>3
  <2>5. (m % 2 # 0) = TRUE
    BY <2>4
  <2>6. DecodeLookupMulti(w) = [value |-> List(Pairs(SplitMulti(w))), warned |-> m % 2 # 0]
    BY DEF DecodeLookupMulti, m
  <2>7. DecodeLookupMulti(w) = [value |-> List(Pairs(SplitMulti(w))), warned |-> TRUE]
    BY <2>5, <2>6, Zenon
  <2> QED
    BY <2>7
<1>8. Surplus(v) \in Nat
  BY <1>2, <1>4
<1>9. Last(s) = s[n]
  BY DEF Last
<1> QED
  BY <1>6, <1>7, <1>8, <1>9 DEF w

LEMMA EmptyListDecodes ==
  /\ DecodeLookupMulti(<<>>).value = List(<<>>)
  /\ DecodeMultiChoice(<<>>).value = List(<<>>)
<1>1. SplitMulti(<<>>) = <<>>
  BY EmptySplit
<1>2. Pairs(<<>>) = <<>>
  <2>1. Len(<<>>) \div 2 = 0
    OBVIOUS
  <2> QED
    BY <2>1 DEF Pairs
<1>3. Chosen(<<>>) = <<>>
  <2>1. SplitMulti(<<>>) \in Seq(Texts) /\ \A k \in DOMAIN SplitMulti(<<>>) : SplitMulti(<<>>)[k] # <<>>
    <3>1. \A u : u = <<>> => u \in Seq(Texts) /\ \A k \in DOMAIN u : u[k] # <<>>
      OBVIOUS
    <3> QED
      BY <1>1, <3>1, Zenon
  <2> QED
    BY <1>1, <2>1, ChosenIs
<1>4. [k \in DOMAIN Chosen(<<>>) |-> Text(Chosen(<<>>)[k])] = <<>>
  BY <1>3
<1> QED
  BY <1>1, <1>2, <1>4 DEF DecodeLookupMulti, DecodeMultiChoice, Plain

-----------------------------------------------------------------------------
(* What is stored, sent and decoded, by the type of its column.             *)
Soap(type, v, wrapped) == DecodeValue(type, SoapOf(type, v, wrapped))

LEMMA NothingSent ==
  ASSUME NEW type, NEW wrapped
  PROVE  SoapOf(type, Null, wrapped) = <<>>
<1>1. DOMAIN Null = {"null"}
  BY DEF Null
<1>2. /\ ~Has(Null, "text") /\ ~Has(Null, "number") /\ ~Has(Null, "bool")
      /\ ~Has(Null, "instant") /\ ~Has(Null, "term") /\ ~Has(Null, "id")
  BY <1>1 DEF Has
<1> QED
  BY <1>2 DEF SoapOf

LEMMA ListValue ==
  ASSUME NEW type \in MultiLookups, NEW v, Fits(type, v), NEW wrapped \in BOOLEAN
  PROVE  /\ Surplus(v) = 0 => Soap(type, v, wrapped).value = v
         /\ Surplus(v) <= 1 /\ (v.list # <<>> => ~EndsIn(Last(v.list).value, D))
            => Soap(type, v, wrapped).warned \/ Soap(type, v, wrapped).value = v
<1> DEFINE w == IF v.list = <<>> THEN <<>> ELSE Join([k \in DOMAIN v.list |-> Encoded(v.list[k])])
<1>1. v \in [list : Seq(Numbered)]
  BY DEF Fits, MultiLookups
<1>2. v = List(v.list) /\ DOMAIN v = {"list"} /\ v.list \in Seq(Numbered) /\ v # Null
  BY <1>1 DEF List, Null
<1>3. type # "MultiChoice"
  BY DEF MultiLookups
<1>4. SoapOf(type, v, wrapped) = w
  <2> HIDE DEF w
  <2>1. ~Has(v, "text") /\ ~Has(v, "number") /\ ~Has(v, "bool") /\ ~Has(v, "instant")
        /\ ~Has(v, "term") /\ ~Has(v, "id")
    BY <1>2 DEF Has
  <2> USE DEF w
  <2> QED
    BY <1>2, <1>3, <2>1 DEF SoapOf
<1>5. Soap(type, v, wrapped) = DecodeLookupMulti(w)
  <2> HIDE DEF w
  <2>1. \A u : DecodeValue(type, u) = DecodeLookupMulti(u)
    BY DEF DecodeValue, MultiLookups
  <2> QED
    BY <1>4, <2>1 DEF Soap
<1>6. CASE v.list = <<>>
  <2>1. w = <<>>
    BY <1>6
  <2>2. DecodeLookupMulti(w).value = v
    BY <1>2, <1>6, <2>1, EmptyListDecodes
  <2> QED
    BY <1>5, <2>2
<1>7. CASE v.list # <<>>
  <2>1. w = Join([k \in DOMAIN v.list |-> Encoded(v.list[k])])
    BY <1>7
  <2>2. /\ Surplus(v) = 0 => DecodeLookupMulti(w).value = List(v.list)
        /\ Surplus(v) = 1 /\ ~EndsIn(Last(v.list).value, D) => DecodeLookupMulti(w).warned
        /\ Surplus(v) \in Nat
    BY <1>2, <1>7, <2>1, ListDecodes
  <2> HIDE DEF w
  <2>3. Surplus(v) <= 1 => Surplus(v) = 0 \/ Surplus(v) = 1
    BY <2>2
  <2> QED
    BY <1>2, <1>5, <1>7, <2>2, <2>3
<1> QED
  BY <1>6, <1>7

LEMMA ChoicesValue ==
  ASSUME NEW v, Fits("MultiChoice", v), NEW wrapped \in BOOLEAN,
         \A k \in DOMAIN v.list : Choosable(v.list[k].text)
  PROVE  Soap("MultiChoice", v, wrapped).value = v
<1> DEFINE w == IF v.list = <<>> THEN <<>>
                ELSE <<D>> \o Join([k \in DOMAIN v.list |-> v.list[k].text]) \o <<D>>
<1>1. v \in [list : Seq([text : Texts])]
  BY DEF Fits, MultiLookups
<1>2. v = List(v.list) /\ DOMAIN v = {"list"} /\ v.list \in Seq([text : Texts]) /\ v # Null
  BY <1>1 DEF List, Null
<1>3. SoapOf("MultiChoice", v, wrapped) = w
  <2>1. ~Has(v, "text") /\ ~Has(v, "number") /\ ~Has(v, "bool") /\ ~Has(v, "instant")
        /\ ~Has(v, "term") /\ ~Has(v, "id")
    BY <1>2 DEF Has
  <2> QED
    BY <1>2, <2>1 DEF SoapOf
<1>4. Soap("MultiChoice", v, wrapped) = DecodeMultiChoice(w)
  <2> HIDE DEF w
  <2>1. \A u : DecodeValue("MultiChoice", u) = DecodeMultiChoice(u)
    BY DEF DecodeValue, MultiLookups
  <2> QED
    BY <1>3, <2>1 DEF Soap
<1>5. CASE v.list = <<>>
  <2>1. w = <<>>
    BY <1>5
  <2>2. DecodeMultiChoice(w).value = v
    BY <1>2, <1>5, <2>1, EmptyListDecodes
  <2> QED
    BY <1>4, <2>2
<1>6. CASE v.list # <<>>
  <2>1. w = <<D>> \o Join([k \in DOMAIN v.list |-> v.list[k].text]) \o <<D>>
    BY <1>6
  <2>2. DecodeMultiChoice(w).value = List(v.list)
    BY <1>2, <1>6, <2>1, ChoicesDecode
  <2> QED
    BY <1>2, <1>4, <2>2
<1> QED
  BY <1>5, <1>6

LEMMA ChoiceValue ==
  ASSUME NEW v, Fits("Choice", v), v # Null, NEW wrapped \in BOOLEAN, Choosable(v.text)
  PROVE  Soap("Choice", v, wrapped).value = v
<1>1. v \in {Null} \cup [text : Texts]
  BY DEF Fits, MultiLookups
<1>2. v.text \in Texts /\ v = Text(v.text) /\ DOMAIN v = {"text"}
  BY <1>1 DEF Text
<1>3. SoapOf("Choice", v, wrapped) = IF wrapped THEN <<D>> \o v.text \o <<D>> ELSE v.text
  BY <1>2 DEF SoapOf, Has
<1>4. \A u : DecodeValue("Choice", u) = DecodeChoice(u)
  BY DEF DecodeValue, MultiLookups
<1> QED
  BY <1>2, <1>3, <1>4, ChoiceDecodes DEF Soap

LEMMA EmptyLookup ==
  DecodeLookup(<<>>).value = Null /\ DecodeTaxonomy(<<>>).value = Null
<1>1. SplitMulti(<<>>) = <<>>
  BY EmptySplit
<1>2. DecodeLookup(<<>>) = Plain(Null)
  BY <1>1 DEF DecodeLookup
<1>3. Plain(Null).value = Null
  BY DEF Plain
<1> QED
  BY <1>2, <1>3 DEF DecodeTaxonomy

(* The id always, the whole of it unless it is behind no id or ends in a    *)
(* delimiter.                                                               *)
LEMMA LookupValue ==
  ASSUME NEW type \in {"Lookup", "User", "File"}, NEW v, Fits(type, v), NEW wrapped \in BOOLEAN
  PROVE  LET r == Soap(type, v, wrapped) IN
         \/ v = Null /\ r.value = Null
         \/ /\ v \in References /\ Has(v, "id") /\ DOMAIN v = {"id", "value"} /\ v # Null
            /\ v.id # NoId => r.value.id = v.id
            /\ v.id # NoId /\ ~EndsIn(v.value, D) => r.value = v
            /\ v.id = NoId /\ Choosable(v.value) /\ ~IsInt(v.value) => r.value = v
<1>1. v \in {Null} \cup References
  BY DEF Fits, MultiLookups
<1>2. \A u : DecodeValue(type, u) = DecodeLookup(u)
  BY DEF DecodeValue, MultiLookups
<1>3. CASE v = Null
  BY <1>2, <1>3, EmptyLookup, NothingSent DEF Soap
<1>4. CASE v \in References
  <2>1. v = Reference(v.id, v.value) /\ DOMAIN v = {"id", "value"} /\ v # Null
        /\ v.id \in Numbers \cup {NoId} /\ v.value \in Texts
    BY <1>4 DEF References, Reference, Null
  <2>2. Has(v, "id")
    BY <2>1 DEF Has
  <2>3. SoapOf(type, v, wrapped) = Encoded(v)
    BY <2>1 DEF SoapOf, Has
  <2>4. ASSUME v.id # NoId
        PROVE  Encoded(v) = Delimited(<<v.id>>, v.value) /\ v.id \in Numbers
    <3>1. <<v.id, D>> = <<v.id>> \o <<D>>
      OBVIOUS
    <3> QED
      BY <2>1, <2>4, <3>1 DEF Encoded, Delimited
  <2>5. ASSUME v.id = NoId PROVE Encoded(v) = v.value
    BY <2>5 DEF Encoded
  <2> QED
    BY <1>2, <1>4, <2>1, <2>2, <2>3, <2>4, <2>5, LookupDecodes, LabelDecodes DEF Soap
<1> QED
  BY <1>1, <1>3, <1>4

LEMMA TermValue ==
  ASSUME NEW v, Fits("TaxonomyFieldType", v), NEW wrapped \in BOOLEAN
  PROVE  Soap("TaxonomyFieldType", v, wrapped).value = v
<1>1. v \in {Null} \cup Tagged
  BY DEF Fits, MultiLookups
<1>2. \A u : DecodeValue("TaxonomyFieldType", u) = DecodeTaxonomy(u)
  BY DEF DecodeValue, MultiLookups
<1>3. CASE v = Null
  BY <1>2, <1>3, EmptyLookup, NothingSent DEF Soap
<1>4. CASE v \in Tagged
  <2>1. DOMAIN v = {"id", "value", "term"} /\ v # Null
    BY <1>4 DEF Tagged, Null
  <2>2. SoapOf("TaxonomyFieldType", v, wrapped) = <<v.id, D>> \o v.value \o <<"|", v.term>>
    BY <2>1 DEF SoapOf, Has
  <2> QED
    BY <1>2, <1>4, <2>2, TermDecodes DEF Soap
<1> QED
  BY <1>1, <1>3, <1>4

LEMMA WordValue ==
  ASSUME NEW type \in {"Number", "Currency", "Counter", "Integer", "FSObjType", "Boolean", "DateTime"},
         NEW v, Fits(type, v), NEW wrapped \in BOOLEAN, type = "Counter" => ~wrapped
  PROVE  Soap(type, v, wrapped).value = v
<1>1. CASE v = Null
  <2>1. SoapOf(type, v, wrapped) = <<>>
    BY <1>1, NothingSent
  <2>2. DecodeValue(type, <<>>) \in {DecodeNumber(<<>>), DecodeFSObjType(<<>>),
                                     DecodeBoolean(<<>>), DecodeDatetime(<<>>)}
    BY DEF DecodeValue, MultiLookups
  <2> QED
    BY <1>1, <2>1, <2>2, WordDecodes, ObjectTypeDecodes DEF Soap
<1>2. CASE v # Null /\ type \in {"Number", "Currency", "Counter", "Integer"}
  <2>1. v \in [number : Numbers]
    BY <1>2 DEF Fits, MultiLookups
  <2>2. v = Number(v.number) /\ DOMAIN v = {"number"} /\ v.number \in Numbers
    BY <2>1 DEF Number
  <2>3. SoapOf(type, v, wrapped) = <<v.number>>
    BY <1>2, <2>2 DEF SoapOf, Has
  <2>4. \A u : DecodeValue(type, u) = DecodeNumber(u)
    BY <1>2 DEF DecodeValue, MultiLookups
  <2> QED
    BY <2>2, <2>3, <2>4, WordDecodes DEF Soap
<1>3. CASE v # Null /\ type = "FSObjType"
  <2>1. v \in [number : Numbers]
    BY <1>3 DEF Fits, MultiLookups
  <2>2. v = Number(v.number) /\ DOMAIN v = {"number"} /\ v.number \in Numbers
    BY <2>1 DEF Number
  <2>3. SoapOf(type, v, wrapped) = IF wrapped THEN <<"1", D, v.number>> ELSE <<v.number>>
    BY <1>3, <2>2 DEF SoapOf, Has
  <2>4. \A u : DecodeValue(type, u) = DecodeFSObjType(u)
    BY <1>3 DEF DecodeValue, MultiLookups
  <2> QED
    BY <2>2, <2>3, <2>4, ObjectTypeDecodes DEF Soap
<1>4. CASE v # Null /\ type = "Boolean"
  <2>1. v \in [bool : BOOLEAN]
    BY <1>4 DEF Fits, MultiLookups
  <2>2. v = Truth(v.bool) /\ DOMAIN v = {"bool"} /\ v.bool \in BOOLEAN
    BY <2>1 DEF Truth
  <2>3. SoapOf(type, v, wrapped) = <<IF v.bool THEN "1" ELSE "0">>
    BY <1>4, <2>2 DEF SoapOf, Has
  <2>4. \A u : DecodeValue(type, u) = DecodeBoolean(u)
    BY <1>4 DEF DecodeValue, MultiLookups
  <2>5. DecodeBoolean(<<IF v.bool THEN "1" ELSE "0">>).value = Truth(v.bool)
    BY <2>2, WordDecodes, Zenon
  <2> QED
    BY <2>2, <2>3, <2>4, <2>5, Zenon DEF Soap
<1>5. CASE v # Null /\ type = "DateTime"
  <2>1. v \in [instant : Dates]
    BY <1>5 DEF Fits, MultiLookups
  <2>2. v = Instant(v.instant) /\ DOMAIN v = {"instant"} /\ v.instant \in Dates
    BY <2>1 DEF Instant
  <2>3. SoapOf(type, v, wrapped) = <<v.instant>>
    BY <1>5, <2>2 DEF SoapOf, Has
  <2>4. \A u : DecodeValue(type, u) = DecodeDatetime(u)
    BY <1>5 DEF DecodeValue, MultiLookups
  <2> QED
    BY <2>2, <2>3, <2>4, WordDecodes DEF Soap
<1> QED
  BY <1>1, <1>2, <1>3, <1>4, <1>5

LEMMA CalculatedValue ==
  ASSUME NEW v, Fits("Calculated", v), NEW wrapped \in BOOLEAN
  PROVE  Soap("Calculated", v, wrapped).value = v
<1>1. v \in {Null} \cup [text : Texts] \cup [number : Numbers]
  BY DEF Fits, MultiLookups
<1>2. \A u : DecodeValue("Calculated", u) = DecodeCalculated(u)
  BY DEF DecodeValue, MultiLookups
<1>3. CASE v = Null
  BY <1>2, <1>3, CalculatedDecodes, NothingSent DEF Soap
<1>4. CASE v \in [text : Texts]
  <2>1. v = Text(v.text) /\ v.text \in Texts /\ DOMAIN v = {"text"} /\ v # Null
    BY <1>4 DEF Text, Null
  <2>2. SoapOf("Calculated", v, wrapped) = <<"string", D>> \o v.text
    BY <2>1 DEF SoapOf, Has
  <2> QED
    BY <1>2, <2>1, <2>2, CalculatedDecodes DEF Soap
<1>5. CASE v \in [number : Numbers]
  <2>1. v = Number(v.number) /\ v.number \in Numbers /\ DOMAIN v = {"number"} /\ v # Null
    BY <1>5 DEF Number, Null
  <2>2. SoapOf("Calculated", v, wrapped) = <<"float", D, v.number>>
    BY <2>1 DEF SoapOf, Has
  <2> QED
    BY <1>2, <2>1, <2>2, CalculatedDecodes DEF Soap
<1> QED
  BY <1>1, <1>3, <1>4, <1>5

LEMMA TextValue ==
  ASSUME NEW type, type \notin Parsed, type \notin {"Choice", "MultiChoice"},
         NEW v, Fits(type, v), v # Null, NEW wrapped \in BOOLEAN
  PROVE  Soap(type, v, wrapped).value = v /\ v \in [text : Texts]
<1>1. v \in {Null} \cup [text : Texts]
  BY DEF Fits, MultiLookups, Parsed
<1>2. v = Text(v.text) /\ DOMAIN v = {"text"} /\ v \in [text : Texts]
  BY <1>1 DEF Text
<1>3. SoapOf(type, v, wrapped) = v.text
  BY <1>2 DEF SoapOf, Has, Parsed
<1>4. DecodeValue(type, v.text) = Plain(Text(v.text))
  BY DEF DecodeValue, Parsed, MultiLookups
<1> QED
  BY <1>2, <1>3, <1>4 DEF Soap, Plain

(* Hence a column of the row, once it is decoded.                           *)
LEMMA ColumnIs ==
  ASSUME StageInv, pc # "soap", NEW c \in DOMAIN soap
  PROVE  /\ c \in DOMAIN item /\ c \in Sent(item) /\ served.wrapped \in BOOLEAN
         /\ Fits(TypeOf(c), item[c])
         /\ soap[c] = Soap(TypeOf(c), item[c], served.wrapped)
         /\ Value(c) = Soap(TypeOf(c), item[c], served.wrapped).value
<1>1. /\ item \in Items /\ served \in Servings /\ raw = SoapRow /\ soap = DecodeRow(raw)
  BY DEF StageInv
<1>2. served.wrapped \in BOOLEAN
  BY <1>1, DecodeAssumption
<1>3. c \in Sent(item)
  BY <1>1 DEF DecodeRow, SoapRow
<1>4. c \in DOMAIN item
  BY <1>3 DEF Sent
<1>5. Fits(TypeOf(c), item[c])
  BY <1>1, <1>4, ItemIs
<1>6. soap[c] = Soap(TypeOf(c), item[c], served.wrapped)
  BY <1>1, <1>3 DEF DecodeRow, SoapRow, Soap
<1> QED
  BY <1>2, <1>3, <1>4, <1>5, <1>6 DEF Value

(* Nothing but a lookup or a term has an id.                                *)
LEMMA IdsAreLookups ==
  ASSUME NEW type, NEW v, Fits(type, v), type \notin {"Lookup", "User", "File", "TaxonomyFieldType"}
  PROVE  ~Has(v, "id")
<1>1. DOMAIN Null = {"null"}
  BY DEF Null
<1>2. v \in [list : Seq([text : Texts])] \cup [list : Seq(Numbered)] \cup {Null}
            \cup [text : Texts] \cup [number : Numbers] \cup [bool : BOOLEAN] \cup [instant : Dates]
  BY DEF Fits, MultiLookups
<1> QED
  BY <1>1, <1>2 DEF Has

LEMMA CleanColumn ==
  ASSUME StageInv, pc # "soap", NEW c \in DOMAIN soap, Clean(c)
  PROVE  Value(c) = item[c]
<1> DEFINE type == TypeOf(c)
           v == item[c]
           w == served.wrapped
<1>1. c \in Sent(item) /\ w \in BOOLEAN /\ Fits(type, v) /\ Value(c) = Soap(type, v, w).value
  BY ColumnIs
<1>2. v = Null => type \in Parsed
  BY <1>1 DEF Sent
<1>2a. type \notin {"Lookup", "User", "File", "TaxonomyFieldType"} => ~Has(v, "id")
  BY <1>1, IdsAreLookups
<1>3. CASE type \in MultiLookups
  <2>1. Surplus(v) = 0
    BY <1>3, <1>2a DEF Clean, MultiLookups
  <2> HIDE DEF v, type, w
  <2> QED
    BY <1>1, <1>3, <2>1, ListValue DEF v
<1>4. CASE type = "MultiChoice"
  <2>1. \A k \in DOMAIN v.list : Choosable(v.list[k].text)
    BY <1>4, <1>2a DEF Clean, MultiLookups
  <2> HIDE DEF v, type, w
  <2> QED
    BY <1>1, <1>4, <2>1, ChoicesValue DEF v
<1>5. CASE type = "Choice"
  <2>1. v # Null
    BY <1>2, <1>5 DEF Parsed, MultiLookups
  <2>2. Choosable(v.text)
    BY <1>5, <1>2a, <2>1 DEF Clean, MultiLookups
  <2> HIDE DEF v, type, w
  <2> QED
    BY <1>1, <1>5, <2>1, <2>2, ChoiceValue DEF v
<1>6. CASE type \in {"Lookup", "User", "File"}
  <2>1. /\ Has(v, "id") /\ v.id = NoId => Choosable(v.value) /\ ~IsInt(v.value)
        /\ Has(v, "id") /\ v.id # NoId => ~EndsIn(v.value, D)
    BY <1>6 DEF Clean, MultiLookups
  <2> HIDE DEF v, type, w
  <2>2. Soap(type, v, w).value = v
    BY <1>1, <1>6, <2>1, LookupValue
  <2> QED
    BY <1>1, <2>2 DEF v
<1>7. CASE type = "TaxonomyFieldType"
  <2> HIDE DEF v, type, w
  <2> QED
    BY <1>1, <1>7, TermValue DEF v
<1>8. CASE type \in {"Number", "Currency", "Counter", "Integer", "FSObjType", "Boolean", "DateTime"}
  <2>1. type = "Counter" => ~w
    BY <1>8, <1>2a DEF Clean, MultiLookups
  <2> HIDE DEF v, type, w
  <2> QED
    BY <1>1, <1>8, <2>1, WordValue DEF v
<1>9. CASE type = "Calculated"
  <2> HIDE DEF v, type, w
  <2> QED
    BY <1>1, <1>9, CalculatedValue DEF v
<1>10. CASE type \notin Parsed /\ type \notin {"Choice", "MultiChoice"}
  <2>1. v # Null
    BY <1>2, <1>10
  <2> HIDE DEF v, type, w
  <2> QED
    BY <1>1, <1>10, <2>1, TextValue DEF v
<1> QED
  BY <1>3, <1>4, <1>5, <1>6, <1>7, <1>8, <1>9, <1>10 DEF Parsed

LEMMA IdOfColumn ==
  ASSUME StageInv, pc # "soap", NEW c \in DOMAIN soap, Has(item[c], "id"), item[c].id # NoId
  PROVE  Value(c).id = item[c].id
<1> DEFINE type == TypeOf(c)
           v == item[c]
           w == served.wrapped
<1>1. w \in BOOLEAN /\ Fits(type, v) /\ Value(c) = Soap(type, v, w).value
  BY ColumnIs
<1>2. Has(v, "id") /\ v.id # NoId
  OBVIOUS
<1> HIDE DEF v, type, w
<1>3. DOMAIN Null = {"null"}
  BY DEF Null
<1>4. CASE type \in {"Lookup", "User", "File"}
  <2>1. v # Null
    BY <1>2, <1>3 DEF Has
  <2> QED
    BY <1>1, <1>2, <1>4, <2>1, LookupValue DEF v
<1>5. CASE type = "TaxonomyFieldType"
  BY <1>1, <1>5, TermValue DEF v
<1>6. CASE type \notin {"Lookup", "User", "File", "TaxonomyFieldType"}
  BY <1>1, <1>2, <1>6, IdsAreLookups
<1> QED
  BY <1>4, <1>5, <1>6

LEMMA WarnedColumn ==
  ASSUME StageInv, pc # "soap", NEW c \in DOMAIN soap, TypeOf(c) \in MultiLookups,
         Surplus(item[c]) <= 1,
         item[c].list # <<>> => ~EndsIn(Last(item[c].list).value, D)
  PROVE  soap[c].warned \/ Value(c) = item[c]
<1> DEFINE type == TypeOf(c)
           v == item[c]
           w == served.wrapped
<1>1. /\ w \in BOOLEAN /\ Fits(type, v) /\ type \in MultiLookups
      /\ soap[c] = Soap(type, v, w) /\ Value(c) = Soap(type, v, w).value
  BY ColumnIs
<1>2. Surplus(v) <= 1 /\ (v.list # <<>> => ~EndsIn(Last(v.list).value, D))
  OBVIOUS
<1> HIDE DEF v, type, w
<1> QED
  BY <1>1, <1>2, ListValue DEF v

(* What is stored is what is written, wherever the encoding is not          *)
(* ambiguous, and the id of a single lookup always, whatever its text holds *)
(* (decode.py:117-278, 340-485).                                            *)
THEOREM RoundTripHolds == Spec => []RoundTrip
<1>1. StageInv => RoundTrip
  <2> SUFFICES ASSUME StageInv, pc = "read", NEW c \in DOMAIN soap
               PROVE  /\ Clean(c) => Value(c) = item[c]
                      /\ Has(item[c], "id") /\ item[c].id # NoId => Value(c).id = item[c].id
    BY DEF RoundTrip
  <2>1. pc # "soap"
    OBVIOUS
  <2> QED
    BY <2>1, CleanColumn, IdOfColumn
<1>2. IInv => RoundTrip
  BY <1>1 DEF IInv
<1> QED
  BY <1>2, Invariance, PTL

(* A value of several lookups that one thing is wrong with is warned about  *)
(* (decode.py:268-278).                                                     *)
THEOREM WarnedOrWholeHolds == Spec => []WarnedOrWhole
<1>1. StageInv => WarnedOrWhole
  <2> SUFFICES ASSUME StageInv, pc = "read", NEW c \in DOMAIN soap, TypeOf(c) \in MultiLookups,
                      Surplus(item[c]) <= 1,
                      item[c].list # <<>> => ~EndsIn(Last(item[c].list).value, D)
               PROVE  soap[c].warned \/ Value(c) = item[c]
    BY DEF WarnedOrWhole
  <2>1. pc # "soap"
    OBVIOUS
  <2> QED
    BY <2>1, WarnedColumn
<1>2. IInv => WarnedOrWhole
  BY <1>1 DEF IInv
<1> QED
  BY <1>2, Invariance, PTL

-----------------------------------------------------------------------------
(* The two backends.                                                        *)

(* What a column of its own is sent as over REST, and what is written of it. *)
Service(type, v) == EntityOf(type, v, served.expanded, served.decimals)
Entered(c) == Service(TypeOf(c), item[c])
Rest(c) == Coerce(c, Convert(AsRead(Entered(c))))

(* A simple value comes over REST as it is, or as a string: a date, and a   *)
(* number that the service sends as a decimal.                              *)
LEMMA SimpleOverRest ==
  ASSUME NEW c \in ColumnNames, NEW type, type = TypeOf(c), NEW v, Fits(type, v),
         type # "MultiChoice", type \notin MultiLookups, ~Has(v, "id"),
         NEW expanded \in BOOLEAN, NEW decimals \in BOOLEAN,
         Has(v, "text") => ~IsDate(v.text),
         type \in {"Calculated", "FSObjType"} /\ Has(v, "number") => ~decimals
  PROVE  LET e == EntityOf(type, v, expanded, decimals) IN
         ~Has(e, "deferred") /\ Coerce(c, Convert(AsRead(e))) = v
<1> DEFINE e == EntityOf(type, v, expanded, decimals)
<1>1. e \in Values
  BY EntityOfIs
<1>2. DOMAIN Null = {"null"}
  BY DEF Null
<1>3. CASE v = Null
  <2>1. e = Null
    BY <1>2, <1>3 DEF EntityOf, Has
  <2> HIDE DEF e
  <2>2. AsRead(e) = Null /\ ~Has(e, "deferred") /\ ~Has(Null, "deferred") /\ ~Has(Null, "text")
    BY <1>1, <1>2, <2>1, AsReadIs DEF Has
  <2>3. Convert(Null) = Null
    BY <1>1, <2>1, <2>2, ConvertIs
  <2>4. Coerce(c, Null) = Null
    BY <2>2 DEF Coerce
  <2> QED
    BY <1>3, <2>2, <2>3, <2>4 DEF e
<1>4. CASE v \in [text : Texts]
  <2>1. DOMAIN v = {"text"} /\ ~Has(v, "deferred") /\ Has(v, "text")
        /\ ~Has(v, "number") /\ ~Has(v, "instant") /\ ~Has(v, "results") /\ v # Null
    BY <1>2, <1>4 DEF Has
  <2>2. e = v
    BY <2>1 DEF EntityOf, Has
  <2>3. AsRead(e) = v
    BY <1>1, <2>1, <2>2, AsReadIs
  <2>4. Convert(v) = v
    BY <2>1 DEF Convert, Has
  <2>5. type \notin {"Number", "Currency", "Integer", "Counter"}
    BY <1>4, <2>1 DEF Fits, MultiLookups, Has
  <2>6. Coerce(c, v) = v
    BY <2>5 DEF Coerce
  <2> HIDE DEF e
  <2> QED
    BY <2>1, <2>2, <2>3, <2>4, <2>6 DEF e
<1>5. CASE v \in [number : Numbers]
  <2>1. DOMAIN v = {"number"} /\ ~Has(v, "deferred") /\ ~Has(v, "text") /\ Has(v, "number")
        /\ ~Has(v, "instant") /\ ~Has(v, "results") /\ v # Null /\ v = Number(v.number)
        /\ v.number \in Numbers /\ ~Has(v, "entity")
    BY <1>2, <1>5 DEF Has, Number
  <2>2. CASE ~(decimals /\ type # "Counter")
    <3>1. e = v
      BY <2>1, <2>2 DEF EntityOf
    <3>2. AsRead(e) = v
      BY <1>1, <2>1, <3>1, AsReadIs
    <3>3. Convert(v) = v /\ Coerce(c, v) = v
      BY <2>1 DEF Convert, Coerce
    <3> HIDE DEF e
    <3> QED
      BY <2>1, <3>1, <3>2, <3>3 DEF e
  <2>3. CASE decimals /\ type # "Counter"
    <3> DEFINE t == Text(<<v.number>>)
    <3>1. e = t
      BY <2>1, <2>3 DEF EntityOf
    <3>2. DOMAIN t = {"text"} /\ t.text = <<v.number>>
      BY DEF Text
    <3>3. IsInt(t.text) /\ t.text[1] = v.number /\ ~IsDate(t.text)
      <4>1. v.number \notin Dates
        BY <2>1 DEF Numbers, Dates
      <4>2. IsInt(<<v.number>>) /\ ~IsDate(<<v.number>>) /\ <<v.number>>[1] = v.number
        BY <2>1, <4>1 DEF IsInt, IsDate
      <4> QED
        BY <3>2, <4>2
    <3> HIDE DEF e, t
    <3>4. Has(t, "text") /\ ~Has(t, "deferred") /\ ~Has(t, "results") /\ t # Null
      BY <1>2, <3>2 DEF Has
    <3>5. AsRead(e) = t
      BY <1>1, <3>1, <3>4, AsReadIs
    <3>6. Convert(t) = t
      BY <3>2, <3>3, <3>4 DEF Convert, Has
    <3>7. type \in {"Number", "Currency", "Integer"}
      <4>1. \A r \in References \cup Tagged : "id" \in DOMAIN r
        BY DEF References, Tagged
      <4>2. v \notin References /\ v \notin Tagged
        BY <2>1, <4>1
      <4>3. type \in {"Number", "Currency", "Counter", "Integer", "FSObjType", "Calculated"}
        BY <2>1, <4>2 DEF Fits, MultiLookups
      <4> QED
        BY <2>1, <2>3, <4>3
    <3>8. Coerce(c, t) = v
      BY <2>1, <3>3, <3>4, <3>7 DEF Coerce
    <3> QED
      BY <3>1, <3>4, <3>5, <3>6, <3>8 DEF e
  <2> QED
    BY <2>2, <2>3
<1>6. CASE v \in [bool : BOOLEAN]
  <2>1. DOMAIN v = {"bool"}
    BY <1>6
  <2>2. ~Has(v, "deferred") /\ ~Has(v, "text") /\ ~Has(v, "number") /\ ~Has(v, "entity")
        /\ ~Has(v, "instant") /\ ~Has(v, "results")
    BY <2>1 DEF Has
  <2>3. e = v
    BY <2>2 DEF EntityOf
  <2> HIDE DEF e
  <2>4. AsRead(e) = v
    BY <1>1, <2>2, <2>3, AsReadIs
  <2>5. Convert(v) = v /\ Coerce(c, v) = v
    BY <2>2 DEF Convert, Coerce
  <2> QED
    BY <2>2, <2>3, <2>4, <2>5 DEF e
<1>7. CASE v \in [instant : Dates]
  <2> DEFINE t == Text(<<v.instant>>)
             i == Instant(v.instant)
  <2>1. DOMAIN v = {"instant"} /\ v = i /\ v.instant \in Dates
    BY <1>7 DEF Instant
  <2>2. Has(v, "instant") /\ ~Has(v, "number") /\ ~Has(v, "text")
    BY <2>1 DEF Has
  <2>3. e = t
    BY <2>2 DEF EntityOf
  <2>4. DOMAIN t = {"text"} /\ t.text = <<v.instant>>
    BY DEF Text
  <2>5. IsDate(t.text) /\ t.text[1] = v.instant
    BY <2>1, <2>4 DEF IsDate
  <2> HIDE DEF e, t
  <2>6. Has(t, "text") /\ ~Has(t, "deferred") /\ ~Has(t, "results")
    BY <2>4 DEF Has
  <2>7. AsRead(e) = t
    BY <1>1, <2>3, <2>6, AsReadIs
  <2>8. Convert(t) = v
    BY <2>1, <2>4, <2>5, <2>6 DEF Convert, Has
  <2>9. Coerce(c, v) = v
    BY <2>2 DEF Coerce
  <2> QED
    BY <2>3, <2>6, <2>7, <2>8, <2>9 DEF e
<1> QED
  <2>1. v \in {Null} \cup [text : Texts] \cup [number : Numbers] \cup [bool : BOOLEAN]
              \cup [instant : Dates]
    <3>1. type \in {"Lookup", "User", "File"} => v = Null
      <4>1. ~Has(v, "id")
        OBVIOUS
      <4>2. \A r \in References : Has(r, "id")
        BY DEF References, Has
      <4> QED
        BY <4>1, <4>2 DEF Fits, MultiLookups
    <3>2. type = "TaxonomyFieldType" => v = Null
      <4>1. ~Has(v, "id")
        OBVIOUS
      <4>2. \A r \in Tagged : Has(r, "id")
        BY DEF Tagged, Has
      <4> QED
        BY <4>1, <4>2 DEF Fits, MultiLookups
    <3> QED
      BY <3>1, <3>2 DEF Fits
  <2> QED
    BY <1>3, <1>4, <1>5, <1>6, <1>7, <2>1

(* What the service sends of a value.                                       *)
LEMMA ServiceIs ==
  ASSUME StageInv
  PROVE  /\ served.expanded \in BOOLEAN /\ served.decimals \in BOOLEAN /\ served.atom \in BOOLEAN
         /\ \A type, v : Fits(type, v) => Service(type, v) \in Values
<1>1. served \in Servings
  BY DEF StageInv
<1>2. served \in [atom : BOOLEAN, expanded : BOOLEAN, decimals : BOOLEAN, wrapped : BOOLEAN]
  BY <1>1, DecodeAssumption
<1>3. served.expanded \in BOOLEAN /\ served.decimals \in BOOLEAN /\ served.atom \in BOOLEAN
  BY <1>2
<1> QED
  BY <1>3, EntityOfIs, Zenon DEF Service

(* An expanded lookup comes as its id and its title.                        *)
LEMMA ReferenceOverRest ==
  ASSUME NEW c, NEW type, NEW v, Fits(type, v), Has(v, "id"), ~Has(v, "term"),
         StageInv, served.expanded, NEW e, e = Service(type, v)
  PROVE  ~Has(e, "deferred") /\ Coerce(c, Convert(AsRead(e))) = v
<1>1. e \in Values
  BY ServiceIs
<1>1a. type \in {"Lookup", "User", "File", "TaxonomyFieldType"}
  BY IdsAreLookups
<1>2. v \in References
  <2>1. ~Has(Null, "id") /\ \A r \in Tagged : Has(r, "term")
    BY DEF Has, Null, Tagged
  <2> QED
    BY <1>1a, <2>1 DEF Fits, MultiLookups
<1>3. DOMAIN v = {"id", "value"} /\ v = Reference(v.id, v.value)
  BY <1>2 DEF References, Reference
<1>4. e = Entity(v)
  <2>1. \A d : \A x \in BOOLEAN : x => EntityOf(type, v, x, d) = Entity(v)
    BY <1>3, <1>1a DEF EntityOf, Has, MultiLookups
  <2> QED
    BY <2>1, ServiceIs DEF Service
<1>5. /\ DOMAIN Entity(v) = {"entity"} /\ Entity(v).entity.id = v.id
      /\ Entity(v).entity.title = v.value
  BY DEF Entity
<1>6. Has(e, "entity") /\ ~Has(e, "deferred") /\ ~Has(e, "results")
  BY <1>4, <1>5 DEF Has
<1>7. AsRead(e) = e
  BY <1>1, <1>6, AsReadIs
<1>8. Convert(e) = v
  BY <1>1, <1>3, <1>4, <1>5, <1>6, ConvertIs
<1>9. Coerce(c, v) = v
  BY <1>3 DEF Coerce, Has
<1> QED
  BY <1>6, <1>7, <1>8, <1>9

(* A collection comes as one, unless it is empty and sent as Atom.          *)
LEMMA ResultsConvert ==
  ASSUME NEW s, NEW c
  PROVE  LET e == [results |-> s] IN
         /\ ~Has(e, "deferred")
         /\ Coerce(c, Convert(e)) =
                List([k \in DOMAIN s |->
                        IF Has(s[k], "entity") THEN ReferenceOf(s[k].entity)
                        ELSE IF IsDate(s[k].text) THEN Instant(s[k].text[1])
                        ELSE s[k]])
<1> DEFINE e == [results |-> s]
           w == [k \in DOMAIN s |->
                        IF Has(s[k], "entity") THEN ReferenceOf(s[k].entity)
                        ELSE IF IsDate(s[k].text) THEN Instant(s[k].text[1])
                        ELSE s[k]]
<1>1. DOMAIN e = {"results"} /\ e.results = s
  OBVIOUS
<1>2. Has(e, "results") /\ ~Has(e, "text") /\ ~Has(e, "entity") /\ ~Has(e, "deferred")
  BY <1>1 DEF Has
<1> HIDE DEF e
<1>3. Convert(e) = List(w)
  BY <1>1, <1>2 DEF Convert
<1> HIDE DEF w
<1>4. Coerce(c, List(w)) = List(w)
  <2>1. ~Has(List(w), "text")
    BY DEF Has, List
  <2> QED
    BY <2>1 DEF Coerce
<1> QED
  BY <1>2, <1>3, <1>4 DEF e, w

LEMMA ChoicesOverRest ==
  ASSUME NEW c, NEW v, Fits("MultiChoice", v), NEW expanded \in BOOLEAN, NEW decimals \in BOOLEAN,
         served.atom => v.list # <<>>, \A k \in DOMAIN v.list : ~IsDate(v.list[k].text)
  PROVE  LET e == EntityOf("MultiChoice", v, expanded, decimals) IN
         ~Has(e, "deferred") /\ Coerce(c, Convert(AsRead(e))) = v
<1> DEFINE e == EntityOf("MultiChoice", v, expanded, decimals)
           s == v.list
           w == [k \in DOMAIN s |->
                        IF Has(s[k], "entity") THEN ReferenceOf(s[k].entity)
                        ELSE IF IsDate(s[k].text) THEN Instant(s[k].text[1])
                        ELSE s[k]]
<1>1. v = List(s) /\ DOMAIN v = {"list"} /\ s \in Seq([text : Texts])
  BY DEF Fits, MultiLookups, List
<1>2. e \in Values
  BY EntityOfIs
<1>3. e = [results |-> s]
  BY <1>1 DEF EntityOf, Has, MultiLookups
<1>4. served.atom => s # <<>>
  OBVIOUS
<1>5. w = s
  <2>1. ASSUME NEW k \in DOMAIN s PROVE ~Has(s[k], "entity") /\ ~IsDate(s[k].text)
    <3>1. s[k] \in [text : Texts]
      BY <1>1, MemberIs
    <3>2. DOMAIN s[k] = {"text"}
      BY <3>1
    <3> QED
      BY <3>2 DEF Has
  <2>2. w = [k \in DOMAIN s |-> s[k]]
    BY <2>1
  <2> HIDE DEF s
  <2> QED
    BY <1>1, <2>2
<1> HIDE DEF e, s
<1>6. AsRead(e) = e
  <2>1. e.results = s
    BY <1>3
  <2> QED
    BY <1>2, <1>4, <2>1, AsReadIs
<1>7. ~Has(e, "deferred") /\ Coerce(c, Convert(e)) = List(w)
  BY <1>3, ResultsConvert
<1> HIDE DEF w
<1> QED
  BY <1>1, <1>5, <1>6, <1>7 DEF e

LEMMA ListOverRest ==
  ASSUME NEW c, NEW type \in MultiLookups, NEW v, Fits(type, v),
         StageInv, served.expanded, served.atom => v.list # <<>>, NEW e, e = Service(type, v)
  PROVE  ~Has(e, "deferred") /\ Coerce(c, Convert(AsRead(e))) = v
<1> DEFINE s == v.list
           u == [k \in DOMAIN s |-> Entity(s[k])]
           w == [k \in DOMAIN u |->
                        IF Has(u[k], "entity") THEN ReferenceOf(u[k].entity)
                        ELSE IF IsDate(u[k].text) THEN Instant(u[k].text[1])
                        ELSE u[k]]
<1>1. v = List(s) /\ DOMAIN v = {"list"} /\ s \in Seq(Numbered)
  BY DEF Fits, MultiLookups, List
<1>2. e \in Values
  BY ServiceIs
<1>3. e = [results |-> u]
  <2>1. type # "MultiChoice" /\ ~Has(v, "number") /\ ~Has(v, "instant") /\ ~Has(v, "id")
    BY <1>1 DEF MultiLookups, Has
  <2>2. \A d : \A x \in BOOLEAN : x => EntityOf(type, v, x, d) = [results |-> u]
    BY <2>1 DEF EntityOf
  <2> HIDE DEF u
  <2> QED
    BY <2>2, ServiceIs DEF Service
<1>4. served.atom => u # <<>>
  <2>1. served.atom => s # <<>>
    OBVIOUS
  <2> HIDE DEF s
  <2>2. s # <<>> => 1 \in DOMAIN s
    BY <1>1, EmptySeq, LenProperties
  <2>3. 1 \notin DOMAIN <<>>
    OBVIOUS
  <2> QED
    BY <2>1, <2>2, <2>3
<1> HIDE DEF s
<1>5. w = s
  <2>1. ASSUME NEW k \in DOMAIN s PROVE Has(u[k], "entity") /\ ReferenceOf(u[k].entity) = s[k]
    <3>1. s[k] \in Numbered
      BY <1>1, MemberIs
    <3>2. s[k] = Reference(s[k].id, s[k].value)
      BY <3>1, EncodedIs
    <3>3. u[k] = Entity(s[k])
      BY <2>1
    <3>4. /\ DOMAIN u[k] = {"entity"} /\ u[k].entity.id = s[k].id
          /\ u[k].entity.title = s[k].value
      BY <3>3 DEF Entity
    <3> QED
      BY <3>2, <3>4 DEF ReferenceOf, Has
  <2>2. DOMAIN u = DOMAIN s
    OBVIOUS
  <2> HIDE DEF u
  <2>3. w = [k \in DOMAIN s |-> s[k]]
    BY <2>1, <2>2
  <2> QED
    BY <1>1, <2>3
<1> HIDE DEF u
<1>6. AsRead(e) = e
  <2>1. e.results = u
    BY <1>3
  <2> QED
    BY <1>2, <1>4, <2>1, AsReadIs
<1>7. ~Has(e, "deferred") /\ Coerce(c, Convert(e)) = List(w)
  BY <1>3, ResultsConvert
<1> HIDE DEF w
<1> QED
  BY <1>1, <1>5, <1>6, <1>7

(* Hence a column that is comparable, but a lookup that is not expanded.    *)
LEMMA ComparableOverRest ==
  ASSUME StageInv, NEW c \in DOMAIN item, Comparable(c), IsReference(c) => served.expanded
  PROVE  ~Has(Entered(c), "deferred") /\ Rest(c) = item[c]
<1> DEFINE type == TypeOf(c)
           v == item[c]
           e == Service(type, v)
<1>1. /\ c \in ColumnNames /\ Fits(type, v)
      /\ served.expanded \in BOOLEAN /\ served.decimals \in BOOLEAN /\ served.atom \in BOOLEAN
  <2>1. item \in Items
    BY DEF StageInv
  <2> QED
    BY <2>1, ItemIs, ServiceIs
<1>2. /\ Has(v, "text") => ~IsDate(v.text)
      /\ type = "MultiChoice" => \A k \in DOMAIN v.list : ~IsDate(v.list[k].text)
      /\ type \in {"Calculated", "FSObjType"} /\ Has(v, "number") => ~served.decimals
      /\ ~Has(v, "term")
      /\ type \in MultiLookups => served.expanded
      /\ Has(v, "list") /\ served.atom => v.list # <<>>
      /\ Has(v, "id") => served.expanded
  BY DEF Comparable, IsReference
<1>3. /\ Entered(c) = e /\ e = Service(type, v)
      /\ Rest(c) = Coerce(c, Convert(AsRead(e)))
  BY DEF Entered, Rest, Service
<1>4. type = TypeOf(c) /\ v = item[c]
  OBVIOUS
<1>4a. e = EntityOf(type, v, served.expanded, served.decimals)
  BY DEF Service
<1> HIDE DEF type, v, e
<1>5. CASE Has(v, "id")
  <2>1. served.expanded
    BY <1>2, <1>5
  <2>2. ~Has(e, "deferred") /\ Coerce(c, Convert(AsRead(e))) = v
    BY <1>1, <1>2, <1>3, <1>5, <2>1, ReferenceOverRest
  <2> QED
    BY <1>3, <1>4, <2>2, Zenon
<1>6. CASE type = "MultiChoice"
  <2>1. Has(v, "list")
    BY <1>1, <1>6, StoredIs DEF Has
  <2> QED
    BY <1>1, <1>2, <1>3, <1>4, <1>4a, <1>6, <2>1, ChoicesOverRest
<1>7. CASE type \in MultiLookups
  <2>1. Has(v, "list")
    BY <1>1, <1>7, StoredIs DEF Has, MultiLookups
  <2>2. served.expanded
    BY <1>2, <1>7
  <2>3. served.atom => v.list # <<>>
    BY <1>2, <2>1
  <2>4. ~Has(e, "deferred") /\ Coerce(c, Convert(AsRead(e))) = v
    BY <1>1, <1>3, <1>7, <2>2, <2>3, ListOverRest
  <2> QED
    BY <1>3, <1>4, <2>4, Zenon
<1>8. CASE ~Has(v, "id") /\ type # "MultiChoice" /\ type \notin MultiLookups
  BY <1>1, <1>2, <1>3, <1>4, <1>4a, <1>8, SimpleOverRest
<1> QED
  BY <1>5, <1>6, <1>7, <1>8

LEMMA OverSoap ==
  ASSUME StageInv, pc # "soap", NEW c \in DOMAIN item
  PROVE  /\ Clean(c) => Value(c) = item[c]
         /\ Has(item[c], "id") => c \in DOMAIN soap
<1>1. DOMAIN soap = Sent(item)
  BY DEF StageInv, DecodeRow, SoapRow
<1>2. CASE c \in DOMAIN soap
  BY <1>2, CleanColumn
<1>3. CASE c \notin DOMAIN soap
  <2>1. item[c] = Null
    BY <1>1, <1>3 DEF Sent
  <2>2. ~Has(Null, "id")
    BY DEF Has, Null
  <2> QED
    BY <1>3, <2>1, <2>2 DEF Value
<1> QED
  BY <1>2, <1>3

(* What a comparable column's property holds, and where it is.              *)
LEMMA ComparableIs ==
  ASSUME StageInv, pc = "done", NEW c \in DOMAIN item, Comparable(c)
  PROVE  \E p \in DOMAIN entity :
            /\ p.of = c /\ Own(p) = c /\ Undisturbed(p)
            /\ p.id <=> IsReference(c) /\ ~served.expanded
            /\ ~p.id => entity[p] = Entered(c) /\ Written(p) = Rest(c)
            /\ p.id => entity[p] = Number(item[c].id) /\ item[c].id \in Numbers
<1>1. PICK p \in DOMAIN entity :
        p.of = c /\ (p.id <=> IsReference(c) /\ ~served.expanded) /\ Undisturbed(p)
  BY DEF Comparable
<1>2. c \in ColumnNames /\ c # "None"
  <2>1. item \in Items
    BY DEF StageInv
  <2> QED
    BY <2>1, ItemIs, DecodeAssumption
<1>3. Own(p) = c
  BY <1>1, <1>2 DEF Own
<1>4. ASSUME ~p.id PROVE entity[p] = Entered(c) /\ Written(p) = Rest(c)
  <2>1. entity[p] = Entered(c)
    BY <1>1, <1>2, <1>4, EntityIs DEF Entered, Service
  <2>2. InternalName(p) = c
    <3>1. Target(p) = c
      BY <1>1, <1>3, <1>4 DEF Undisturbed, Fitting, Taken
    <3> QED
      BY <1>2, <3>1, EntityIs, PropertyIs
  <2> QED
    BY <2>1, <2>2, ReadIs DEF Written, Rest
<1>5. ASSUME p.id PROVE entity[p] = Number(item[c].id) /\ item[c].id \in Numbers
  <2>1. item[c] # Null
    BY <1>1, <1>5 DEF IsReference, Has, Null
  <2> QED
    BY <1>1, <1>5, <2>1, EntityIs DEF Lookup
<1> QED
  BY <1>1, <1>3, <1>4, <1>5

(* The two backends write the same values, whichever representation and     *)
(* order the service sends (crawl.py:332-362, services/odata.py:615-715).   *)
THEOREM BackendsAgreeHolds == Spec => []BackendsAgree
<1>1. ASSUME StageInv, NoColumnLost, pc = "done" PROVE BackendsAgree
  <2> SUFFICES ASSUME NEW c \in DOMAIN item, Comparable(c)
               PROVE  IF IsReference(c) /\ ~served.expanded
                      THEN Over(c).id = Value(c).id
                      ELSE Over(c) = Value(c)
    BY DEF BackendsAgree
  <2>1. PICK p \in DOMAIN entity :
            /\ p.of = c /\ Own(p) = c /\ Undisturbed(p)
            /\ p.id <=> IsReference(c) /\ ~served.expanded
            /\ ~p.id => entity[p] = Entered(c) /\ Written(p) = Rest(c)
            /\ p.id => entity[p] = Number(item[c].id) /\ item[c].id \in Numbers
    BY <1>1, ComparableIs
  <2>2. \/ Has(entity[p], "deferred")
        \/ /\ c \in DOMAIN row
           /\ IF p.id THEN row[c].id = entity[p].number ELSE row[c] = Written(p)
    BY <1>1, <2>1 DEF NoColumnLost
  <2>3. CASE ~(IsReference(c) /\ ~served.expanded)
    <3>1. ~Has(Entered(c), "deferred") /\ Rest(c) = item[c]
      BY <1>1, <2>3, ComparableOverRest
    <3>2. c \in DOMAIN row /\ row[c] = item[c]
      BY <2>1, <2>2, <2>3, <3>1
    <3>3. Value(c) = item[c]
      BY <1>1, OverSoap DEF Comparable
    <3> QED
      BY <2>3, <3>2, <3>3 DEF Over
  <2>4. CASE IsReference(c) /\ ~served.expanded
    <3>1. \A n : ~Has(Number(n), "deferred") /\ Number(n).number = n
      BY DEF Number, Has
    <3>2. c \in DOMAIN row /\ row[c].id = item[c].id
      BY <2>1, <2>2, <2>4, <3>1
    <3>3. item[c].id # NoId
      BY <2>1, <2>4 DEF Numbers, NoId
    <3>4. Value(c).id = item[c].id
      BY <1>1, <2>4, <3>3, OverSoap, IdOfColumn DEF IsReference
    <3> QED
      BY <2>4, <3>2, <3>4 DEF Over
  <2> QED
    BY <2>3, <2>4
<1>2. IInv => BackendsAgree
  <2>1. pc # "done" => BackendsAgree
    BY DEF BackendsAgree
  <2> QED
    BY <1>1, <2>1 DEF IInv
<1> QED
  BY <1>2, Invariance, PTL
=============================================================================
