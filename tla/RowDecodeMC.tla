------------------------------ MODULE RowDecodeMC ------------------------------
(***************************************************************************)
(* A list of seventeen columns, and items that vary a few of them at a time. *)
(* Title0 is displayed as Title is called inside, and AuftragId is called   *)
(* as the id of Auftrag would be.                                           *)
(***************************************************************************)
EXTENDS RowDecode

Name(uni, ascii) == [uni |-> uni, ascii |-> ascii]
Same(n) == Name(n, n)
Column(name, type, candidates) == [name |-> name, type |-> type, candidates |-> candidates]

ListColumns ==
    << Column("ID", "Counter", {Same("id")}),
       Column("Title", "Text", {Same("titel"), Same("title")}),
       Column("Kunde", "Lookup", {Same("kunde")}),
       Column("Meldungen", "LookupMulti", {Same("meldungen")}),
       Column("Kategorie", "MultiChoice", {Same("kategorie")}),
       Column("Status", "Choice", {Same("status")}),
       Column("Kosten", "Currency", {Same("kosten")}),
       Column("Erledigt", "Boolean", {Same("erledigt")}),
       Column("Eingegangen", "DateTime", {Same("eingegangen")}),
       Column("Gr_x00f6__x00df_e", "Number", {Name("groesse", "gre"), Name("grx00f6x00dfe", "grx00f6x00dfe")}),
       Column("Thema", "TaxonomyFieldType", {Same("thema")}),
       Column("Summe", "Calculated", {Same("summe")}),
       Column("FSObjType", "FSObjType", {Same("fsobjtype")}),
       Column("FileRef", "Lookup", {Same("fileref")}),
       Column("Title0", "Text", {Same("title"), Same("title0")}),
       Column("Auftrag", "Text", {Same("auftrag")}),
       Column("AuftragId", "Integer", {Same("auftragid")}) >>

Property(of, key, n, base) ==
    [of |-> of, key |-> key, uni |-> n.uni, ascii |-> n.ascii, base |-> base, id |-> key = "KundeId"]
ListProperties ==
    { Property("ID", "Id", Same("id"), <<>>),
      Property("Title", "Titel", Same("titel"), <<>>),
      Property("Kunde", "Kunde", Same("kunde"), <<>>),
      Property("Kunde", "KundeId", Same("kundeid"), <<Same("kunde")>>),
      Property("Meldungen", "Meldungen", Same("meldungen"), <<>>),
      Property("Kategorie", "Kategorie", Same("kategorie"), <<>>),
      Property("Status", "Status", Same("status"), <<>>),
      Property("Kosten", "Kosten", Same("kosten"), <<>>),
      Property("Erledigt", "Erledigt", Same("erledigt"), <<>>),
      Property("Eingegangen", "Eingegangen", Same("eingegangen"), <<>>),
      Property("Gr_x00f6__x00df_e", "Gre", Same("gre"), <<>>),
      Property("Thema", "Thema", Same("thema"), <<>>),
      Property("Summe", "Summe", Same("summe"), <<>>),
      Property("Title0", "Title", Same("title"), <<>>),
      Property("Auftrag", "Auftrag", Same("auftrag"), <<>>),
      Property("AuftragId", "AuftragId", Same("auftragid"), <<Same("auftrag")>>),
      Property("None", "SomeFutureColumn", Same("somefuturecolumn"), <<>>) }

SomeTexts == {<<"M">>, <<>>, <<"9">>, <<"M", D, "B">>, <<"M", D>>, <<D, "B">>}
Lookups == {Reference(id, t) : id \in {"7", "9"}, t \in SomeTexts}
ID == [x \in {"ID"} |-> Number("7")]
With(f, c, values) == {Put(f, c, v) : v \in values}
Alternatives(f, c, values, d, more) == UNION {With(g, d, more) : g \in With(f, c, values)}

ListItems ==
    Alternatives(ID, "Title", {Null, Text(<<"M">>), Text(<<"7">>), Text(<<"2009-03-14">>), Text(<<"M", D>>)},
                     "Kunde", Lookups \cup {Null})
    \cup With(ID, "Meldungen", {List(<<>>)} \cup {List(<<a>>) : a \in Lookups}
                                 \cup {List(<<a, b>>) : a \in Lookups, b \in Lookups})
    \cup UNION {Alternatives(f, "Kosten", {Null, Number("9")}, "Erledigt", {Null, Truth(TRUE), Truth(FALSE)}) :
            f \in Alternatives(ID, "Kategorie",
                    {List(<<>>), List(<<Text(<<"M">>)>>), List(<<Text(<<"M">>), Text(<<"7">>)>>),
                     List(<<Text(<<"2009-03-14">>)>>), List(<<Text(<<"M", D, "B">>), Text(<<>>)>>)},
                    "Status", {Null, Text(<<"M">>), Text(<<D, "B", D>>)})}
    \cup Alternatives(ID, "Eingegangen", {Null, Instant("2009-03-14")},
                          "Gr_x00f6__x00df_e", {Null, Number("9")})
    \cup UNION {Alternatives(f, "Summe", {Null, Number("9"), Text(<<"M">>), Text(<<"M", D, "B">>)},
                                "FSObjType", {Number("0"), Number("1")}) :
            f \in Alternatives(ID, "Thema",
                    {Null, [id |-> "7", value |-> <<"M">>, term |-> "9f8e7d6c"],
                           [id |-> "7", value |-> <<"M", "|", "B">>, term |-> "9f8e7d6c"]},
                    "FileRef", {Null, Reference("7", <<"M">>)} \cup {Reference(NoId, t) : t \in SomeTexts})}
    \cup Alternatives(ID, "Title", {Null, Text(<<"M">>)}, "Title0", {Null, Text(<<"B">>)})
    \cup Alternatives(ID, "Auftrag", {Null, Text(<<"M">>)}, "AuftragId", {Null, Number("9")})
    \cup With(ID, "AuftragId", {Number("9")})
ListServings == [atom : BOOLEAN, expanded : BOOLEAN, decimals : BOOLEAN, wrapped : BOOLEAN]
=============================================================================
