----------------------------- MODULE MCCatalog ------------------------------
(* A model-checking instance of Catalog: a table name in two schemas and   *)
(* in one that is unknown, a name with a quote, and three lists of columns *)
(* of which two have a name that does not come back from its text.         *)
EXTENDS Catalog

Def(n, t) == [name |-> n, type |-> t]
Lit(n)    == Scalar("Int64", n)

MCTableRef    == {<<InformationSchema, "t">>, <<DefaultSchema, "t">>, <<DefaultSchema, "o'n">>,
                  <<"unknown", "t">>}
MCColumnDefs  == {<<Def("a", "Int8"), Def("b", "Int32")>>, <<Def("a", "Int8"), Def("a", "Int8")>>,
                  <<Def("a, b", "Int8"), Def("a", "Float64")>>,
                  <<Def("a", "Int8"), Def("b", "Int8"), Def("a, b", "Int32")>>}
MCKeyLists    == {<<"b", "a">>, <<"a, b">>, <<"a", "a, b">>}
MCColumnLists == {<<>>, <<"b", "a">>, <<"b">>, <<"b", "b">>}
MCLiterals    == {<<Lit(300), Lit(300)>>, <<Scalar("Boolean", TRUE), Lit(1)>>}
MCValues      == {Lit(2)}
MCSelections  == {[name |-> "b", value |-> Lit(300)]}

(* What names become in text: "a, b" is cut and trimmed, and a quote ends  *)
(* the text of a query.                                                    *)
MCPieces(name) == IF name = "a, b" THEN <<"a", "b">> ELSE <<name>>

MCSelected(ref) == IF ref[2] = "o'n" THEN Err ELSE {ref}

(* What is left out: assertions without a journal, and a table that is not *)
(* plain without a journal, or with tables of another schema, or with more *)
(* than one row in the database.                                           *)
Explored ==
  /\ durable \/ ~assertions
  /\ \A d \in Databases :
       (\E ref \in DOMAIN d.tables : ~Plain(d, ref)) =>
         /\ durable /\ Len(FlattenSeq(d.pages.heaps)) <= 1
         /\ \A ref \in DOMAIN d.tables : ref[1] = DefaultSchema
=============================================================================
