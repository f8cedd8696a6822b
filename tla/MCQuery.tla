------------------------------ MODULE MCQuery -------------------------------
(***************************************************************************)
(* Model-checking instances of Query: two tables of three pages and of one *)
(* page, with an index, an unreadable page, a row that does not decode or  *)
(* a cycle in a chain, and queries that stack the executors.               *)
(***************************************************************************)
EXTENDS Query

(* Databases. *)
Int32(n) == Scalar("Int32", n)
Row2(x, y) == <<Int32(x), Int32(y)>>
Page(rs, next) == [rows |-> rs, next |-> next, readable |-> TRUE]

T == <<"public", "t">>
U == <<"public", "u">>

(* The columns of u have lost their relation, as those of a loaded table.  *)
SchemaT == <<Column(<<"t">>, "a", "Int32"), Column(<<"t">>, "b", "Int32")>>
SchemaU == <<Column(Null, "c", "Int32"), Column(Null, "d", "Int32")>>

(* t: pages 1, 2, 3; u: pages 4, 5. *)
SoundPages ==
  <<Page(<<Row2(1, 5), Row2(2, Null)>>, 2), Page(<<Row2(2, 4), Row2(Null, 4)>>, 3),
    Page(<<Row2(3, 5)>>, 0),
    Page(<<Row2(2, 1), Row2(4, 2)>>, 5), Page(<<Row2(2, 1)>>, 0)>>

Context(pages, index, threads) ==
  [tables |-> [k \in {T, U} |->
                 IF k = T THEN [schema |-> SchemaT, first |-> 1, index |-> index]
                 ELSE [schema |-> SchemaU, first |-> 4, index |-> Null]],
   pages |-> pages, threads |-> threads, pageRows |-> 2,
   cyclic |-> \E p, q \in DOMAIN pages : p < q /\ pages[q].next = p,
   undecodable |-> \E p \in DOMAIN pages : Err \in ToSet(pages[p].rows)]

IndexT == <<(<<2, 2>>), (<<1, 1>>), (<<1, 2>>), (<<2, 1>>), (<<3, 1>>)>>

EmptyPages == [SoundPages EXCEPT ![1] = Page(<<>>, 0)]
EmptyRight == [SoundPages EXCEPT ![4] = Page(<<>>, 0)]
LostPage   == [SoundPages EXCEPT ![2].readable = FALSE]
LostRight  == [SoundPages EXCEPT ![5].readable = FALSE]
BadRow     == [SoundPages EXCEPT ![2].rows[1] = Err]
Cycle      == [SoundPages EXCEPT ![3].next = 1]

MCContexts ==
  {Context(p, Null, TRUE) :
     p \in {SoundPages, EmptyPages, EmptyRight, LostPage, LostRight, BadRow, Cycle}}
  \cup {Context(p, IndexT, TRUE) : p \in {SoundPages, LostPage, BadRow}}
  \cup {Context(p, Null, FALSE) : p \in {SoundPages, LostPage}}

(* Syntax. *)
Id(name)      == [sql |-> "Identifier", parts |-> <<name>>]
Of(tab, name) == [sql |-> "Identifier", parts |-> <<tab, name>>]
Num(n)        == [sql |-> "Value", of |-> "Number", parses |-> "Int64", value |-> n]
Float(n)      == [sql |-> "Value", of |-> "Number", parses |-> "Float64", value |-> n]
Text(s)       == [sql |-> "Value", of |-> "SingleQuotedString", value |-> s]
NullValue     == [sql |-> "Value", of |-> "Null"]
Op(op, l, r)  == [sql |-> "BinaryOp", op |-> op, left |-> l, right |-> r]
Fn(name, arg, distinct) ==
  [sql |-> "Function", name |-> name, args |-> <<arg>>, distinct |-> distinct]

Star         == <<[item |-> "Wildcard"]>>
Item(e)      == [item |-> "Expr", of |-> e]
Named(e, n)  == [item |-> "Alias", of |-> e, name |-> n]

Tab(name)    == [rel |-> "Table", parts |-> <<name>>]
From(rel)    == [of |-> rel, joins |-> <<>>]
JoinOn(l, kind, r, on) == [of |-> l, joins |-> <<[rel |-> r, kind |-> kind, on |-> on]>>]
Sub(q)       == [rel |-> "Derived", of |-> q]

Select(items, from, where, group) ==
  [body |-> "Select", items |-> items, from |-> from, where |-> where, group |-> group]
Full(body, order, limit, offset) ==
  [body |-> body, order |-> order, limit |-> limit, offset |-> offset]
Plain(body)  == Full(body, <<>>, Null, Null)
Asc(e)       == [of |-> e, asc |-> TRUE]
Desc(e)      == [of |-> e, asc |-> FALSE]

FromT == <<From(Tab("t"))>>
AllT  == Select(Star, FromT, Null, <<>>)
Big   == Op("Gt", Id("b"), Num(4))
Wrong == Op("Or", Big, Big)
SameA == Op("Eq", Of("t", "a"), Id("d"))

(* Filters, projections, limits and sorts of one table. *)
TableQueries ==
  {Full(Select(items, FromT, where, <<>>), order, limit, offset) :
     items \in {Star, <<Item(Id("b")), Named(Op("Lt", Id("a"), Num(3)), "x")>>},
     where \in {Null, Big, Wrong, Op("Gt", Id("a"), Num(1))},
     order \in {<<>>, <<Desc(Id("b")), Asc(Id("b"))>>},
     limit \in {Null, Num(0), Num(2)}, offset \in {Null, Num(1)}}

AggregateQueries ==
  {Plain(Select(<<Item(Fn("Count", Id("b"), FALSE)), Item(Fn("Avg", Id("b"), FALSE))>>,
                FromT, where, <<>>)) : where \in {Null, Big, Op("Gt", Id("a"), Num(9))}}
  \cup {Plain(Select(<<Item(Fn("Avg", Id("a"), FALSE)), Item(Id("b"))>>, FromT, Null, <<Id("b")>>)),
        Full(Select(<<Item(Fn("Count", Id("a"), FALSE)), Item(Id("b"))>>, FromT, Null, <<Id("b")>>),
             <<Desc(Id("b"))>>, Num(2), Null),
        Plain(Select(<<Item(Fn("Count", Id("a"), TRUE))>>, FromT, Null, <<>>)),
        Plain(Select(<<Item(Fn("Count", Id("a"), FALSE)), Item(Fn("Count", Id("b"), FALSE))>>,
                     FromT, Null, <<>>)),
        Plain(Select(<<Item(Fn("Avg", Op("Lt", Id("a"), Num(3)), FALSE))>>, FromT, Null, <<>>))}

JoinQueries ==
  {Full(Select(Star, <<JoinOn(Tab("t"), kind, right, on)>>, Null, <<>>), <<>>, limit, Null) :
     kind \in {"Inner", "LeftOuter", "RightOuter", "FullOuter"},
     right \in {Tab("u"), Sub(Full(Select(Star, <<From(Tab("u"))>>, Null, <<>>), <<>>, Num(2), Null))},
     on \in {SameA, NullValue}, limit \in {Null, Num(3)}}
  \cup {Plain(Select(<<Item(Id("b")), Item(Id("d"))>>, <<From(Tab("u")), From(Tab("t"))>>, Null, <<>>)),
        Plain(Select(<<Item(Fn("Count", Id("d"), FALSE))>>,
                     <<JoinOn(Tab("u"), "Cross", Sub(Plain(Select(Star, FromT, Big, <<>>))), Null)>>,
                     Null, <<>>)),
        Full(Select(<<Item(Id("d")), Item(Id("x"))>>,
                    <<JoinOn([rel |-> "NestedJoin", of |-> JoinOn(Tab("t"), "LeftOuter", Tab("u"), SameA)],
                             "FullOuter", Sub(Plain(Select(<<Named(Id("b"), "x")>>, FromT, Big, <<>>))),
                             Op("Eq", Id("b"), Id("x")))>>, Null, <<>>),
             <<Asc(Id("d")), Desc(Id("x"))>>, Num(4), Num(1)),
        Full(Select(Star, <<JoinOn(Tab("t"), "LeftOuter", Tab("u"), SameA)>>,
                    Op("Lt", Id("d"), Num(2)), <<>>), <<>>, Num(1), Null),
        Full(Select(<<Item(Fn("Count", Id("c"), FALSE)), Item(Id("b"))>>,
                    <<JoinOn(Tab("t"), "RightOuter", Tab("u"), SameA)>>, Null, <<Id("b")>>),
             <<Asc(Of("t", "b"))>>, Null, Null)}

(* Expressions without a table, and what the planner refuses. *)
OtherQueries ==
  {Plain(Select(<<Item(Num(1)), Item(NullValue)>>, <<>>, Null, <<>>)),
   Plain(Select(<<Item(Text("x")), Item(Id("b"))>>, FromT, Op("Lt", Id("a"), Float(3)), <<>>)),
   Plain(Select(Star, FromT, Op("Eq", Id("a"), Text("x")), <<>>)),
   Plain(Select(Star, <<From(Tab("v"))>>, Null, <<>>)),
   Full(AllT, <<>>, Id("a"), Null), Full(AllT, <<>>, Null, Num(0)),
   Plain(Select(<<Item(Of("u", "d"))>>, <<From(Tab("u"))>>, Null, <<>>)),
   Plain(Select(Star, <<From(Tab("t")), From(Tab("t"))>>, Null, <<>>)),
   Plain([body |-> "Union"])}

MCQueries == TableQueries \cup AggregateQueries \cup JoinQueries \cup OtherQueries

(* Limits on limits, and VALUES as an input, are built by hand. *)
OneColumn == <<Column(Null, "x", "Int32")>>
Three     == Values(<<(<<Literal(Scalar("Int64", 1))>>), (<<Literal(Scalar("Int64", 2))>>),
                      (<<Literal(Scalar("Int64", 2))>>)>>, OneColumn)
MCPlans ==
  {Limit(n, k, Limit(m, j, TableScan(<<"t">>, SchemaT))) :
     n \in {Null, 1, 4}, k \in {0, 1, 2}, m \in {Null, 0, 2, 3}, j \in {0, 2}}
  \cup {Limit(2, 0, Limit(Null, 1, Limit(4, 0, TableScan(<<"t">>, SchemaT)))),
        Join("LeftOuter", Binary("Eq", ColumnExpr(Null, "a"), ColumnExpr(Null, "x")),
             SchemaT \o OneColumn, TableScan(<<"t">>, SchemaT), Three)}

(* A join with a limit below it that a rule rewrites. *)
JoinLimitQueries ==
  {Plain(Select(Star, <<JoinOn(Tab("t"), "Inner",
                  Sub(Full(Select(Star, <<From(Tab("u"))>>, Null, <<>>), <<>>, Null, Num(0))),
                  SameA)>>, Null, <<>>))}
NoPlans == {}
=============================================================================
