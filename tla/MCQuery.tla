------------------------------ MODULE MCQuery ------------------------------
(***************************************************************************)
(* Instances of Query for TLC.                                             *)
(***************************************************************************)
EXTENDS Query

T == Bool(TRUE)
F == Bool(FALSE)
MCContents ==
  {<<>>, <<T>>, <<Bad>>, <<Torn>>, <<T, F>>, <<F, T>>, <<T, Null>>, <<Null, T>>, <<T, Bad>>, <<T, Torn>>, <<T, Null, F>>,
   <<T, F, Null, T>>, <<F, T, T, T, Null>>}

Column(d, c) == [op |-> "column", args |-> << <<d, c>> >>]
Not(d) == [op |-> "not", args |-> << <<d, "b">> >>]
NotId(d) == [op |-> "not", args |-> << <<d, "trid">> >>]
EqualsNull(d) == [op |-> "= NULL", args |-> << <<d, "b">> >>]
And == [op |-> "and", args |-> << <<1, "b">>, <<2, "b">> >>]
AndId(d) == [op |-> "and", args |-> << <<1, "b">>, <<d, "trid">> >>]
Star(ds) == [op |-> "star", args |-> [i \in DOMAIN ds |-> <<ds[i], "trid">>]]

Select(from, exprs, where, lim, off) ==
  [from |-> from, exprs |-> exprs, where |-> where, limit |-> lim, offset |-> off]

ListsOfOne ==
  {<<Star(<<1>>)>>, <<Column(1, "trid")>>, <<Column(1, "b"), Not(1)>>, <<NotId(1)>>,
   <<Star(<<1>>), Not(1)>>, <<Not(1), Star(<<1>>)>>, <<Star(<<1>>), Column(1, "b")>>,
   <<Star(<<1>>), Star(<<1>>)>>}
ListsOfTwo ==
  {<<Star(<<1, 2>>)>>, <<Column(2, "b"), Star(<<1>>)>>, <<Column(1, "trid"), Column(2, "trid")>>,
   <<Column(1, "trid"), And>>}
WheresOfOne == {None, Column(1, "b"), Not(1), AndId(1), EqualsNull(1), Column(1, "trid"), Column(2, "b")}
WheresOfTwo == {None, Column(2, "b"), AndId(2), And}

MCStatements ==
  {Select(<<1>>, l, w, None, None) : l \in ListsOfOne, w \in WheresOfOne}
  \cup {Select(f, l, w, None, None) : f \in {<<1, 2>>, <<2, 2>>}, l \in ListsOfTwo, w \in WheresOfTwo}
  \cup {Select(<<1, 2>>, <<Star(<<1, 2>>)>>, w, lim, off) :
          w \in {None, And}, lim \in {None, -1, 0, 1}, off \in {None, -1, 0, 2}}
  \cup {Select(<<>>, <<Not(1)>>, None, None, None)}

=============================================================================
