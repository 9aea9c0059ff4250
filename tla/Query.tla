------------------------------- MODULE Query -------------------------------
(***************************************************************************)
(* The execution of a SELECT (RequestHandler::executeSelectRequest): the   *)
(* cross product of the tables in FROM, filtered by WHERE, cut by OFFSET   *)
(* and LIMIT, written row by row.  Every table has the row ID column       *)
(* "trid" and a column "b" of Booleans that may be NULL.                   *)
(*                                                                         *)
(* A data set is a cursor over a table.  It has a slot for each column     *)
(* that an expression of the statement uses; a value is read into its slot *)
(* when it is first asked for in a row.  Slots are reused from row to row, *)
(* and a NULL leaves the bits of the value before it in the slot.          *)
(*                                                                         *)
(* An expression is [op, args]: its operator and the columns <<data set,   *)
(* column>> it refers to, in the order in which they are evaluated.        *)
(***************************************************************************)
EXTENDS Integers, Sequences, FiniteSets, SequencesExt

CONSTANTS
  Contents,    \* possible contents of "b" in a table, row after row
  NumTables,
  N,           \* records of a file of the main index
  Statements,  \* [from, exprs, where, limit, offset]
  None         \* no WHERE, LIMIT or OFFSET; no row

ASSUME TableAssumption == NumTables \in Nat \ {0} /\ N \in Nat \ {0, 1}

VARIABLES
  content,   \* rows of the tables
  phase,     \* "idle", "rows", "ended", "refused" or "failed"
  stmt,      \* the statement
  infos,     \* columns in the slots of the data sets
  refs,      \* slots of the arguments of the expressions; the last is WHERE
  slots,     \* values in the slots
  read,      \* slots that hold a value of the current row
  cur,       \* current rows
  limit,     \* rows that may still be written
  offset,    \* rows that are still to be skipped
  rows,      \* rows that have been written
  swallowed, \* an error has ended the row set
  nullTaken, \* a row was taken although its WHERE is NULL
  overrun,   \* a value was stored after the end of the vector of values
  alive      \* the process runs

vars == <<content, phase, stmt, infos, refs, slots, read, cur, limit, offset, rows, swallowed,
          nullTaken, overrun, alive>>

-----------------------------------------------------------------------------
Columns == <<"trid", "b">>

Val(t, n) == [type |-> t, v |-> n]
Null == Val("Null", 0)
Id(n) == Val("Id", n)
Bool(x) == Val("Bool", IF x THEN 1 ELSE 0)

(* A value that cannot be read, and a row whose record cannot be.          *)
Bad == Val("Bad", 0)
Torn == Val("Torn", 0)

(* Outcomes of an evaluation that throws: DatabaseError, or another        *)
(* exception.                                                              *)
DatabaseError == Val("DatabaseError", 0)
OtherError == Val("OtherError", 0)
IsError(x) == x \in {DatabaseError, OtherError}

DataSets == 1..Len(stmt.from)
RowsOf(d) == content[stmt.from[d]]
CellOf(d, p, c) == IF c = "trid" THEN Id(p) ELSE RowsOf(d)[p]

-----------------------------------------------------------------------------
(* The slots of the data sets: columns are added in the order of the       *)
(* expressions.  acc = [infos, refs].                                      *)
SlotOf(list, c) == SelectInSeq(list, LAMBDA x : x = c)

(* AllColumnsExpression: every column of the tables gets a new slot.       *)
PlaceStar(acc, e) ==
  [acc EXCEPT !.infos = [d \in DOMAIN @ |-> IF \E i \in DOMAIN e.args : e.args[i][1] = d
                                           THEN @[d] \o Columns ELSE @[d]],
              !.refs = Append(@, <<>>)]

(* SingleColumnExpression: a new slot, even if there is one already.       *)
PlaceColumn(acc, e) ==
  LET d == e.args[1][1]
  IN [acc EXCEPT !.infos[d] = Append(@, e.args[1][2]), !.refs = Append(@, <<Len(acc.infos[d]) + 1>>)]

(* updateColumnsFromExpression: a column has a slot or gets a new one.     *)
(* The names of the columns that were there before are looked up by        *)
(* references into the list of columns, which dangle once the list has     *)
(* grown: then the lookup may miss.                                        *)
PlaceArgument(acc, arg, missed) ==
  LET d == arg[1]
      known == SlotOf(acc.infos[d], arg[2])
      dangling == d \in acc.grown /\ known <= acc.old[d]
  IN IF known # 0 /\ ~(missed /\ dangling)
     THEN [acc EXCEPT !.slots = <<known>> \o @]
     ELSE [acc EXCEPT !.infos[d] = Append(@, arg[2]),
                      !.slots = <<Len(acc.infos[d]) + 1>> \o @,
                      !.grown = @ \cup {d}]

PlaceExpression(acc, e, missed) ==
  LET n == Len(e.args)
      placed[k \in 0..n] ==
        IF k = 0 THEN [infos |-> acc.infos, slots |-> <<>>, grown |-> {},
                       old |-> [d \in DOMAIN acc.infos |-> Len(acc.infos[d])]]
        ELSE LET before == placed[k - 1] IN PlaceArgument(before, e.args[n + 1 - k], missed)
      last == placed[n]
  IN [infos |-> last.infos, refs |-> Append(acc.refs, last.slots)]

Place(acc, e, missed) ==
  CASE e.op = "star" -> PlaceStar(acc, e)
    [] e.op = "column" -> PlaceColumn(acc, e)
    [] OTHER -> PlaceExpression(acc, e, missed)

(* Result expressions first, then WHERE.                                   *)
PlacedBy(s, missed) ==
  LET placed[k \in 0..Len(s.exprs)] ==
        IF k = 0 THEN [infos |-> [d \in 1..Len(s.from) |-> <<>>], refs |-> <<>>]
        ELSE LET before == placed[k - 1] IN Place(before, s.exprs[k], missed)
      listed == placed[Len(s.exprs)]
  IN IF s.where = None THEN listed ELSE PlaceExpression(listed, s.where, missed)

-----------------------------------------------------------------------------
(* TableDataSet::getColumnValue: what slot i of data set d holds once it   *)
(* has been read in the current row.                                       *)
GetColumnValue(d, i) ==
  LET cell == CellOf(d, cur[d], infos[d][i])
  IN IF i \in read[d] THEN slots[d][i]
     ELSE IF cell = Bad THEN DatabaseError
     ELSE IF cell = Null THEN [slots[d][i] EXCEPT !.type = "Null"]
     ELSE cell

(* "not": NOT b.  "and": b AND c, where c is a column "b" or trid > 1; it  *)
(* is read only if the first operand is TRUE.  "= NULL" is refused by      *)
(* compatibleEqual unless the left operand is NULL.                        *)
Second(x) == IF x.type = "Id" THEN Bool(x.v > 1) ELSE x

Evaluate(e, slot) ==
  LET x == GetColumnValue(e.args[1][1], slot[1])
      y == Second(GetColumnValue(e.args[2][1], slot[2]))
      isNull(z) == z.type = "Null"
  IN IF IsError(x) THEN x ELSE
     CASE e.op = "column" -> x
       [] e.op = "not" -> IF isNull(x) THEN Null ELSE IF x.type = "Bool" THEN Bool(x.v = 0) ELSE OtherError
       [] e.op = "= NULL" -> IF isNull(x) THEN Bool(FALSE) ELSE OtherError
       [] e.op = "and" -> IF isNull(x) THEN Null
                          ELSE IF x.v = 0 THEN x
                          ELSE IF isNull(y) THEN Null ELSE y

(* The slots that an evaluation reads.                                     *)
ReadBy(e, slot) ==
  {<<e.args[i][1], slot[i]>> : i \in IF e.op = "and" /\ GetColumnValue(e.args[1][1], slot[1]) # Bool(TRUE)
                                     THEN {1} ELSE DOMAIN e.args}

SlotsOfStar(e) ==
  FlattenSeq([k \in DOMAIN e.args |-> [i \in DOMAIN infos[e.args[k][1]] |-> <<e.args[k][1], i>>]])

(* The values of the current row, in the order in which they are computed, *)
(* and what is read for them.                                              *)
RowValues ==
  FlattenSeq([k \in DOMAIN stmt.exprs |->
    LET e == stmt.exprs[k]
        star == SlotsOfStar(e)
    IN IF e.op = "star" THEN [i \in DOMAIN star |-> GetColumnValue(star[i][1], star[i][2])]
       ELSE <<Evaluate(e, refs[k])>>])

RowReads ==
  UNION {LET e == stmt.exprs[k]
         IN IF e.op = "star" THEN ToSet(SlotsOfStar(e)) ELSE ReadBy(e, refs[k]) : k \in DOMAIN stmt.exprs}

(* The first exception, or 0.                                              *)
FirstError(values) == SelectInSeq(values, IsError)

(* What the row set writer makes of a value.                               *)
Output(x) == IF x.type = "Null" THEN Null ELSE x

(* The columns that the response describes.                                *)
ResultingColumnCount ==
  LET stars == {k \in DOMAIN stmt.exprs : stmt.exprs[k].op = "star"}
  IN Cardinality(DOMAIN stmt.exprs \ stars)
     + Len(Columns) * Cardinality(UNION {{<<k, i>> : i \in DOMAIN stmt.exprs[k].args} : k \in stars})

-----------------------------------------------------------------------------
(* The cursors, as the digits of a number: the last data set moves first.  *)
HasCurrentRow(c) == \A d \in DOMAIN c : c[d] # None

ResetCursor(d) == IF RowsOf(d) = <<>> THEN None ELSE 1

(* findNextKey (see LinearIndex): after the last record of an index file   *)
(* the search starts at its first row while the key is counted on.  There  *)
(* is no row 0, so that after row N - 1 it finds N + 1, row or not.        *)
NextRow(d, p) ==
  IF p = Len(RowsOf(d)) THEN None
  ELSE IF (p + 1) % N # 0 THEN p + 1
  ELSE N + (IF p + 1 = N THEN 1 ELSE p + 1 - N)

(* The data sets after the one that moves are not reset.                   *)
MovedMutant(c) ==
  LET more == {d \in DataSets : NextRow(d, c[d]) # None}
  IN IF more = {} THEN [c EXCEPT ![1] = None]
     ELSE LET m == CHOOSE d \in more : \A x \in more : x <= d IN [c EXCEPT ![m] = NextRow(m, @)]

Moved(c) ==
  LET more == {d \in DataSets : NextRow(d, c[d]) # None}
      m == IF more = {} THEN 1 ELSE CHOOSE d \in more : \A x \in more : x <= d
  IN [d \in DataSets |->
        IF d < m THEN c[d]
        ELSE IF d > m THEN ResetCursor(d)
        ELSE IF more = {} THEN None ELSE NextRow(d, c[d])]

(* moveToNextRow, after the slots in reads have been read; those of the   *)
(* data sets that move are to be read again.  A record that is not there   *)
(* or cannot be read ends the row set.                                     *)
MoveToNextRow(reads) ==
  LET next == Moved(cur)
      changed == {d \in DataSets : next[d] # cur[d] \/ \E x \in DataSets : x < d /\ next[x] # cur[x]}
  IN /\ slots' = [d \in DataSets |-> [i \in DOMAIN slots[d] |->
                   IF <<d, i>> \in reads THEN GetColumnValue(d, i) ELSE slots[d][i]]]
     /\ IF \E d \in changed : next[d] # None /\ (next[d] > Len(RowsOf(d)) \/ RowsOf(d)[next[d]] = Torn)
        THEN /\ phase' = "ended" /\ swallowed' = TRUE
             /\ UNCHANGED <<cur, read>>
        ELSE /\ cur' = next
             /\ read' = [d \in DataSets |-> IF d \in changed THEN {}
                                            ELSE read[d] \cup {i \in DOMAIN slots[d] : <<d, i>> \in reads}]
             /\ UNCHANGED <<phase, swallowed>>

-----------------------------------------------------------------------------
NoStatement == [from |-> <<>>, exprs |-> <<>>, where |-> None, limit |-> None, offset |-> None]

Init ==
  /\ content \in [1..NumTables -> Contents]
  /\ phase = "idle" /\ stmt = NoStatement
  /\ infos = <<>> /\ refs = <<>> /\ slots = <<>> /\ read = <<>> /\ cur = <<>>
  /\ limit = None /\ offset = None
  /\ rows = <<>>
  /\ swallowed = FALSE /\ nullTaken = FALSE /\ overrun = FALSE /\ alive = TRUE

(* What is refused before anything is sent: no table, a reference to a     *)
(* table that is not in FROM, a WHERE that is not Boolean, a negative      *)
(* LIMIT or OFFSET, or a first row that cannot be read.                    *)
References(s) ==
  UNION {ToSet(s.exprs[k].args) : k \in DOMAIN s.exprs} \cup IF s.where = None THEN {} ELSE ToSet(s.where.args)

Refused(s) ==
  \/ s.from = <<>>
  \/ \E r \in References(s) : r[1] > Len(s.from)
  \/ s.where # None /\ s.where.op \in {"column", "not"} /\ s.where.args[1][2] # "b"
  \/ s.limit # None /\ s.limit < 0
  \/ s.offset # None /\ s.offset < 0
  \/ \E d \in DOMAIN s.from : content[s.from[d]] # <<>> /\ Head(content[s.from[d]]) = Torn

RefuseSelect ==
  /\ phase = "idle"
  /\ \E s \in Statements : Refused(s) /\ stmt' = s
  /\ phase' = "refused"
  /\ UNCHANGED <<content, infos, refs, slots, read, cur, limit, offset, rows, swallowed, nullTaken, overrun, alive>>

BeginSelect ==
  /\ phase = "idle"
  /\ \E s \in Statements, missed \in BOOLEAN :
       LET placed == PlacedBy(s, missed)
           n == Len(s.from)
       IN /\ ~Refused(s)
          /\ stmt' = s
          /\ infos' = placed.infos /\ refs' = placed.refs
          /\ slots' = [d \in 1..n |-> [i \in DOMAIN placed.infos[d] |-> Null]]
          /\ read' = [d \in 1..n |-> {}]
          /\ cur' = [d \in 1..n |-> IF content[s.from[d]] = <<>> THEN None ELSE 1]
          /\ limit' = s.limit /\ offset' = s.offset
  /\ phase' = "rows"
  /\ UNCHANGED <<content, rows, swallowed, nullTaken, overrun, alive>>

(* The loop over the rows.                                                 *)
InLoop == alive /\ phase = "rows" /\ HasCurrentRow(cur) /\ limit # 0

Where == IF stmt.where = None THEN Bool(TRUE) ELSE Evaluate(stmt.where, refs[Len(refs)])
WhereReads == IF stmt.where = None THEN {} ELSE ReadBy(stmt.where, refs[Len(refs)])

(* rowFits.getBool() looks at the bits, whatever the type.                 *)
Fits == ~IsError(Where) /\ Where.v = 1

(* Any exception of WHERE becomes a DatabaseError, which ends the loop.    *)
WhereFails ==
  /\ InLoop /\ IsError(Where)
  /\ phase' = "ended" /\ swallowed' = TRUE
  /\ UNCHANGED <<content, stmt, infos, refs, slots, read, cur, limit, offset, rows, nullTaken, overrun, alive>>

(* The cursor stays where it is.                                           *)
RejectRowMutant ==
  /\ InLoop /\ ~IsError(Where) /\ ~Fits
  /\ UNCHANGED vars

RejectRow ==
  /\ InLoop /\ ~IsError(Where) /\ ~Fits
  /\ MoveToNextRow(WhereReads)
  /\ UNCHANGED <<content, stmt, infos, refs, limit, offset, rows, nullTaken, overrun, alive>>

Taken == nullTaken' = (nullTaken \/ Where.type = "Null")

SkipRow ==
  /\ InLoop /\ Fits /\ offset # None /\ offset # 0
  /\ offset' = offset - 1
  /\ MoveToNextRow(WhereReads) /\ Taken
  /\ UNCHANGED <<content, stmt, infos, refs, limit, rows, overrun, alive>>

(* A row with more values than described columns overwrites memory after   *)
(* the vector.                                                             *)
WriteRow ==
  LET values == RowValues
      n == ResultingColumnCount
  IN /\ InLoop /\ Fits /\ offset \in {None, 0}
     /\ FirstError(values) = 0
     /\ rows' = Append(rows, [i \in 1..n |-> Output(values[i])])
     /\ overrun' = (overrun \/ Len(values) > n)
     /\ alive' \in IF Len(values) > n THEN BOOLEAN ELSE {TRUE}
     /\ limit' = IF limit = None THEN None ELSE limit - 1
     /\ MoveToNextRow(WhereReads \cup RowReads) /\ Taken
     /\ UNCHANGED <<content, stmt, infos, refs, offset>>

(* A value cannot be read: the row set ends here, as if it were complete.  *)
(* Other exceptions leave the row set open; the caller sends a second      *)
(* response.                                                               *)
WriteRowFails ==
  LET values == RowValues
  IN /\ InLoop /\ Fits /\ offset \in {None, 0}
     /\ FirstError(values) # 0
     /\ IF values[FirstError(values)] = DatabaseError THEN phase' = "ended" /\ swallowed' = TRUE
        ELSE phase' = "failed" /\ UNCHANGED swallowed
     /\ Taken
     /\ UNCHANGED <<content, stmt, infos, refs, slots, read, cur, limit, offset, rows, overrun, alive>>

EndRowset ==
  /\ alive /\ phase = "rows" /\ (~HasCurrentRow(cur) \/ limit = 0)
  /\ phase' = "ended"
  /\ UNCHANGED <<content, stmt, infos, refs, slots, read, cur, limit, offset, rows, swallowed, nullTaken, overrun, alive>>

Next ==
  \/ RefuseSelect \/ BeginSelect
  \/ WhereFails \/ RejectRow \/ SkipRow \/ WriteRow \/ WriteRowFails
  \/ EndRowset

(* The request is executed by one thread, which does nothing else.         *)
Spec == Init /\ [][Next]_vars /\ WF_vars(Next)

-----------------------------------------------------------------------------
(* Properties.                                                             *)

(* The rows of the cross product in the order of the row IDs, the first    *)
(* table's first, as tuples of row numbers.                                *)
Product ==
  LET size[d \in 1..(Len(stmt.from) + 1)] ==
        IF d > Len(stmt.from) THEN 1 ELSE Len(RowsOf(d)) * size[d + 1]
  IN [k \in 1..size[1] |-> [d \in DataSets |-> (((k - 1) \div size[d + 1]) % Len(RowsOf(d))) + 1]]

(* The cursor never comes to row N.                                        *)
PassedOver(p) == \E d \in DataSets : p[d] = N

(* The values of SQL, except that NULL AND FALSE is NULL.                  *)
Meaning(e, p) ==
  LET x(i) == CellOf(e.args[i][1], p[e.args[i][1]], e.args[i][2])
  IN CASE e.op = "column" -> x(1)
       [] e.op = "not" -> IF x(1) = Null THEN Null ELSE Bool(x(1) = Bool(FALSE))
       [] e.op = "= NULL" -> Null
       [] e.op = "and" -> IF x(1) = Bool(TRUE) THEN Second(x(2)) ELSE x(1)

MeaningOfStar(e, p) ==
  FlattenSeq([k \in DOMAIN e.args |-> [i \in DOMAIN Columns |-> CellOf(e.args[k][1], p[e.args[k][1]], Columns[i])]])

ResultRow(p) ==
  FlattenSeq([k \in DOMAIN stmt.exprs |->
                IF stmt.exprs[k].op = "star" THEN MeaningOfStar(stmt.exprs[k], p)
                ELSE <<Meaning(stmt.exprs[k], p)>>])

Result ==
  LET chosen == SelectSeq(Product, LAMBDA p : ~PassedOver(p) /\ (stmt.where = None \/ Meaning(stmt.where, p) = Bool(TRUE)))
      from == IF stmt.offset = None THEN 1 ELSE stmt.offset + 1
      to == IF stmt.limit = None THEN Len(chosen) ELSE from + stmt.limit - 1
      part == SubSeq(chosen, from, IF to > Len(chosen) THEN Len(chosen) ELSE to)
  IN [k \in DOMAIN part |-> ResultRow(part[k])]

(* "*" beside another reference that has added a slot to its data set.     *)
StarIsMixed ==
  \E k, j \in DOMAIN stmt.exprs :
    /\ k # j /\ stmt.exprs[k].op = "star"
    /\ stmt.exprs[j].op \in {"star", "column"} \/ j < k
    /\ \E a \in ToSet(stmt.exprs[k].args), b \in ToSet(stmt.exprs[j].args) : a[1] = b[1]

(* The rows written are at every moment the first rows of the result that  *)
(* SQL defines, and all of it once the row set has ended (the cursors, the *)
(* lazily filled and reused slots, OFFSET and LIMIT in the loop of         *)
(* executeSelectRequest).  Named exceptions: row N of a table, the first   *)
(* one of its second index file, is left out of the result (NextRow), and  *)
(* if it is the last row, an error ends the row set; "*" beside other      *)
(* references; a WHERE that is a mere column and took the old bits of a    *)
(* NULL for TRUE; and, for completeness, an error that ended the row set.  *)
(* "*" beside other references is the only way to write more values than   *)
(* the response describes, which overwrites memory.                        *)
RowsAreTheResult ==
  /\ phase \in {"rows", "ended"} /\ ~StarIsMixed /\ ~(nullTaken /\ stmt.where.op = "column") =>
       /\ IsPrefix(rows, Result)
       /\ phase = "ended" /\ ~swallowed => rows = Result
  /\ rows # <<>> => (overrun <=> StarIsMixed)

(* Every SELECT ends: the cursors run through finitely many rows, and every*)
(* way through the loop moves them.                                        *)
QueryEnds == phase = "rows" ~> (phase \in {"ended", "failed"} \/ ~alive)
=============================================================================
