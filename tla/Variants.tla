----------------------------- MODULE Variants -----------------------------
(***************************************************************************)
(* Values (Variant) and the evaluation of expressions over the integer     *)
(* types, Booleans, NULL and the texts of integers: literals, unary and    *)
(* binary operators, comparisons, CAST, and the conversion that a value    *)
(* undergoes when it is written to a column and read again.                *)
(*                                                                         *)
(* An expression is evaluated operator by operator in the accumulator acc. *)
(* Beside it run the column data type that getColumnDataType() gives the   *)
(* expression, by which SELECT describes a result column to the client     *)
(* that decodes it, and the integer that the expression denotes (exact),   *)
(* as long as no intermediate result leaves the described type.            *)
(*                                                                         *)
(* The widths of the integer types are parameters, so that every boundary  *)
(* is within reach of small numbers.                                       *)
(***************************************************************************)
EXTENDS Integers

CONSTANTS
  W8, W16, W32, W64,  \* bits of the integer types
  Literals,           \* the unsigned numbers of literals
  ColumnType,         \* the columns of the row and their data types
  NotNull,            \* the columns that are NOT NULL
  Inexact,            \* no integer
  MaxSteps            \* bound on the number of operators and statements

ASSUME WidthAssumption ==
  /\ W8 \in Nat /\ W16 \in Nat /\ W32 \in Nat /\ W64 \in Nat
  /\ 1 < W8 /\ W8 < W16 /\ W16 < W32 /\ W32 < W64
ASSUME BoundAssumption == MaxSteps \in Nat
ASSUME InexactAssumption == Inexact \notin Int

VARIABLES
  cells,      \* the values in the columns
  cellExact,  \* the integers that were stored there, or Inexact
  acc,        \* value of the expression evaluated so far
  described,  \* its column data type, computed without its value; "Null" is
              \* COLUMN_DATA_TYPE_UNKNOWN
  exact,      \* the integer it denotes, or Inexact
  agree,      \* no operator that describes another type has been used in it
  valid,      \* validate() accepts it
  alive,      \* the process runs
  steps

vars == <<cells, cellExact, acc, described, exact, agree, valid, alive, steps>>

(* 2^n, as far as it occurs.                                               *)
Power2[n \in 0..(W64 + 1)] == IF n = 0 THEN 1 ELSE 2 * Power2[n - 1]

ASSUME LiteralAssumption == Literals \subseteq 0..(Power2[W64] - 1)

-----------------------------------------------------------------------------
(* The order of the types in the enumeration ColumnDataType decides about  *)
(* the type of results; that of VariantType is the same.                   *)
Rank == [Null |-> 0, Bool |-> 1, Int8 |-> 2, UInt8 |-> 3, Int16 |-> 4, UInt16 |-> 5,
         Int32 |-> 6, UInt32 |-> 7, Int64 |-> 8, UInt64 |-> 9, String |-> 10]

Types == DOMAIN Rank

ASSUME ColumnAssumption ==
  /\ ColumnType \in [DOMAIN ColumnType -> Types \ {"Null"}]
  /\ NotNull \subseteq DOMAIN ColumnType

Signed == {"Int8", "Int16", "Int32", "Int64"}
Unsigned == {"UInt8", "UInt16", "UInt32", "UInt64"}
IntTypes == Signed \cup Unsigned

Bits(t) == CASE t \in {"Int8", "UInt8"} -> W8
             [] t \in {"Int16", "UInt16"} -> W16
             [] t \in {"Int32", "UInt32"} -> W32
             [] t \in {"Int64", "UInt64"} -> W64

RangeOf(t) == IF t \in Signed THEN -(Power2[Bits(t) - 1]) .. Power2[Bits(t) - 1] - 1
              ELSE 0 .. Power2[Bits(t)] - 1

(* static_cast to an integer type: the number modulo 2^width.              *)
Wrap(t, n) ==
  LET u == n % Power2[Bits(t)]
  IN IF t \in Signed /\ u >= Power2[Bits(t) - 1] THEN u - Power2[Bits(t)] ELSE u

SignedTypeOf(t) ==
  CASE t = "UInt8" -> "Int8" [] t = "UInt16" -> "Int16"
    [] t = "UInt32" -> "Int32" [] t = "UInt64" -> "Int64" [] OTHER -> t

Val(t, n) == [type |-> t, v |-> n]
NullValue == Val("Null", 0)
Bool(b) == Val("Bool", IF b THEN 1 ELSE 0)

(* A conversion or operator that throws; the statement is refused.         *)
Error == Val("Error", 0)

(* A division that the processor refuses; the process dies.                *)
Trap == Val("Trap", 0)

(* No expression is being evaluated.                                       *)
Nothing == Val("Nothing", 0)

-----------------------------------------------------------------------------
(* Conversions.  The text of a number is the number; the text of a Boolean *)
(* ("true", "false") is kept apart by adding a bound that no number has.   *)
TextOfBool(n) == Power2[W64 + 1] + n

AsBool(x) ==
  CASE x.type \in IntTypes -> Bool(x.v # 0)
    [] x.type = "Bool" -> x
    [] x.type = "String" /\ x.v \in {TextOfBool(0), TextOfBool(1)} -> Bool(x.v = TextOfBool(1))
    [] OTHER -> Error

(* stringToInt8 ... stringToUInt64: stoll and stoull take the whole text   *)
(* and refuse what they cannot represent; stoull takes negative numbers    *)
(* modulo 2^64.                                                            *)
TextToInt(t, n) ==
  LET read == IF t \in Signed THEN n ELSE Wrap("UInt64", n)
  IN IF n \in RangeOf("Int64") \cup RangeOf("UInt64") /\ read \in RangeOf(t)
     THEN Val(t, read) ELSE Error

(* From an int8 value, these conversions take the unsigned member of the   *)
(* union.                                                                  *)
ReadsInt8AsUnsigned == IntTypes \ {"Int8", "Int16"}

(* A number that the type does not hold is replaced by zero.               *)
AsIntMutant(t, x) ==
  CASE x.type \in IntTypes -> Val(t, IF x.v \in RangeOf(t) THEN x.v ELSE 0)
    [] x.type = "Bool" -> Val(t, x.v)
    [] x.type = "String" -> TextToInt(t, x.v)
    [] OTHER -> Error

(* asInt8 ... asUInt64                                                     *)
AsInt(t, x) ==
  CASE x.type \in IntTypes ->
         LET misread == x.type = "Int8" /\ t \in ReadsInt8AsUnsigned
         IN Val(t, Wrap(t, IF misread THEN Wrap("UInt8", x.v) ELSE x.v))
    [] x.type = "Bool" -> Val(t, x.v)
    [] x.type = "String" -> TextToInt(t, x.v)
    [] OTHER -> Error

AsString(x) ==
  CASE x.type \in IntTypes -> Val("String", x.v)
    [] x.type = "Bool" -> Val("String", TextOfBool(x.v))
    [] x.type = "String" -> x
    [] OTHER -> Error

As(t, x) == CASE t = "Bool" -> AsBool(x) [] t = "String" -> AsString(x) [] OTHER -> AsInt(t, x)

(* What CAST evaluates to: asUInt8() returns a signed byte, and a cast to  *)
(* UINT32 calls asInt32().                                                 *)
CastTo(t, x) ==
  CASE t = "UInt8" /\ AsInt(t, x) # Error -> Val("Int8", Wrap("Int8", AsInt(t, x).v))
    [] t = "UInt32" -> AsInt("Int32", x)
    [] OTHER -> As(t, x)

-----------------------------------------------------------------------------
(* The cells of the operators' tables are plain C++ expressions: operands  *)
(* are promoted to 32 bits, the wider type is the common one, and of two   *)
(* equally wide types the unsigned one.                                    *)
Promoted(t) == IF Bits(t) < W32 THEN "Int32" ELSE t

CommonType(s, t) ==
  LET p == Promoted(s)
      q == Promoted(t)
  IN IF Bits(p) > Bits(q) \/ (Bits(p) = Bits(q) /\ p \in Unsigned) THEN p ELSE q

(* Integer division and remainder, truncated towards zero.                 *)
Abs(n) == IF n < 0 THEN -n ELSE n
Quotient(a, b) == (Abs(a) \div Abs(b)) * (IF (a < 0) = (b < 0) THEN 1 ELSE -1)
Remainder(a, b) == a - b * Quotient(a, b)

(* The operators on two values that are not NULL.  Both operands are       *)
(* converted to the common type, and the result f(a, b) is taken modulo    *)
(* its width; other types than integers are refused.                       *)
OnIntegers(l, r, f(_, _)) ==
  LET t == CommonType(l.type, r.type)
  IN IF {l.type, r.type} \subseteq IntTypes
     THEN Val(t, Wrap(t, f(Wrap(t, l.v), Wrap(t, r.v)))) ELSE Error

Plus(a, b) == a + b
Minus(a, b) == a - b
Times(a, b) == a * b

Add(l, r) == OnIntegers(l, r, Plus)
Subtract(l, r) == OnIntegers(l, r, Minus)
Multiply(l, r) == OnIntegers(l, r, Times)

(* Nothing guards a division: by zero, or when the quotient of the least   *)
(* number and -1 has no place in the type, the processor refuses it.       *)
Traps(l, r) ==
  LET t == CommonType(l.type, r.type)
      a == Wrap(t, l.v)
      b == Wrap(t, r.v)
  IN {l.type, r.type} \subseteq IntTypes /\ (b = 0 \/ Quotient(a, b) \notin RangeOf(t))

Divide(l, r) == IF Traps(l, r) THEN Trap ELSE OnIntegers(l, r, Quotient)
Modulo(l, r) == IF Traps(l, r) THEN Trap ELSE OnIntegers(l, r, Remainder)

(* The operators on bits, given as tables for one bit; a number stands for *)
(* the W64 bits of its two's complement.                                   *)
BitOf(n, i) == (n \div Power2[i]) % 2

BitByBit(a, b, table) ==
  LET low[k \in 0..W64] ==
        IF k = 0 THEN 0 ELSE low[k - 1] + Power2[k - 1] * table[BitOf(a, k - 1)][BitOf(b, k - 1)]
  IN low[W64]

OrBits(a, b) == BitByBit(a, b, [x \in 0..1 |-> [y \in 0..1 |-> IF x + y = 0 THEN 0 ELSE 1]])
AndBits(a, b) == BitByBit(a, b, [x \in 0..1 |-> [y \in 0..1 |-> x * y]])
XorBits(a, b) == BitByBit(a, b, [x \in 0..1 |-> [y \in 0..1 |-> (x + y) % 2]])

BitwiseOr(l, r) == OnIntegers(l, r, OrBits)
BitwiseAnd(l, r) == OnIntegers(l, r, AndBits)
BitwiseXor(l, r) == OnIntegers(l, r, XorBits)

(* Shifts have the type of their left operand, promoted; the count is      *)
(* taken modulo the width, as the processor does.                          *)
Shifted(l, r, f(_, _)) ==
  LET t == Promoted(l.type)
  IN IF {l.type, r.type} \subseteq IntTypes THEN Val(t, Wrap(t, f(l.v, r.v % Bits(t)))) ELSE Error

TimesPower(a, n) == a * Power2[n]
DivPower(a, n) == a \div Power2[n]

LeftShift(l, r) == Shifted(l, r, TimesPower)
RightShift(l, r) == Shifted(l, r, DivPower)

(* Every binary operator gives NULL when an operand is NULL.               *)
ArithmeticOps == {"+", "-", "*", "/", "%"}
ShiftOps == {"<<", ">>"}
BinaryOps == ArithmeticOps \cup ShiftOps \cup {"&", "|", "^"}

Binary(op, l, r) ==
  IF "Null" \in {l.type, r.type} THEN NullValue ELSE
  CASE op = "+" -> Add(l, r)
    [] op = "-" -> Subtract(l, r)
    [] op = "*" -> Multiply(l, r)
    [] op = "/" -> Divide(l, r)
    [] op = "%" -> Modulo(l, r)
    [] op = "|" -> BitwiseOr(l, r)
    [] op = "&" -> BitwiseAnd(l, r)
    [] op = "^" -> BitwiseXor(l, r)
    [] op = "<<" -> LeftShift(l, r)
    [] op = ">>" -> RightShift(l, r)

UnaryOps == {"minus", "plus", "~"}

Unary(op, x) ==
  CASE x.type = "Null" -> NullValue
    [] x.type \in IntTypes ->
         LET t == Promoted(x.type)
         IN Val(t, Wrap(t, CASE op = "minus" -> -x.v [] op = "plus" -> x.v [] op = "~" -> -x.v - 1))
    [] OTHER -> Error

-----------------------------------------------------------------------------
(* The unsigned operand is not cast: C++ converts the signed one.          *)
ComparedAsMutant(x, other, otherIsLeft) ==
  IF x.type \in Signed /\ other.type \in {"UInt32", "UInt64"} /\ Rank[other.type] > Rank[x.type]
  THEN Wrap(other.type, x.v) ELSE x.v

(* compatibleEqual and compatibleLess.  An operand of 32 or 64 unsigned    *)
(* bits is cast to the signed type of its width when the other one is      *)
(* signed, except that a 64-bit signed left operand leaves a 32-bit right  *)
(* operand alone.                                                          *)
ComparedAs(x, other, otherIsLeft) ==
  IF /\ x.type \in {"UInt32", "UInt64"} /\ other.type \in Signed
     /\ ~(otherIsLeft /\ x.type = "UInt32" /\ other.type = "Int64")
  THEN Wrap(SignedTypeOf(x.type), x.v) ELSE x.v

(* compatibleEqual compares two Booleans, its siblings refuse them.        *)
Comparable(op, l, r) ==
  \/ {l.type, r.type} \subseteq IntTypes
  \/ op \in {"=", "<>"} /\ {l.type, r.type} = {"Bool"}

compatibleEqual(l, r) == ComparedAs(l, r, FALSE) = ComparedAs(r, l, TRUE)
compatibleLess(l, r) == ComparedAs(l, r, FALSE) < ComparedAs(r, l, TRUE)
compatibleLessOrEqual(l, r) == ComparedAs(l, r, FALSE) <= ComparedAs(r, l, TRUE)
compatibleGreater(l, r) == ComparedAs(l, r, FALSE) > ComparedAs(r, l, TRUE)
compatibleGreaterOrEqual(l, r) == ComparedAs(l, r, FALSE) >= ComparedAs(r, l, TRUE)

Comparisons == {"=", "<>", "<", "<=", ">", ">="}

(* The operators of expressions.  EqualOperator leaves NULL to             *)
(* compatibleEqual, which knows it only on the left; the others give false *)
(* for NULL.                                                               *)
Compare(op, l, r) ==
  IF l.type = "Null" \/ (op # "=" /\ r.type = "Null") THEN Bool(FALSE)
  ELSE IF ~Comparable(op, l, r) THEN Error
  ELSE Bool(CASE op = "=" -> compatibleEqual(l, r)
              [] op = "<>" -> ~compatibleEqual(l, r)
              [] op = "<" -> compatibleLess(l, r)
              [] op = "<=" -> compatibleLessOrEqual(l, r)
              [] op = ">" -> compatibleGreater(l, r)
              [] op = ">=" -> compatibleGreaterOrEqual(l, r))

-----------------------------------------------------------------------------
(* Described types, by the order of the enumeration.                       *)
Later(s, t) == IF Rank[s] >= Rank[t] THEN s ELSE t

(* The type of the result is the later one of the operands' types.         *)
NumericResultTypeMutant(s, t) == Later(s, t)

NumericResultType(s, t) == Later(Later(s, t), "Int32")

(* getSignedType of column data types; the one of VariantType keeps the    *)
(* width.                                                                  *)
SignedColumnType(t) ==
  CASE t = "UInt8" -> "Int8" [] t \in {"UInt16", "UInt32", "UInt64"} -> "Int16" [] OTHER -> t

DescribedUnary(op, t) ==
  IF t \notin IntTypes THEN "Null"
  ELSE IF Rank[t] <= Rank["Int32"] THEN "Int32"
  ELSE IF op = "~" THEN t ELSE SignedColumnType(t)

DescribedBinary(s, t) ==
  IF s \in IntTypes /\ t \in IntTypes THEN NumericResultType(s, t) ELSE "Null"

(* Where the described type is not the one of the value: signs of wide     *)
(* unsigned numbers, shifts by a number of a later type, two casts.        *)
UnaryException(op, t) == op # "~" /\ t \in {"UInt32", "UInt64"}
ShiftException(op, s, t) == op \in ShiftOps /\ Rank[t] > Rank[Later(s, "Int32")]
CastException(t) == t \in {"UInt8", "UInt32"}

(* Operands that validate() accepts.  It asks getResultValueType(), which  *)
(* is numeric exactly when the described type is.                          *)
ValidOperand(t) == t \in IntTypes \cup {"Null"}

-----------------------------------------------------------------------------
Columns == DOMAIN ColumnType

(* The literal has the smallest unsigned type that holds it.               *)
LiteralValue(n) ==
  LET t == CHOOSE t \in Unsigned : n \in RangeOf(t) /\ \A s \in Unsigned : n \in RangeOf(s) => Rank[t] <= Rank[s]
  IN Val(t, n)

(* What an expression may be combined with: a literal or a column.         *)
Operands ==
  {[val |-> LiteralValue(n), type |-> LiteralValue(n).type, exact |-> n] : n \in Literals}
  \cup {[val |-> cells[c], type |-> ColumnType[c], exact |-> cellExact[c]] : c \in Columns}

(* The integer n as long as the type holds it.                             *)
InRange(type, n) ==
  IF n = Inexact \/ type \notin IntTypes THEN Inexact
  ELSE IF n \in RangeOf(type) THEN n ELSE Inexact

Init ==
  /\ cells = [c \in Columns |-> IF c \in NotNull THEN Val(ColumnType[c], 0) ELSE NullValue]
  /\ cellExact = [c \in Columns |-> IF c \in NotNull THEN InRange(ColumnType[c], 0) ELSE Inexact]
  /\ acc = Nothing /\ described = "Null" /\ exact = Inexact
  /\ agree = TRUE /\ valid = TRUE /\ alive = TRUE /\ steps = 0

Step == alive /\ steps < MaxSteps /\ steps' = steps + 1

NoExpression ==
  acc' = Nothing /\ described' = "Null" /\ exact' = Inexact /\ agree' = TRUE /\ valid' = TRUE

(* The new value of the accumulator; an error ends the statement, a trap   *)
(* the process.                                                            *)
Evaluated(x, type, n, ok, accepted) ==
  /\ alive' = (x # Trap)
  /\ IF x \in {Error, Trap} THEN NoExpression
     ELSE /\ acc' = x /\ described' = type /\ agree' = ok /\ valid' = accepted
          /\ exact' = InRange(type, n)
  /\ UNCHANGED <<cells, cellExact>>

(* A literal or a column begins an expression.                             *)
Start == Step /\ \E o \in Operands : Evaluated(o.val, o.type, o.exact, TRUE, TRUE)

(* SELECT and INSERT evaluate expressions that validate() would refuse:    *)
(* the operators then refuse the values, unless they are NULL.             *)
ApplyUnary(op) ==
  /\ Step /\ acc # Nothing
  /\ Evaluated(Unary(op, acc), DescribedUnary(op, described),
               IF exact = Inexact THEN Inexact
               ELSE CASE op = "minus" -> -exact [] op = "plus" -> exact [] op = "~" -> -exact - 1,
               agree /\ ~UnaryException(op, described), valid /\ ValidOperand(described))

(* The integer that a binary operation denotes; that of a division only    *)
(* when both operands have a place in the common type.                     *)
ExactBinary(op, o) ==
  LET t == DescribedBinary(described, o.type)
  IN IF exact = Inexact \/ o.exact = Inexact \/ op \notin ArithmeticOps THEN Inexact
     ELSE IF op \in {"/", "%"} /\ (o.exact = 0 \/ ~{exact, o.exact} \subseteq RangeOf(t)) THEN Inexact
     ELSE CASE op = "+" -> exact + o.exact
            [] op = "-" -> exact - o.exact
            [] op = "*" -> exact * o.exact
            [] op = "/" -> Quotient(exact, o.exact)
            [] op = "%" -> Remainder(exact, o.exact)

(* The sum of two texts, their concatenation, is left out.                 *)
ApplyBinary(op) ==
  /\ Step /\ acc # Nothing
  /\ \E o \in Operands :
       /\ ~(op = "+" /\ described = "String" /\ o.type = "String")
       /\ Evaluated(Binary(op, acc, o.val), DescribedBinary(described, o.type), ExactBinary(op, o),
                    agree /\ ~ShiftException(op, described, o.type),
                    valid /\ ValidOperand(described) /\ ValidOperand(o.type))

ApplyComparison(op) ==
  /\ Step /\ acc # Nothing
  /\ \E o \in Operands : Evaluated(Compare(op, acc, o.val), "Bool", Inexact, TRUE, valid)

(* A negative int8 loses its sign on the way to most types.                *)
SignLost(x, t) == x.type = "Int8" /\ x.v < 0 /\ t \in ReadsInt8AsUnsigned

ApplyCast(t) ==
  /\ Step /\ acc # Nothing
  /\ Evaluated(CastTo(t, acc), t,
               IF ~agree \/ SignLost(acc, t) \/ CastException(t) THEN Inexact ELSE exact,
               ~CastException(t), valid)

(* Column::writeRecord: NULL is refused by NOT NULL, any other value is    *)
(* converted to the type of the column.                                    *)
Stored(c, x) ==
  IF x.type = "Null" THEN IF c \in NotNull THEN Error ELSE NullValue
  ELSE IF x.type = ColumnType[c] THEN x ELSE As(ColumnType[c], x)

EndStatement(c, x, n) ==
  /\ IF x = Error THEN UNCHANGED <<cells, cellExact>>
     ELSE /\ cells' = [cells EXCEPT ![c] = x]
          /\ cellExact' = [cellExact EXCEPT ![c] = InRange(ColumnType[c], n)]
  /\ NoExpression
  /\ UNCHANGED alive

(* UPDATE stores what validate() has accepted, INSERT what has no columns. *)
Store(c) ==
  /\ Step /\ acc # Nothing /\ valid
  /\ EndStatement(c, Stored(c, acc), IF ~agree \/ SignLost(acc, ColumnType[c]) THEN Inexact ELSE exact)

(* A negative DEFAULT is negated as an unsigned number of 64 bits.         *)
StoreDefault(c) ==
  /\ Step /\ acc = Nothing
  /\ \E n \in Literals \ {0} :
       EndStatement(c, Stored(c, LiteralValue(Wrap("UInt64", -n))), -n)

Next ==
  \/ Start
  \/ \E op \in UnaryOps : ApplyUnary(op)
  \/ \E op \in BinaryOps : ApplyBinary(op)
  \/ \E op \in Comparisons : ApplyComparison(op)
  \/ \E t \in Types \ {"Null"} : ApplyCast(t)
  \/ \E c \in Columns : Store(c) \/ StoreDefault(c)

Spec == Init /\ [][Next]_vars

-----------------------------------------------------------------------------
(* Properties.                                                             *)

(* Every value lies in the range of its type, in expressions and columns.  *)
TypeOK ==
  /\ \A x \in {acc} \cup {cells[c] : c \in Columns} :
       /\ x.type \in Types \cup {"Nothing"}
       /\ x.type \in IntTypes => x.v \in RangeOf(x.type)
  /\ \A c \in Columns : cells[c].type \in {"Null", ColumnType[c]}
  /\ described \in Types /\ agree \in BOOLEAN /\ valid \in BOOLEAN /\ alive \in BOOLEAN
  /\ steps \in 0..MaxSteps

(* An expression that stays within the described types of its parts has    *)
(* the value of integer arithmetic, and so has what is stored and read     *)
(* again: promotions, conversions modulo the width and the mixture of      *)
(* signed and unsigned operands never change it (operator+ ... operator%,  *)
(* asInt8 ... asUInt64, Column::writeRecord).  Named exceptions: a         *)
(* negative int8 that is converted; and, until a cast or a comparison      *)
(* follows, what comes after the unary signs of UINT32 and UINT64, a shift *)
(* by a number of a later type, and CAST to UINT8 and UINT32, of which     *)
(* another type is described than they have.                               *)
ExactWhileInRange ==
  /\ agree /\ exact # Inexact => acc.v = exact
  /\ \A c \in Columns : cellExact[c] # Inexact => cells[c].v = cellExact[c]

(* The type by which SELECT describes a result column (getColumnDataType,  *)
(* RequestHandler_DQL.cpp:236) is the type of the value that is written    *)
(* into the row (writeVariant), so that the client reads as many bytes as  *)
(* were written, unless the value is NULL or one of the operators of       *)
(* UnaryException, ShiftException and CastException was used.              *)
DescribedTypeIsActual ==
  agree /\ acc # Nothing => acc.type \in {described, "Null"}

(* A value that the signed type of its width holds.                        *)
FitsSigned(x) == x.type \in Unsigned => x.v \in RangeOf(SignedTypeOf(x.type))

(* Comparisons agree with the order of the integers, and with themselves   *)
(* when the operands are exchanged, unless an unsigned operand is too      *)
(* large for the signed type of its width.                                 *)
OrderIsExact ==
  \A c \in Columns :
    LET x == acc
        y == cells[c]
    IN {x.type, y.type} \subseteq IntTypes
         /\ ({x.type, y.type} \subseteq Unsigned \/ (FitsSigned(x) /\ FitsSigned(y)))
       => /\ compatibleLess(x, y) <=> x.v < y.v
          /\ compatibleGreater(x, y) <=> x.v > y.v
          /\ compatibleLessOrEqual(x, y) <=> x.v <= y.v
          /\ compatibleGreaterOrEqual(x, y) <=> x.v >= y.v
          /\ compatibleEqual(x, y) <=> x.v = y.v
          /\ compatibleEqual(y, x) <=> x.v = y.v
          /\ compatibleLess(y, x) <=> x.v > y.v
=============================================================================
