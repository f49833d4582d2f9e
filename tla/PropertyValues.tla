--------------------------- MODULE PropertyValues ---------------------------
(***************************************************************************)
(* Property values as the two ways of selecting by them see them: the text *)
(* canonical_value gives a value, which is its key in the property index   *)
(* (src/src/base/value.cpp), and compare_property, which predicates on     *)
(* scanned nodes use (src/src/query/query.cpp).                            *)
(*                                                                         *)
(* A value is [tag, n].  A double counts halves, so that one is between    *)
(* the integers; strings are numbered in their bytewise order.  Floating   *)
(* point is scaled down: integers up to Exact (2^53 in the code) are       *)
(* doubles, above it up to 2 * Exact only the even ones, then multiples of *)
(* 4, and so on through Spacings (the powers of 2), and a text of 17       *)
(* digits has no exponent below SciFrom (10^17).                           *)
(***************************************************************************)
EXTENDS Integers

CONSTANTS Exact, Spacings, SciFrom

ASSUME PropertyValuesAssumption ==
  /\ Exact \in Nat \ {0}
  /\ Spacings \subseteq Nat \ {0} /\ 1 \in Spacings
  /\ SciFrom \in Nat /\ SciFrom > Exact

Ops == {"=", "!=", "<", "<=", ">", ">="}

BoolValue(b)   == [tag |-> "bool", n |-> b]
StringValue(i) == [tag |-> "string", n |-> i]
IntValue(i)    == [tag |-> "int", n |-> i]
DoubleValue(h) == [tag |-> "double", n |-> h]
MinusZero      == [tag |-> "minus zero", n |-> 0]   \* the double -0.0
NotFinite      == [tag |-> "not finite", n |-> 0]   \* only as the value of a parameter

\* The distance between the doubles around an integer.
Within(i, s) == i \in -(s * Exact)..(s * Exact)
InRange(i)   == \E s \in Spacings : Within(i, s)
Spacing(i)   == CHOOSE s \in Spacings : Within(i, s) /\ \A r \in Spacings : Within(i, r) => s <= r

\* A double is a half or, from Exact on, an integer at its distance.
IsPropertyValue(v) ==
  \/ v.tag = "bool" /\ v = BoolValue(v.n) /\ v.n \in {0, 1}
  \/ v.tag = "string" /\ v = StringValue(v.n) /\ v.n \in Int
  \/ v.tag = "int" /\ v = IntValue(v.n) /\ v.n \in Int /\ InRange(v.n)
  \/ /\ v.tag = "double" /\ v = DoubleValue(v.n) /\ v.n \in Int
     /\ \/ v.n \in -(2 * Exact)..(2 * Exact)
        \/ /\ v.n % 2 = 0 /\ InRange(v.n \div 2)
           /\ (v.n \div 2) % Spacing(v.n \div 2) = 0
  \/ v \in {MinusZero, NotFinite}

IsNumeric(v) == v.tag \in {"int", "double", "minus zero", "not finite"}

\* A mutation: a double is written without its fraction.
CanonicalTruncated(v) == IF v.tag = "double" THEN IntValue(v.n \div 2) ELSE v

\* canonical_value: a double that is a small integer is written like that
\* integer; no other two values have the same text.
Canonical(v) ==
  IF v.tag = "double" /\ v.n % 2 = 0 /\ v.n \div 2 \in -(SciFrom-1)..(SciFrom-1)
  THEN IntValue(v.n \div 2)
  ELSE v

\* An integer converted to double: to the nearest, half-way to the even
\* significand.
Rounded(i) ==
  LET s     == Spacing(i)
      below == i - (i % s)
      near  == 2 * (i % s)
  IN  IF near < s \/ (near = s /\ (below \div s) % 2 = 0) THEN below ELSE below + s

\* In halves.
NumericValue(v) == IF v.tag = "int" THEN 2 * Rounded(v.n) ELSE v.n

Comparison(x, y) == CASE x < y -> -1 [] x > y -> 1 [] x = y -> 0

ApplyComparison(c, op) ==
  CASE op = "="  -> c = 0
    [] op = "!=" -> c # 0
    [] op = "<"  -> c < 0
    [] op = "<=" -> c <= 0
    [] op = ">"  -> c > 0
    [] op = ">=" -> c >= 0

Answer(b) == IF b THEN "yes" ELSE "no"

\* compare_property, and the QueryType error it may return.
Compare(lhs, op, rhs) ==
  CASE IsNumeric(lhs) /\ IsNumeric(rhs) ->
         IF NotFinite \in {lhs, rhs} THEN "error"
         ELSE Answer(ApplyComparison(Comparison(NumericValue(lhs), NumericValue(rhs)), op))
    [] lhs.tag = rhs.tag /\ (lhs.tag = "string" \/ (lhs.tag = "bool" /\ op \in {"=", "!="})) ->
         Answer(ApplyComparison(Comparison(lhs.n, rhs.n), op))
    [] lhs.tag = "bool" /\ rhs.tag = "bool" /\ op \notin {"=", "!="} -> "error"
    [] ~(IsNumeric(lhs) /\ IsNumeric(rhs)) /\ lhs.tag # rhs.tag ->
         CASE op = "=" -> "no" [] op = "!=" -> "yes" [] OTHER -> "error"
=============================================================================
