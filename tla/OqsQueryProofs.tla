--------------------------- MODULE OqsQueryProofs ---------------------------
(***************************************************************************)
(* A text is accepted exactly if it is a statement of the language, and     *)
(* the executor keeps its promises on the query that was prepared of it.    *)
(*                                                                          *)
(* The parser reads clause by clause: one lemma for each clause says that   *)
(* what it read fits the clause of the ast it leaves (so what is accepted   *)
(* is as written), and that it reads any clause which is there and is       *)
(* followed by a keyword that may follow it (so what is written is          *)
(* accepted).  The two directions join these facts along the text, and no   *)
(* text is a phrase of two asts that mean different things.  Then           *)
(* an ast of the parser, bound to a graph, is a query as the proofs of the  *)
(* executor suppose it (IsQuery), and its invariant carries over.           *)
(***************************************************************************)
EXTENDS OqsQuery, QueryExecProofs

-----------------------------------------------------------------------------
(* Phrases, and the place of the parser in the text.                        *)

\* A sequence, of whatever items.
IsList(p) == Len(p) \in Nat /\ p = [i \in 1..Len(p) |-> p[i]]

\* The tokens of z after the first m are spelled as the phrase p says.
FitsAt(z, m, p) ==
  /\ m + Len(p) <= Len(z)
  /\ \A i \in 1..Len(p) : IsSpelled(z[m + i], p[i])

\* The parser is in the state s when it has read m tokens of z.
IsAt(s, z, m) == m \in 0..Len(z) /\ s.rest = SubSeq(z, m + 1, Len(z))

IsState(s) ==
  /\ s = [rest |-> s.rest, error |-> s.error, ast |-> s.ast]
  /\ s.ast = [label |-> s.ast.label, where |-> s.ast.where, mode |-> s.ast.mode,
              direction |-> s.ast.direction, type |-> s.ast.type, hops |-> s.ast.hops,
              cost |-> s.ast.cost, yield |-> s.ast.yield, ordered |-> s.ast.ordered,
              desc |-> s.ast.desc]

ParserErrors == {"none", "limit", "syntax", "overflow", "throws"}

\* What comes after the first m tokens begins with one of the keywords K, if
\* there is anything.
Follows(z, m, K) == m < Len(z) => Folded(z[m + 1]) \in K

(* The items of two phrases, one after the other.                           *)
LEMMA ConcatList ==
  ASSUME NEW p, NEW r, IsList(p), IsList(r)
  PROVE  /\ IsList(p \o r) /\ Len(p \o r) = Len(p) + Len(r)
         /\ \A i \in 1..Len(p) : (p \o r)[i] = p[i]
         /\ \A i \in 1..Len(r) : (p \o r)[Len(p) + i] = r[i]
  <1> DEFINE S == {p[i] : i \in 1..Len(p)} \union {r[i] : i \in 1..Len(r)}
  <1>1. p \in Seq(S) /\ r \in Seq(S)
    <2>1. \A i \in 1..Len(p) : p[i] \in S
      OBVIOUS
    <2>2. \A i \in 1..Len(r) : r[i] \in S
      OBVIOUS
    <2> HIDE DEF S
    <2>3. p \in [1..Len(p) -> S] /\ r \in [1..Len(r) -> S]
      BY <2>1, <2>2 DEF IsList
    <2> QED
      BY <2>3, SeqDef DEF IsList
  <1> HIDE DEF S
  <1>2. /\ p \o r \in Seq(S) /\ Len(p \o r) = Len(p) + Len(r)
        /\ \A i \in 1..Len(p) + Len(r) : (p \o r)[i] = IF i <= Len(p) THEN p[i] ELSE r[i - Len(p)]
    BY <1>1, ConcatProperties
  <1>3. Len(p) \in Nat /\ Len(r) \in Nat
    BY DEF IsList
  <1>4. IsList(p \o r)
    <2>1. p \o r \in [1..Len(p \o r) -> S] /\ Len(p \o r) \in Nat
      BY <1>2, LenProperties
    <2> QED
      BY <2>1 DEF IsList
  <1>5. \A i \in 1..Len(p) : (p \o r)[i] = p[i]
    BY <1>2, <1>3
  <1>6. ASSUME NEW i \in 1..Len(r) PROVE (p \o r)[Len(p) + i] = r[i]
    BY <1>2, <1>3
  <1> QED
    BY <1>2, <1>4, <1>5, <1>6

(* Tokens fit a phrase if its parts fit one after the other.                *)
LEMMA FitsConcat ==
  ASSUME NEW z, NEW m \in Nat, NEW p, NEW r, IsList(p), IsList(r), Len(z) \in Nat
  PROVE  FitsAt(z, m, p \o r) <=> FitsAt(z, m, p) /\ FitsAt(z, m + Len(p), r)
  <1>1. /\ Len(p \o r) = Len(p) + Len(r) /\ Len(p) \in Nat /\ Len(r) \in Nat
        /\ \A i \in 1..Len(p) : (p \o r)[i] = p[i]
        /\ \A i \in 1..Len(r) : (p \o r)[Len(p) + i] = r[i]
    BY ConcatList DEF IsList
  <1>2. ASSUME FitsAt(z, m, p \o r) PROVE FitsAt(z, m, p) /\ FitsAt(z, m + Len(p), r)
    <2>1. /\ m + Len(p) + Len(r) <= Len(z)
          /\ \A i \in 1..Len(p) + Len(r) : IsSpelled(z[m + i], (p \o r)[i])
      BY <1>1, <1>2 DEF FitsAt
    <2>2. ASSUME NEW i \in 1..Len(p) PROVE IsSpelled(z[m + i], p[i])
      BY <1>1, <2>1
    <2>3. ASSUME NEW i \in 1..Len(r) PROVE IsSpelled(z[m + Len(p) + i], r[i])
      <3>1. Len(p) + i \in 1..Len(p) + Len(r) /\ m + (Len(p) + i) = m + Len(p) + i
        BY <1>1
      <3> QED
        BY <1>1, <2>1, <3>1
    <2> QED
      BY <1>1, <2>1, <2>2, <2>3 DEF FitsAt
  <1>3. ASSUME FitsAt(z, m, p), FitsAt(z, m + Len(p), r) PROVE FitsAt(z, m, p \o r)
    <2>1. /\ m + Len(p) + Len(r) <= Len(z)
          /\ \A i \in 1..Len(p) : IsSpelled(z[m + i], p[i])
          /\ \A i \in 1..Len(r) : IsSpelled(z[m + Len(p) + i], r[i])
      BY <1>3 DEF FitsAt
    <2>2. ASSUME NEW i \in 1..Len(p) + Len(r) PROVE IsSpelled(z[m + i], (p \o r)[i])
      <3>1. CASE i \in 1..Len(p)
        BY <1>1, <2>1, <3>1
      <3>2. CASE i \notin 1..Len(p)
        <4>1. i - Len(p) \in 1..Len(r) /\ Len(p) + (i - Len(p)) = i
              /\ m + Len(p) + (i - Len(p)) = m + i
          BY <1>1, <3>2
        <4> QED
          BY <1>1, <2>1, <4>1
      <3> QED
        BY <3>1, <3>2
    <2> QED
      BY <1>1, <2>1, <2>2 DEF FitsAt
  <1> QED
    BY <1>2, <1>3

(* What the parser sees when it has read m tokens.                          *)
LEMMA TokensAt ==
  ASSUME NEW z \in Seq(STRING), NEW s, NEW m, IsAt(s, z, m)
  PROVE  /\ m \in Nat /\ Len(z) \in Nat /\ Len(s.rest) = Len(z) - m
         /\ \A i \in 1..(Len(z) - m) : s.rest[i] = z[m + i]
         /\ s.rest = <<>> <=> m = Len(z)
  <1>1. Len(z) \in Nat /\ m \in Nat /\ m <= Len(z) /\ s.rest = SubSeq(z, m + 1, Len(z))
    BY LenProperties DEF IsAt
  <1>2. \A i \in m + 1..Len(z) : z[i] \in STRING
    BY <1>1, ElementOfSeq
  <1>3. /\ s.rest \in Seq(STRING)
        /\ Len(s.rest) = IF m + 1 <= Len(z) THEN Len(z) - (m + 1) + 1 ELSE 0
        /\ \A i \in 1..(Len(z) - (m + 1) + 1) : s.rest[i] = z[m + 1 + i - 1]
    BY <1>1, <1>2, SubSeqProperties
  <1>4. s.rest = <<>> <=> Len(s.rest) = 0
    BY <1>3, EmptySeq
  <1>5. Len(s.rest) = Len(z) - m
    BY <1>1, <1>3
  <1>6. ASSUME NEW i \in 1..(Len(z) - m) PROVE s.rest[i] = z[m + i]
    <2>1. i \in 1..(Len(z) - (m + 1) + 1) /\ m + 1 + i - 1 = m + i
      BY <1>1
    <2> QED
      BY <1>3, <2>1
  <1> QED
    BY <1>1, <1>4, <1>5, <1>6

(* The parser reads n more tokens.                                          *)
LEMMA PastAt ==
  ASSUME NEW z \in Seq(STRING), NEW s, NEW m, IsAt(s, z, m), IsState(s), NEW n \in 0..(Len(z) - m)
  PROVE  /\ IsAt(Past(s, n), z, m + n) /\ IsState(Past(s, n))
         /\ Past(s, n).error = s.error /\ Past(s, n).ast = s.ast
  <1>1. Len(z) \in Nat /\ m \in Nat /\ m <= Len(z) /\ s.rest = SubSeq(z, m + 1, Len(z)) /\ n \in Nat
    BY LenProperties DEF IsAt
  <1>2. Past(s, n) = [s EXCEPT !.rest = SubSeq(s.rest, n + 1, Len(s.rest))]
    BY DEF Past
  <1>3. /\ Past(s, n).rest = SubSeq(s.rest, n + 1, Len(s.rest))
        /\ Past(s, n).error = s.error /\ Past(s, n).ast = s.ast
        /\ IsState(Past(s, n))
    BY <1>2 DEF IsState
  <1>4. SubSeq(s.rest, n + 1, Len(s.rest)) = SubSeq(z, m + n + 1, Len(z))
    <2> DEFINE a == SubSeq(s.rest, n + 1, Len(s.rest))
               b == SubSeq(z, m + n + 1, Len(z))
    <2>1. /\ Len(s.rest) = Len(z) - m
          /\ \A i \in 1..(Len(z) - m) : s.rest[i] = z[m + i]
      BY TokensAt
    <2>2. \A i \in 1..Len(z) : z[i] \in STRING
      BY <1>1, ElementOfSeq
    <2>3. \A i \in n + 1..Len(s.rest) : s.rest[i] \in STRING
      BY <1>1, <2>1, <2>2
    <2>9. n + 1 \in Int /\ Len(s.rest) \in Int
      BY <1>1, <2>1
    <2>4. /\ a \in Seq(STRING)
          /\ Len(a) = IF n + 1 <= Len(s.rest) THEN Len(s.rest) - (n + 1) + 1 ELSE 0
          /\ \A i \in 1..(Len(s.rest) - (n + 1) + 1) : a[i] = s.rest[n + 1 + i - 1]
      BY <2>3, <2>9, SubSeqProperties
    <2>5. /\ b \in Seq(STRING)
          /\ Len(b) = IF m + n + 1 <= Len(z) THEN Len(z) - (m + n + 1) + 1 ELSE 0
          /\ \A i \in 1..(Len(z) - (m + n + 1) + 1) : b[i] = z[m + n + 1 + i - 1]
      BY <1>1, <2>2, SubSeqProperties
    <2> HIDE DEF a, b
    <2>6. Len(a) = Len(b) /\ Len(a) = Len(z) - m - n
      BY <1>1, <2>1, <2>4, <2>5
    <2>7. ASSUME NEW i \in 1..Len(a) PROVE a[i] = b[i]
      <3>1. i \in 1..(Len(s.rest) - (n + 1) + 1) /\ n + 1 + i - 1 = n + i
            /\ i \in 1..(Len(z) - (m + n + 1) + 1) /\ m + n + 1 + i - 1 = m + (n + i)
            /\ n + i \in 1..(Len(z) - m)
        BY <1>1, <2>1, <2>6
      <3> QED
        BY <2>1, <2>4, <2>5, <3>1
    <2>8. a = b
      BY <2>4, <2>5, <2>6, <2>7, SeqEqual
    <2> QED
      BY <2>8 DEF a, b
  <1>5. m + n \in 0..Len(z)
    BY <1>1
  <1> QED
    BY <1>3, <1>4, <1>5 DEF IsAt

-----------------------------------------------------------------------------
(* Items and short phrases; AT and FROM.                                    *)

(* What a keyword asks of its token.                                        *)
LEMMA SpellsKeyword ==
  ASSUME NEW t, NEW x
  PROVE  IsSpelled(t, Keyword(x)) <=> Folded(t) = x
  BY DEF IsSpelled, Keyword

(* What a name asks of its token.                                           *)
LEMMA SpellsName ==
  ASSUME NEW t, NEW x
  PROVE  IsSpelled(t, Name(x)) <=> t = x
  BY DEF IsSpelled, Name

(* What a literal asks of its token.                                        *)
LEMMA SpellsLiteral ==
  ASSUME NEW t, NEW x
  PROVE  IsSpelled(t, Literal(x)) <=> t \notin DOMAIN Parameter /\ ParseLiteral(t) = x
  BY DEF IsSpelled, Literal

(* What a parameter asks of its token.                                      *)
LEMMA SpellsArgument ==
  ASSUME NEW t, NEW x
  PROVE  IsSpelled(t, Argument(x)) <=> t \in DOMAIN Parameter /\ Parameter[t] = x
  BY DEF IsSpelled, Argument

(* What a bound asks of its token.                                          *)
LEMMA SpellsBound ==
  ASSUME NEW t, NEW x
  PROVE  IsSpelled(t, Bound(x)) <=> t \in DOMAIN Digits /\ Digits[t] = x
  BY DEF IsSpelled, Bound

(* A selector may be any token.                                             *)
LEMMA SpellsSelector == \A t : IsSpelled(t, Selector)
  BY DEF IsSpelled, Selector

(* Nothing fits anywhere.                                                   *)
LEMMA FitsNone ==
  ASSUME NEW z, NEW m \in Nat, Len(z) \in Nat, m <= Len(z)
  PROVE  FitsAt(z, m, <<>>) /\ IsList(<<>>) /\ Len(<<>>) = 0
  <1>1. Len(<<>>) = 0 /\ IsList(<<>>)
    BY DEF IsList
  <1> QED
    BY <1>1 DEF FitsAt

(* A phrase of two items, item by item.                                     *)
LEMMA FitsTwo ==
  ASSUME NEW z, NEW m \in Nat, Len(z) \in Nat, NEW a, NEW b
  PROVE  /\ IsList(<<a, b>>) /\ Len(<<a, b>>) = 2
         /\ FitsAt(z, m, <<a, b>>) <=>
              /\ m + 2 <= Len(z)
              /\ IsSpelled(z[m + 1], a)
              /\ IsSpelled(z[m + 2], b)
  <1>1. IsList(<<a, b>>) /\ Len(<<a, b>>) = 2 /\ 1..2 = {1, 2}
    BY DEF IsList
  <1> QED
    BY <1>1 DEF FitsAt

(* A phrase of three items, item by item.                                   *)
LEMMA FitsThree ==
  ASSUME NEW z, NEW m \in Nat, Len(z) \in Nat, NEW a, NEW b, NEW c
  PROVE  /\ IsList(<<a, b, c>>) /\ Len(<<a, b, c>>) = 3
         /\ FitsAt(z, m, <<a, b, c>>) <=>
              /\ m + 3 <= Len(z)
              /\ IsSpelled(z[m + 1], a)
              /\ IsSpelled(z[m + 2], b)
              /\ IsSpelled(z[m + 3], c)
  <1>1. IsList(<<a, b, c>>) /\ Len(<<a, b, c>>) = 3 /\ 1..3 = {1, 2, 3}
    BY DEF IsList
  <1> QED
    BY <1>1 DEF FitsAt

(* A phrase of four items, item by item.                                    *)
LEMMA FitsFour ==
  ASSUME NEW z, NEW m \in Nat, Len(z) \in Nat, NEW a, NEW b, NEW c, NEW d
  PROVE  /\ IsList(<<a, b, c, d>>) /\ Len(<<a, b, c, d>>) = 4
         /\ FitsAt(z, m, <<a, b, c, d>>) <=>
              /\ m + 4 <= Len(z)
              /\ IsSpelled(z[m + 1], a)
              /\ IsSpelled(z[m + 2], b)
              /\ IsSpelled(z[m + 3], c)
              /\ IsSpelled(z[m + 4], d)
  <1>1. IsList(<<a, b, c, d>>) /\ Len(<<a, b, c, d>>) = 4 /\ 1..4 = {1, 2, 3, 4}
    BY DEF IsList
  <1> QED
    BY <1>1 DEF FitsAt

(* A phrase of five items, item by item.                                    *)
LEMMA FitsFive ==
  ASSUME NEW z, NEW m \in Nat, Len(z) \in Nat, NEW a, NEW b, NEW c, NEW d, NEW e
  PROVE  /\ IsList(<<a, b, c, d, e>>) /\ Len(<<a, b, c, d, e>>) = 5
         /\ FitsAt(z, m, <<a, b, c, d, e>>) <=>
              /\ m + 5 <= Len(z)
              /\ IsSpelled(z[m + 1], a)
              /\ IsSpelled(z[m + 2], b)
              /\ IsSpelled(z[m + 3], c)
              /\ IsSpelled(z[m + 4], d)
              /\ IsSpelled(z[m + 5], e)
  <1>1. IsList(<<a, b, c, d, e>>) /\ Len(<<a, b, c, d, e>>) = 5 /\ 1..5 = {1, 2, 3, 4, 5}
    BY DEF IsList
  <1> QED
    BY <1>1, SMTT(30) DEF FitsAt

(* A clause that fails.                                                     *)
LEMMA FailsState ==
  ASSUME NEW s, IsState(s), NEW kind
  PROVE  /\ IsState(Fails(s, kind)) /\ Fails(s, kind).ast = s.ast
         /\ Fails(s, kind).error = IF s.error = "none" THEN kind ELSE s.error
  BY DEF IsState, Fails

(* The keyword is the next token.                                           *)
LEMMA SeesAt ==
  ASSUME NEW z \in Seq(STRING), NEW s, NEW m, IsAt(s, z, m), NEW n \in Nat \ {0}, NEW keyword
  PROVE  Sees(s, n, keyword) <=> m + n <= Len(z) /\ Folded(z[m + n]) = keyword
  <1>1. /\ m \in Nat /\ Len(z) \in Nat /\ Len(s.rest) = Len(z) - m
        /\ \A i \in 1..(Len(z) - m) : s.rest[i] = z[m + i]
    BY TokensAt
  <1>2. Len(s.rest) >= n <=> n \in 1..(Len(z) - m)
    BY <1>1
  <1>3. n \in 1..(Len(z) - m) <=> m + n <= Len(z)
    BY <1>1
  <1> QED
    BY <1>1, <1>2, <1>3 DEF Sees

(* AT with its two selectors, or nothing.                                   *)
LEMMA AtClauseReads ==
  ASSUME NEW z \in Seq(STRING), NEW s, NEW m, IsAt(s, z, m), IsState(s), s.error = "none",
         NEW t, t = AtClause(s)
  PROVE  /\ IsState(t) /\ t.ast = s.ast /\ t.error \in ParserErrors
         /\ t.error = "none" => \E p \in AtPhrases : FitsAt(z, m, p) /\ IsAt(t, z, m + Len(p))
         /\ \A p \in AtPhrases : FitsAt(z, m, p) /\ Follows(z, m + Len(p), {"FROM"}) =>
              t.error = "none" /\ IsAt(t, z, m + Len(p))
  <1> DEFINE full == <<Keyword("AT"), Keyword("COMMIT"), Selector, Keyword("TIME"), Selector>>
             there == /\ m + 5 <= Len(z) /\ Folded(z[m + 1]) = "AT" /\ Folded(z[m + 2]) = "COMMIT"
                      /\ Folded(z[m + 4]) = "TIME"
             opens == m + 1 <= Len(z) /\ Folded(z[m + 1]) = "AT"
  <1>1. m \in Nat /\ Len(z) \in Nat /\ m <= Len(z) /\ Len(s.rest) = Len(z) - m
    BY TokensAt DEF IsAt
  <1>2. (FitsAt(z, m, full) <=> there) /\ Len(full) = 5
    <2>1. Len(full) = 5 /\ (FitsAt(z, m, full) <=>
            /\ m + 5 <= Len(z)
            /\ IsSpelled(z[m + 1], Keyword("AT")) /\ IsSpelled(z[m + 2], Keyword("COMMIT"))
            /\ IsSpelled(z[m + 3], Selector) /\ IsSpelled(z[m + 4], Keyword("TIME"))
            /\ IsSpelled(z[m + 5], Selector))
      BY <1>1, FitsFive
    <2> HIDE DEF full
    <2> QED
      BY <2>1, SpellsKeyword, SpellsSelector
  <1>3. FitsAt(z, m, <<>>) /\ Len(<<>>) = 0
    BY <1>1, FitsNone
  <1>4. Opens(s, "AT") <=> opens
    BY <1>1, SeesAt DEF Opens
  <1>5. (Opens(s, "AT") /\ Sees(s, 2, "COMMIT") /\ Sees(s, 4, "TIME") /\ Len(s.rest) >= 5) <=> there
    BY <1>1, <1>4, SeesAt
  <1>6. AtPhrases = {<<>>, full}
    BY DEF AtPhrases
  <1> HIDE DEF full, there, opens
  <1>7. CASE ~opens
    <2>1. t = s /\ ~there
      BY <1>1, <1>4, <1>5, <1>7 DEF AtClause
    <2>2. m + 0 = m
      BY <1>1
    <2> QED
      BY <1>2, <1>3, <1>6, <2>1, <2>2 DEF ParserErrors
  <1>8. CASE there
    <2>1. t = Past(s, 5) /\ 5 \in 0..(Len(z) - m)
      BY <1>1, <1>4, <1>5, <1>8 DEF AtClause, there
    <2>2. IsState(t) /\ t.ast = s.ast /\ t.error = "none" /\ IsAt(t, z, m + 5)
      BY <2>1, PastAt
    <2>3. ~Follows(z, m + 0, {"FROM"})
      BY <1>1, <1>8 DEF there, Follows
    <2> QED
      BY <1>2, <1>3, <1>6, <1>8, <2>2, <2>3 DEF ParserErrors
  <1>9. CASE opens /\ ~there
    <2>1. t = Fails(s, "syntax")
      BY <1>4, <1>5, <1>9 DEF AtClause
    <2>2. IsState(t) /\ t.ast = s.ast /\ t.error = "syntax"
      BY <2>1, FailsState
    <2>3. ~Follows(z, m + 0, {"FROM"})
      BY <1>1, <1>9 DEF opens, Follows
    <2> QED
      BY <1>2, <1>3, <1>6, <1>9, <2>2, <2>3 DEF ParserErrors
  <1> QED
    BY <1>7, <1>8, <1>9

\* The asts differ in their labels only.
Relabelled(a, b) == a = [b EXCEPT !.label = a.label]

(* FROM and a label.                                                        *)
LEMMA FromClauseReads ==
  ASSUME NEW z \in Seq(STRING), NEW s, NEW m, IsAt(s, z, m), IsState(s), s.error = "none",
         NEW t, t = FromClause(s)
  PROVE  /\ IsState(t) /\ Relabelled(t.ast, s.ast) /\ t.error \in ParserErrors
         /\ t.error = "none" => FitsAt(z, m, FromPhrase(t.ast)) /\ IsAt(t, z, m + 2)
         /\ \A ast : FitsAt(z, m, FromPhrase(ast)) => t.error = "none" /\ IsAt(t, z, m + 2)
  <1> DEFINE there == m + 2 <= Len(z) /\ Folded(z[m + 1]) = "FROM"
  <1>1. /\ m \in Nat /\ Len(z) \in Nat /\ m <= Len(z) /\ Len(s.rest) = Len(z) - m
        /\ \A i \in 1..(Len(z) - m) : s.rest[i] = z[m + i]
    BY TokensAt DEF IsAt
  <1>2. \A ast : FitsAt(z, m, FromPhrase(ast)) <=> there /\ z[m + 2] = ast.label
    <2> TAKE ast
    <2>1. FitsAt(z, m, FromPhrase(ast)) <=>
            /\ m + 2 <= Len(z) /\ IsSpelled(z[m + 1], Keyword("FROM"))
            /\ IsSpelled(z[m + 2], Name(ast.label))
      BY <1>1, FitsTwo DEF FromPhrase
    <2>2. IsSpelled(z[m + 1], Keyword("FROM")) <=> Folded(z[m + 1]) = "FROM"
      BY SpellsKeyword
    <2>3. IsSpelled(z[m + 2], Name(ast.label)) <=> z[m + 2] = ast.label
      BY SpellsName
    <2> QED
      BY <2>1, <2>2, <2>3
  <1>3. Opens(s, "FROM") /\ Len(s.rest) >= 2 <=> there
    BY <1>1, SeesAt DEF Opens
  <1>4. CASE there
    <2>1. t = [Past(s, 2) EXCEPT !.ast.label = s.rest[2]]
      BY <1>3, <1>4 DEF FromClause
    <2>2. s.rest[2] = z[m + 2] /\ 2 \in 0..(Len(z) - m)
      BY <1>1, <1>4
    <2>3. /\ IsState(Past(s, 2)) /\ Past(s, 2).ast = s.ast /\ Past(s, 2).error = "none"
          /\ IsAt(Past(s, 2), z, m + 2)
      BY <2>2, PastAt
    <2>4. /\ IsState(t) /\ t.ast = [s.ast EXCEPT !.label = z[m + 2]] /\ t.error = "none"
          /\ t.ast.label = z[m + 2] /\ t.rest = Past(s, 2).rest
      BY <2>1, <2>2, <2>3 DEF IsState
    <2>5. IsAt(t, z, m + 2)
      BY <2>3, <2>4 DEF IsAt
    <2> QED
      <3>1. Relabelled(t.ast, s.ast)
        BY <2>4 DEF Relabelled
      <3> QED
        BY <1>2, <1>4, <2>4, <2>5, <3>1 DEF ParserErrors
  <1>5. CASE ~there
    <2>1. t = Fails(s, "syntax")
      BY <1>3, <1>5 DEF FromClause
    <2>2. IsState(t) /\ t.ast = s.ast /\ t.error = "syntax"
      BY <2>1, FailsState
    <2>3. Relabelled(t.ast, s.ast)
      BY <2>2 DEF IsState, Relabelled
    <2> QED
      BY <1>2, <1>5, <2>2, <2>3 DEF ParserErrors
  <1> QED
    BY <1>4, <1>5

-----------------------------------------------------------------------------
(* WHERE.                                                                   *)

\* A value a property is compared with.
IsOperand(v) == v.tag \in {"bool", "string", "int", "double", "minus zero", "not finite"}

IsWhere(w) ==
  /\ w.op \in Ops \union {"none"}
  /\ w.op # "none" /\ w.parameter = "" => IsOperand(w.value)

(* A property value can be compared.                                        *)
LEMMA ValueIsOperand ==
  ASSUME NEW v, IsPropertyValue(v)
  PROVE  IsOperand(v)
  <1>1. v.tag \in {"bool", "string", "int", "double"} \/ v = MinusZero \/ v = NotFinite
    BY DEF IsPropertyValue
  <1>2. MinusZero.tag = "minus zero" /\ NotFinite.tag = "not finite"
    BY DEF MinusZero, NotFinite
  <1> QED
    BY <1>1, <1>2 DEF IsOperand

(* What a literal that can be parsed stands for.                            *)
LEMMA LiteralValue ==
  ASSUME NEW t, ParseLiteral(t) # Throws
  PROVE  IsOperand(ParseLiteral(t))
  <1>1. CASE Folded(t) = "TRUE"
    <2>1. ParseLiteral(t) = BoolValue(1)
      BY <1>1 DEF ParseLiteral
    <2> QED
      BY <2>1 DEF BoolValue, IsOperand
  <1>2. CASE Folded(t) = "FALSE" /\ Folded(t) # "TRUE"
    <2>1. ParseLiteral(t) = BoolValue(0)
      BY <1>2 DEF ParseLiteral
    <2> QED
      BY <2>1 DEF BoolValue, IsOperand
  <1>3. CASE Folded(t) \notin {"TRUE", "FALSE"} /\ t \in DOMAIN Number
    <2>1. ParseLiteral(t) = Number[t]
      BY <1>3 DEF ParseLiteral
    <2>2. IsPropertyValue(Number[t])
      BY <1>3, <2>1, OqsParserAssumption
    <2> QED
      BY <2>1, <2>2, ValueIsOperand
  <1>4. CASE Folded(t) \notin {"TRUE", "FALSE"} /\ t \notin DOMAIN Number
    <2>1. ParseLiteral(t) = StringValue(Place[t])
      BY <1>4 DEF ParseLiteral
    <2> QED
      BY <2>1 DEF StringValue, IsOperand
  <1> QED
    BY <1>1, <1>2, <1>3, <1>4

(* Operators have no case.                                                  *)
LEMMA OperatorsHaveNoCase ==
  ASSUME NEW t
  PROVE  /\ t \in Ops => Folded(t) = t
         /\ Folded(t) \in Ops => t \in Ops
  BY OqsParserAssumption DEF Folded

\* The asts differ in their predicates only.
Refiltered(a, b) == a = [b EXCEPT !.where = a.where]

(* WHERE with a predicate, or nothing.                                      *)
LEMMA WhereClauseReads ==
  ASSUME NEW z \in Seq(STRING), NEW s, NEW m, IsAt(s, z, m), IsState(s), s.error = "none",
         s.ast.where = NoWhere, NEW t, t = WhereClause(s)
  PROVE  /\ IsState(t) /\ Refiltered(t.ast, s.ast) /\ t.error \in ParserErrors
         /\ IsWhere(t.ast.where) /\ t.ast.where.value # Throws
         /\ t.error = "none" =>
              \E p \in WherePhrases(t.ast.where) : FitsAt(z, m, p) /\ IsAt(t, z, m + Len(p))
         /\ \A w : \A p \in WherePhrases(w) :
              /\ w.op \in Ops \union {"none"} /\ w.value # Throws /\ FitsAt(z, m, p)
              /\ Follows(z, m + Len(p), {"STEP", "PATH", "YIELD"})
              => t.error = "none" /\ IsAt(t, z, m + Len(p))
  <1> DEFINE key == z[m + 2]
             op == z[m + 3]
             literal == z[m + 4]
             Phrase(w) == <<Keyword("WHERE"), Name(w.key), Keyword(w.op),
                            IF w.parameter = "" THEN Literal(w.value) ELSE Argument(w.parameter)>>
             opens == m + 1 <= Len(z) /\ Folded(z[m + 1]) = "WHERE"
             bad == \/ op \notin Ops
                    \/ literal \notin DOMAIN Parameter /\ ParseLiteral(literal) = Throws
                    \/ literal \in DOMAIN Parameter /\ Parameter[literal] = ""
  <1>1. /\ m \in Nat /\ Len(z) \in Nat /\ m <= Len(z) /\ Len(s.rest) = Len(z) - m
        /\ \A i \in 1..(Len(z) - m) : s.rest[i] = z[m + i]
    BY TokensAt DEF IsAt
  <1>2. FitsAt(z, m, <<>>) /\ Len(<<>>) = 0 /\ m + 0 = m
    BY <1>1, FitsNone
  <1>3. ASSUME NEW w
        PROVE  /\ Len(Phrase(w)) = 4
               /\ FitsAt(z, m, Phrase(w)) <=>
                    /\ m + 4 <= Len(z) /\ opens /\ key = w.key /\ Folded(op) = w.op
                    /\ w.parameter = "" =>
                         literal \notin DOMAIN Parameter /\ ParseLiteral(literal) = w.value
                    /\ w.parameter # "" =>
                         literal \in DOMAIN Parameter /\ Parameter[literal] = w.parameter
    <2> DEFINE i == IF w.parameter = "" THEN Literal(w.value) ELSE Argument(w.parameter)
    <2>1. /\ Len(Phrase(w)) = 4
          /\ FitsAt(z, m, Phrase(w)) <=>
               /\ m + 4 <= Len(z) /\ IsSpelled(z[m + 1], Keyword("WHERE"))
               /\ IsSpelled(key, Name(w.key)) /\ IsSpelled(op, Keyword(w.op))
               /\ IsSpelled(literal, i)
      BY <1>1, FitsFour
    <2>4. IsSpelled(z[m + 1], Keyword("WHERE")) <=> Folded(z[m + 1]) = "WHERE"
      BY SpellsKeyword
    <2>5. (IsSpelled(key, Name(w.key)) <=> key = w.key) /\ (IsSpelled(op, Keyword(w.op)) <=> Folded(op) = w.op)
      BY SpellsKeyword, SpellsName
    <2>6. m + 4 <= Len(z) => m + 1 <= Len(z)
      BY <1>1
    <2> HIDE DEF opens, key, op, literal
    <2>2. CASE w.parameter = ""
      <3>1. i = Literal(w.value)
        BY <2>2
      <3>2. IsSpelled(literal, Literal(w.value)) <=>
              literal \notin DOMAIN Parameter /\ ParseLiteral(literal) = w.value
        BY SpellsLiteral
      <3> HIDE DEF i, Phrase
      <3> QED
        BY <2>1, <2>2, <2>4, <2>5, <2>6, <3>1, <3>2 DEF opens
    <2>3. CASE w.parameter # ""
      <3>1. i = Argument(w.parameter)
        BY <2>3
      <3>2. IsSpelled(literal, Argument(w.parameter)) <=>
              literal \in DOMAIN Parameter /\ Parameter[literal] = w.parameter
        BY SpellsArgument
      <3> HIDE DEF i, Phrase
      <3> QED
        BY <2>1, <2>3, <2>4, <2>5, <2>6, <3>1, <3>2 DEF opens
    <2> QED
      BY <2>2, <2>3
  <1>4. Opens(s, "WHERE") <=> opens
    BY <1>1, SeesAt DEF Opens
  <1>5. \A w : WherePhrases(w) = IF w.op = "none" THEN {<<>>} ELSE {Phrase(w)}
    BY DEF WherePhrases
  <1>6. "none" \notin Ops /\ IsWhere(NoWhere) /\ NoWhere.op = "none" /\ NoWhere.value # Throws
    BY DEF Ops, NoWhere, IsWhere, BoolValue, Throws
  <1>7. m + 4 <= Len(z) => s.rest[2] = key /\ s.rest[3] = op /\ s.rest[4] = literal
    BY <1>1
  <1> HIDE DEF Phrase, opens, key, op, literal, bad
  <1>8. CASE ~opens
    <2>1. t = s
      BY <1>4, <1>8 DEF WhereClause
    <2>2. t.ast.where = NoWhere /\ Refiltered(t.ast, s.ast)
      BY <2>1 DEF IsState, Refiltered
    <2>3. WherePhrases(t.ast.where) = {<<>>}
      BY <1>5, <1>6, <2>2
    <2>4. \A w : \A p \in WherePhrases(w) : FitsAt(z, m, p) /\ w.op \in Ops \union {"none"} => p = <<>>
      BY <1>3, <1>5, <1>6, <1>8
    <2> QED
      BY <1>2, <1>6, <2>1, <2>2, <2>3, <2>4 DEF ParserErrors
  <1>9. ASSUME opens
        PROVE  ~Follows(z, m + 0, {"STEP", "PATH", "YIELD"})
    BY <1>1, <1>9 DEF opens, Follows
  <1>10. CASE opens /\ (m + 4 > Len(z) \/ bad)
    <2>1. t = Fails(s, "syntax") \/ t = Fails(s, "throws")
      <3>5. m + 4 <= Len(z) \/ m + 4 > Len(z)
        BY <1>1
      <3>1. CASE m + 4 > Len(z)
        <4>1. Len(s.rest) < 4
          BY <1>1, <3>1
        <4> QED
          BY <1>4, <1>10, <4>1 DEF WhereClause
      <3>2. CASE m + 4 <= Len(z) /\ op \notin Ops
        BY <1>1, <1>4, <1>7, <1>10, <3>2 DEF WhereClause
      <3>3. CASE m + 4 <= Len(z) /\ op \in Ops /\ literal \notin DOMAIN Parameter
                 /\ ParseLiteral(literal) = Throws
        BY <1>1, <1>4, <1>7, <1>10, <3>3 DEF WhereClause
      <3>4. CASE m + 4 <= Len(z) /\ op \in Ops /\ literal \in DOMAIN Parameter
                 /\ Parameter[literal] = ""
        BY <1>1, <1>4, <1>7, <1>10, <3>4 DEF WhereClause
      <3> QED
        BY <1>10, <3>1, <3>2, <3>3, <3>4, <3>5 DEF bad
    <2>2. IsState(t) /\ t.ast = s.ast /\ t.error \in {"syntax", "throws"}
      BY <2>1, FailsState
    <2>3. t.ast.where = NoWhere /\ Refiltered(t.ast, s.ast)
      BY <2>2 DEF IsState, Refiltered
    <2>4. ASSUME NEW w, NEW p \in WherePhrases(w), w.op \in Ops \union {"none"}, w.value # Throws,
                 FitsAt(z, m, p), Follows(z, m + Len(p), {"STEP", "PATH", "YIELD"})
          PROVE  FALSE
      <3>1. CASE w.op = "none"
        BY <1>2, <1>5, <1>9, <1>10, <2>4, <3>1
      <3>2. CASE w.op # "none"
        <4>1. p = Phrase(w) /\ w.op \in Ops
          BY <1>5, <2>4, <3>2
        <4>2. m + 4 <= Len(z) /\ Folded(op) = w.op
              /\ (w.parameter = "" =>
                    literal \notin DOMAIN Parameter /\ ParseLiteral(literal) = w.value)
              /\ (w.parameter # "" =>
                    literal \in DOMAIN Parameter /\ Parameter[literal] = w.parameter)
          BY <1>3, <2>4, <4>1
        <4>3. op \in Ops
          BY <4>1, <4>2, OperatorsHaveNoCase
        <4>5. m + 4 <= Len(z)
          BY <4>2
        <4>4. ~(m + 4 > Len(z))
          BY <1>1, <4>5
        <4> QED
          BY <1>10, <2>4, <4>2, <4>3, <4>4 DEF bad
      <3> QED
        BY <3>1, <3>2
    <2> QED
      BY <1>6, <2>2, <2>3, <2>4 DEF ParserErrors
  <1>11. CASE opens /\ m + 4 <= Len(z) /\ ~bad
    <2> DEFINE w == [key |-> key, op |-> op,
                     value |-> IF literal \in DOMAIN Parameter THEN BoolValue(0)
                               ELSE ParseLiteral(literal),
                     parameter |-> IF literal \in DOMAIN Parameter THEN Parameter[literal] ELSE ""]
    <2>14. op \in Ops
      BY <1>11 DEF bad
    <2>1. op \in Ops /\ ~(Len(s.rest) < 4)
      BY <1>1, <1>11, <2>14
    <2>2. t = [Past(s, 4) EXCEPT !.ast.where = w]
      <3>1. CASE literal \notin DOMAIN Parameter
        <4>1. w = [key |-> key, op |-> op, value |-> ParseLiteral(literal), parameter |-> ""]
          BY <3>1
        <4>2. ParseLiteral(literal) # Throws
          BY <1>11, <3>1 DEF bad
        <4> HIDE DEF w
        <4> QED
          BY <1>4, <1>7, <1>11, <2>1, <3>1, <4>1, <4>2 DEF WhereClause
      <3>2. CASE literal \in DOMAIN Parameter
        <4>1. w = [key |-> key, op |-> op, value |-> BoolValue(0), parameter |-> Parameter[literal]]
          BY <3>2
        <4>2. Parameter[literal] # ""
          BY <1>11, <3>2 DEF bad
        <4> HIDE DEF w
        <4> QED
          BY <1>4, <1>7, <1>11, <2>1, <3>2, <4>1, <4>2 DEF WhereClause
      <3> QED
        BY <3>1, <3>2
    <2>3. /\ w.key = key /\ w.op = op
          /\ literal \notin DOMAIN Parameter => w.value = ParseLiteral(literal) /\ w.parameter = ""
          /\ literal \in DOMAIN Parameter => w.value = BoolValue(0) /\ w.parameter = Parameter[literal]
      OBVIOUS
    <2> HIDE DEF w
    <2>4. 4 \in 0..(Len(z) - m)
      BY <1>1, <1>11
    <2>5. /\ IsState(Past(s, 4)) /\ Past(s, 4).ast = s.ast /\ Past(s, 4).error = "none"
          /\ IsAt(Past(s, 4), z, m + 4)
      BY <2>4, PastAt
    <2>6. /\ IsState(t) /\ t.ast = [s.ast EXCEPT !.where = w] /\ t.error = "none"
          /\ t.ast.where = w /\ t.rest = Past(s, 4).rest
      BY <2>2, <2>5 DEF IsState
    <2>7. IsAt(t, z, m + 4)
      BY <2>5, <2>6 DEF IsAt
    <2>8. BoolValue(0) # Throws
      BY DEF BoolValue, Throws
    <2>9. IsWhere(w) /\ w.value # Throws
      BY <1>11, <2>1, <2>3, <2>8, LiteralValue DEF bad, IsWhere
    <2>10. Folded(op) = op /\ op # "none"
      BY <1>6, <2>1, OperatorsHaveNoCase
    <2>11. FitsAt(z, m, Phrase(w)) /\ Len(Phrase(w)) = 4 /\ WherePhrases(w) = {Phrase(w)}
      <3>1. /\ w.parameter = "" => literal \notin DOMAIN Parameter /\ ParseLiteral(literal) = w.value
            /\ w.parameter # "" => literal \in DOMAIN Parameter /\ Parameter[literal] = w.parameter
        BY <1>11, <2>3 DEF bad
      <3> QED
        BY <1>3, <1>5, <1>11, <2>3, <2>10, <3>1
    <2>12. ASSUME NEW v, NEW p \in WherePhrases(v), v.op \in Ops \union {"none"},
                  FitsAt(z, m, p), Follows(z, m + Len(p), {"STEP", "PATH", "YIELD"})
           PROVE  Len(p) = 4
      <3>1. CASE v.op = "none"
        BY <1>2, <1>5, <1>9, <1>11, <2>12, <3>1
      <3>2. CASE v.op # "none"
        BY <1>3, <1>5, <2>12, <3>2
      <3> QED
        BY <3>1, <3>2
    <2>13. \E p \in WherePhrases(t.ast.where) : FitsAt(z, m, p) /\ IsAt(t, z, m + Len(p))
      BY <2>6, <2>7, <2>11
    <2> QED
      <3>1. Refiltered(t.ast, s.ast)
        BY <2>6 DEF Refiltered
      <3> QED
        BY <2>6, <2>7, <2>9, <2>12, <2>13, <3>1 DEF ParserErrors
  <1> QED
    BY <1>1, <1>8, <1>10, <1>11

-----------------------------------------------------------------------------
(* HOPS and COST.                                                           *)

(* A bound on the hops, or nothing, which is a bound of one.                *)
LEMMA HopsClauseReads ==
  ASSUME NEW z \in Seq(STRING), NEW s, NEW m, IsAt(s, z, m), IsState(s), s.error = "none",
         s.ast.hops = 1, NEW t, t = HopsClause(s)
  PROVE  /\ IsState(t) /\ t.ast = [s.ast EXCEPT !.hops = t.ast.hops] /\ t.error \in ParserErrors
         /\ t.ast.hops \in Nat
         /\ t.error = "none" => \E p \in HopsPhrases(t.ast) :
              IsList(p) /\ FitsAt(z, m, p) /\ IsAt(t, z, m + Len(p))
         /\ \A ast : \A p \in HopsPhrases(ast) :
              FitsAt(z, m, p) /\ Follows(z, m + Len(p), {"COST", "YIELD"}) =>
                t.error = "none" /\ IsList(p) /\ IsAt(t, z, m + Len(p))
  <1> DEFINE d == z[m + 2]
             Phrase(n) == <<Keyword("HOPS"), Bound(n)>>
             opens == m + 1 <= Len(z) /\ Folded(z[m + 1]) = "HOPS"
             good == m + 2 <= Len(z) /\ d \in DOMAIN Digits /\ Digits[d] \in 1..MaxHops
  <1>1. /\ m \in Nat /\ Len(z) \in Nat /\ m <= Len(z) /\ Len(s.rest) = Len(z) - m
        /\ \A i \in 1..(Len(z) - m) : s.rest[i] = z[m + i]
    BY TokensAt DEF IsAt
  <1>2. FitsAt(z, m, <<>>) /\ IsList(<<>>) /\ Len(<<>>) = 0 /\ m + 0 = m
    BY <1>1, FitsNone
  <1>3. ASSUME NEW n
        PROVE  /\ IsList(Phrase(n)) /\ Len(Phrase(n)) = 2
               /\ FitsAt(z, m, Phrase(n)) <=>
                    m + 2 <= Len(z) /\ opens /\ d \in DOMAIN Digits /\ Digits[d] = n
    <2>1. /\ IsList(Phrase(n)) /\ Len(Phrase(n)) = 2
          /\ FitsAt(z, m, Phrase(n)) <=>
               m + 2 <= Len(z) /\ IsSpelled(z[m + 1], Keyword("HOPS")) /\ IsSpelled(d, Bound(n))
      BY <1>1, FitsTwo
    <2>2. m + 2 <= Len(z) => m + 1 <= Len(z)
      BY <1>1
    <2>3. IsSpelled(z[m + 1], Keyword("HOPS")) <=> Folded(z[m + 1]) = "HOPS"
      BY SpellsKeyword
    <2>4. IsSpelled(d, Bound(n)) <=> d \in DOMAIN Digits /\ Digits[d] = n
      BY SpellsBound
    <2> HIDE DEF d, Phrase
    <2> QED
      BY <2>1, <2>2, <2>3, <2>4
  <1>4. Opens(s, "HOPS") <=> opens
    BY <1>1, SeesAt DEF Opens
  <1>5. \A ast : \A p : p \in HopsPhrases(ast) <=>
          \/ ast.hops \in 1..MaxHops /\ p = Phrase(ast.hops)
          \/ ast.hops = 1 /\ p = <<>>
    BY DEF HopsPhrases
  <1>6. m + 2 <= Len(z) => s.rest[2] = d
    BY <1>1
  <1>7. d \in DOMAIN Digits => Digits[d] \in Nat \/ Digits[d] = Overflow
    BY OqsParserAssumption
  <1> HIDE DEF Phrase, opens, d, good
  <1>8. CASE ~opens
    <2>1. t = s
      BY <1>4, <1>8 DEF HopsClause
    <2>2. t.ast = [s.ast EXCEPT !.hops = t.ast.hops] /\ t.ast.hops = 1
      BY <2>1 DEF IsState
    <2>3. <<>> \in HopsPhrases(t.ast)
      BY <1>5, <2>2
    <2>4. \A ast : \A p \in HopsPhrases(ast) : FitsAt(z, m, p) => p = <<>>
      BY <1>3, <1>5, <1>8
    <2> QED
      BY <1>2, <2>1, <2>2, <2>3, <2>4 DEF ParserErrors
  <1>9. opens => ~Follows(z, m + 0, {"COST", "YIELD"})
    BY <1>1 DEF opens, Follows
  <1>10. CASE opens /\ ~good
    <2>1. \E kind \in {"syntax", "overflow", "limit"} : t = Fails(s, kind)
      <3>1. CASE m + 2 > Len(z)
        <4>1. Len(s.rest) < 2
          BY <1>1, <3>1
        <4> QED
          BY <1>4, <1>10, <4>1 DEF HopsClause
      <3>2. CASE ~(m + 2 > Len(z)) /\ d \notin DOMAIN Digits
        <4>1. ~(Len(s.rest) < 2) /\ s.rest[2] = d
          BY <1>1, <1>6, <3>2
        <4> QED
          BY <1>4, <1>10, <3>2, <4>1 DEF HopsClause
      <3>3. CASE ~(m + 2 > Len(z)) /\ d \in DOMAIN Digits /\ Digits[d] = Overflow
        <4>1. ~(Len(s.rest) < 2) /\ s.rest[2] = d
          BY <1>1, <1>6, <3>3
        <4> QED
          BY <1>4, <1>10, <3>3, <4>1 DEF HopsClause
      <3>4. CASE ~(m + 2 > Len(z)) /\ d \in DOMAIN Digits /\ Digits[d] # Overflow
        <4>1. ~(Len(s.rest) < 2) /\ s.rest[2] = d /\ m + 2 <= Len(z)
          BY <1>1, <1>6, <3>4
        <4>2. Digits[d] \in Nat /\ Digits[d] \notin 1..MaxHops
          BY <1>7, <1>10, <3>4, <4>1 DEF good
        <4>3. ~HopsAllowed(Digits[d])
          BY <4>2, OqsParserAssumption DEF HopsAllowed
        <4> QED
          BY <1>4, <1>10, <3>4, <4>1, <4>3 DEF HopsClause
      <3> QED
        BY <3>1, <3>2, <3>3, <3>4
    <2>2. IsState(t) /\ t.ast = s.ast /\ t.error \in {"syntax", "overflow", "limit"}
      BY <2>1, FailsState
    <2>3. t.ast = [s.ast EXCEPT !.hops = t.ast.hops] /\ t.ast.hops = 1
      BY <2>2 DEF IsState
    <2>4. ASSUME NEW ast, NEW p \in HopsPhrases(ast), FitsAt(z, m, p),
                 Follows(z, m + Len(p), {"COST", "YIELD"})
          PROVE  FALSE
      <3>1. CASE p = <<>>
        BY <1>2, <1>9, <1>10, <2>4, <3>1
      <3>2. CASE p # <<>>
        <4>1. ast.hops \in 1..MaxHops /\ p = Phrase(ast.hops)
          BY <1>5, <2>4, <3>2
        <4>2. m + 2 <= Len(z) /\ d \in DOMAIN Digits /\ Digits[d] = ast.hops
          BY <1>3, <2>4, <4>1
        <4> QED
          BY <1>10, <4>1, <4>2 DEF good
      <3> QED
        BY <3>1, <3>2
    <2> QED
      BY <2>2, <2>3, <2>4 DEF ParserErrors
  <1>11. CASE opens /\ good
    <2> DEFINE n == Digits[d]
    <2>1. m + 2 <= Len(z) /\ d \in DOMAIN Digits /\ n \in 1..MaxHops
      BY <1>11 DEF good
    <2> HIDE DEF n
    <2>2. n \in Nat /\ n # Overflow /\ HopsAllowed(n)
      BY <2>1, OqsParserAssumption DEF HopsAllowed, Overflow
    <2>3. ~(Len(s.rest) < 2) /\ s.rest[2] = d /\ 2 \in 0..(Len(z) - m)
      BY <1>1, <1>6, <2>1
    <2>4. t = [Past(s, 2) EXCEPT !.ast.hops = n]
      BY <1>4, <1>11, <2>1, <2>2, <2>3 DEF HopsClause, n
    <2>5. /\ IsState(Past(s, 2)) /\ Past(s, 2).ast = s.ast /\ Past(s, 2).error = "none"
          /\ IsAt(Past(s, 2), z, m + 2)
      BY <2>3, PastAt
    <2>6. /\ IsState(t) /\ t.ast = [s.ast EXCEPT !.hops = n] /\ t.error = "none"
          /\ t.ast.hops = n /\ t.rest = Past(s, 2).rest
      BY <2>4, <2>5 DEF IsState
    <2>7. IsAt(t, z, m + 2)
      BY <2>5, <2>6 DEF IsAt
    <2>8. FitsAt(z, m, Phrase(n)) /\ IsList(Phrase(n)) /\ Len(Phrase(n)) = 2
          /\ Phrase(n) \in HopsPhrases(t.ast)
      BY <1>3, <1>5, <1>11, <2>1, <2>6 DEF n
    <2>9. ASSUME NEW ast, NEW p \in HopsPhrases(ast), FitsAt(z, m, p),
                 Follows(z, m + Len(p), {"COST", "YIELD"})
          PROVE  IsList(p) /\ Len(p) = 2
      <3>1. CASE p = <<>>
        BY <1>2, <1>9, <1>11, <2>9, <3>1
      <3>2. CASE p # <<>>
        <4>1. p = Phrase(ast.hops)
          BY <1>5, <2>9, <3>2
        <4> QED
          BY <1>3, <4>1
      <3> QED
        BY <3>1, <3>2
    <2> QED
      BY <2>2, <2>6, <2>7, <2>8, <2>9 DEF ParserErrors
  <1> QED
    BY <1>8, <1>10, <1>11

(* The property the edges cost, or nothing.                                 *)
LEMMA CostClauseReads ==
  ASSUME NEW z \in Seq(STRING), NEW s, NEW m, IsAt(s, z, m), IsState(s), s.error = "none",
         s.ast.cost = <<>>, NEW t, t = CostClause(s)
  PROVE  /\ IsState(t) /\ t.ast = [s.ast EXCEPT !.cost = t.ast.cost] /\ t.error \in ParserErrors
         /\ IsList(CostPhrase(t.ast))
         /\ t.error = "none" =>
              FitsAt(z, m, CostPhrase(t.ast)) /\ IsAt(t, z, m + Len(CostPhrase(t.ast)))
         /\ \A ast : FitsAt(z, m, CostPhrase(ast)) /\ Follows(z, m + Len(CostPhrase(ast)), {"YIELD"}) =>
              t.error = "none" /\ IsAt(t, z, m + Len(CostPhrase(ast)))
  <1> DEFINE Phrase(k) == <<Keyword("COST"), Name(k)>>
             opens == m + 1 <= Len(z) /\ Folded(z[m + 1]) = "COST"
             key == z[m + 2]
  <1>1. /\ m \in Nat /\ Len(z) \in Nat /\ m <= Len(z) /\ Len(s.rest) = Len(z) - m
        /\ \A i \in 1..(Len(z) - m) : s.rest[i] = z[m + i]
    BY TokensAt DEF IsAt
  <1>2. FitsAt(z, m, <<>>) /\ IsList(<<>>) /\ Len(<<>>) = 0 /\ m + 0 = m
    BY <1>1, FitsNone
  <1>3. ASSUME NEW k
        PROVE  /\ IsList(Phrase(k)) /\ Len(Phrase(k)) = 2
               /\ FitsAt(z, m, Phrase(k)) <=> m + 2 <= Len(z) /\ opens /\ key = k
    <2>1. /\ IsList(Phrase(k)) /\ Len(Phrase(k)) = 2
          /\ FitsAt(z, m, Phrase(k)) <=>
               m + 2 <= Len(z) /\ IsSpelled(z[m + 1], Keyword("COST")) /\ IsSpelled(key, Name(k))
      BY <1>1, FitsTwo
    <2>2. m + 2 <= Len(z) => m + 1 <= Len(z)
      BY <1>1
    <2>3. IsSpelled(z[m + 1], Keyword("COST")) <=> Folded(z[m + 1]) = "COST"
      BY SpellsKeyword
    <2>4. IsSpelled(key, Name(k)) <=> key = k
      BY SpellsName
    <2> HIDE DEF key, Phrase
    <2> QED
      BY <2>1, <2>2, <2>3, <2>4
  <1>4. Opens(s, "COST") <=> opens
    BY <1>1, SeesAt DEF Opens
  <1>5. \A ast : CostPhrase(ast) = IF ast.cost = <<>> THEN <<>> ELSE Phrase(ast.cost[1])
    BY DEF CostPhrase
  <1> HIDE DEF Phrase, opens, key
  <1>6. opens => ~Follows(z, m + 0, {"YIELD"})
    BY <1>1 DEF opens, Follows
  <1>7. CASE ~opens
    <2>1. t = s
      BY <1>4, <1>7 DEF CostClause
    <2>2. t.ast = [s.ast EXCEPT !.cost = t.ast.cost] /\ CostPhrase(t.ast) = <<>>
      BY <1>5, <2>1 DEF IsState
    <2>3. \A ast : FitsAt(z, m, CostPhrase(ast)) => CostPhrase(ast) = <<>>
      BY <1>3, <1>5, <1>7
    <2> QED
      BY <1>2, <2>1, <2>2, <2>3 DEF ParserErrors
  <1>8. CASE opens /\ m + 2 > Len(z)
    <2>1. Len(s.rest) < 2 /\ ~(m + 2 <= Len(z))
      BY <1>1, <1>8
    <2>2. t = Fails(s, "syntax")
      BY <1>4, <1>8, <2>1 DEF CostClause
    <2>3. IsState(t) /\ t.ast = s.ast /\ t.error = "syntax"
      BY <2>2, FailsState
    <2>4. t.ast = [s.ast EXCEPT !.cost = t.ast.cost] /\ CostPhrase(t.ast) = <<>>
      BY <1>5, <2>3 DEF IsState
    <2>5. \A ast : FitsAt(z, m, CostPhrase(ast)) => CostPhrase(ast) = <<>>
      BY <1>3, <1>5, <2>1
    <2> QED
      BY <1>2, <1>6, <1>8, <2>3, <2>4, <2>5 DEF ParserErrors
  <1>9. CASE opens /\ m + 2 <= Len(z)
    <2>1. ~(Len(s.rest) < 2) /\ 2 \in 0..(Len(z) - m) /\ s.rest[2] = key
      BY <1>1, <1>9 DEF key
    <2>2. t = [Past(s, 2) EXCEPT !.ast.cost = <<key>>]
      BY <1>4, <1>9, <2>1 DEF CostClause
    <2>3. /\ IsState(Past(s, 2)) /\ Past(s, 2).ast = s.ast /\ Past(s, 2).error = "none"
          /\ IsAt(Past(s, 2), z, m + 2)
      BY <2>1, PastAt
    <2>4. /\ IsState(t) /\ t.ast = [s.ast EXCEPT !.cost = <<key>>] /\ t.error = "none"
          /\ t.ast.cost = <<key>> /\ t.rest = Past(s, 2).rest
      BY <2>2, <2>3 DEF IsState
    <2>5. IsAt(t, z, m + 2)
      BY <2>3, <2>4 DEF IsAt
    <2>6. <<key>> # <<>> /\ <<key>>[1] = key
      OBVIOUS
    <2>7. CostPhrase(t.ast) = Phrase(key)
      BY <1>5, <2>4, <2>6
    <2>8. \A ast : FitsAt(z, m, CostPhrase(ast)) /\ Follows(z, m + Len(CostPhrase(ast)), {"YIELD"}) =>
            Len(CostPhrase(ast)) = 2
      BY <1>2, <1>3, <1>5, <1>6, <1>9
    <2> QED
      BY <1>3, <1>9, <2>4, <2>5, <2>7, <2>8 DEF ParserErrors
  <1>10. m + 2 > Len(z) \/ m + 2 <= Len(z)
    BY <1>1
  <1> QED
    BY <1>7, <1>8, <1>9, <1>10

-----------------------------------------------------------------------------
(* The traversal.                                                           *)

\* STEP or PATH with its direction and type.
TraversalHead(K, ast) == <<Keyword(K), Turn(ast.direction), Name(ast.type)>>

\* The clauses before and after the traversal are those of the other ast.
SameAround(a, b) ==
  /\ a.label = b.label /\ a.where = b.where /\ a.yield = b.yield
  /\ a.ordered = b.ordered /\ a.desc = b.desc

(* STEP or PATH, the direction and the type.                                *)
LEMMA TraversalReads ==
  ASSUME NEW z \in Seq(STRING), NEW s, NEW m, IsAt(s, z, m), IsState(s), s.error = "none",
         NEW K, Sees(s, 1, K), NEW mode, s.ast.direction \in {"out", "in"},
         NEW t, t = Traversal(s, mode)
  PROVE  /\ IsState(t) /\ t.error \in ParserErrors /\ SameAround(t.ast, s.ast)
         /\ t.ast.hops = s.ast.hops /\ t.ast.cost = s.ast.cost
         /\ t.ast.direction \in {"out", "in"} /\ t.ast.mode \in {mode, s.ast.mode}
         /\ IsList(TraversalHead(K, t.ast))
         /\ t.error = "none" =>
              t.ast.mode = mode /\ FitsAt(z, m, TraversalHead(K, t.ast)) /\ IsAt(t, z, m + 3)
         /\ \A ast : FitsAt(z, m, TraversalHead(K, ast)) => t.error = "none" /\ IsAt(t, z, m + 3)
         /\ \A ast : IsList(TraversalHead(K, ast)) /\ Len(TraversalHead(K, ast)) = 3
  <1> DEFINE turn == Folded(z[m + 2])
             type == z[m + 3]
             good == m + 3 <= Len(z) /\ turn \in {"OUT", "IN"}
  <1>1. /\ m \in Nat /\ Len(z) \in Nat /\ m <= Len(z) /\ Len(s.rest) = Len(z) - m
        /\ \A i \in 1..(Len(z) - m) : s.rest[i] = z[m + i]
    BY TokensAt DEF IsAt
  <1>2. m + 1 <= Len(z) /\ Folded(z[m + 1]) = K
    BY SeesAt
  <1>3. ASSUME NEW ast
        PROVE  /\ IsList(TraversalHead(K, ast)) /\ Len(TraversalHead(K, ast)) = 3
               /\ FitsAt(z, m, TraversalHead(K, ast)) <=>
                    /\ m + 3 <= Len(z) /\ turn = (IF ast.direction = "out" THEN "OUT" ELSE "IN")
                    /\ type = ast.type
    <2> DEFINE w == IF ast.direction = "out" THEN "OUT" ELSE "IN"
    <2>1. TraversalHead(K, ast) = <<Keyword(K), Keyword(w), Name(ast.type)>>
      BY DEF TraversalHead, Turn
    <2> HIDE DEF w
    <2>2. /\ IsList(TraversalHead(K, ast)) /\ Len(TraversalHead(K, ast)) = 3
          /\ FitsAt(z, m, TraversalHead(K, ast)) <=>
               /\ m + 3 <= Len(z) /\ IsSpelled(z[m + 1], Keyword(K))
               /\ IsSpelled(z[m + 2], Keyword(w)) /\ IsSpelled(z[m + 3], Name(ast.type))
      <3> DEFINE p == <<Keyword(K), Keyword(w), Name(ast.type)>>
      <3>1. /\ IsList(p) /\ Len(p) = 3
            /\ FitsAt(z, m, p) <=>
                 /\ m + 3 <= Len(z) /\ IsSpelled(z[m + 1], Keyword(K))
                 /\ IsSpelled(z[m + 2], Keyword(w)) /\ IsSpelled(z[m + 3], Name(ast.type))
        BY <1>1, FitsThree
      <3>2. TraversalHead(K, ast) = p
        BY <2>1
      <3> HIDE DEF p
      <3> QED
        BY <3>1, <3>2
    <2>3. IsSpelled(z[m + 1], Keyword(K)) /\ (IsSpelled(z[m + 2], Keyword(w)) <=> turn = w)
      BY <1>2, SpellsKeyword
    <2>4. IsSpelled(z[m + 3], Name(ast.type)) <=> type = ast.type
      BY SpellsName
    <2>5. FitsAt(z, m, TraversalHead(K, ast)) <=> m + 3 <= Len(z) /\ turn = w /\ type = ast.type
      BY <2>2, <2>3, <2>4
    <2> QED
      BY <2>2, <2>5 DEF w
  <1>4. Len(s.rest) < 3 \/ ~(Sees(s, 2, "OUT") \/ Sees(s, 2, "IN")) <=> ~good
    <2>1. Len(s.rest) < 3 <=> ~(m + 3 <= Len(z))
      BY <1>1
    <2>2. m + 3 <= Len(z) => m + 2 <= Len(z)
      BY <1>1
    <2>3. /\ Sees(s, 2, "OUT") <=> m + 2 <= Len(z) /\ turn = "OUT"
          /\ Sees(s, 2, "IN") <=> m + 2 <= Len(z) /\ turn = "IN"
      BY SeesAt
    <2> HIDE DEF turn
    <2> QED
      BY <2>1, <2>2, <2>3
  <1>5. m + 3 <= Len(z) => s.rest[3] = type /\ 3 \in 0..(Len(z) - m)
    BY <1>1
  <1>6. CASE ~good
    <2>1. t = Fails(s, "syntax")
      BY <1>4, <1>6 DEF Traversal
    <2>2. IsState(t) /\ t.ast = s.ast /\ t.error = "syntax"
      BY <2>1, FailsState
    <2>3. \A ast : ~FitsAt(z, m, TraversalHead(K, ast))
      <3> HIDE DEF turn, type
      <3> QED
        BY <1>3, <1>6
    <2> QED
      BY <1>3, <2>2, <2>3 DEF ParserErrors, SameAround
  <1>7. CASE good
    <2> DEFINE d == IF Sees(s, 2, "OUT") THEN "out" ELSE "in"
    <2>1. t = [Past(s, 3) EXCEPT !.ast.mode = mode, !.ast.type = s.rest[3], !.ast.direction = d]
      BY <1>4, <1>7 DEF Traversal
    <2>2. /\ IsState(Past(s, 3)) /\ Past(s, 3).ast = s.ast /\ Past(s, 3).error = "none"
          /\ IsAt(Past(s, 3), z, m + 3)
      BY <1>5, <1>7, PastAt
    <2>3. /\ d \in {"out", "in"} /\ (turn = IF d = "out" THEN "OUT" ELSE "IN")
      <3>1. m + 2 <= Len(z)
        BY <1>1, <1>7
      <3>2. Sees(s, 2, "OUT") <=> turn = "OUT"
        BY <3>1, SeesAt
      <3> HIDE DEF turn
      <3> QED
        BY <1>7, <3>2
    <2> HIDE DEF d
    <2>4. /\ IsState(t) /\ t.error = "none" /\ t.rest = Past(s, 3).rest
          /\ t.ast = [s.ast EXCEPT !.mode = mode, !.type = s.rest[3], !.direction = d]
      BY <2>1, <2>2 DEF IsState
    <2>5. /\ SameAround(t.ast, s.ast) /\ t.ast.hops = s.ast.hops /\ t.ast.cost = s.ast.cost
          /\ t.ast.mode = mode /\ t.ast.type = s.rest[3] /\ t.ast.direction = d
      BY <2>4 DEF IsState, SameAround
    <2>6. IsAt(t, z, m + 3)
      BY <2>2, <2>4 DEF IsAt
    <2>7. FitsAt(z, m, TraversalHead(K, t.ast)) /\ t.ast.direction \in {"out", "in"}
      <3> HIDE DEF turn, type
      <3> QED
        BY <1>3, <1>5, <1>7, <2>3, <2>5
    <2> QED
      BY <1>3, <2>4, <2>5, <2>6, <2>7 DEF ParserErrors
  <1> QED
    BY <1>6, <1>7

(* STEP, PATH with its bound and cost, or nothing.                          *)
LEMMA TraversalClauseReads ==
  ASSUME NEW z \in Seq(STRING), NEW s, NEW m, IsAt(s, z, m), IsState(s), s.error = "none",
         s.ast.mode = "scan", s.ast.hops = 1, s.ast.cost = <<>>, s.ast.direction \in {"out", "in"},
         NEW t, t = TraversalClause(s)
  PROVE  /\ IsState(t) /\ t.error \in ParserErrors /\ SameAround(t.ast, s.ast)
         /\ t.ast.mode \in {"scan", "step", "path"} /\ t.ast.hops \in Nat
         /\ t.ast.direction \in {"out", "in"}
         /\ t.error = "none" => \E p \in TraversalPhrases(t.ast) :
              IsList(p) /\ FitsAt(z, m, p) /\ IsAt(t, z, m + Len(p))
         /\ \A ast : \A p \in TraversalPhrases(ast) :
              /\ ast.mode \in {"scan", "step", "path"} /\ FitsAt(z, m, p)
              /\ Follows(z, m + Len(p), {"YIELD"})
              => t.error = "none" /\ IsList(p) /\ IsAt(t, z, m + Len(p))
  <1> DEFINE next == Folded(z[m + 1])
             Path(ast, h) == TraversalHead("PATH", ast) \o h \o CostPhrase(ast)
  <1>1. m \in Nat /\ Len(z) \in Nat /\ m <= Len(z)
    BY TokensAt DEF IsAt
  <1>2. FitsAt(z, m, <<>>) /\ IsList(<<>>) /\ Len(<<>>) = 0 /\ m + 0 = m
    BY <1>1, FitsNone
  <1>3. /\ Opens(s, "STEP") <=> m + 1 <= Len(z) /\ next = "STEP"
        /\ Opens(s, "PATH") <=> m + 1 <= Len(z) /\ next = "PATH"
    BY <1>1, SeesAt DEF Opens
  <1>4. ASSUME NEW ast, ast.mode \in {"scan", "step", "path"}
        PROVE  TraversalPhrases(ast) =
                 IF ast.mode = "scan" THEN {<<>>}
                 ELSE IF ast.mode = "step" THEN {TraversalHead("STEP", ast)}
                 ELSE {Path(ast, h) : h \in HopsPhrases(ast)}
    <2>1. CASE ast.mode = "scan"
      BY <2>1 DEF TraversalPhrases
    <2>2. CASE ast.mode = "step"
      BY <2>2 DEF TraversalPhrases, TraversalHead
    <2>3. CASE ast.mode = "path"
      BY <2>3 DEF TraversalPhrases, TraversalHead
    <2> QED
      BY <1>4, <2>1, <2>2, <2>3
  <1>5. ASSUME NEW K, NEW ast
        PROVE  /\ IsList(TraversalHead(K, ast)) /\ Len(TraversalHead(K, ast)) = 3
               /\ FitsAt(z, m, TraversalHead(K, ast)) => m + 1 <= Len(z) /\ next = K
    <2>1. /\ IsList(TraversalHead(K, ast)) /\ Len(TraversalHead(K, ast)) = 3
          /\ FitsAt(z, m, TraversalHead(K, ast)) => m + 3 <= Len(z) /\ IsSpelled(z[m + 1], Keyword(K))
      BY <1>1, FitsThree DEF TraversalHead
    <2>2. m + 3 <= Len(z) => m + 1 <= Len(z)
      BY <1>1
    <2>3. IsSpelled(z[m + 1], Keyword(K)) <=> next = K
      BY SpellsKeyword
    <2> HIDE DEF next
    <2> QED
      BY <2>1, <2>2, <2>3
  <1>6. ASSUME NEW ast
        PROVE  /\ IsList(CostPhrase(ast))
               /\ \A k \in Nat : FitsAt(z, k, CostPhrase(ast)) /\ Follows(z, k + Len(CostPhrase(ast)), {"YIELD"})
                    => Follows(z, k, {"COST", "YIELD"})
    <2>1. CASE ast.cost = <<>>
      <3>1. CostPhrase(ast) = <<>>
        BY <2>1 DEF CostPhrase
      <3>2. \A k \in Nat : k + 0 = k
        OBVIOUS
      <3> QED
        BY <1>2, <3>1, <3>2 DEF Follows
    <2>2. CASE ast.cost # <<>>
      <3>1. CostPhrase(ast) = <<Keyword("COST"), Name(ast.cost[1])>>
        BY <2>2 DEF CostPhrase
      <3>2. IsList(CostPhrase(ast))
        BY <3>1 DEF IsList
      <3>3. ASSUME NEW k \in Nat, FitsAt(z, k, CostPhrase(ast)) PROVE Follows(z, k, {"COST", "YIELD"})
        <4>1. IsSpelled(z[k + 1], Keyword("COST"))
          BY <1>1, <3>1, <3>3, FitsTwo
        <4>2. Folded(z[k + 1]) = "COST"
          BY <4>1, SpellsKeyword
        <4> QED
          BY <4>2 DEF Follows
      <3> QED
        BY <3>2, <3>3
    <2> QED
      BY <2>1, <2>2
  <1>7. ASSUME NEW ast, NEW h, IsList(h)
        PROVE  /\ IsList(Path(ast, h)) /\ Len(Path(ast, h)) = 3 + Len(h) + Len(CostPhrase(ast))
               /\ FitsAt(z, m, Path(ast, h)) <=>
                    /\ FitsAt(z, m, TraversalHead("PATH", ast)) /\ FitsAt(z, m + 3, h)
                    /\ FitsAt(z, m + 3 + Len(h), CostPhrase(ast))
    <2> DEFINE a == TraversalHead("PATH", ast)
    <2>1. IsList(a) /\ Len(a) = 3 /\ IsList(CostPhrase(ast))
      BY <1>5, <1>6
    <2> HIDE DEF a
    <2>2. IsList(a \o h) /\ Len(a \o h) = 3 + Len(h)
      <3>1. IsList(a \o h) /\ Len(a \o h) = Len(a) + Len(h)
        BY <1>7, <2>1, ConcatList
      <3> QED
        BY <2>1, <3>1
    <2>3. IsList((a \o h) \o CostPhrase(ast))
          /\ Len((a \o h) \o CostPhrase(ast)) = 3 + Len(h) + Len(CostPhrase(ast))
      BY <2>1, <2>2, ConcatList
    <2>4. FitsAt(z, m, a \o h) <=> FitsAt(z, m, a) /\ FitsAt(z, m + 3, h)
      BY <1>1, <1>7, <2>1, FitsConcat
    <2>5. FitsAt(z, m, (a \o h) \o CostPhrase(ast)) <=>
            FitsAt(z, m, a \o h) /\ FitsAt(z, m + Len(a \o h), CostPhrase(ast))
      BY <1>1, <2>1, <2>2, FitsConcat
    <2>6. m + Len(a \o h) = m + 3 + Len(h)
      <3>1. Len(h) \in Nat
        BY <1>7 DEF IsList
      <3> QED
        BY <1>1, <2>2, <3>1
    <2> QED
      BY <2>3, <2>4, <2>5, <2>6 DEF a
  <1> HIDE DEF next, Path
  <1>8. m < Len(z) <=> m + 1 <= Len(z)
    BY <1>1
  <1>9. Follows(z, m + 0, {"YIELD"}) => ~(m + 1 <= Len(z) /\ next \in {"STEP", "PATH"})
    BY <1>2, <1>8 DEF Follows, next
  <1>10. CASE ~Opens(s, "STEP") /\ ~Opens(s, "PATH")
    <2>1. t = s
      BY <1>10 DEF TraversalClause
    <2>2. TraversalPhrases(t.ast) = {<<>>}
      BY <1>4, <2>1
    <2>3. ASSUME NEW ast, NEW p \in TraversalPhrases(ast), ast.mode \in {"scan", "step", "path"},
                 FitsAt(z, m, p)
          PROVE  p = <<>>
      <3>1. CASE ast.mode = "scan"
        BY <1>4, <2>3, <3>1
      <3>2. CASE ast.mode = "step"
        BY <1>3, <1>4, <1>5, <1>10, <2>3, <3>2
      <3>3. CASE ast.mode = "path"
        <4>1. PICK h \in HopsPhrases(ast) : p = Path(ast, h)
          BY <1>4, <2>3, <3>3
        <4>2. IsList(h)
          BY <4>1 DEF HopsPhrases, IsList
        <4> QED
          BY <1>3, <1>5, <1>7, <1>10, <2>3, <4>1, <4>2
      <3> QED
        BY <2>3, <3>1, <3>2, <3>3
    <2>4. 1 \in Nat /\ SameAround(t.ast, s.ast)
      BY <2>1 DEF SameAround
    <2> QED
      BY <1>2, <2>1, <2>2, <2>3, <2>4 DEF ParserErrors
  <1>11. CASE Opens(s, "STEP")
    <2>1. t = Traversal(s, "step") /\ Sees(s, 1, "STEP")
      BY <1>11 DEF TraversalClause, Opens
    <2>2. /\ IsState(t) /\ t.error \in ParserErrors /\ SameAround(t.ast, s.ast)
          /\ t.ast.hops = s.ast.hops
          /\ t.ast.direction \in {"out", "in"} /\ t.ast.mode \in {"step", "scan"}
          /\ t.error = "none" =>
               t.ast.mode = "step" /\ FitsAt(z, m, TraversalHead("STEP", t.ast)) /\ IsAt(t, z, m + 3)
          /\ \A ast : FitsAt(z, m, TraversalHead("STEP", ast)) => t.error = "none" /\ IsAt(t, z, m + 3)
      BY <2>1, TraversalReads
    <2>3. ASSUME t.error = "none"
          PROVE  \E p \in TraversalPhrases(t.ast) : IsList(p) /\ FitsAt(z, m, p) /\ IsAt(t, z, m + Len(p))
      <3>1. TraversalPhrases(t.ast) = {TraversalHead("STEP", t.ast)}
        BY <1>4, <2>2, <2>3
      <3> QED
        BY <1>5, <2>2, <2>3, <3>1
    <2>4. ASSUME NEW ast, NEW p \in TraversalPhrases(ast), ast.mode \in {"scan", "step", "path"},
                 FitsAt(z, m, p), Follows(z, m + Len(p), {"YIELD"})
          PROVE  t.error = "none" /\ IsList(p) /\ IsAt(t, z, m + Len(p))
      <3>1. CASE ast.mode = "scan"
        BY <1>2, <1>3, <1>4, <1>9, <1>11, <2>4, <3>1
      <3>2. CASE ast.mode = "step"
        <4>1. p = TraversalHead("STEP", ast)
          BY <1>4, <2>4, <3>2
        <4>2. IsList(p) /\ Len(p) = 3
          BY <1>5, <4>1
        <4>3. t.error = "none" /\ IsAt(t, z, m + 3)
          BY <2>2, <2>4, <4>1
        <4> QED
          BY <4>2, <4>3
      <3>3. CASE ast.mode = "path"
        <4>1. PICK h \in HopsPhrases(ast) : p = Path(ast, h)
          BY <1>4, <2>4, <3>3
        <4>2. IsList(h)
          BY <4>1 DEF HopsPhrases, IsList
        <4> QED
          BY <1>3, <1>5, <1>7, <1>11, <2>4, <4>1, <4>2
      <3> QED
        BY <2>4, <3>1, <3>2, <3>3
    <2>5. 1 \in Nat
      OBVIOUS
    <2> QED
      BY <2>2, <2>3, <2>4, <2>5
  <1>12. CASE Opens(s, "PATH")
    <2> DEFINE u == Traversal(s, "path")
               v == HopsClause(u)
    <2>1. t = CostClause(v) /\ Sees(s, 1, "PATH")
      BY <1>3, <1>12 DEF TraversalClause, Opens
    <2>2. /\ IsState(u) /\ u.error \in ParserErrors /\ SameAround(u.ast, s.ast)
          /\ u.ast.hops = 1 /\ u.ast.cost = <<>>
          /\ u.ast.direction \in {"out", "in"} /\ u.ast.mode \in {"path", "scan"}
          /\ u.error = "none" =>
               u.ast.mode = "path" /\ FitsAt(z, m, TraversalHead("PATH", u.ast)) /\ IsAt(u, z, m + 3)
          /\ \A ast : FitsAt(z, m, TraversalHead("PATH", ast)) => u.error = "none" /\ IsAt(u, z, m + 3)
      BY <2>1, TraversalReads
    <2>3. u.error # "none" => v = u
      BY DEF HopsClause, Opens
    <2>4. v.error # "none" => t = v
      BY <2>1 DEF CostClause, Opens
    <2> HIDE DEF u
    <2>5. u.error = "none" =>
            /\ IsState(v) /\ v.ast = [u.ast EXCEPT !.hops = v.ast.hops] /\ v.error \in ParserErrors
            /\ v.ast.hops \in Nat
            /\ v.error = "none" => \E p \in HopsPhrases(v.ast) :
                 IsList(p) /\ FitsAt(z, m + 3, p) /\ IsAt(v, z, m + 3 + Len(p))
            /\ \A ast : \A p \in HopsPhrases(ast) :
                 FitsAt(z, m + 3, p) /\ Follows(z, m + 3 + Len(p), {"COST", "YIELD"}) =>
                   v.error = "none" /\ IsList(p) /\ IsAt(v, z, m + 3 + Len(p))
      BY <2>2, HopsClauseReads
    <2> HIDE DEF v
    <2>6. IsState(v) /\ v.error \in ParserErrors /\ v.ast.hops \in Nat
          /\ v.ast = [u.ast EXCEPT !.hops = v.ast.hops]
      <3>1. u.ast = [u.ast EXCEPT !.hops = u.ast.hops]
        BY <2>2 DEF IsState
      <3> QED
        BY <2>2, <2>3, <2>5, <3>1
    <2>7. /\ SameAround(v.ast, s.ast) /\ v.ast.cost = <<>> /\ v.ast.direction = u.ast.direction
          /\ v.ast.mode = u.ast.mode /\ v.ast.type = u.ast.type
      BY <2>2, <2>6 DEF IsState, SameAround
    <2>8. ASSUME v.error = "none", NEW n, IsAt(v, z, n)
          PROVE  /\ IsState(t) /\ t.ast = [v.ast EXCEPT !.cost = t.ast.cost] /\ t.error \in ParserErrors
                 /\ t.error = "none" =>
                      FitsAt(z, n, CostPhrase(t.ast)) /\ IsAt(t, z, n + Len(CostPhrase(t.ast)))
                 /\ \A ast : FitsAt(z, n, CostPhrase(ast)) /\ Follows(z, n + Len(CostPhrase(ast)), {"YIELD"}) =>
                      t.error = "none" /\ IsAt(t, z, n + Len(CostPhrase(ast)))
      BY <2>1, <2>6, <2>7, <2>8, CostClauseReads
    <2>9. v.error = "none" => u.error = "none" /\ \E n : IsAt(v, z, n)
      BY <2>3, <2>5
    <2>10. IsState(t) /\ t.error \in ParserErrors /\ t.ast = [v.ast EXCEPT !.cost = t.ast.cost]
      <3>1. v.ast = [v.ast EXCEPT !.cost = v.ast.cost]
        BY <2>6 DEF IsState
      <3> QED
        BY <2>4, <2>6, <2>8, <2>9, <3>1
    <2>11. /\ SameAround(t.ast, s.ast) /\ t.ast.direction = u.ast.direction
           /\ t.ast.mode = u.ast.mode /\ t.ast.type = u.ast.type /\ t.ast.hops = v.ast.hops
      BY <2>6, <2>7, <2>10 DEF IsState, SameAround
    <2>12. ASSUME t.error = "none"
           PROVE  \E p \in TraversalPhrases(t.ast) : IsList(p) /\ FitsAt(z, m, p) /\ IsAt(t, z, m + Len(p))
      <3>1. v.error = "none" /\ u.error = "none"
        BY <2>3, <2>4, <2>12
      <3>2. u.ast.mode = "path" /\ FitsAt(z, m, TraversalHead("PATH", u.ast)) /\ IsAt(u, z, m + 3)
        BY <2>2, <3>1
      <3>3. PICK h \in HopsPhrases(v.ast) : IsList(h) /\ FitsAt(z, m + 3, h) /\ IsAt(v, z, m + 3 + Len(h))
        BY <2>5, <3>1
      <3>4. FitsAt(z, m + 3 + Len(h), CostPhrase(t.ast))
            /\ IsAt(t, z, m + 3 + Len(h) + Len(CostPhrase(t.ast)))
        BY <2>8, <2>12, <3>1, <3>3
      <3>5. TraversalHead("PATH", t.ast) = TraversalHead("PATH", u.ast) /\ HopsPhrases(t.ast) = HopsPhrases(v.ast)
        BY <2>11 DEF TraversalHead, HopsPhrases
      <3>6. Path(t.ast, h) \in TraversalPhrases(t.ast)
        BY <1>4, <2>11, <3>2, <3>3, <3>5
      <3>7. IsList(Path(t.ast, h)) /\ FitsAt(z, m, Path(t.ast, h))
            /\ Len(Path(t.ast, h)) = 3 + Len(h) + Len(CostPhrase(t.ast))
        BY <1>7, <3>2, <3>3, <3>4, <3>5
      <3>8. m + 3 + Len(h) + Len(CostPhrase(t.ast)) = m + Len(Path(t.ast, h))
        <4>1. Len(h) \in Nat /\ Len(CostPhrase(t.ast)) \in Nat
          BY <1>6, <3>3 DEF IsList
        <4> QED
          BY <1>1, <3>7, <4>1
      <3>9. IsAt(t, z, m + Len(Path(t.ast, h)))
        BY <3>4, <3>8
      <3> QED
        BY <3>6, <3>7, <3>9
    <2>13. ASSUME NEW ast, NEW p \in TraversalPhrases(ast), ast.mode \in {"scan", "step", "path"},
                  FitsAt(z, m, p), Follows(z, m + Len(p), {"YIELD"})
           PROVE  t.error = "none" /\ IsList(p) /\ IsAt(t, z, m + Len(p))
      <3>1. CASE ast.mode = "scan"
        BY <1>2, <1>3, <1>4, <1>9, <1>12, <2>13, <3>1
      <3>2. CASE ast.mode = "step"
        BY <1>3, <1>4, <1>5, <1>12, <2>13, <3>2
      <3>3. CASE ast.mode = "path"
        <4>1. PICK h \in HopsPhrases(ast) : p = Path(ast, h)
          BY <1>4, <2>13, <3>3
        <4>2. IsList(h)
          BY <4>1 DEF HopsPhrases, IsList
        <4>3. /\ IsList(p) /\ Len(p) = 3 + Len(h) + Len(CostPhrase(ast))
              /\ FitsAt(z, m, TraversalHead("PATH", ast)) /\ FitsAt(z, m + 3, h)
              /\ FitsAt(z, m + 3 + Len(h), CostPhrase(ast))
          BY <1>7, <2>13, <4>1, <4>2
        <4>4. m + 3 + Len(h) + Len(CostPhrase(ast)) = m + Len(p) /\ m + 3 + Len(h) \in Nat
          <5>1. Len(h) \in Nat /\ Len(CostPhrase(ast)) \in Nat
            BY <1>6, <4>2 DEF IsList
          <5> QED
            BY <1>1, <4>3, <5>1
        <4>5. u.error = "none"
          BY <2>2, <4>3
        <4>6. Follows(z, m + 3 + Len(h) + Len(CostPhrase(ast)), {"YIELD"})
          BY <2>13, <4>4
        <4>7. Follows(z, m + 3 + Len(h), {"COST", "YIELD"})
          BY <1>6, <4>3, <4>4, <4>6
        <4>8. v.error = "none" /\ IsAt(v, z, m + 3 + Len(h))
          BY <2>5, <4>1, <4>3, <4>5, <4>7
        <4>9. t.error = "none" /\ IsAt(t, z, m + 3 + Len(h) + Len(CostPhrase(ast)))
          BY <2>8, <4>3, <4>6, <4>8
        <4> QED
          BY <4>3, <4>4, <4>9
      <3> QED
        BY <2>13, <3>1, <3>2, <3>3
    <2>14. t.ast.mode \in {"scan", "step", "path"} /\ t.ast.hops \in Nat /\ t.ast.direction \in {"out", "in"}
      BY <2>2, <2>6, <2>11
    <2> QED
      BY <2>10, <2>11, <2>12, <2>13, <2>14
  <1> QED
    BY <1>10, <1>11, <1>12

-----------------------------------------------------------------------------
(* YIELD and ORDER.                                                         *)

\* The asts differ in their columns only.
Reprojected(a, b) == a = [b EXCEPT !.yield = a.yield]

(* YIELD and the column.                                                    *)
LEMMA YieldClauseReads ==
  ASSUME NEW z \in Seq(STRING), NEW s, NEW m, IsAt(s, z, m), IsState(s), s.error = "none",
         s.ast.yield = "node", NEW t, t = YieldClause(s)
  PROVE  /\ IsState(t) /\ Reprojected(t.ast, s.ast) /\ t.error \in ParserErrors
         /\ t.ast.yield \in {"node", "edge", "path"}
         /\ t.error = "none" =>
              FitsAt(z, m, YieldPhrase(t.ast)) /\ IsAt(t, z, m + Len(YieldPhrase(t.ast)))
         /\ \A ast : ast.yield \in {"node", "edge", "path"} /\ FitsAt(z, m, YieldPhrase(ast)) =>
              t.error = "none" /\ IsAt(t, z, m + Len(YieldPhrase(ast)))
  <1> DEFINE a == Folded(z[m + 1])
             b == Folded(z[m + 2])
             id == m + 4 <= Len(z) /\ Folded(z[m + 3]) = "." /\ Folded(z[m + 4]) = "ID"
             path == m + 2 <= Len(z) /\ a = "YIELD" /\ b = "PATH"
             two(k) == a = "YIELD" /\ b = k /\ id
             Says2(y) == \/ y = "node" /\ two("NODE")
                         \/ y = "edge" /\ two("EDGE")
                         \/ y = "path" /\ path
             Size(y) == IF y = "path" THEN 2 ELSE 4
  <1>1. /\ m \in Nat /\ Len(z) \in Nat /\ m <= Len(z) /\ Len(s.rest) = Len(z) - m
        /\ \A i \in 1..(Len(z) - m) : s.rest[i] = z[m + i]
    BY TokensAt DEF IsAt
  <1>2. ASSUME NEW k
        PROVE  /\ FitsAt(z, m, <<Keyword("YIELD"), Keyword(k), Keyword("."), Keyword("ID")>>) <=> two(k)
               /\ Len(<<Keyword("YIELD"), Keyword(k), Keyword("."), Keyword("ID")>>) = 4
    <2> DEFINE p == <<Keyword("YIELD"), Keyword(k), Keyword("."), Keyword("ID")>>
    <2>1. /\ Len(p) = 4
          /\ FitsAt(z, m, p) <=>
               /\ m + 4 <= Len(z) /\ IsSpelled(z[m + 1], Keyword("YIELD"))
               /\ IsSpelled(z[m + 2], Keyword(k)) /\ IsSpelled(z[m + 3], Keyword("."))
               /\ IsSpelled(z[m + 4], Keyword("ID"))
      BY <1>1, FitsFour
    <2> HIDE DEF p
    <2> QED
      BY <2>1, SpellsKeyword DEF p
  <1>3. /\ FitsAt(z, m, <<Keyword("YIELD"), Keyword("PATH")>>) <=> path
        /\ Len(<<Keyword("YIELD"), Keyword("PATH")>>) = 2
    <2> DEFINE p == <<Keyword("YIELD"), Keyword("PATH")>>
    <2>1. /\ Len(p) = 2
          /\ FitsAt(z, m, p) <=>
               /\ m + 2 <= Len(z) /\ IsSpelled(z[m + 1], Keyword("YIELD"))
               /\ IsSpelled(z[m + 2], Keyword("PATH"))
      BY <1>1, FitsTwo
    <2> HIDE DEF p
    <2> QED
      BY <2>1, SpellsKeyword DEF p
  <1>4. ASSUME NEW ast, ast.yield \in {"node", "edge", "path"}
        PROVE  Len(YieldPhrase(ast)) = Size(ast.yield) /\ (FitsAt(z, m, YieldPhrase(ast)) <=> Says2(ast.yield))
    <2>1. CASE ast.yield = "node"
      <3>1. YieldPhrase(ast) = <<Keyword("YIELD"), Keyword("NODE"), Keyword("."), Keyword("ID")>>
        BY <2>1 DEF YieldPhrase
      <3> HIDE DEF two, path
      <3> QED
        BY <1>2, <2>1, <3>1
    <2>2. CASE ast.yield = "edge"
      <3>1. YieldPhrase(ast) = <<Keyword("YIELD"), Keyword("EDGE"), Keyword("."), Keyword("ID")>>
        BY <2>2 DEF YieldPhrase
      <3> HIDE DEF two, path
      <3> QED
        BY <1>2, <2>2, <3>1
    <2>3. CASE ast.yield = "path"
      <3>1. YieldPhrase(ast) = <<Keyword("YIELD"), Keyword("PATH")>>
        BY <2>3 DEF YieldPhrase
      <3> HIDE DEF two, path
      <3> QED
        BY <1>3, <2>3, <3>1
    <2> QED
      BY <1>4, <2>1, <2>2, <2>3
  <1>5. m + 2 <= Len(z) => m + 1 <= Len(z)
    BY <1>1
  <1>6. m + 4 <= Len(z) => m + 1 <= Len(z) /\ m + 2 <= Len(z) /\ m + 3 <= Len(z)
    BY <1>1
  <1>7. Opens(s, "YIELD") <=> m + 1 <= Len(z) /\ a = "YIELD"
    BY SeesAt DEF Opens
  <1>8. Sees(s, 3, ".") /\ Sees(s, 4, "ID") <=> id
    <2>1. /\ Sees(s, 3, ".") <=> m + 3 <= Len(z) /\ Folded(z[m + 3]) = "."
          /\ Sees(s, 4, "ID") <=> m + 4 <= Len(z) /\ Folded(z[m + 4]) = "ID"
      BY SeesAt
    <2> QED
      BY <1>6, <2>1
  <1>9. \A k : Sees(s, 2, k) <=> m + 2 <= Len(z) /\ b = k
    BY SeesAt
  <1>10. /\ Opens(s, "YIELD") /\ Sees(s, 2, "PATH") <=> path
         /\ \A k : Opens(s, "YIELD") /\ Sees(s, 2, k) /\ id <=> two(k)
    <2> HIDE DEF a, b
    <2> QED
      BY <1>5, <1>6, <1>7, <1>9
  <1> HIDE DEF id
  <1>11. two("NODE") \/ two("EDGE") => ~path
    BY DEF a, b
  <1>12. ASSUME NEW y \in {"node", "edge", "path"}, Says2(y),
                t = [Past(s, Size(y)) EXCEPT !.ast.yield = y]
         PROVE  /\ IsState(t) /\ t.ast = [s.ast EXCEPT !.yield = y] /\ t.error = "none"
                /\ t.ast.yield = y /\ IsAt(t, z, m + Size(y))
    <2>1. Size(y) \in 0..(Len(z) - m)
      <3>1. CASE y = "path"
        BY <1>1, <1>12, <3>1
      <3>2. CASE y # "path"
        <4>1. m + 4 <= Len(z)
          BY <1>12, <3>2 DEF id
        <4> QED
          BY <1>1, <3>2, <4>1
      <3> QED
        BY <3>1, <3>2
    <2> HIDE DEF Size, Says2
    <2>2. /\ IsState(Past(s, Size(y))) /\ Past(s, Size(y)).ast = s.ast /\ Past(s, Size(y)).error = "none"
          /\ IsAt(Past(s, Size(y)), z, m + Size(y))
      BY <2>1, PastAt
    <2>3. /\ IsState(t) /\ t.ast = [s.ast EXCEPT !.yield = y] /\ t.error = "none"
          /\ t.ast.yield = y /\ t.rest = Past(s, Size(y)).rest
      BY <1>12, <2>2 DEF IsState
    <2>4. IsAt(t, z, m + Size(y))
      BY <2>2, <2>3 DEF IsAt
    <2> QED
      BY <2>3, <2>4
  <1>13. ASSUME NEW y \in {"node", "edge", "path"}, Says2(y)
         PROVE  t = [Past(s, Size(y)) EXCEPT !.ast.yield = y]
    <2>1. CASE y = "node"
      <3>1. two("NODE") /\ Size(y) = 4
        BY <1>13, <2>1
      <3>2. Opens(s, "YIELD") /\ Sees(s, 2, "NODE") /\ id
        BY <1>10, <3>1
      <3> HIDE DEF Size
      <3> QED
        BY <1>8, <2>1, <3>1, <3>2 DEF YieldClause
    <2>2. CASE y = "edge"
      <3>1. two("EDGE") /\ Size(y) = 4
        BY <1>13, <2>2
      <3>2. Opens(s, "YIELD") /\ Sees(s, 2, "EDGE") /\ id
        BY <1>10, <3>1
      <3>3. ~Sees(s, 2, "NODE")
        BY <1>9, <3>1
      <3> HIDE DEF Size
      <3> QED
        BY <1>8, <2>2, <3>1, <3>2, <3>3 DEF YieldClause
    <2>3. CASE y = "path"
      <3>1. path /\ Size(y) = 2
        BY <1>13, <2>3
      <3>2. Opens(s, "YIELD") /\ Sees(s, 2, "PATH")
        BY <1>10, <3>1
      <3>3. ~Sees(s, 2, "NODE") /\ ~Sees(s, 2, "EDGE")
        BY <1>9, <3>1
      <3> HIDE DEF Size
      <3> QED
        BY <2>3, <3>1, <3>2, <3>3 DEF YieldClause
    <2> QED
      BY <2>1, <2>2, <2>3
  <1>14. ASSUME \A y \in {"node", "edge", "path"} : ~Says2(y)
         PROVE  t = Fails(s, "syntax")
    <2>1. ~two("NODE") /\ ~two("EDGE") /\ ~path
      BY <1>14
    <2>2. Opens(s, "YIELD") => ~(Sees(s, 2, "NODE") /\ id) /\ ~(Sees(s, 2, "EDGE") /\ id) /\ ~Sees(s, 2, "PATH")
      <3> HIDE DEF two, path
      <3> QED
        BY <1>10, <2>1
    <2> QED
      BY <1>8, <2>2 DEF YieldClause
  <1> HIDE DEF Says2, Size
  <1>15. CASE \E y \in {"node", "edge", "path"} : Says2(y)
    <2>1. PICK y \in {"node", "edge", "path"} : Says2(y)
      BY <1>15
    <2>2. t = [Past(s, Size(y)) EXCEPT !.ast.yield = y]
      BY <1>13, <2>1
    <2>3. /\ IsState(t) /\ t.ast = [s.ast EXCEPT !.yield = y] /\ t.error = "none"
          /\ t.ast.yield = y /\ IsAt(t, z, m + Size(y))
      BY <1>12, <2>1, <2>2
    <2>4. FitsAt(z, m, YieldPhrase(t.ast)) /\ Len(YieldPhrase(t.ast)) = Size(y)
      <3>1. t.ast.yield = y /\ t.ast.yield \in {"node", "edge", "path"}
        BY <2>1, <2>3
      <3>2. /\ Len(YieldPhrase(t.ast)) = Size(t.ast.yield)
            /\ FitsAt(z, m, YieldPhrase(t.ast)) <=> Says2(t.ast.yield)
        BY <1>4, <3>1
      <3> QED
        BY <2>1, <3>1, <3>2
    <2>5. ASSUME NEW ast, ast.yield \in {"node", "edge", "path"}, FitsAt(z, m, YieldPhrase(ast))
          PROVE  Len(YieldPhrase(ast)) = Size(y)
      <3>1. Says2(ast.yield) /\ Len(YieldPhrase(ast)) = Size(ast.yield)
        BY <1>4, <2>5
      <3>2. ast.yield = y
        BY <2>1, <2>5, <3>1 DEF Says2
      <3> QED
        BY <3>1, <3>2
    <2> QED
      <3>1. Reprojected(t.ast, s.ast)
        BY <2>3 DEF Reprojected
      <3> QED
        BY <2>3, <2>4, <2>5, <3>1 DEF ParserErrors
  <1>16. CASE \A y \in {"node", "edge", "path"} : ~Says2(y)
    <2>1. t = Fails(s, "syntax")
      BY <1>14, <1>16
    <2>2. IsState(t) /\ t.ast = s.ast /\ t.error = "syntax"
      BY <2>1, FailsState
    <2>3. Reprojected(t.ast, s.ast) /\ t.ast.yield = "node"
      BY <2>2 DEF IsState, Reprojected
    <2> QED
      BY <1>4, <1>16, <2>2, <2>3 DEF ParserErrors
  <1> QED
    BY <1>15, <1>16

\* No column was asked for.
Unordered(ast) == ast.ordered = FALSE /\ ast.desc = FALSE

\* The column and its order are asked for.
Ordering(s, x, y) == [s EXCEPT !.ast.ordered = x, !.ast.desc = y]
OrderedAst(ast, x, y) == [ast EXCEPT !.ordered = x, !.desc = y]

(* Two fields of the ast change and nothing else.                           *)
LEMMA SetsOrder ==
  ASSUME NEW s, IsState(s), NEW x, NEW y
  PROVE  /\ IsState(Ordering(s, x, y)) /\ Ordering(s, x, y).ast = OrderedAst(s.ast, x, y)
         /\ Ordering(s, x, y).error = s.error /\ Ordering(s, x, y).rest = s.rest
         /\ Ordering(s, x, y).ast.ordered = x /\ Ordering(s, x, y).ast.desc = y
  <1>1. PICK t : t = [s EXCEPT !.ast.ordered = x, !.ast.desc = y]
    OBVIOUS
  <1>2. /\ IsState(t) /\ t.ast = [s.ast EXCEPT !.ordered = x, !.desc = y] /\ t.error = s.error
        /\ t.ast.ordered = x /\ t.ast.desc = y /\ t.rest = s.rest
    BY <1>1 DEF IsState
  <1> QED
    BY <1>1, <1>2, Zenon DEF Ordering, OrderedAst

(* ORDER and a direction were there.                                        *)
LEMMA OrderReads ==
  ASSUME NEW z \in Seq(STRING), NEW s, NEW m, IsAt(s, z, m), IsState(s), s.error = "none",
         2 \in 0..(Len(z) - m), NEW x, NEW y,
         NEW t, t = Ordering(Past(s, 2), x, y)
  PROVE  /\ IsState(t) /\ t.ast = OrderedAst(s.ast, t.ast.ordered, t.ast.desc) /\ t.error = "none"
         /\ t.ast.ordered = x /\ t.ast.desc = y /\ IsAt(t, z, m + 2)
  <1>1. /\ IsState(Past(s, 2)) /\ Past(s, 2).ast = s.ast /\ Past(s, 2).error = "none"
        /\ IsAt(Past(s, 2), z, m + 2)
    BY PastAt
  <1>2. /\ IsState(t) /\ t.ast = OrderedAst(s.ast, x, y) /\ t.error = "none"
        /\ t.ast.ordered = x /\ t.ast.desc = y /\ t.rest = Past(s, 2).rest
    BY <1>1, SetsOrder
  <1>3. IsAt(t, z, m + 2)
    BY <1>1, <1>2 DEF IsAt
  <1> QED
    BY <1>2, <1>3

(* ORDER and its direction, or nothing.                                     *)
LEMMA OrderClauseReads ==
  ASSUME NEW z \in Seq(STRING), NEW s, NEW m, IsAt(s, z, m), IsState(s), s.error = "none",
         Unordered(s.ast), NEW t, t = OrderClause(s)
  PROVE  /\ IsState(t) /\ t.error \in ParserErrors /\ t.ast.desc \in BOOLEAN
         /\ t.ast = OrderedAst(s.ast, t.ast.ordered, t.ast.desc)
         /\ t.error = "none" =>
              FitsAt(z, m, OrderPhrase(t.ast)) /\ IsAt(t, z, m + Len(OrderPhrase(t.ast)))
         /\ \A ast : FitsAt(z, m, OrderPhrase(ast)) /\ m + Len(OrderPhrase(ast)) = Len(z) =>
              t.error = "none" /\ IsAt(t, z, m + Len(OrderPhrase(ast)))
  <1> DEFINE a == Folded(z[m + 1])
             b == Folded(z[m + 2])
             Phrase(k) == <<Keyword("ORDER"), Keyword(k)>>
             two(k) == m + 2 <= Len(z) /\ a = "ORDER" /\ b = k
  <1>1. m \in Nat /\ Len(z) \in Nat /\ m <= Len(z)
    BY TokensAt DEF IsAt
  <1>2. FitsAt(z, m, <<>>) /\ Len(<<>>) = 0 /\ m + 0 = m
    BY <1>1, FitsNone
  <1>3. ASSUME NEW k PROVE (FitsAt(z, m, Phrase(k)) <=> two(k)) /\ Len(Phrase(k)) = 2
    <2>1. /\ Len(Phrase(k)) = 2
          /\ FitsAt(z, m, Phrase(k)) <=>
               /\ m + 2 <= Len(z) /\ IsSpelled(z[m + 1], Keyword("ORDER"))
               /\ IsSpelled(z[m + 2], Keyword(k))
      BY <1>1, FitsTwo
    <2> HIDE DEF Phrase
    <2> QED
      BY <2>1, SpellsKeyword
  <1>4. \A ast : \/ OrderPhrase(ast) = <<>> /\ ~ast.ordered
                 \/ OrderPhrase(ast) = Phrase("DESC") /\ ast.ordered /\ ast.desc
                 \/ OrderPhrase(ast) = Phrase("ASC") /\ ast.ordered /\ ~ast.desc
    BY DEF OrderPhrase
  <1>5. Opens(s, "ORDER") <=> m + 1 <= Len(z) /\ a = "ORDER"
    BY SeesAt DEF Opens
  <1>6. m + 2 <= Len(z) => m + 1 <= Len(z) /\ 2 \in 0..(Len(z) - m) /\ m # Len(z)
    BY <1>1
  <1>7. m + 1 <= Len(z) => m # Len(z)
    BY <1>1
  <1>8. \A k : Opens(s, "ORDER") /\ Sees(s, 2, k) <=> two(k)
    <2>1. \A k : Sees(s, 2, k) <=> m + 2 <= Len(z) /\ b = k
      BY SeesAt
    <2> QED
      BY <1>5, <1>6, <2>1
  <1>9. ~(two("ASC") /\ two("DESC"))
    OBVIOUS
  <1> HIDE DEF Phrase, a, b
  <1>10. CASE two("ASC")
    <2>1. t = [Past(s, 2) EXCEPT !.ast.ordered = TRUE, !.ast.desc = FALSE]
      <3>1. Opens(s, "ORDER") /\ Sees(s, 2, "ASC")
        BY <1>8, <1>10
      <3> QED
        BY <3>1 DEF OrderClause
    <2>2. PICK x, y : x \in BOOLEAN /\ y \in BOOLEAN /\ x /\ ~y /\ t = Ordering(Past(s, 2), x, y)
      BY <2>1, Zenon DEF Ordering
    <2>3. /\ IsState(t) /\ t.ast = OrderedAst(s.ast, t.ast.ordered, t.ast.desc) /\ t.error = "none"
          /\ t.ast.ordered = x /\ t.ast.desc = y /\ IsAt(t, z, m + 2)
      <3>1. t = Ordering(Past(s, 2), x, y) /\ 2 \in 0..(Len(z) - m)
        BY <1>6, <1>10, <2>2
      <3> QED
        BY <3>1, OrderReads
    <2>4. OrderPhrase(t.ast) = Phrase("ASC")
      BY <1>4, <2>2, <2>3
    <2>5. \A ast : FitsAt(z, m, OrderPhrase(ast)) /\ m + Len(OrderPhrase(ast)) = Len(z) =>
            Len(OrderPhrase(ast)) = 2
      BY <1>2, <1>3, <1>4, <1>6, <1>10
    <2>6. FitsAt(z, m, OrderPhrase(t.ast)) /\ IsAt(t, z, m + Len(OrderPhrase(t.ast)))
      <3>1. FitsAt(z, m, Phrase("ASC")) /\ Len(Phrase("ASC")) = 2
        BY <1>3, <1>10
      <3> QED
        BY <2>3, <2>4, <3>1, Zenon
    <2>7. t.error \in ParserErrors /\ t.ast.desc \in BOOLEAN
      BY <2>2, <2>3 DEF ParserErrors
    <2>8. \A ast : FitsAt(z, m, OrderPhrase(ast)) /\ m + Len(OrderPhrase(ast)) = Len(z) =>
            t.error = "none" /\ IsAt(t, z, m + Len(OrderPhrase(ast)))
      BY <2>3, <2>5, Zenon
    <2> QED
      BY <2>3, <2>6, <2>7, <2>8, Zenon
  <1>11. CASE two("DESC")
    <2>1. t = [Past(s, 2) EXCEPT !.ast.ordered = TRUE, !.ast.desc = TRUE]
      <3>1. Opens(s, "ORDER") /\ Sees(s, 2, "DESC") /\ ~Sees(s, 2, "ASC")
        BY <1>8, <1>9, <1>11
      <3> QED
        BY <3>1 DEF OrderClause
    <2>2. PICK x, y : x \in BOOLEAN /\ y \in BOOLEAN /\ x /\ y /\ t = Ordering(Past(s, 2), x, y)
      BY <2>1, Zenon DEF Ordering
    <2>3. /\ IsState(t) /\ t.ast = OrderedAst(s.ast, t.ast.ordered, t.ast.desc) /\ t.error = "none"
          /\ t.ast.ordered = x /\ t.ast.desc = y /\ IsAt(t, z, m + 2)
      <3>1. t = Ordering(Past(s, 2), x, y) /\ 2 \in 0..(Len(z) - m)
        BY <1>6, <1>11, <2>2
      <3> QED
        BY <3>1, OrderReads
    <2>4. OrderPhrase(t.ast) = Phrase("DESC")
      BY <1>4, <2>2, <2>3
    <2>5. \A ast : FitsAt(z, m, OrderPhrase(ast)) /\ m + Len(OrderPhrase(ast)) = Len(z) =>
            Len(OrderPhrase(ast)) = 2
      BY <1>2, <1>3, <1>4, <1>6, <1>11
    <2>6. FitsAt(z, m, OrderPhrase(t.ast)) /\ IsAt(t, z, m + Len(OrderPhrase(t.ast)))
      <3>1. FitsAt(z, m, Phrase("DESC")) /\ Len(Phrase("DESC")) = 2
        BY <1>3, <1>11
      <3> QED
        BY <2>3, <2>4, <3>1, Zenon
    <2>7. t.error \in ParserErrors /\ t.ast.desc \in BOOLEAN
      BY <2>2, <2>3 DEF ParserErrors
    <2>8. \A ast : FitsAt(z, m, OrderPhrase(ast)) /\ m + Len(OrderPhrase(ast)) = Len(z) =>
            t.error = "none" /\ IsAt(t, z, m + Len(OrderPhrase(ast)))
      BY <2>3, <2>5, Zenon
    <2> QED
      BY <2>3, <2>6, <2>7, <2>8, Zenon
  <1>12. CASE ~two("ASC") /\ ~two("DESC") /\ Opens(s, "ORDER")
    <2>1. t = Fails(s, "syntax")
      BY <1>8, <1>12 DEF OrderClause
    <2>2. IsState(t) /\ t.ast = s.ast /\ t.error = "syntax"
      BY <2>1, FailsState
    <2>3. t.ast.desc = FALSE /\ t.ast = OrderedAst(s.ast, t.ast.ordered, t.ast.desc)
      BY <2>2 DEF IsState, Unordered, OrderedAst
    <2>4. \A ast : ~(FitsAt(z, m, OrderPhrase(ast)) /\ m + Len(OrderPhrase(ast)) = Len(z))
      BY <1>2, <1>3, <1>4, <1>5, <1>7, <1>12
    <2> QED
      BY <2>2, <2>3, <2>4 DEF ParserErrors
  <1>13. CASE ~two("ASC") /\ ~two("DESC") /\ ~Opens(s, "ORDER")
    <2>1. t = s
      BY <1>13 DEF OrderClause
    <2>2. /\ t.ast.desc = FALSE /\ t.ast.ordered = FALSE
          /\ t.ast = OrderedAst(s.ast, t.ast.ordered, t.ast.desc)
      BY <2>1 DEF IsState, Unordered, OrderedAst
    <2>3. OrderPhrase(t.ast) = <<>>
      BY <1>4, <2>2
    <2>4. \A ast : FitsAt(z, m, OrderPhrase(ast)) => OrderPhrase(ast) = <<>>
      BY <1>3, <1>4, <1>13
    <2> QED
      BY <1>2, <2>1, <2>2, <2>3, <2>4 DEF ParserErrors
  <1> QED
    BY <1>10, <1>11, <1>12, <1>13

-----------------------------------------------------------------------------
(* The clauses in turn: where each leaves the parser.                       *)

\* The parser stands somewhere in the text z, unless it gave up.
Reading(s, z) ==
  /\ IsState(s) /\ s.error \in ParserErrors
  /\ s.error = "none" => \E m : IsAt(s, z, m)

(* The first error is the one that is returned, and after it nothing is     *)
(* read.                                                                    *)
LEMMA ErrorStays ==
  ASSUME NEW s, IsState(s), s.error # "none", NEW t,
         t \in {AtClause(s), FromClause(s), WhereClause(s), TraversalClause(s), YieldClause(s),
                OrderClause(s), End(s)}
  PROVE  IsState(t) /\ t.ast = s.ast /\ t.error = s.error
  <1>1. \A k : ~Opens(s, k)
    BY DEF Opens
  <1>2. t = s \/ t = Fails(s, "syntax")
    <2>1. AtClause(s) = s
      BY <1>1 DEF AtClause
    <2>2. FromClause(s) = Fails(s, "syntax")
      BY <1>1 DEF FromClause
    <2>3. WhereClause(s) = s
      BY <1>1, Zenon DEF WhereClause
    <2>4. TraversalClause(s) = s
      BY <1>1 DEF TraversalClause
    <2>5. YieldClause(s) = Fails(s, "syntax")
      BY <1>1, Zenon DEF YieldClause
    <2>6. OrderClause(s) = s
      BY <1>1, Zenon DEF OrderClause
    <2>7. End(s) = s \/ End(s) = Fails(s, "syntax")
      BY DEF End
    <2> QED
      BY <2>1, <2>2, <2>3, <2>4, <2>5, <2>6, <2>7
  <1> QED
    BY <1>2, FailsState

(* A field that is replaced by its value is not changed.                    *)
LEMMA SameAst ==
  ASSUME NEW s, IsState(s)
  PROVE  /\ Relabelled(s.ast, s.ast)
         /\ Refiltered(s.ast, s.ast)
         /\ Reprojected(s.ast, s.ast)
         /\ s.ast = OrderedAst(s.ast, s.ast.ordered, s.ast.desc)
         /\ SameAround(s.ast, s.ast)
  BY DEF IsState, OrderedAst, SameAround, Relabelled, Refiltered, Reprojected

(* AT leaves the ast as it is.                                              *)
LEMMA AtStage ==
  ASSUME NEW z \in Seq(STRING), NEW s, Reading(s, z), NEW t, t = AtClause(s)
  PROVE  Reading(t, z) /\ t.ast = s.ast /\ (t.error = "none" => s.error = "none")
  <1>1. CASE s.error = "none"
    <2>1. PICK m : IsAt(s, z, m)
      BY <1>1 DEF Reading
    <2>2. /\ IsState(t) /\ t.ast = s.ast /\ t.error \in ParserErrors
          /\ t.error = "none" => \E p \in AtPhrases : IsAt(t, z, m + Len(p))
      BY <1>1, <2>1, AtClauseReads DEF Reading
    <2> QED
      BY <1>1, <2>2 DEF Reading
  <1>2. CASE s.error # "none"
    BY <1>2, ErrorStays DEF Reading
  <1> QED
    BY <1>1, <1>2

(* FROM sets the label only.                                                *)
LEMMA FromStage ==
  ASSUME NEW z \in Seq(STRING), NEW s, Reading(s, z), NEW t, t = FromClause(s)
  PROVE  /\ Reading(t, z) /\ Relabelled(t.ast, s.ast)
         /\ t.error = "none" => s.error = "none"
  <1>1. CASE s.error = "none"
    <2>1. PICK m : IsAt(s, z, m)
      BY <1>1 DEF Reading
    <2>2. /\ IsState(t) /\ Relabelled(t.ast, s.ast) /\ t.error \in ParserErrors
          /\ t.error = "none" => IsAt(t, z, m + 2)
      BY <1>1, <2>1, FromClauseReads DEF Reading
    <2> QED
      BY <1>1, <2>2 DEF Reading
  <1>2. CASE s.error # "none"
    BY <1>2, ErrorStays, SameAst DEF Reading
  <1> QED
    BY <1>1, <1>2

(* WHERE sets the predicate only.                                           *)
LEMMA WhereStage ==
  ASSUME NEW z \in Seq(STRING), NEW s, Reading(s, z), s.ast.where = NoWhere,
         NEW t, t = WhereClause(s)
  PROVE  /\ Reading(t, z) /\ Refiltered(t.ast, s.ast)
         /\ IsWhere(t.ast.where) /\ t.ast.where.value # Throws
         /\ t.error = "none" => s.error = "none"
  <1>1. CASE s.error = "none"
    <2>1. PICK m : IsAt(s, z, m)
      BY <1>1 DEF Reading
    <2>2. /\ IsState(t) /\ Refiltered(t.ast, s.ast) /\ t.error \in ParserErrors
          /\ IsWhere(t.ast.where) /\ t.ast.where.value # Throws
          /\ t.error = "none" => \E p \in WherePhrases(t.ast.where) : IsAt(t, z, m + Len(p))
      BY <1>1, <2>1, WhereClauseReads DEF Reading
    <2> QED
      BY <1>1, <2>2 DEF Reading
  <1>2. CASE s.error # "none"
    <2>1. IsWhere(NoWhere) /\ NoWhere.value # Throws
      BY DEF IsWhere, NoWhere, Throws, BoolValue
    <2>2. IsState(t) /\ t.ast = s.ast /\ t.error = s.error
      BY <1>2, ErrorStays DEF Reading
    <2> QED
      BY <1>2, <2>1, <2>2, SameAst DEF Reading
  <1> QED
    BY <1>1, <1>2

(* The traversal leaves what is around it.                                  *)
LEMMA TraversalStage ==
  ASSUME NEW z \in Seq(STRING), NEW s, Reading(s, z), s.ast.mode = "scan", s.ast.hops = 1,
         s.ast.cost = <<>>, s.ast.direction \in {"out", "in"}, NEW t, t = TraversalClause(s)
  PROVE  /\ Reading(t, z) /\ SameAround(t.ast, s.ast)
         /\ t.ast.mode \in {"scan", "step", "path"} /\ t.ast.hops \in Nat
         /\ t.ast.direction \in {"out", "in"}
         /\ t.error = "none" => s.error = "none"
  <1>1. CASE s.error = "none"
    <2>1. PICK m : IsAt(s, z, m)
      BY <1>1 DEF Reading
    <2>2. /\ IsState(t) /\ t.error \in ParserErrors /\ SameAround(t.ast, s.ast)
          /\ t.ast.mode \in {"scan", "step", "path"} /\ t.ast.hops \in Nat
          /\ t.ast.direction \in {"out", "in"}
          /\ t.error = "none" => \E p \in TraversalPhrases(t.ast) : IsAt(t, z, m + Len(p))
      BY <1>1, <2>1, TraversalClauseReads DEF Reading
    <2> QED
      BY <1>1, <2>2 DEF Reading
  <1>2. CASE s.error # "none"
    <2>1. IsState(t) /\ t.ast = s.ast /\ t.error = s.error /\ IsState(s)
      BY <1>2, ErrorStays DEF Reading
    <2>2. SameAround(t.ast, s.ast)
      BY <2>1, SameAst
    <2>3. /\ t.ast.mode \in {"scan", "step", "path"} /\ t.ast.hops \in Nat
          /\ t.ast.direction \in {"out", "in"}
      BY <2>1
    <2> QED
      BY <1>2, <2>1, <2>2, <2>3 DEF Reading
  <1> QED
    BY <1>1, <1>2

(* YIELD sets the column only.                                              *)
LEMMA YieldStage ==
  ASSUME NEW z \in Seq(STRING), NEW s, Reading(s, z), s.ast.yield = "node",
         NEW t, t = YieldClause(s)
  PROVE  /\ Reading(t, z) /\ Reprojected(t.ast, s.ast)
         /\ t.ast.yield \in {"node", "edge", "path"}
         /\ t.error = "none" => s.error = "none"
  <1>1. CASE s.error = "none"
    <2>1. PICK m : IsAt(s, z, m)
      BY <1>1 DEF Reading
    <2>2. /\ IsState(t) /\ t.error \in ParserErrors /\ Reprojected(t.ast, s.ast)
          /\ t.ast.yield \in {"node", "edge", "path"}
          /\ t.error = "none" => IsAt(t, z, m + Len(YieldPhrase(t.ast)))
      BY <1>1, <2>1, YieldClauseReads DEF Reading
    <2> QED
      BY <1>1, <2>2 DEF Reading
  <1>2. CASE s.error # "none"
    BY <1>2, ErrorStays, SameAst DEF Reading
  <1> QED
    BY <1>1, <1>2

(* ORDER sets the order only.                                               *)
LEMMA OrderStage ==
  ASSUME NEW z \in Seq(STRING), NEW s, Reading(s, z), Unordered(s.ast), NEW t, t = OrderClause(s)
  PROVE  /\ Reading(t, z) /\ t.ast = OrderedAst(s.ast, t.ast.ordered, t.ast.desc)
         /\ t.ast.desc \in BOOLEAN
         /\ t.error = "none" => s.error = "none"
  <1>1. CASE s.error = "none"
    <2>1. PICK m : IsAt(s, z, m)
      BY <1>1 DEF Reading
    <2>2. /\ IsState(t) /\ t.error \in ParserErrors /\ t.ast.desc \in BOOLEAN
          /\ t.ast = OrderedAst(s.ast, t.ast.ordered, t.ast.desc)
          /\ t.error = "none" => IsAt(t, z, m + Len(OrderPhrase(t.ast)))
      BY <1>1, <2>1, OrderClauseReads DEF Reading
    <2> QED
      BY <1>1, <2>2 DEF Reading
  <1>2. CASE s.error # "none"
    <2>1. IsState(t) /\ t.ast = s.ast /\ t.error = s.error
      BY <1>2, ErrorStays DEF Reading
    <2>2. t.ast.desc \in BOOLEAN
      BY <2>1 DEF Unordered
    <2> QED
      BY <1>2, <2>1, <2>2, SameAst DEF Reading
  <1> QED
    BY <1>1, <1>2

(* Where the parser begins.                                                 *)
LEMMA BeginStage ==
  ASSUME NEW z \in Seq(STRING)
  PROVE  /\ Reading(Begin(z), z) /\ IsAt(Begin(z), z, 0) /\ Begin(z).error = "none"
         /\ Begin(z).ast.where = NoWhere /\ Begin(z).ast.mode = "scan" /\ Begin(z).ast.hops = 1
         /\ Begin(z).ast.cost = <<>> /\ Begin(z).ast.direction \in {"out", "in"}
         /\ Begin(z).ast.yield = "node" /\ Unordered(Begin(z).ast)
  <1>1. z = SubSeq(z, 1, Len(z)) /\ 0 \in 0..Len(z) /\ 0 + 1 = 1
    BY LenProperties, SubSeqProperties, SeqEqual
  <1>2. IsAt(Begin(z), z, 0)
    BY <1>1 DEF IsAt, Begin
  <1>3. IsState(Begin(z)) /\ Begin(z).error = "none" /\ Begin(z).error \in ParserErrors
    BY DEF IsState, Begin, ParserErrors
  <1>4. /\ Begin(z).ast.where = NoWhere /\ Begin(z).ast.mode = "scan" /\ Begin(z).ast.hops = 1
        /\ Begin(z).ast.cost = <<>> /\ Begin(z).ast.direction \in {"out", "in"}
        /\ Begin(z).ast.yield = "node"
    BY DEF Begin
  <1>5. Unordered(Begin(z).ast)
    BY DEF Begin, Unordered
  <1> QED
    BY <1>2, <1>3, <1>4, <1>5 DEF Reading

-----------------------------------------------------------------------------
(* A phrase and its clauses.                                                *)

\* The clauses of an ast, as the text has them.
IsPhrase(ast, at, where, traversal) ==
  /\ at \in AtPhrases /\ where \in WherePhrases(ast.where) /\ traversal \in TraversalPhrases(ast)

Joined(ast, at, where, traversal) ==
  at \o FromPhrase(ast) \o where \o traversal \o YieldPhrase(ast) \o OrderPhrase(ast)

\* Each clause fits where the one before it ends.
FitsInTurn(z, ast, at, where, traversal) ==
  /\ FitsAt(z, 0, at) /\ FitsAt(z, Len(at), FromPhrase(ast)) /\ FitsAt(z, Len(at) + 2, where)
  /\ FitsAt(z, Len(at) + 2 + Len(where), traversal)
  /\ FitsAt(z, Len(at) + 2 + Len(where) + Len(traversal), YieldPhrase(ast))
  /\ FitsAt(z, Len(at) + 2 + Len(where) + Len(traversal) + Len(YieldPhrase(ast)), OrderPhrase(ast))

(* Clauses of up to five items are sequences.                               *)
LEMMA ShortLists ==
  ASSUME NEW a, NEW b, NEW c, NEW d, NEW e
  PROVE  /\ IsList(<<>>) /\ Len(<<>>) = 0
         /\ IsList(<<a, b>>) /\ Len(<<a, b>>) = 2
         /\ IsList(<<a, b, c>>) /\ Len(<<a, b, c>>) = 3
         /\ IsList(<<a, b, c, d>>) /\ Len(<<a, b, c, d>>) = 4
         /\ IsList(<<a, b, c, d, e>>) /\ Len(<<a, b, c, d, e>>) = 5
  <1>1. Len(<<>>) = 0 /\ 0 \in Nat
    OBVIOUS
  <1>2. /\ IsList(<<a, b>>) /\ Len(<<a, b>>) = 2
        /\ IsList(<<a, b, c>>) /\ Len(<<a, b, c>>) = 3
    BY <1>1, FitsTwo, FitsThree
  <1>3. /\ IsList(<<a, b, c, d>>) /\ Len(<<a, b, c, d>>) = 4
        /\ IsList(<<a, b, c, d, e>>) /\ Len(<<a, b, c, d, e>>) = 5
    BY <1>1, FitsFour, FitsFive
  <1>4. IsList(<<>>)
    BY <1>1, FitsNone
  <1> QED
    BY <1>1, <1>2, <1>3, <1>4

(* The clauses of an ast are sequences, with their first items.             *)
LEMMA ClauseLists ==
  ASSUME NEW ast, ast.mode \in {"scan", "step", "path"}, ast.yield \in {"node", "edge", "path"},
         NEW at, NEW where, NEW traversal, IsPhrase(ast, at, where, traversal)
  PROVE  /\ IsList(at) /\ IsList(FromPhrase(ast)) /\ Len(FromPhrase(ast)) = 2 /\ IsList(where)
         /\ IsList(traversal) /\ IsList(YieldPhrase(ast)) /\ IsList(OrderPhrase(ast))
         /\ FromPhrase(ast)[1] = Keyword("FROM")
         /\ \/ traversal = <<>>
            \/ Len(traversal) # 0 /\ \E k \in {"STEP", "PATH"} : traversal[1] = Keyword(k)
         /\ Len(YieldPhrase(ast)) # 0 /\ YieldPhrase(ast)[1] = Keyword("YIELD")
  <1>1. IsList(at)
    BY ShortLists DEF IsPhrase, AtPhrases
  <1>2. IsList(FromPhrase(ast)) /\ Len(FromPhrase(ast)) = 2 /\ FromPhrase(ast)[1] = Keyword("FROM")
    BY ShortLists DEF FromPhrase
  <1>3. IsList(where)
    <2>1. where = <<>> \/ \E a, b, c, d : where = <<a, b, c, d>>
      BY DEF IsPhrase, WherePhrases
    <2> QED
      BY <2>1, ShortLists
  <1>4. /\ IsList(traversal)
        /\ \/ traversal = <<>>
           \/ Len(traversal) # 0 /\ \E k \in {"STEP", "PATH"} : traversal[1] = Keyword(k)
    <2>1. CASE ast.mode = "scan"
      <3>1. traversal = <<>>
        BY <2>1 DEF IsPhrase, TraversalPhrases
      <3> QED
        BY <3>1, FitsNone DEF IsList
    <2>2. CASE ast.mode = "step"
      <3>1. traversal = TraversalHead("STEP", ast)
        BY <2>2 DEF IsPhrase, TraversalPhrases, TraversalHead
      <3>2. IsList(traversal) /\ Len(traversal) = 3 /\ traversal[1] = Keyword("STEP")
        BY <3>1, ShortLists DEF TraversalHead
      <3> QED
        BY <3>2
    <2>3. CASE ast.mode = "path"
      <3> DEFINE head == TraversalHead("PATH", ast)
                 cost == CostPhrase(ast)
      <3>1. PICK hops \in HopsPhrases(ast) : traversal = head \o hops \o cost
        BY <2>3 DEF IsPhrase, TraversalPhrases, TraversalHead
      <3>2. IsList(head) /\ Len(head) = 3 /\ head[1] = Keyword("PATH")
        BY ShortLists DEF TraversalHead
      <3>3. IsList(hops)
        <4>1. hops = <<>> \/ \E a, b : hops = <<a, b>>
          BY <3>1 DEF HopsPhrases
        <4> QED
          BY <4>1, ShortLists
      <3>4. IsList(cost)
        <4>1. cost = <<>> \/ \E a, b : cost = <<a, b>>
          BY DEF CostPhrase
        <4> QED
          BY <4>1, ShortLists
      <3> HIDE DEF head, cost
      <3>5. /\ IsList(head \o hops) /\ Len(head \o hops) = 3 + Len(hops)
            /\ (head \o hops)[1] = Keyword("PATH")
        <4>1. /\ IsList(head \o hops) /\ Len(head \o hops) = Len(head) + Len(hops)
              /\ \A i \in 1..Len(head) : (head \o hops)[i] = head[i]
          BY ONLY <3>2, <3>3, ConcatList, SMTT(30)
        <4>2. 1 \in 1..Len(head)
          BY <3>2
        <4>3. (head \o hops)[1] = head[1]
          BY <4>1, <4>2
        <4> QED
          BY <3>2, <4>1, <4>3
      <3>6. Len(hops) \in Nat /\ Len(cost) \in Nat
        BY <3>3, <3>4 DEF IsList
      <3>7. 1 \in 1..Len(head \o hops)
        BY <3>5, <3>6
      <3>8. /\ IsList(head \o hops \o cost)
            /\ Len(head \o hops \o cost) = Len(head \o hops) + Len(cost)
            /\ \A i \in 1..Len(head \o hops) : (head \o hops \o cost)[i] = (head \o hops)[i]
        BY <3>4, <3>5, ConcatList
      <3>9. Len(head \o hops \o cost) # 0
        BY <3>5, <3>6, <3>8
      <3>10. (head \o hops \o cost)[1] = Keyword("PATH")
        BY <3>5, <3>7, <3>8
      <3> QED
        BY <3>1, <3>8, <3>9, <3>10
    <2> QED
      BY <2>1, <2>2, <2>3
  <1>5. IsList(YieldPhrase(ast)) /\ Len(YieldPhrase(ast)) # 0 /\ YieldPhrase(ast)[1] = Keyword("YIELD")
    <2>1. CASE \E a, b, c : YieldPhrase(ast) = <<Keyword("YIELD"), a, b, c>>
      <3>1. PICK a, b, c : YieldPhrase(ast) = <<Keyword("YIELD"), a, b, c>>
        BY <2>1
      <3>2. IsList(<<Keyword("YIELD"), a, b, c>>) /\ Len(<<Keyword("YIELD"), a, b, c>>) = 4
        BY ShortLists
      <3>3. <<Keyword("YIELD"), a, b, c>>[1] = Keyword("YIELD")
        OBVIOUS
      <3> QED
        BY <3>1, <3>2, <3>3
    <2>2. CASE \E a : YieldPhrase(ast) = <<Keyword("YIELD"), a>>
      <3>1. PICK a : YieldPhrase(ast) = <<Keyword("YIELD"), a>>
        BY <2>2
      <3>2. IsList(<<Keyword("YIELD"), a>>) /\ Len(<<Keyword("YIELD"), a>>) = 2
        BY ShortLists
      <3>3. <<Keyword("YIELD"), a>>[1] = Keyword("YIELD")
        OBVIOUS
      <3> QED
        BY <3>1, <3>2, <3>3
    <2> QED
      BY <2>1, <2>2 DEF YieldPhrase
  <1>6. IsList(OrderPhrase(ast))
    <2>1. OrderPhrase(ast) = <<>> \/ \E a, b : OrderPhrase(ast) = <<a, b>>
      BY DEF OrderPhrase
    <2> QED
      BY <2>1, ShortLists
  <1> QED
    BY <1>1, <1>2, <1>3, <1>4, <1>5, <1>6

(* A text fits a phrase exactly if it fits clause by clause.                *)
LEMMA FitsByClause ==
  ASSUME NEW z, Len(z) \in Nat, NEW ast, ast.mode \in {"scan", "step", "path"},
         ast.yield \in {"node", "edge", "path"},
         NEW at, NEW where, NEW traversal, IsPhrase(ast, at, where, traversal)
  PROVE  /\ FitsAt(z, 0, Joined(ast, at, where, traversal))
              <=> FitsInTurn(z, ast, at, where, traversal)
         /\ Len(Joined(ast, at, where, traversal))
              = Len(at) + 2 + Len(where) + Len(traversal) + Len(YieldPhrase(ast)) + Len(OrderPhrase(ast))
  <1> DEFINE from == FromPhrase(ast)
             yield == YieldPhrase(ast)
             order == OrderPhrase(ast)
             p2 == at \o from
             p3 == p2 \o where
             p4 == p3 \o traversal
             p5 == p4 \o yield
             p6 == p5 \o order
  <1>1. /\ IsList(at) /\ IsList(from) /\ Len(from) = 2 /\ IsList(where)
        /\ IsList(traversal) /\ IsList(yield) /\ IsList(order)
    BY ClauseLists
  <1> HIDE DEF from, yield, order
  <1>2. /\ IsList(p2) /\ Len(p2) = Len(at) + Len(from)
        /\ FitsAt(z, 0, p2) <=> FitsAt(z, 0, at) /\ FitsAt(z, 0 + Len(at), from)
    BY <1>1, ConcatList, FitsConcat
  <1> HIDE DEF p2
  <1>3. /\ IsList(p3) /\ Len(p3) = Len(p2) + Len(where)
        /\ FitsAt(z, 0, p3) <=> FitsAt(z, 0, p2) /\ FitsAt(z, 0 + Len(p2), where)
    BY <1>1, <1>2, ConcatList, FitsConcat
  <1> HIDE DEF p3
  <1>4. /\ IsList(p4) /\ Len(p4) = Len(p3) + Len(traversal)
        /\ FitsAt(z, 0, p4) <=> FitsAt(z, 0, p3) /\ FitsAt(z, 0 + Len(p3), traversal)
    BY <1>1, <1>3, ConcatList, FitsConcat
  <1> HIDE DEF p4
  <1>5. /\ IsList(p5) /\ Len(p5) = Len(p4) + Len(yield)
        /\ FitsAt(z, 0, p5) <=> FitsAt(z, 0, p4) /\ FitsAt(z, 0 + Len(p4), yield)
    BY <1>1, <1>4, ConcatList, FitsConcat
  <1> HIDE DEF p5
  <1>6. /\ IsList(p6) /\ Len(p6) = Len(p5) + Len(order)
        /\ FitsAt(z, 0, p6) <=> FitsAt(z, 0, p5) /\ FitsAt(z, 0 + Len(p5), order)
    BY <1>1, <1>5, ConcatList, FitsConcat
  <1> HIDE DEF p6
  <1>7. /\ Len(at) \in Nat /\ Len(where) \in Nat /\ Len(traversal) \in Nat /\ Len(yield) \in Nat
        /\ Len(order) \in Nat
    BY <1>1 DEF IsList
  <1>8. /\ 0 + Len(at) = Len(at) /\ 0 + Len(p2) = Len(at) + 2
        /\ 0 + Len(p3) = Len(at) + 2 + Len(where)
        /\ 0 + Len(p4) = Len(at) + 2 + Len(where) + Len(traversal)
        /\ 0 + Len(p5) = Len(at) + 2 + Len(where) + Len(traversal) + Len(yield)
        /\ Len(p6) = Len(at) + 2 + Len(where) + Len(traversal) + Len(yield) + Len(order)
    BY <1>1, <1>2, <1>3, <1>4, <1>5, <1>6, <1>7
  <1>9. p6 = Joined(ast, at, where, traversal)
    BY DEF p2, p3, p4, p5, p6, from, yield, order, Joined
  <1>10. FitsAt(z, 0, p6) <=> FitsInTurn(z, ast, at, where, traversal)
    BY <1>2, <1>3, <1>4, <1>5, <1>6, <1>8 DEF FitsInTurn, from, yield, order
  <1> QED
    BY <1>8, <1>9, <1>10 DEF yield, order

(* The first item of a clause that begins with a keyword.                   *)
LEMMA FirstKeyword ==
  ASSUME NEW z, NEW m \in Nat, NEW p, IsList(p), Len(p) # 0, FitsAt(z, m, p), NEW k, p[1] = Keyword(k)
  PROVE  Folded(z[m + 1]) = k
  <1>1. 1 \in 1..Len(p)
    BY DEF IsList
  <1>2. IsSpelled(z[m + 1], p[1])
    BY <1>1 DEF FitsAt
  <1> QED
    BY <1>2, SpellsKeyword

-----------------------------------------------------------------------------
(* The parser from its beginning to its end.                                *)

\* What an ast of the parser has in its fields.
IsParsed(ast) ==
  /\ ast.mode \in {"scan", "step", "path"} /\ ast.direction \in {"out", "in"}
  /\ ast.hops \in Nat /\ ast.yield \in {"node", "edge", "path"} /\ ast.desc \in BOOLEAN
  /\ IsWhere(ast.where) /\ ast.where.value # Throws

\* The states of the parser between its clauses.
AfterAt(z)        == AtClause(Begin(z))
AfterFrom(z)      == FromClause(AfterAt(z))
AfterWhere(z)     == WhereClause(AfterFrom(z))
AfterTraversal(z) == TraversalClause(AfterWhere(z))
AfterYield(z)     == YieldClause(AfterTraversal(z))
AfterOrder(z)     == OrderClause(AfterYield(z))

(* What each clause finds and leaves.                                       *)
LEMMA ParserStages ==
  ASSUME NEW z \in Seq(STRING),
         NEW s1, s1 = AfterAt(z), NEW s2, s2 = AfterFrom(z), NEW s3, s3 = AfterWhere(z),
         NEW s4, s4 = AfterTraversal(z), NEW s5, s5 = AfterYield(z), NEW s6, s6 = AfterOrder(z)
  PROVE  /\ Reading(s1, z)
         /\ Reading(s2, z) /\ s2.ast.where = NoWhere /\ (s2.error = "none" => s1.error = "none")
         /\ Reading(s3, z) /\ (s3.error = "none" => s2.error = "none")
         /\ s3.ast.mode = "scan" /\ s3.ast.hops = 1 /\ s3.ast.cost = <<>>
         /\ s3.ast.direction \in {"out", "in"}
         /\ Reading(s4, z) /\ (s4.error = "none" => s3.error = "none") /\ s4.ast.yield = "node"
         /\ Reading(s5, z) /\ (s5.error = "none" => s4.error = "none") /\ Unordered(s5.ast)
         /\ Reading(s6, z) /\ (s6.error = "none" => s5.error = "none") /\ IsParsed(s6.ast)
         /\ FromPhrase(s6.ast) = FromPhrase(s2.ast) /\ s6.ast.where = s3.ast.where
         /\ TraversalPhrases(s6.ast) = TraversalPhrases(s4.ast)
         /\ YieldPhrase(s6.ast) = YieldPhrase(s5.ast)
  <1> DEFINE b == Begin(z)
  <1>0. /\ Reading(b, z) /\ IsAt(b, z, 0) /\ b.error = "none"
        /\ b.ast.where = NoWhere /\ b.ast.mode = "scan" /\ b.ast.hops = 1
        /\ b.ast.cost = <<>> /\ b.ast.direction \in {"out", "in"}
        /\ b.ast.yield = "node" /\ Unordered(b.ast)
    BY BeginStage
  <1> HIDE DEF b
  <1>1. Reading(s1, z) /\ s1.ast = b.ast
    BY <1>0, AtStage DEF AfterAt, b
  <1>2. Reading(s2, z) /\ Relabelled(s2.ast, s1.ast) /\ (s2.error = "none" => s1.error = "none")
    BY <1>1, FromStage DEF AfterFrom, AfterAt
  <1>3. IsState(b) /\ IsState(s1) /\ IsState(s2)
    BY <1>0, <1>1, <1>2 DEF Reading
  <1>4. /\ s2.ast.where = NoWhere /\ s2.ast.mode = "scan" /\ s2.ast.hops = 1
        /\ s2.ast.cost = <<>> /\ s2.ast.direction \in {"out", "in"} /\ s2.ast.yield = "node"
    BY <1>0, <1>1, <1>2, <1>3 DEF Relabelled, IsState
  <1>5. Unordered(s2.ast)
    <2>1. s2.ast.ordered = b.ast.ordered /\ s2.ast.desc = b.ast.desc
      BY <1>1, <1>2, <1>3 DEF Relabelled, IsState
    <2> QED
      BY <1>0, <2>1 DEF Unordered
  <1>6. /\ Reading(s3, z) /\ Refiltered(s3.ast, s2.ast)
        /\ IsWhere(s3.ast.where) /\ s3.ast.where.value # Throws
        /\ s3.error = "none" => s2.error = "none"
    BY <1>2, <1>4, WhereStage DEF AfterWhere, AfterFrom
  <1>7. /\ s3.ast.label = s2.ast.label /\ s3.ast.mode = "scan" /\ s3.ast.hops = 1
        /\ s3.ast.cost = <<>> /\ s3.ast.direction \in {"out", "in"} /\ s3.ast.yield = "node"
    BY <1>3, <1>4, <1>6 DEF IsState, Refiltered
  <1>8. Unordered(s3.ast)
    <2>1. s3.ast.ordered = s2.ast.ordered /\ s3.ast.desc = s2.ast.desc
      BY <1>3, <1>6 DEF IsState, Refiltered
    <2> QED
      BY <1>5, <2>1 DEF Unordered
  <1>9. /\ Reading(s4, z) /\ SameAround(s4.ast, s3.ast)
        /\ s4.ast.mode \in {"scan", "step", "path"} /\ s4.ast.hops \in Nat
        /\ s4.ast.direction \in {"out", "in"}
        /\ s4.error = "none" => s3.error = "none"
    BY <1>6, <1>7, TraversalStage DEF AfterTraversal, AfterWhere
  <1>10. s4.ast.label = s2.ast.label /\ s4.ast.where = s3.ast.where /\ s4.ast.yield = "node"
    BY <1>7, <1>9 DEF SameAround
  <1>11. Unordered(s4.ast)
    BY <1>8, <1>9 DEF SameAround, Unordered
  <1>12. /\ Reading(s5, z) /\ Reprojected(s5.ast, s4.ast)
         /\ s5.ast.yield \in {"node", "edge", "path"}
         /\ s5.error = "none" => s4.error = "none"
    BY <1>9, <1>10, YieldStage DEF AfterYield, AfterTraversal
  <1>13. IsState(s4)
    BY <1>9 DEF Reading
  <1>14. /\ s5.ast.label = s4.ast.label /\ s5.ast.where = s4.ast.where /\ s5.ast.mode = s4.ast.mode
         /\ s5.ast.direction = s4.ast.direction /\ s5.ast.type = s4.ast.type
         /\ s5.ast.hops = s4.ast.hops /\ s5.ast.cost = s4.ast.cost
    BY <1>12, <1>13 DEF IsState, Reprojected
  <1>15. Unordered(s5.ast)
    <2>1. s5.ast.ordered = s4.ast.ordered /\ s5.ast.desc = s4.ast.desc
      BY <1>12, <1>13 DEF IsState, Reprojected
    <2> QED
      BY <1>11, <2>1 DEF Unordered
  <1>16. /\ Reading(s6, z) /\ s6.ast = OrderedAst(s5.ast, s6.ast.ordered, s6.ast.desc)
         /\ s6.ast.desc \in BOOLEAN
         /\ s6.error = "none" => s5.error = "none"
    BY <1>12, <1>15, OrderStage DEF AfterOrder, AfterYield
  <1>17. IsState(s5)
    BY <1>12 DEF Reading
  <1>18. /\ s6.ast.label = s5.ast.label /\ s6.ast.where = s5.ast.where /\ s6.ast.mode = s5.ast.mode
         /\ s6.ast.direction = s5.ast.direction /\ s6.ast.type = s5.ast.type
         /\ s6.ast.hops = s5.ast.hops /\ s6.ast.cost = s5.ast.cost /\ s6.ast.yield = s5.ast.yield
    BY <1>16, <1>17 DEF IsState, OrderedAst
  <1>19. IsParsed(s6.ast)
    <2>1. /\ s6.ast.mode \in {"scan", "step", "path"} /\ s6.ast.direction \in {"out", "in"}
          /\ s6.ast.hops \in Nat /\ s6.ast.yield \in {"node", "edge", "path"}
      BY <1>9, <1>12, <1>14, <1>18
    <2>2. IsWhere(s6.ast.where) /\ s6.ast.where.value # Throws
      BY <1>6, <1>10, <1>14, <1>18
    <2> QED
      BY <1>16, <2>1, <2>2 DEF IsParsed
  <1>20. FromPhrase(s6.ast) = FromPhrase(s2.ast) /\ s6.ast.where = s3.ast.where
    BY <1>10, <1>14, <1>18 DEF FromPhrase
  <1>21. TraversalPhrases(s6.ast) = TraversalPhrases(s4.ast)
    <2>1. HopsPhrases(s6.ast) = HopsPhrases(s4.ast) /\ CostPhrase(s6.ast) = CostPhrase(s4.ast)
      BY <1>14, <1>18 DEF HopsPhrases, CostPhrase
    <2>2. /\ s6.ast.mode = s4.ast.mode /\ s6.ast.direction = s4.ast.direction
          /\ s6.ast.type = s4.ast.type
      BY <1>14, <1>18
    <2> QED
      BY <2>1, <2>2, Zenon DEF TraversalPhrases
  <1>22. YieldPhrase(s6.ast) = YieldPhrase(s5.ast)
    BY <1>18 DEF YieldPhrase
  <1> QED
    BY <1>1, <1>2, <1>4, <1>6, <1>7, <1>9, <1>10, <1>12, <1>15, <1>16, <1>19, <1>20, <1>21, <1>22

(* The parser as its clauses.                                               *)
LEMMA ParseStages ==
  ASSUME NEW z \in Seq(STRING)
  PROVE  /\ Parse(z) = End(AfterOrder(z))
         /\ AfterAt(z) = AtClause(Begin(z)) /\ AfterFrom(z) = FromClause(AfterAt(z))
         /\ AfterWhere(z) = WhereClause(AfterFrom(z))
         /\ AfterTraversal(z) = TraversalClause(AfterWhere(z))
         /\ AfterYield(z) = YieldClause(AfterTraversal(z))
         /\ AfterOrder(z) = OrderClause(AfterYield(z))
  BY DEF Parse, AfterAt, AfterFrom, AfterWhere, AfterTraversal, AfterYield, AfterOrder

(* What the parser returns, error or not.                                   *)
LEMMA ParseTypes ==
  ASSUME NEW z \in Seq(STRING)
  PROVE  /\ Parse(z).error \in ParserErrors /\ IsParsed(Parse(z).ast)
         /\ Parse(z).ast = AfterOrder(z).ast
         /\ Parse(z).error = "none" => AfterOrder(z).error = "none" /\ AfterOrder(z).rest = <<>>
  <1>1. Reading(AfterOrder(z), z) /\ IsParsed(AfterOrder(z).ast)
    BY ParserStages
  <1>2. IsState(AfterOrder(z)) /\ AfterOrder(z).error \in ParserErrors
    BY <1>1 DEF Reading
  <1>3. CASE AfterOrder(z).rest = <<>>
    BY <1>1, <1>2, <1>3, ParseStages DEF End
  <1>4. CASE AfterOrder(z).rest # <<>>
    <2>1. Parse(z) = Fails(AfterOrder(z), "syntax")
      BY <1>4, ParseStages DEF End
    <2>2. /\ Parse(z).ast = AfterOrder(z).ast
          /\ Parse(z).error = IF AfterOrder(z).error = "none" THEN "syntax" ELSE AfterOrder(z).error
      BY <1>2, <2>1, FailsState
    <2> QED
      BY <1>1, <1>2, <2>2 DEF ParserErrors
  <1> QED
    BY <1>3, <1>4

-----------------------------------------------------------------------------
(* Both directions: what is accepted fits, what fits is accepted.           *)

(* A text that the parser accepts is a phrase of the ast it returns.        *)
LEMMA ParsedFits ==
  ASSUME NEW z \in Seq(STRING), Parse(z).error = "none"
  PROVE  \E p \in Phrases(Parse(z).ast) : Len(p) = Len(z) /\ FitsAt(z, 0, p)
  <1> DEFINE b == Begin(z)
             s1 == AfterAt(z)
             s2 == AfterFrom(z)
             s3 == AfterWhere(z)
             s4 == AfterTraversal(z)
             s5 == AfterYield(z)
             s6 == AfterOrder(z)
             A == s6.ast
  <1>0. /\ s1 = AtClause(b) /\ s2 = FromClause(s1) /\ s3 = WhereClause(s2) /\ s4 = TraversalClause(s3)
        /\ s5 = YieldClause(s4) /\ s6 = OrderClause(s5)
    BY ParseStages
  <1>1. /\ Reading(s1, z)
        /\ Reading(s2, z) /\ s2.ast.where = NoWhere /\ (s2.error = "none" => s1.error = "none")
        /\ Reading(s3, z) /\ (s3.error = "none" => s2.error = "none")
        /\ s3.ast.mode = "scan" /\ s3.ast.hops = 1 /\ s3.ast.cost = <<>>
        /\ s3.ast.direction \in {"out", "in"}
        /\ Reading(s4, z) /\ (s4.error = "none" => s3.error = "none") /\ s4.ast.yield = "node"
        /\ Reading(s5, z) /\ (s5.error = "none" => s4.error = "none") /\ Unordered(s5.ast)
        /\ Reading(s6, z) /\ (s6.error = "none" => s5.error = "none") /\ IsParsed(A)
        /\ FromPhrase(A) = FromPhrase(s2.ast) /\ A.where = s3.ast.where
        /\ TraversalPhrases(A) = TraversalPhrases(s4.ast)
        /\ YieldPhrase(A) = YieldPhrase(s5.ast)
    BY ParserStages
  <1>2. Parse(z).ast = A /\ s6.error = "none" /\ s6.rest = <<>>
    BY ParseTypes
  <1>3. /\ Reading(b, z) /\ IsAt(b, z, 0) /\ b.error = "none"
    BY BeginStage
  <1> HIDE DEF b, s1, s2, s3, s4, s5, s6, A
  <1>4. /\ s1.error = "none" /\ s2.error = "none" /\ s3.error = "none" /\ s4.error = "none"
        /\ s5.error = "none"
    BY <1>1, <1>2
  <1>5. /\ IsState(b) /\ IsState(s1) /\ IsState(s2) /\ IsState(s3) /\ IsState(s4) /\ IsState(s5)
    BY <1>1, <1>3 DEF Reading
  <1>6. PICK at \in AtPhrases : FitsAt(z, 0, at) /\ IsAt(s1, z, 0 + Len(at))
    BY <1>0, <1>3, <1>4, <1>5, AtClauseReads
  <1> DEFINE m1 == 0 + Len(at)
  <1> HIDE DEF m1
  <1>7. FitsAt(z, m1, FromPhrase(A)) /\ IsAt(s2, z, m1 + 2)
    <2>1. IsAt(s1, z, m1)
      BY <1>6 DEF m1
    <2> QED
      BY <1>0, <1>1, <1>4, <1>5, <2>1, FromClauseReads
  <1> DEFINE m2 == m1 + 2
  <1>8. IsAt(s2, z, m2)
    BY <1>7
  <1> HIDE DEF m2
  <1>9. PICK where \in WherePhrases(A.where) : FitsAt(z, m2, where) /\ IsAt(s3, z, m2 + Len(where))
    BY <1>0, <1>1, <1>4, <1>5, <1>8, WhereClauseReads
  <1> DEFINE m3 == m2 + Len(where)
  <1>10. IsAt(s3, z, m3)
    BY <1>9
  <1> HIDE DEF m3
  <1>11. PICK traversal \in TraversalPhrases(A) :
           FitsAt(z, m3, traversal) /\ IsAt(s4, z, m3 + Len(traversal))
    BY <1>0, <1>1, <1>4, <1>5, <1>10, TraversalClauseReads
  <1> DEFINE m4 == m3 + Len(traversal)
  <1>12. IsAt(s4, z, m4)
    BY <1>11
  <1> HIDE DEF m4
  <1>13. FitsAt(z, m4, YieldPhrase(A)) /\ IsAt(s5, z, m4 + Len(YieldPhrase(A)))
    <2>1. /\ IsAt(s4, z, m4) /\ IsState(s4) /\ s4.error = "none" /\ s4.ast.yield = "node"
          /\ s5 = YieldClause(s4)
      BY <1>0, <1>1, <1>4, <1>5, <1>12
    <2>2. /\ s5.error = "none" =>
               FitsAt(z, m4, YieldPhrase(s5.ast)) /\ IsAt(s5, z, m4 + Len(YieldPhrase(s5.ast)))
      BY <2>1, YieldClauseReads
    <2> QED
      BY <1>1, <1>4, <2>2
  <1> DEFINE m5 == m4 + Len(YieldPhrase(A))
  <1>14. IsAt(s5, z, m5)
    BY <1>13
  <1> HIDE DEF m5
  <1>15. FitsAt(z, m5, OrderPhrase(A)) /\ IsAt(s6, z, m5 + Len(OrderPhrase(A)))
    <2>1. s6.error = "none" =>
            FitsAt(z, m5, OrderPhrase(s6.ast)) /\ IsAt(s6, z, m5 + Len(OrderPhrase(s6.ast)))
      BY <1>0, <1>1, <1>4, <1>5, <1>14, OrderClauseReads
    <2> QED
      BY <1>2, <2>1 DEF A
  <1>16. m5 + Len(OrderPhrase(A)) = Len(z)
    BY <1>2, <1>15, TokensAt
  <1>17. IsPhrase(A, at, where, traversal)
    BY <1>6, <1>9, <1>11 DEF IsPhrase
  <1>18. A.mode \in {"scan", "step", "path"} /\ A.yield \in {"node", "edge", "path"}
    BY <1>1 DEF IsParsed
  <1>19. Len(z) \in Nat /\ Len(at) \in Nat
    <2>1. IsList(at)
      BY <1>17, <1>18, ClauseLists
    <2> QED
      BY <2>1, LenProperties DEF IsList
  <1>20. 0 + Len(at) = Len(at)
    BY <1>19
  <1>21. FitsInTurn(z, A, at, where, traversal)
    BY <1>6, <1>7, <1>9, <1>11, <1>13, <1>15, <1>20 DEF FitsInTurn, m1, m2, m3, m4, m5
  <1> DEFINE p == Joined(A, at, where, traversal)
  <1>22. /\ FitsAt(z, 0, p)
         /\ Len(p) = Len(at) + 2 + Len(where) + Len(traversal) + Len(YieldPhrase(A)) + Len(OrderPhrase(A))
    BY <1>17, <1>18, <1>19, <1>21, FitsByClause
  <1>23. Len(p) = Len(z)
    BY <1>16, <1>20, <1>22 DEF m1, m2, m3, m4, m5
  <1>24. p \in Phrases(A)
    BY <1>17 DEF IsPhrase, Joined, Phrases
  <1> QED
    BY <1>2, <1>22, <1>23, <1>24

(* The phrases of an ast are its clauses, joined.                           *)
LEMMA PhrasesJoin ==
  ASSUME NEW ast
  PROVE  Phrases(ast) = {Joined(ast, at, where, traversal) :
                           at \in AtPhrases, where \in WherePhrases(ast.where),
                           traversal \in TraversalPhrases(ast)}
  BY DEF Phrases, Joined

(* The clauses of a phrase.                                                 *)
LEMMA PhraseOf ==
  ASSUME NEW ast, NEW p, p \in Phrases(ast)
  PROVE  \E at, where, traversal :
           IsPhrase(ast, at, where, traversal) /\ p = Joined(ast, at, where, traversal)
  BY PhrasesJoin DEF IsPhrase

\* Each clause of a phrase that fills the text is in its place, and what
\* follows an optional one is a keyword that cannot begin it.
Placed(z, ast, at, where, traversal) ==
  LET m1 == Len(at)
      m2 == m1 + 2
      m3 == m2 + Len(where)
      m4 == m3 + Len(traversal)
      m5 == m4 + Len(YieldPhrase(ast))
  IN  /\ m1 \in Nat /\ m2 \in Nat /\ m3 \in Nat /\ m4 \in Nat /\ m5 \in Nat
      /\ FitsAt(z, 0, at) /\ FitsAt(z, m1, FromPhrase(ast)) /\ FitsAt(z, m2, where)
      /\ FitsAt(z, m3, traversal) /\ FitsAt(z, m4, YieldPhrase(ast))
      /\ FitsAt(z, m5, OrderPhrase(ast)) /\ m5 + Len(OrderPhrase(ast)) = Len(z)
      /\ Folded(z[m1 + 1]) = "FROM" /\ Folded(z[m3 + 1]) \in {"STEP", "PATH", "YIELD"}
      /\ Folded(z[m4 + 1]) = "YIELD"

(* A phrase that fills the text has each clause in its place.               *)
LEMMA PhrasePlaces ==
  ASSUME NEW z, Len(z) \in Nat, NEW ast, ast.mode \in {"scan", "step", "path"},
         ast.yield \in {"node", "edge", "path"},
         NEW at, NEW where, NEW traversal, IsPhrase(ast, at, where, traversal),
         FitsAt(z, 0, Joined(ast, at, where, traversal)),
         Len(Joined(ast, at, where, traversal)) = Len(z)
  PROVE  Placed(z, ast, at, where, traversal)
  <1> DEFINE yield == YieldPhrase(ast)
             order == OrderPhrase(ast)
             m1 == Len(at)
             m2 == m1 + 2
             m3 == m2 + Len(where)
             m4 == m3 + Len(traversal)
             m5 == m4 + Len(yield)
  <1>1. /\ IsList(at) /\ IsList(FromPhrase(ast)) /\ Len(FromPhrase(ast)) = 2 /\ IsList(where)
        /\ IsList(traversal) /\ IsList(yield) /\ IsList(order)
        /\ FromPhrase(ast)[1] = Keyword("FROM")
        /\ \/ traversal = <<>>
           \/ Len(traversal) # 0 /\ \E k \in {"STEP", "PATH"} : traversal[1] = Keyword(k)
        /\ Len(yield) # 0 /\ yield[1] = Keyword("YIELD")
    BY ClauseLists
  <1>2. /\ FitsInTurn(z, ast, at, where, traversal)
        /\ Len(z) = Len(at) + 2 + Len(where) + Len(traversal) + Len(yield) + Len(order)
    BY FitsByClause
  <1>3. /\ FitsAt(z, 0, at) /\ FitsAt(z, m1, FromPhrase(ast)) /\ FitsAt(z, m2, where)
        /\ FitsAt(z, m3, traversal) /\ FitsAt(z, m4, yield) /\ FitsAt(z, m5, order)
    BY <1>2 DEF FitsInTurn
  <1>4. /\ m1 \in Nat /\ m2 \in Nat /\ m3 \in Nat /\ m4 \in Nat /\ m5 \in Nat /\ Len(order) \in Nat
        /\ m5 + Len(order) = Len(z) /\ m3 + 0 = m3
    BY <1>1, <1>2 DEF IsList
  <1> HIDE DEF yield, order
  <1>8. m4 = m3 + Len(traversal)
    OBVIOUS
  <1> HIDE DEF m1, m2, m3, m4, m5
  <1>5. Folded(z[m1 + 1]) = "FROM"
    <2>1. /\ IsList(FromPhrase(ast)) /\ Len(FromPhrase(ast)) # 0 /\ m1 \in Nat
          /\ FitsAt(z, m1, FromPhrase(ast)) /\ FromPhrase(ast)[1] = Keyword("FROM")
      BY <1>1, <1>3, <1>4
    <2> QED
      BY ONLY <2>1, FirstKeyword
  <1>6. Folded(z[m4 + 1]) = "YIELD"
    <2>1. /\ IsList(yield) /\ Len(yield) # 0 /\ m4 \in Nat /\ FitsAt(z, m4, yield)
          /\ yield[1] = Keyword("YIELD")
      BY <1>1, <1>3, <1>4
    <2> QED
      BY ONLY <2>1, FirstKeyword
  <1>7. Folded(z[m3 + 1]) \in {"STEP", "PATH", "YIELD"}
    <2>1. CASE traversal = <<>>
      <3>1. m4 = m3
        BY <1>4, <1>8, <2>1
      <3> QED
        BY <1>6, <3>1
    <2>2. CASE Len(traversal) # 0 /\ \E k \in {"STEP", "PATH"} : traversal[1] = Keyword(k)
      <3>1. PICK k \in {"STEP", "PATH"} : traversal[1] = Keyword(k)
        BY <2>2
      <3>2. Folded(z[m3 + 1]) = k
        BY <1>1, <1>3, <1>4, <2>2, <3>1, FirstKeyword
      <3> QED
        BY <3>2
    <2> QED
      BY <1>1, <2>1, <2>2
  <1> QED
    BY <1>3, <1>4, <1>5, <1>6, <1>7 DEF Placed, yield, order, m1, m2, m3, m4, m5

(* A statement of the language is accepted, whichever phrase of its ast it  *)
(* is.                                                                      *)
LEMMA FitsParsed ==
  ASSUME NEW z \in Seq(STRING), NEW ast, ast.mode \in {"scan", "step", "path"},
         ast.yield \in {"node", "edge", "path"}, ast.where.op \in Ops \union {"none"},
         ast.where.value # Throws, NEW p \in Phrases(ast), Len(p) = Len(z), FitsAt(z, 0, p)
  PROVE  Parse(z).error = "none"
  <1> DEFINE b == Begin(z)
             s1 == AfterAt(z)
             s2 == AfterFrom(z)
             s3 == AfterWhere(z)
             s4 == AfterTraversal(z)
             s5 == AfterYield(z)
             s6 == AfterOrder(z)
  <1>0. /\ s1 = AtClause(b) /\ s2 = FromClause(s1) /\ s3 = WhereClause(s2) /\ s4 = TraversalClause(s3)
        /\ s5 = YieldClause(s4) /\ s6 = OrderClause(s5)
    BY ParseStages
  <1>1. /\ Reading(s1, z)
        /\ Reading(s2, z) /\ s2.ast.where = NoWhere /\ Reading(s3, z)
        /\ s3.ast.mode = "scan" /\ s3.ast.hops = 1 /\ s3.ast.cost = <<>>
        /\ s3.ast.direction \in {"out", "in"}
        /\ Reading(s4, z) /\ s4.ast.yield = "node" /\ Reading(s5, z) /\ Unordered(s5.ast)
    BY ParserStages
  <1>2. Parse(z) = End(s6)
    BY ParseStages
  <1>3. /\ Reading(b, z) /\ IsAt(b, z, 0) /\ b.error = "none"
    BY BeginStage
  <1> HIDE DEF b, s1, s2, s3, s4, s5, s6
  <1>4. /\ IsState(b) /\ IsState(s1) /\ IsState(s2) /\ IsState(s3) /\ IsState(s4) /\ IsState(s5)
    BY <1>1, <1>3 DEF Reading
  <1>5. PICK at, where, traversal :
          IsPhrase(ast, at, where, traversal) /\ p = Joined(ast, at, where, traversal)
    BY PhraseOf
  <1> DEFINE m1 == Len(at)
             m2 == m1 + 2
             m3 == m2 + Len(where)
             m4 == m3 + Len(traversal)
             m5 == m4 + Len(YieldPhrase(ast))
  <1>6. Placed(z, ast, at, where, traversal)
    BY <1>5, LenProperties, PhrasePlaces
  <1>7. /\ m1 \in Nat /\ m2 \in Nat /\ m3 \in Nat /\ m4 \in Nat /\ m5 \in Nat
        /\ m1 = 0 + Len(at) /\ m2 = m1 + 2 /\ m3 = m2 + Len(where)
        /\ m4 = m3 + Len(traversal) /\ m5 = m4 + Len(YieldPhrase(ast))
        /\ FitsAt(z, 0, at) /\ FitsAt(z, m1, FromPhrase(ast)) /\ FitsAt(z, m2, where)
        /\ FitsAt(z, m3, traversal) /\ FitsAt(z, m4, YieldPhrase(ast))
        /\ FitsAt(z, m5, OrderPhrase(ast)) /\ m5 + Len(OrderPhrase(ast)) = Len(z)
        /\ Folded(z[m1 + 1]) = "FROM" /\ Folded(z[m3 + 1]) \in {"STEP", "PATH", "YIELD"}
        /\ Folded(z[m4 + 1]) = "YIELD"
    BY <1>6 DEF Placed
  <1> HIDE DEF m1, m2, m3, m4, m5
  <1>8. s1.error = "none" /\ IsAt(s1, z, m1)
    <2>1. \A r \in AtPhrases : FitsAt(z, 0, r) /\ Follows(z, 0 + Len(r), {"FROM"}) =>
            s1.error = "none" /\ IsAt(s1, z, 0 + Len(r))
      BY <1>0, <1>3, <1>4, AtClauseReads
    <2>2. at \in AtPhrases /\ Follows(z, m1, {"FROM"})
      BY <1>5, <1>7 DEF IsPhrase, Follows
    <2> QED
      BY <1>7, <2>1, <2>2
  <1>9. s2.error = "none" /\ IsAt(s2, z, m2)
    <2>1. \A a : FitsAt(z, m1, FromPhrase(a)) => s2.error = "none" /\ IsAt(s2, z, m1 + 2)
      BY <1>0, <1>4, <1>8, FromClauseReads
    <2> QED
      BY <1>7, <2>1
  <1>10. s3.error = "none" /\ IsAt(s3, z, m3)
    <2>1. \A w : \A r \in WherePhrases(w) :
            /\ w.op \in Ops \union {"none"} /\ w.value # Throws /\ FitsAt(z, m2, r)
            /\ Follows(z, m2 + Len(r), {"STEP", "PATH", "YIELD"})
            => s3.error = "none" /\ IsAt(s3, z, m2 + Len(r))
      <3>1. /\ IsAt(s2, z, m2) /\ IsState(s2) /\ s2.error = "none" /\ s2.ast.where = NoWhere
            /\ s3 = WhereClause(s2)
        BY <1>0, <1>1, <1>4, <1>9
      <3> QED
        BY <3>1, WhereClauseReads
    <2>2. where \in WherePhrases(ast.where) /\ Follows(z, m3, {"STEP", "PATH", "YIELD"})
      BY <1>5, <1>7 DEF IsPhrase, Follows
    <2> QED
      BY <1>7, <2>1, <2>2
  <1>11. s4.error = "none" /\ IsAt(s4, z, m4)
    <2>1. \A a : \A r \in TraversalPhrases(a) :
            /\ a.mode \in {"scan", "step", "path"} /\ FitsAt(z, m3, r)
            /\ Follows(z, m3 + Len(r), {"YIELD"})
            => s4.error = "none" /\ IsAt(s4, z, m3 + Len(r))
      BY <1>0, <1>1, <1>4, <1>10, TraversalClauseReads
    <2>2. traversal \in TraversalPhrases(ast) /\ Follows(z, m4, {"YIELD"})
      BY <1>5, <1>7 DEF IsPhrase, Follows
    <2> QED
      BY <1>7, <2>1, <2>2
  <1>12. s5.error = "none" /\ IsAt(s5, z, m5)
    <2>1. \A a : a.yield \in {"node", "edge", "path"} /\ FitsAt(z, m4, YieldPhrase(a)) =>
            s5.error = "none" /\ IsAt(s5, z, m4 + Len(YieldPhrase(a)))
      <3>1. /\ IsAt(s4, z, m4) /\ IsState(s4) /\ s4.error = "none" /\ s4.ast.yield = "node"
            /\ s5 = YieldClause(s4)
        BY <1>0, <1>1, <1>4, <1>11
      <3> QED
        BY <3>1, YieldClauseReads
    <2> QED
      BY <1>7, <2>1
  <1>13. s6.error = "none" /\ IsAt(s6, z, Len(z))
    <2>1. \A a : FitsAt(z, m5, OrderPhrase(a)) /\ m5 + Len(OrderPhrase(a)) = Len(z) =>
            s6.error = "none" /\ IsAt(s6, z, m5 + Len(OrderPhrase(a)))
      BY <1>0, <1>1, <1>4, <1>12, OrderClauseReads
    <2> QED
      BY <1>7, <2>1
  <1>14. s6.rest = <<>>
    BY <1>13, TokensAt
  <1> QED
    BY <1>2, <1>13, <1>14 DEF End

-----------------------------------------------------------------------------
(* A text says one thing.                                                   *)

(* Which way AT is read.                                                    *)
LEMMA OneAt ==
  ASSUME NEW z, Len(z) \in Nat, NEW p \in AtPhrases, NEW r \in AtPhrases,
         FitsAt(z, 0, p), FitsAt(z, 0, r),
         Folded(z[Len(p) + 1]) = "FROM", Folded(z[Len(r) + 1]) = "FROM"
  PROVE  p = r
  <1> DEFINE long == <<Keyword("AT"), Keyword("COMMIT"), Selector, Keyword("TIME"), Selector>>
  <1>1. p \in {<<>>, long} /\ r \in {<<>>, long}
    BY DEF AtPhrases
  <1>2. FitsAt(z, 0, long) => Folded(z[1]) = "AT"
    <2>1. FitsAt(z, 0, long) => IsSpelled(z[0 + 1], Keyword("AT"))
      BY FitsFive
    <2> QED
      BY <2>1, SpellsKeyword
  <1>3. Len(<<>>) + 1 = 1
    OBVIOUS
  <1> HIDE DEF long
  <1> QED
    BY <1>1, <1>2, <1>3

\* The predicate w is written there as p.
WhereIs(z, m, w, p) ==
  /\ w.op \in Ops \union {"none"} /\ p \in WherePhrases(w) /\ FitsAt(z, m, p)
  /\ Folded(z[m + Len(p) + 1]) \in {"STEP", "PATH", "YIELD"}

(* Which predicate WHERE is read as.                                        *)
LEMMA OneWhere ==
  ASSUME NEW z, Len(z) \in Nat, NEW m \in Nat, NEW v, NEW w, NEW p, NEW r,
         WhereIs(z, m, v, p), WhereIs(z, m, w, r)
  PROVE  Len(p) = Len(r) /\ SamePredicate(v, w)
  <1> DEFINE Operand(u) == IF u.parameter = "" THEN Literal(u.value) ELSE Argument(u.parameter)
             Phrase(u) == <<Keyword("WHERE"), Name(u.key), Keyword(u.op), Operand(u)>>
  <1>1. ASSUME NEW u, FitsAt(z, m, Phrase(u))
        PROVE  /\ Folded(z[m + 1]) = "WHERE" /\ z[m + 2] = u.key /\ Folded(z[m + 3]) = u.op
               /\ IsSpelled(z[m + 4], Operand(u))
    <2>1. /\ IsSpelled(z[m + 1], Keyword("WHERE")) /\ IsSpelled(z[m + 2], Name(u.key))
          /\ IsSpelled(z[m + 3], Keyword(u.op)) /\ IsSpelled(z[m + 4], Operand(u))
      <3> HIDE DEF Operand
      <3> QED
        BY <1>1, FitsFour
    <2> HIDE DEF Operand, Phrase
    <2> QED
      BY <2>1, SpellsKeyword, SpellsName
  <1>2. ASSUME NEW u PROVE Len(Phrase(u)) = 4
    BY FitsFour
  <1>3. Len(<<>>) = 0 /\ m + 0 + 1 = m + 1
    OBVIOUS
  <1>4. /\ IF v.op = "none" THEN p = <<>> ELSE p = Phrase(v)
        /\ IF w.op = "none" THEN r = <<>> ELSE r = Phrase(w)
        /\ FitsAt(z, m, p) /\ Folded(z[m + Len(p) + 1]) \in {"STEP", "PATH", "YIELD"}
        /\ FitsAt(z, m, r) /\ Folded(z[m + Len(r) + 1]) \in {"STEP", "PATH", "YIELD"}
    BY DEF WhereIs, WherePhrases
  <1> HIDE DEF Phrase
  <1>6. CASE v.op = "none" /\ w.op = "none"
    BY <1>4, <1>6 DEF SamePredicate
  <1>7. CASE v.op = "none" /\ w.op # "none"
    BY <1>1, <1>3, <1>4, <1>7
  <1>8. CASE v.op # "none" /\ w.op = "none"
    BY <1>1, <1>3, <1>4, <1>8
  <1>9. CASE v.op # "none" /\ w.op # "none"
    <2>1. /\ z[m + 2] = v.key /\ z[m + 2] = w.key /\ Folded(z[m + 3]) = v.op /\ Folded(z[m + 3]) = w.op
          /\ IsSpelled(z[m + 4], Operand(v)) /\ IsSpelled(z[m + 4], Operand(w))
      BY <1>1, <1>4, <1>9
    <2>2. ASSUME NEW u, IsSpelled(z[m + 4], Operand(u))
          PROVE  IF u.parameter = ""
                 THEN z[m + 4] \notin DOMAIN Parameter /\ ParseLiteral(z[m + 4]) = u.value
                 ELSE z[m + 4] \in DOMAIN Parameter /\ Parameter[z[m + 4]] = u.parameter
      <3>1. CASE u.parameter = ""
        BY <2>2, <3>1, SpellsLiteral
      <3>2. CASE u.parameter # ""
        BY <2>2, <3>2, SpellsArgument
      <3> QED
        BY <3>1, <3>2
    <2>3. Len(p) = Len(r)
      BY <1>2, <1>4, <1>9
    <2> HIDE DEF Operand
    <2> QED
      BY <2>1, <2>2, <2>3 DEF SamePredicate
  <1> QED
    BY <1>6, <1>7, <1>8, <1>9

(* Which bound HOPS is read as.                                             *)
LEMMA OneHops ==
  ASSUME NEW z, Len(z) \in Nat, NEW m \in Nat, NEW a, NEW b,
         NEW p \in HopsPhrases(a), NEW r \in HopsPhrases(b), FitsAt(z, m, p), FitsAt(z, m, r),
         Folded(z[m + Len(p) + 1]) \in {"COST", "YIELD"},
         Folded(z[m + Len(r) + 1]) \in {"COST", "YIELD"}
  PROVE  Len(p) = Len(r) /\ a.hops = b.hops
  <1> DEFINE Phrase(n) == <<Keyword("HOPS"), Bound(n)>>
  <1>1. ASSUME NEW n, FitsAt(z, m, Phrase(n))
        PROVE  Folded(z[m + 1]) = "HOPS" /\ Digits[z[m + 2]] = n
    <2>1. IsSpelled(z[m + 1], Keyword("HOPS")) /\ IsSpelled(z[m + 2], Bound(n))
      BY <1>1, FitsTwo
    <2> QED
      BY <2>1, SpellsKeyword, SpellsBound
  <1>2. ASSUME NEW n PROVE Len(Phrase(n)) = 2
    BY FitsTwo
  <1>3. Len(<<>>) = 0 /\ m + 0 + 1 = m + 1
    OBVIOUS
  <1>4. /\ p = Phrase(a.hops) \/ (p = <<>> /\ a.hops = 1)
        /\ r = Phrase(b.hops) \/ (r = <<>> /\ b.hops = 1)
    BY DEF HopsPhrases
  <1> HIDE DEF Phrase
  <1>5. CASE p = Phrase(a.hops) /\ r = Phrase(b.hops)
    BY <1>1, <1>2, <1>5
  <1>6. CASE p = <<>> /\ r = <<>> /\ a.hops = 1 /\ b.hops = 1
    BY <1>6
  <1>7. CASE p = Phrase(a.hops) /\ r = <<>>
    BY <1>1, <1>3, <1>7
  <1>8. CASE p = <<>> /\ r = Phrase(b.hops)
    BY <1>1, <1>3, <1>8
  <1> QED
    BY <1>4, <1>5, <1>6, <1>7, <1>8

(* Which property COST is read as.                                          *)
LEMMA OneCost ==
  ASSUME NEW z, Len(z) \in Nat, NEW m \in Nat, NEW a, NEW b,
         NEW p, p = CostPhrase(a), NEW r, r = CostPhrase(b), FitsAt(z, m, p), FitsAt(z, m, r),
         Folded(z[m + Len(p) + 1]) = "YIELD", Folded(z[m + Len(r) + 1]) = "YIELD"
  PROVE  /\ Len(p) = Len(r) /\ (a.cost = <<>> <=> b.cost = <<>>)
         /\ a.cost # <<>> => a.cost[1] = b.cost[1]
  <1> DEFINE Phrase(k) == <<Keyword("COST"), Name(k)>>
  <1>1. ASSUME NEW k, FitsAt(z, m, Phrase(k))
        PROVE  Folded(z[m + 1]) = "COST" /\ z[m + 2] = k
    <2>1. IsSpelled(z[m + 1], Keyword("COST")) /\ IsSpelled(z[m + 2], Name(k))
      BY <1>1, FitsTwo
    <2> QED
      BY <2>1, SpellsKeyword, SpellsName
  <1>2. ASSUME NEW k PROVE Len(Phrase(k)) = 2
    BY FitsTwo
  <1>3. Len(<<>>) = 0 /\ m + 0 + 1 = m + 1
    OBVIOUS
  <1>4. /\ IF a.cost = <<>> THEN p = <<>> ELSE p = Phrase(a.cost[1])
        /\ IF b.cost = <<>> THEN r = <<>> ELSE r = Phrase(b.cost[1])
    BY DEF CostPhrase
  <1> HIDE DEF Phrase
  <1>5. CASE a.cost = <<>> /\ b.cost = <<>>
    BY <1>4, <1>5
  <1>6. CASE a.cost = <<>> /\ b.cost # <<>>
    BY <1>1, <1>3, <1>4, <1>6
  <1>7. CASE a.cost # <<>> /\ b.cost = <<>>
    BY <1>1, <1>3, <1>4, <1>7
  <1>8. CASE a.cost # <<>> /\ b.cost # <<>>
    BY <1>1, <1>2, <1>4, <1>8
  <1> QED
    BY <1>5, <1>6, <1>7, <1>8

(* Which direction and type a STEP or a PATH is read as.                    *)
LEMMA OneHead ==
  ASSUME NEW z, Len(z) \in Nat, NEW m \in Nat, NEW K, NEW a, a.direction \in {"out", "in"},
         FitsAt(z, m, TraversalHead(K, a))
  PROVE  /\ Folded(z[m + 1]) = K /\ a.type = z[m + 3]
         /\ a.direction = IF Folded(z[m + 2]) = "OUT" THEN "out" ELSE "in"
  <1>1. /\ IsSpelled(z[m + 1], Keyword(K)) /\ IsSpelled(z[m + 2], Turn(a.direction))
        /\ IsSpelled(z[m + 3], Name(a.type))
    BY FitsThree DEF TraversalHead
  <1>2. Folded(z[m + 2]) = IF a.direction = "out" THEN "OUT" ELSE "IN"
    BY <1>1, SpellsKeyword DEF Turn
  <1> QED
    BY <1>1, <1>2, SpellsKeyword, SpellsName

(* The parts of a PATH, one after the other.                                *)
LEMMA PathPlaces ==
  ASSUME NEW z, Len(z) \in Nat, NEW m \in Nat, NEW a, a.mode = "path",
         NEW p \in TraversalPhrases(a), FitsAt(z, m, p), Folded(z[m + Len(p) + 1]) = "YIELD"
  PROVE  \E h \in HopsPhrases(a) :
           /\ FitsAt(z, m, TraversalHead("PATH", a)) /\ FitsAt(z, m + 3, h)
           /\ FitsAt(z, m + 3 + Len(h), CostPhrase(a))
           /\ Len(h) \in Nat /\ Len(CostPhrase(a)) \in Nat
           /\ Len(p) = 3 + Len(h) + Len(CostPhrase(a))
           /\ Folded(z[m + 3 + Len(h) + Len(CostPhrase(a)) + 1]) = "YIELD"
           /\ Folded(z[m + 3 + Len(h) + 1]) \in {"COST", "YIELD"}
  <1> DEFINE head == TraversalHead("PATH", a)
             cost == CostPhrase(a)
  <1>1. PICK h \in HopsPhrases(a) : p = head \o h \o cost
    BY DEF TraversalPhrases, TraversalHead
  <1>2. IsList(head) /\ Len(head) = 3
    BY FitsThree DEF TraversalHead
  <1>3. IsList(h)
    <2>1. h = <<>> \/ \E n : h = <<Keyword("HOPS"), Bound(n)>>
      BY DEF HopsPhrases
    <2> QED
      BY <2>1, ShortLists
  <1>4. IsList(cost) /\ (cost = <<>> \/ (Len(cost) # 0 /\ cost[1] = Keyword("COST")))
    <2>1. CASE a.cost = <<>>
      BY <2>1, ShortLists DEF CostPhrase
    <2>2. CASE a.cost # <<>>
      <3>1. cost = <<Keyword("COST"), Name(a.cost[1])>>
        BY <2>2 DEF CostPhrase
      <3>2. IsList(cost) /\ Len(cost) = 2
        BY <3>1, ShortLists
      <3> QED
        BY <3>1, <3>2
    <2> QED
      BY <2>1, <2>2
  <1> HIDE DEF head, cost
  <1>5. Len(h) \in Nat /\ Len(cost) \in Nat
    BY <1>3, <1>4 DEF IsList
  <1>6. /\ IsList(head \o h) /\ Len(head \o h) = Len(head) + Len(h)
        /\ FitsAt(z, m, head \o h) <=> FitsAt(z, m, head) /\ FitsAt(z, m + Len(head), h)
    BY <1>2, <1>3, ConcatList, FitsConcat
  <1>7. /\ Len(p) = Len(head \o h) + Len(cost)
        /\ FitsAt(z, m, p) <=> FitsAt(z, m, head \o h) /\ FitsAt(z, m + Len(head \o h), cost)
    BY <1>1, <1>4, <1>6, ConcatList, FitsConcat
  <1>8. m + Len(head \o h) = m + 3 + Len(h) /\ m + Len(p) + 1 = m + 3 + Len(h) + Len(cost) + 1
        /\ m + 3 + Len(h) \in Nat /\ Len(p) = 3 + Len(h) + Len(cost)
    BY <1>2, <1>5, <1>6, <1>7
  <1>9. FitsAt(z, m, head) /\ FitsAt(z, m + 3, h) /\ FitsAt(z, m + 3 + Len(h), cost)
    BY <1>2, <1>6, <1>7, <1>8
  <1>10. Folded(z[m + 3 + Len(h) + Len(cost) + 1]) = "YIELD"
    BY <1>8
  <1>11. Folded(z[m + 3 + Len(h) + 1]) \in {"COST", "YIELD"}
    <2>1. CASE cost = <<>>
      <3>1. m + 3 + Len(h) + Len(cost) + 1 = m + 3 + Len(h) + 1
        BY <1>5, <2>1
      <3> QED
        BY <1>10, <3>1
    <2>2. CASE Len(cost) # 0 /\ cost[1] = Keyword("COST")
      <3>1. /\ IsList(cost) /\ Len(cost) # 0 /\ cost[1] = Keyword("COST") /\ m + 3 + Len(h) \in Nat
            /\ FitsAt(z, m + 3 + Len(h), cost)
        BY <1>4, <1>8, <1>9, <2>2
      <3>2. Folded(z[m + 3 + Len(h) + 1]) = "COST"
        BY ONLY <3>1, FirstKeyword
      <3> QED
        BY <3>2
    <2> QED
      BY <1>4, <2>1, <2>2
  <1> QED
    BY <1>5, <1>8, <1>9, <1>10, <1>11 DEF head, cost

(* Which traversal a text is read as.                                       *)
LEMMA OneTraversal ==
  ASSUME NEW z, Len(z) \in Nat, NEW m \in Nat, NEW a, NEW b,
         a.mode \in {"scan", "step", "path"}, b.mode \in {"scan", "step", "path"},
         a.direction \in {"out", "in"}, b.direction \in {"out", "in"},
         NEW p \in TraversalPhrases(a), NEW r \in TraversalPhrases(b),
         FitsAt(z, m, p), FitsAt(z, m, r),
         Folded(z[m + Len(p) + 1]) = "YIELD", Folded(z[m + Len(r) + 1]) = "YIELD"
  PROVE  /\ Len(p) = Len(r) /\ a.mode = b.mode
         /\ a.mode # "scan" => a.direction = b.direction /\ a.type = b.type
         /\ a.mode = "path" => a.hops = b.hops /\ (a.cost = <<>> <=> b.cost = <<>>)
         /\ a.mode = "path" /\ a.cost # <<>> => a.cost[1] = b.cost[1]
  <1>1. ASSUME NEW c, c.mode \in {"scan", "step", "path"}, c.direction \in {"out", "in"},
               NEW s \in TraversalPhrases(c), FitsAt(z, m, s), Folded(z[m + Len(s) + 1]) = "YIELD"
        PROVE  /\ c.mode = "scan" => s = <<>> /\ Folded(z[m + 1]) = "YIELD"
               /\ c.mode = "step" => /\ Len(s) = 3 /\ Folded(z[m + 1]) = "STEP"
                                     /\ FitsAt(z, m, TraversalHead("STEP", c))
               /\ c.mode = "path" => Folded(z[m + 1]) = "PATH"
    <2>1. CASE c.mode = "scan"
      <3>1. s = <<>>
        BY <2>1 DEF TraversalPhrases
      <3>2. m + Len(s) + 1 = m + 1
        BY <3>1
      <3> QED
        BY <1>1, <2>1, <3>1, <3>2
    <2>2. CASE c.mode = "step"
      <3>1. s = TraversalHead("STEP", c)
        BY <2>2 DEF TraversalPhrases, TraversalHead
      <3>2. Len(s) = 3
        BY <3>1, FitsThree DEF TraversalHead
      <3>3. Folded(z[m + 1]) = "STEP"
        BY <1>1, <3>1, OneHead
      <3> QED
        BY <1>1, <2>2, <3>1, <3>2, <3>3
    <2>3. CASE c.mode = "path"
      <3>1. FitsAt(z, m, TraversalHead("PATH", c))
        BY <1>1, <2>3, PathPlaces
      <3> QED
        BY <1>1, <2>3, <3>1, OneHead
    <2> QED
      BY <1>1, <2>1, <2>2, <2>3
  <1>2. /\ a.mode = "scan" => p = <<>> /\ Folded(z[m + 1]) = "YIELD"
        /\ a.mode = "step" => /\ Len(p) = 3 /\ Folded(z[m + 1]) = "STEP"
                              /\ FitsAt(z, m, TraversalHead("STEP", a))
        /\ a.mode = "path" => Folded(z[m + 1]) = "PATH"
    BY <1>1
  <1>3. /\ b.mode = "scan" => r = <<>> /\ Folded(z[m + 1]) = "YIELD"
        /\ b.mode = "step" => /\ Len(r) = 3 /\ Folded(z[m + 1]) = "STEP"
                              /\ FitsAt(z, m, TraversalHead("STEP", b))
        /\ b.mode = "path" => Folded(z[m + 1]) = "PATH"
    BY <1>1
  <1>4. a.mode = b.mode
    BY <1>2, <1>3
  <1>5. CASE a.mode = "scan"
    BY <1>2, <1>3, <1>4, <1>5
  <1>6. CASE a.mode = "step"
    <2>1. Len(p) = Len(r)
      BY <1>2, <1>3, <1>4, <1>6
    <2>2. a.direction = b.direction /\ a.type = b.type
      BY <1>2, <1>3, <1>4, <1>6, OneHead
    <2> QED
      BY <1>4, <1>6, <2>1, <2>2
  <1>7. CASE a.mode = "path"
    <2>1. b.mode = "path"
      BY <1>4, <1>7
    <2>2. PICK h \in HopsPhrases(a) :
            /\ FitsAt(z, m, TraversalHead("PATH", a)) /\ FitsAt(z, m + 3, h)
            /\ FitsAt(z, m + 3 + Len(h), CostPhrase(a))
            /\ Len(h) \in Nat /\ Len(CostPhrase(a)) \in Nat
            /\ Len(p) = 3 + Len(h) + Len(CostPhrase(a))
            /\ Folded(z[m + 3 + Len(h) + Len(CostPhrase(a)) + 1]) = "YIELD"
            /\ Folded(z[m + 3 + Len(h) + 1]) \in {"COST", "YIELD"}
      BY <1>7, PathPlaces
    <2>3. PICK g \in HopsPhrases(b) :
            /\ FitsAt(z, m, TraversalHead("PATH", b)) /\ FitsAt(z, m + 3, g)
            /\ FitsAt(z, m + 3 + Len(g), CostPhrase(b))
            /\ Len(g) \in Nat /\ Len(CostPhrase(b)) \in Nat
            /\ Len(r) = 3 + Len(g) + Len(CostPhrase(b))
            /\ Folded(z[m + 3 + Len(g) + Len(CostPhrase(b)) + 1]) = "YIELD"
            /\ Folded(z[m + 3 + Len(g) + 1]) \in {"COST", "YIELD"}
      BY <2>1, PathPlaces
    <2>4. a.direction = b.direction /\ a.type = b.type
      <3>1. /\ Len(z) \in Nat /\ m \in Nat /\ a.direction \in {"out", "in"} /\ b.direction \in {"out", "in"}
            /\ FitsAt(z, m, TraversalHead("PATH", a)) /\ FitsAt(z, m, TraversalHead("PATH", b))
        BY <2>2, <2>3
      <3> QED
        BY ONLY <3>1, OneHead
    <2>5. m + 3 \in Nat
      OBVIOUS
    <2>6. Len(h) = Len(g) /\ a.hops = b.hops
      BY <2>2, <2>3, <2>5, OneHops
    <2>7. m + 3 + Len(h) \in Nat /\ m + 3 + Len(h) = m + 3 + Len(g)
      BY <2>2, <2>6
    <2>8. /\ Len(CostPhrase(a)) = Len(CostPhrase(b)) /\ (a.cost = <<>> <=> b.cost = <<>>)
          /\ a.cost # <<>> => a.cost[1] = b.cost[1]
      <3> DEFINE k == m + 3 + Len(h)
      <3>1. k \in Nat /\ k = m + 3 + Len(g)
        BY <2>7
      <3>2. /\ FitsAt(z, k, CostPhrase(a)) /\ Folded(z[k + Len(CostPhrase(a)) + 1]) = "YIELD"
            /\ FitsAt(z, k, CostPhrase(b)) /\ Folded(z[k + Len(CostPhrase(b)) + 1]) = "YIELD"
        BY <2>2, <2>3, <3>1
      <3> HIDE DEF k
      <3> QED
        BY ONLY Len(z) \in Nat, <3>1, <3>2, OneCost
    <2>9. Len(p) = Len(r)
      BY <2>2, <2>3, <2>6, <2>8
    <2> QED
      BY <1>4, <2>4, <2>6, <2>8, <2>9
  <1> QED
    BY <1>5, <1>6, <1>7

(* Which column YIELD is read as.                                           *)
LEMMA OneYield ==
  ASSUME NEW z, Len(z) \in Nat, NEW m \in Nat, NEW a, NEW b,
         a.yield \in {"node", "edge", "path"}, b.yield \in {"node", "edge", "path"},
         FitsAt(z, m, YieldPhrase(a)), FitsAt(z, m, YieldPhrase(b))
  PROVE  a.yield = b.yield
  <1>1. ASSUME NEW c, c.yield \in {"node", "edge", "path"}, FitsAt(z, m, YieldPhrase(c))
        PROVE  /\ c.yield = "node" => Folded(z[m + 2]) = "NODE"
               /\ c.yield = "edge" => Folded(z[m + 2]) = "EDGE"
               /\ c.yield = "path" => Folded(z[m + 2]) = "PATH"
    <2>1. ASSUME NEW k, NEW d, NEW e, FitsAt(z, m, <<Keyword("YIELD"), Keyword(k), d, e>>)
          PROVE  Folded(z[m + 2]) = k
      <3>1. IsSpelled(z[m + 2], Keyword(k))
        BY <2>1, FitsFour
      <3> QED
        BY <3>1, SpellsKeyword
    <2>2. ASSUME NEW k, FitsAt(z, m, <<Keyword("YIELD"), Keyword(k)>>)
          PROVE  Folded(z[m + 2]) = k
      <3>1. IsSpelled(z[m + 2], Keyword(k))
        BY <2>2, FitsTwo
      <3> QED
        BY <3>1, SpellsKeyword
    <2> QED
      BY <1>1, <2>1, <2>2 DEF YieldPhrase
  <1>2. /\ a.yield = "node" => Folded(z[m + 2]) = "NODE"
        /\ a.yield = "edge" => Folded(z[m + 2]) = "EDGE"
        /\ a.yield = "path" => Folded(z[m + 2]) = "PATH"
    BY <1>1
  <1>3. /\ b.yield = "node" => Folded(z[m + 2]) = "NODE"
        /\ b.yield = "edge" => Folded(z[m + 2]) = "EDGE"
        /\ b.yield = "path" => Folded(z[m + 2]) = "PATH"
    BY <1>1
  <1> QED
    BY <1>2, <1>3

(* Which order the end of a text is read as.                                *)
LEMMA OneOrder ==
  ASSUME NEW z, Len(z) \in Nat, NEW m \in Nat, NEW a, NEW b,
         FitsAt(z, m, OrderPhrase(a)), FitsAt(z, m, OrderPhrase(b)),
         m + Len(OrderPhrase(a)) = Len(z), m + Len(OrderPhrase(b)) = Len(z)
  PROVE  (a.ordered <=> b.ordered) /\ (a.ordered => (a.desc <=> b.desc))
  <1>1. ASSUME NEW c, FitsAt(z, m, OrderPhrase(c)), m + Len(OrderPhrase(c)) = Len(z)
        PROVE  /\ c.ordered <=> Len(z) # m
               /\ c.ordered => (c.desc <=> Folded(z[m + 2]) = "DESC")
    <2>1. CASE c.ordered
      <3>1. OrderPhrase(c) = <<Keyword("ORDER"), Keyword(IF c.desc THEN "DESC" ELSE "ASC")>>
        BY <2>1 DEF OrderPhrase
      <3>2. Len(OrderPhrase(c)) = 2 /\ IsSpelled(z[m + 2], Keyword(IF c.desc THEN "DESC" ELSE "ASC"))
        BY <1>1, <3>1, FitsTwo
      <3>3. Folded(z[m + 2]) = IF c.desc THEN "DESC" ELSE "ASC"
        BY <3>2, SpellsKeyword
      <3>4. Len(z) # m
        BY <1>1, <3>2
      <3> QED
        BY <2>1, <3>3, <3>4
    <2>2. CASE ~c.ordered
      <3>1. Len(OrderPhrase(c)) = 0
        BY <2>2 DEF OrderPhrase
      <3> QED
        BY <1>1, <2>2, <3>1
    <2> QED
      BY <2>1, <2>2
  <1>2. (a.ordered <=> Len(z) # m) /\ (a.ordered => (a.desc <=> Folded(z[m + 2]) = "DESC"))
    BY <1>1
  <1>3. (b.ordered <=> Len(z) # m) /\ (b.ordered => (b.desc <=> Folded(z[m + 2]) = "DESC"))
    BY <1>1
  <1> QED
    BY ONLY <1>2, <1>3

\* What the fields of an ast can be for its phrases to say them.
Sayable(ast) ==
  /\ ast.mode \in {"scan", "step", "path"} /\ ast.direction \in {"out", "in"}
  /\ ast.yield \in {"node", "edge", "path"} /\ ast.where.op \in Ops \union {"none"}

(* A text says one thing: clause by clause, its tokens tell which phrase    *)
(* they are.                                                                *)
LEMMA OneMeaning ==
  ASSUME NEW z, Len(z) \in Nat, NEW a, Sayable(a), NEW b, Sayable(b),
         NEW p \in Phrases(a), Len(p) = Len(z), FitsAt(z, 0, p),
         NEW r \in Phrases(b), Len(r) = Len(z), FitsAt(z, 0, r)
  PROVE  SameMeaning(a, b)
  <1>1. PICK at1, where1, traversal1 :
          IsPhrase(a, at1, where1, traversal1) /\ p = Joined(a, at1, where1, traversal1)
    BY PhraseOf
  <1>2. PICK at2, where2, traversal2 :
          IsPhrase(b, at2, where2, traversal2) /\ r = Joined(b, at2, where2, traversal2)
    BY PhraseOf
  <1> DEFINE m1 == Len(at1)
             m2 == m1 + 2
             m3 == m2 + Len(where1)
             m4 == m3 + Len(traversal1)
             m5 == m4 + Len(YieldPhrase(a))
             n1 == Len(at2)
             n2 == n1 + 2
             n3 == n2 + Len(where2)
             n4 == n3 + Len(traversal2)
             n5 == n4 + Len(YieldPhrase(b))
  <1>3. /\ m2 = m1 + 2 /\ m3 = m2 + Len(where1) /\ m4 = m3 + Len(traversal1)
        /\ m5 = m4 + Len(YieldPhrase(a)) /\ m1 = Len(at1)
        /\ n2 = n1 + 2 /\ n3 = n2 + Len(where2) /\ n4 = n3 + Len(traversal2)
        /\ n5 = n4 + Len(YieldPhrase(b)) /\ n1 = Len(at2)
    OBVIOUS
  <1> HIDE DEF m1, m2, m3, m4, m5, n1, n2, n3, n4, n5
  <1>4. /\ m1 \in Nat /\ m2 \in Nat /\ m3 \in Nat /\ m4 \in Nat /\ m5 \in Nat
        /\ FitsAt(z, 0, at1) /\ FitsAt(z, m1, FromPhrase(a)) /\ FitsAt(z, m2, where1)
        /\ FitsAt(z, m3, traversal1) /\ FitsAt(z, m4, YieldPhrase(a))
        /\ FitsAt(z, m5, OrderPhrase(a)) /\ m5 + Len(OrderPhrase(a)) = Len(z)
        /\ Folded(z[m1 + 1]) = "FROM" /\ Folded(z[m3 + 1]) \in {"STEP", "PATH", "YIELD"}
        /\ Folded(z[m4 + 1]) = "YIELD"
    <2>1. /\ FitsAt(z, 0, Joined(a, at1, where1, traversal1))
          /\ Len(Joined(a, at1, where1, traversal1)) = Len(z)
      BY <1>1
    <2>2. Placed(z, a, at1, where1, traversal1)
      BY <1>1, <2>1, PhrasePlaces DEF Sayable
    <2> QED
      BY <2>2 DEF Placed, m1, m2, m3, m4, m5
  <1>5. /\ n1 \in Nat /\ n2 \in Nat /\ n3 \in Nat /\ n4 \in Nat /\ n5 \in Nat
        /\ FitsAt(z, 0, at2) /\ FitsAt(z, n1, FromPhrase(b)) /\ FitsAt(z, n2, where2)
        /\ FitsAt(z, n3, traversal2) /\ FitsAt(z, n4, YieldPhrase(b))
        /\ FitsAt(z, n5, OrderPhrase(b)) /\ n5 + Len(OrderPhrase(b)) = Len(z)
        /\ Folded(z[n1 + 1]) = "FROM" /\ Folded(z[n3 + 1]) \in {"STEP", "PATH", "YIELD"}
        /\ Folded(z[n4 + 1]) = "YIELD"
    <2>1. /\ FitsAt(z, 0, Joined(b, at2, where2, traversal2))
          /\ Len(Joined(b, at2, where2, traversal2)) = Len(z)
      BY <1>2
    <2>2. Placed(z, b, at2, where2, traversal2)
      BY <1>2, <2>1, PhrasePlaces DEF Sayable
    <2> QED
      BY <2>2 DEF Placed, n1, n2, n3, n4, n5
  <1>6. m1 = n1 /\ m2 = n2
    <2>1. at1 \in AtPhrases /\ at2 \in AtPhrases
      BY <1>1, <1>2 DEF IsPhrase
    <2>2. at1 = at2
      BY <1>3, <1>4, <1>5, <2>1, OneAt
    <2> QED
      BY <1>3, <2>2
  <1>7. a.label = b.label
    <2>1. IsSpelled(z[m1 + 2], Name(a.label)) /\ IsSpelled(z[m1 + 2], Name(b.label))
      BY <1>4, <1>5, <1>6, FitsTwo DEF FromPhrase
    <2> QED
      BY <2>1, SpellsName
  <1>8. m3 = n3 /\ SamePredicate(a.where, b.where)
    <2>1. /\ where1 \in WherePhrases(a.where) /\ where2 \in WherePhrases(b.where)
          /\ a.where.op \in Ops \union {"none"} /\ b.where.op \in Ops \union {"none"}
      BY <1>1, <1>2 DEF IsPhrase, Sayable
    <2>2. WhereIs(z, m2, a.where, where1)
      BY <1>3, <1>4, <2>1 DEF WhereIs
    <2>3. WhereIs(z, m2, b.where, where2)
      BY <1>3, <1>5, <1>6, <2>1 DEF WhereIs
    <2>4. Len(where1) = Len(where2) /\ SamePredicate(a.where, b.where)
      BY <1>4, <2>2, <2>3, OneWhere
    <2> QED
      BY <1>3, <1>6, <2>4
  <1>9. /\ m4 = n4 /\ a.mode = b.mode
        /\ a.mode # "scan" => a.direction = b.direction /\ a.type = b.type
        /\ a.mode = "path" => a.hops = b.hops /\ (a.cost = <<>> <=> b.cost = <<>>)
        /\ a.mode = "path" /\ a.cost # <<>> => a.cost[1] = b.cost[1]
    <2>1. /\ traversal1 \in TraversalPhrases(a) /\ traversal2 \in TraversalPhrases(b)
          /\ a.mode \in {"scan", "step", "path"} /\ b.mode \in {"scan", "step", "path"}
          /\ a.direction \in {"out", "in"} /\ b.direction \in {"out", "in"}
      BY <1>1, <1>2 DEF IsPhrase, Sayable
    <2>2. /\ FitsAt(z, m3, traversal1) /\ Folded(z[m3 + Len(traversal1) + 1]) = "YIELD"
          /\ FitsAt(z, m3, traversal2) /\ Folded(z[m3 + Len(traversal2) + 1]) = "YIELD"
          /\ m3 \in Nat
      BY <1>3, <1>4, <1>5, <1>8
    <2>3. /\ Len(traversal1) = Len(traversal2) /\ a.mode = b.mode
          /\ a.mode # "scan" => a.direction = b.direction /\ a.type = b.type
          /\ a.mode = "path" => a.hops = b.hops /\ (a.cost = <<>> <=> b.cost = <<>>)
          /\ a.mode = "path" /\ a.cost # <<>> => a.cost[1] = b.cost[1]
      BY ONLY Len(z) \in Nat, <2>1, <2>2, OneTraversal
    <2> QED
      BY <1>3, <1>8, <2>3
  <1>10. a.yield = b.yield
    <2>1. /\ Len(z) \in Nat /\ m4 \in Nat /\ FitsAt(z, m4, YieldPhrase(a)) /\ FitsAt(z, m4, YieldPhrase(b))
          /\ a.yield \in {"node", "edge", "path"} /\ b.yield \in {"node", "edge", "path"}
      BY <1>4, <1>5, <1>9 DEF Sayable
    <2> QED
      BY ONLY <2>1, OneYield
  <1>11. m5 = n5
    <2>1. YieldPhrase(a) = YieldPhrase(b)
      BY <1>10 DEF YieldPhrase
    <2> QED
      BY <1>3, <1>9, <2>1
  <1>12. (a.ordered <=> b.ordered) /\ (a.ordered => (a.desc <=> b.desc))
    <2>1. /\ m5 \in Nat /\ FitsAt(z, m5, OrderPhrase(a)) /\ FitsAt(z, m5, OrderPhrase(b))
          /\ m5 + Len(OrderPhrase(a)) = Len(z) /\ m5 + Len(OrderPhrase(b)) = Len(z)
      BY <1>4, <1>5, <1>11
    <2> QED
      BY ONLY Len(z) \in Nat, <2>1, OneOrder
  <1> QED
    BY <1>7, <1>8, <1>9, <1>10, <1>12 DEF SameMeaning

-----------------------------------------------------------------------------
(* prepare_query, from lexemes.                                             *)

(* The tokens of a text, one per lexeme.                                    *)
LEMMA TokensOfText ==
  ASSUME NEW text \in Seq(Lexemes)
  PROVE  /\ Tokens(text) \in Seq(STRING) /\ Len(Tokens(text)) = Len(text) /\ Len(text) \in Nat
         /\ DOMAIN text = 1..Len(text)
         /\ \A i \in 1..Len(text) : Tokens(text)[i] = text[i].text
  <1>1. DOMAIN text = 1..Len(text) /\ Len(text) \in Nat /\ \A i \in 1..Len(text) : text[i] \in Lexemes
    BY LenProperties, ElementOfSeq
  <1>2. Tokens(text) \in [1..Len(text) -> STRING]
    BY <1>1 DEF Tokens, Lexemes
  <1>3. Tokens(text) \in Seq(STRING)
    BY <1>1, <1>2, SeqDef
  <1>4. Len(Tokens(text)) = Len(text)
    BY <1>1, <1>2, <1>3, LenProperties
  <1> QED
    BY <1>1, <1>3, <1>4 DEF Tokens

(* A text says what an ast means if its tokens fit a phrase of the ast.     *)
LEMMA SaysTokens ==
  ASSUME NEW text \in Seq(Lexemes), NEW ast
  PROVE  Says(text, ast) <=>
           /\ TokenizeError(text) = "none" /\ ast.where.value # Throws
           /\ \E p \in Phrases(ast) : Len(p) = Len(Tokens(text)) /\ FitsAt(Tokens(text), 0, p)
  <1> DEFINE z == Tokens(text)
  <1>1. /\ z \in Seq(STRING) /\ Len(z) = Len(text) /\ Len(text) \in Nat
        /\ DOMAIN text = 1..Len(text) /\ \A i \in 1..Len(text) : z[i] = text[i].text
    BY TokensOfText
  <1> HIDE DEF z
  <1>2. TokenizeError(text) = "none" <=>
          Len(text) <= MaxLexemes /\ \A i \in DOMAIN text : text[i].kind # "open"
    <2>1. CASE Len(text) > MaxLexemes
      BY <1>1, <2>1, OqsParserAssumption DEF TokenizeError
    <2>2. CASE Len(text) <= MaxLexemes
      <3>1. ~(Len(text) > MaxLexemes)
        BY <1>1, <2>2, OqsParserAssumption
      <3> QED
        BY <2>2, <3>1 DEF TokenizeError
    <2> QED
      BY <1>1, <2>1, <2>2, OqsParserAssumption
  <1>3. ASSUME NEW p
        PROVE  Len(p) = Len(text) /\ (\A i \in DOMAIN text : IsSpelled(text[i].text, p[i]))
                 <=> Len(p) = Len(z) /\ FitsAt(z, 0, p)
    <2>1. CASE Len(p) = Len(text)
      <3>1. FitsAt(z, 0, p) <=> \A i \in 1..Len(text) : IsSpelled(z[i], p[i])
        <4>1. 0 + Len(p) <= Len(z) /\ \A i \in 1..Len(text) : 0 + i = i
          BY <1>1, <2>1
        <4> QED
          BY <2>1, <4>1 DEF FitsAt
      <3> QED
        BY <1>1, <2>1, <3>1
    <2>2. CASE Len(p) # Len(text)
      BY <1>1, <2>2
    <2> QED
      BY <2>1, <2>2
  <1> QED
    BY <1>2, <1>3 DEF Says, z

(* A text is accepted exactly if it is a statement of the language, and     *)
(* what prepare_query then returns is the only thing it says: two asts that *)
(* the same text says have the same meaning.                                *)
THEOREM ParserIsExact ==
  ASSUME NEW text \in Seq(Lexemes), NEW parsed, parsed = PrepareQuery(text)
  PROVE  /\ parsed.error \in ParserErrors
         /\ parsed.error = "none" => Says(text, parsed.ast) /\ IsParsed(parsed.ast)
         /\ \A ast : IsAst(ast) /\ Says(text, ast) =>
               parsed.error = "none" /\ SameMeaning(ast, parsed.ast)
  <1> DEFINE z == Tokens(text)
  <1>1. z \in Seq(STRING) /\ Len(z) \in Nat
    BY TokensOfText
  <1>2. CASE TokenizeError(text) # "none"
    <2>1. parsed = [Begin(<<>>) EXCEPT !.error = TokenizeError(text)]
      BY <1>2 DEF PrepareQuery
    <2>2. parsed.error = TokenizeError(text)
      BY <2>1 DEF Begin
    <2>3. TokenizeError(text) \in ParserErrors
      BY DEF TokenizeError, ParserErrors
    <2>4. \A ast : ~Says(text, ast)
      BY <1>2, SaysTokens
    <2> QED
      BY <1>2, <2>2, <2>3, <2>4
  <1>3. CASE TokenizeError(text) = "none"
    <2>1. parsed = Parse(z)
      BY <1>3 DEF PrepareQuery
    <2> HIDE DEF z
    <2>2. parsed.error \in ParserErrors /\ IsParsed(parsed.ast)
      BY <1>1, <2>1, ParseTypes
    <2>3. ASSUME parsed.error = "none" PROVE Says(text, parsed.ast)
      <3>1. \E p \in Phrases(parsed.ast) : Len(p) = Len(z) /\ FitsAt(z, 0, p)
        BY <1>1, <2>1, <2>3, ParsedFits
      <3>2. parsed.ast.where.value # Throws
        BY <2>2 DEF IsParsed
      <3> QED
        BY <1>3, <3>1, <3>2, SaysTokens DEF z
    <2>4. ASSUME NEW ast, IsAst(ast), Says(text, ast)
          PROVE  parsed.error = "none" /\ SameMeaning(ast, parsed.ast)
      <3>1. PICK p \in Phrases(ast) : Len(p) = Len(z) /\ FitsAt(z, 0, p)
        BY <2>4, SaysTokens DEF z
      <3>2. ast.where.value # Throws
        BY <2>4, SaysTokens
      <3>3. Sayable(ast)
        BY <2>4 DEF IsAst, Modes, Sayable
      <3>4. parsed.error = "none"
        BY <1>1, <2>1, <3>1, <3>2, <3>3, FitsParsed DEF Sayable
      <3>5. PICK r \in Phrases(parsed.ast) : Len(r) = Len(z) /\ FitsAt(z, 0, r)
        BY <1>1, <2>1, <3>4, ParsedFits
      <3>6. Sayable(parsed.ast)
        BY <2>2 DEF IsParsed, IsWhere, Sayable
      <3>7. SameMeaning(ast, parsed.ast)
        BY <1>1, <3>1, <3>3, <3>5, <3>6, OneMeaning
      <3> QED
        BY <3>4, <3>7
    <2> QED
      BY <2>2, <2>3, <2>4
  <1> QED
    BY <1>2, <1>3

-----------------------------------------------------------------------------
(* The query of an ast.                                                     *)

(* Every comparison has an answer, or is an error.                          *)
LEMMA CompareAnswers ==
  ASSUME NEW lhs, NEW rhs, IsOperand(lhs), IsOperand(rhs), NEW op \in Ops
  PROVE  Compare(lhs, op, rhs) \in {"yes", "no", "error"}
  <1>1. \A b : Answer(b) \in {"yes", "no", "error"}
    BY DEF Answer
  <1>2. CASE IsNumeric(lhs) /\ IsNumeric(rhs)
    BY <1>1, <1>2 DEF Compare
  <1>3. CASE ~(IsNumeric(lhs) /\ IsNumeric(rhs)) /\ lhs.tag # rhs.tag
    BY <1>3 DEF Compare
  <1>4. CASE ~(IsNumeric(lhs) /\ IsNumeric(rhs)) /\ lhs.tag = rhs.tag
    <2>1. lhs.tag = "string" \/ lhs.tag = "bool"
      BY <1>4 DEF IsNumeric, IsOperand
    <2>2. CASE lhs.tag = "string" \/ (lhs.tag = "bool" /\ op \in {"=", "!="})
      BY <1>1, <1>4, <2>2 DEF Compare
    <2>3. CASE lhs.tag = "bool" /\ op \notin {"=", "!="}
      BY <1>4, <2>3 DEF Compare
    <2> QED
      BY <2>1, <2>2, <2>3
  <1> QED
    BY <1>2, <1>3, <1>4

(* The values a predicate is bound to can be compared.                      *)
LEMMA BindingsAreOperands ==
  ASSUME NEW where, IsWhere(where), where.op # "none", NEW parameters, HasValues(parameters),
         NEW v \in Bindings(where, parameters)
  PROVE  IsOperand(v)
  <1>1. CASE where.parameter = ""
    BY <1>1 DEF Bindings, IsWhere
  <1>2. CASE where.parameter # ""
    <2>1. PICK p \in DOMAIN parameters : v = parameters[p]
      BY <1>2 DEF Bindings
    <2> QED
      BY <2>1, ValueIsOperand DEF HasValues
  <1> QED
    BY <1>1, <1>2

(* A verdict for every node; only a comparison of values can be an error.   *)
LEMMA VerdictAnswers ==
  ASSUME NEW ast, IsWhere(ast.where), NEW node, HasValues(node.props),
         NEW parameters, HasValues(parameters)
  PROVE  /\ Verdict(node, ast, parameters) \in {"other", "yes", "no", "error"}
         /\ WhereKind(ast, parameters) \in {"none", "equal", "compare", "unbound"}
         /\ WhereKind(ast, parameters) # "compare" => Verdict(node, ast, parameters) # "error"
  <1> DEFINE op == ast.where.op
             bound == Bindings(ast.where, parameters)
             verdict == Verdict(node, ast, parameters)
  <1>1. op \in Ops \union {"none"}
    BY DEF IsWhere
  <1>2. CASE op = "none"
    <2>1. verdict \in {"other", "yes"}
      BY <1>2, Zenon DEF Verdict
    <2>2. WhereKind(ast, parameters) = "none"
      BY <1>2 DEF WhereKind
    <2> QED
      BY <2>1, <2>2
  <1>3. CASE op # "none" /\ bound = {}
    <2>1. verdict \in {"other", "no"}
      BY <1>3, Zenon DEF Verdict
    <2>2. WhereKind(ast, parameters) = "unbound"
      BY <1>3 DEF WhereKind
    <2> QED
      BY <2>1, <2>2
  <1>4. CASE op # "none" /\ bound # {}
    <2> DEFINE literal == CHOOSE v \in bound : TRUE
               value == node.props[ast.where.key]
    <2>1. verdict \in {"other", "no"} \/ (ast.where.key \in DOMAIN node.props /\ verdict = Holds(value, op, literal))
      BY <1>4, Zenon DEF Verdict
    <2>2. literal \in bound
      BY <1>4
    <2> HIDE DEF literal
    <2>3. IsOperand(literal)
      BY <1>4, <2>2, BindingsAreOperands
    <2>4. ast.where.key \in DOMAIN node.props => IsOperand(value)
      BY ValueIsOperand DEF HasValues
    <2> HIDE DEF value, verdict
    <2>5. CASE op = "="
      <3>1. Holds(value, op, literal) \in {"yes", "no"}
        BY <2>5 DEF Holds, Answer
      <3>2. WhereKind(ast, parameters) = "equal"
        BY <1>4, <2>5 DEF WhereKind
      <3> QED
        BY <2>1, <3>1, <3>2 DEF verdict
    <2>6. CASE op # "="
      <3>1. ast.where.key \in DOMAIN node.props => Holds(value, op, literal) \in {"yes", "no", "error"}
        <4>1. op \in Ops
          BY <1>1, <1>4
        <4> HIDE DEF op
        <4> QED
          BY <2>3, <2>4, <2>6, <4>1, CompareAnswers DEF Holds
      <3>2. WhereKind(ast, parameters) = "compare"
        BY <1>4, <2>6 DEF WhereKind
      <3> QED
        BY <2>1, <3>1, <3>2 DEF verdict
    <2> QED
      BY <2>5, <2>6
  <1> QED
    BY <1>2, <1>3, <1>4

(* A cost is a number.                                                      *)
LEMMA CostIsNumber ==
  ASSUME NEW props, HasValues(props), NEW key
  PROVE  EdgeCost(props, key) \in Int
  <1>1. BadCost \in Int
    BY DEF BadCost
  <1>2. CASE key \notin DOMAIN props
    BY <1>1, <1>2 DEF EdgeCost
  <1>3. CASE key \in DOMAIN props
    <2> DEFINE v == props[key]
    <2>1. v.tag \in {"int", "double", "minus zero"} => v.n \in Int
      <3>1. IsPropertyValue(v)
        BY <1>3 DEF HasValues
      <3> HIDE DEF v
      <3>2. \/ v.n \in Int \/ v.n \in {0, 1} \/ v = MinusZero \/ v = NotFinite
        BY <3>1 DEF IsPropertyValue
      <3>3. MinusZero.n = 0 /\ NotFinite.n = 0
        BY DEF MinusZero, NotFinite
      <3>4. v = MinusZero \/ v = NotFinite => v.n = 0
        BY <3>3
      <3>5. v.n \in Int
        BY <3>2, <3>4
      <3> QED
        BY <3>5
    <2>2. \/ EdgeCost(props, key) = BadCost
          \/ v.tag = "int" /\ EdgeCost(props, key) = 2 * v.n
          \/ v.tag \in {"double", "minus zero"} /\ EdgeCost(props, key) = v.n
      BY <1>3 DEF EdgeCost
    <2> HIDE DEF v
    <2> DEFINE cost == EdgeCost(props, key)
               n == v.n
    <2>3. cost = BadCost \/ (n \in Int /\ (cost = 2 * n \/ cost = n))
      BY <2>1, <2>2
    <2> HIDE DEF cost, n
    <2>4. cost \in Int
      BY <1>1, <2>3
    <2> QED
      BY <2>4 DEF cost
  <1> QED
    BY <1>2, <1>3

(* The edges of a query are edges of the graph, with costs.                 *)
LEMMA EdgesOfGraph ==
  ASSUME NEW graph, IsGraph(graph), NEW ast, NEW edges, edges = EdgesOf(graph, ast)
  PROVE  /\ DOMAIN edges = 1..Len(edges) /\ Len(edges) \in Nat
         /\ \A e \in DOMAIN edges : {edges[e].from, edges[e].to} \subseteq DOMAIN graph.nodes
                                    /\ edges[e].cost \in Int
  <1> DEFINE S == {i \in DOMAIN graph.edges : graph.edges[i].type = ast.type}
             ids == Ascending(S)
             cost(e) == IF ast.cost = <<>> THEN 0 ELSE EdgeCost(graph.edges[e].props, ast.cost[1])
  <1>1. DOMAIN graph.edges = 1..Len(graph.edges) /\ Len(graph.edges) \in Nat
    BY DEF IsGraph
  <1>2. S \in SUBSET Nat /\ IsFiniteSet(S)
    <2>1. IsFiniteSet(1..Len(graph.edges))
      BY <1>1, FS_Interval
    <2> QED
      BY <1>1, <2>1, FS_Subset
  <1>3. ids \in Seq(S)
    BY <1>2, AscendingLists DEF Lists
  <1> HIDE DEF S
  <1>4. edges = [k \in DOMAIN ids |-> [from |-> graph.edges[ids[k]].from, to |-> graph.edges[ids[k]].to,
                                       cost |-> cost(ids[k])]]
    BY DEF EdgesOf, S
  <1> HIDE DEF ids
  <1>5. DOMAIN ids = 1..Len(ids) /\ Len(ids) \in Nat /\ \A k \in 1..Len(ids) : ids[k] \in S
    BY <1>3, LenProperties, ElementOfSeq
  <1>6. \A e \in S : cost(e) \in Int /\ {graph.edges[e].from, graph.edges[e].to} \subseteq DOMAIN graph.nodes
    <2> SUFFICES ASSUME NEW e \in S
                 PROVE  cost(e) \in Int /\ {graph.edges[e].from, graph.edges[e].to} \subseteq DOMAIN graph.nodes
      OBVIOUS
    <2>1. /\ {graph.edges[e].from, graph.edges[e].to} \subseteq DOMAIN graph.nodes
          /\ HasValues(graph.edges[e].props)
      BY DEF IsGraph, S
    <2>2. EdgeCost(graph.edges[e].props, ast.cost[1]) \in Int
      BY <2>1, CostIsNumber
    <2> QED
      BY <2>1, <2>2
  <1> HIDE DEF cost
  <1>7. edges \in Seq({edges[k] : k \in 1..Len(ids)})
    <2>1. DOMAIN edges = 1..Len(ids)
      BY <1>4, <1>5
    <2>2. edges \in [1..Len(ids) -> {edges[k] : k \in 1..Len(ids)}]
      BY <1>4, <1>5
    <2> QED
      BY <1>5, <2>2, SeqDef
  <1>8. DOMAIN edges = 1..Len(edges) /\ Len(edges) \in Nat
    BY <1>7, LenProperties
  <1>9. ASSUME NEW k \in DOMAIN edges
        PROVE  {edges[k].from, edges[k].to} \subseteq DOMAIN graph.nodes /\ edges[k].cost \in Int
    <2>1. /\ k \in 1..Len(ids) /\ edges[k].from = graph.edges[ids[k]].from
          /\ edges[k].to = graph.edges[ids[k]].to /\ edges[k].cost = cost(ids[k])
      BY <1>4, <1>5
    <2>2. ids[k] \in S
      BY <1>5, <2>1
    <2> QED
      BY <1>6, <2>1, <2>2
  <1> QED
    BY <1>8, <1>9

(* What the parser understood is a query of the executor.                   *)
LEMMA QueryOfAst ==
  ASSUME NEW ast, IsParsed(ast), NEW graph, IsGraph(graph), NEW options, IsOptions(options)
  PROVE  IsQuery(Query(ast, graph, options))
  <1> DEFINE u == Query(ast, graph, options)
             params == options.parameters
  <1>1. /\ u.mode = ast.mode /\ u.direction = ast.direction /\ u.hops = ast.hops
        /\ u.row = options.row /\ u.work = options.work
        /\ u.frontier = options.frontier /\ u.hopLimit = options.hopLimit
        /\ u.where = WhereKind(ast, params)
        /\ u.verdict = [n \in DOMAIN graph.nodes |-> Verdict(graph.nodes[n], ast, params)]
        /\ u.edges = EdgesOf(graph, ast)
    BY DEF Query
  <1>2. u.costed = (ast.cost # <<>>) /\ u.desc = ast.desc /\ u.parallel = options.parallel
    BY DEF Query
  <1> HIDE DEF u
  <1>3. /\ u.mode \in Modes /\ u.direction \in {"out", "in"} /\ u.hops \in Nat
        /\ {u.row, u.work, u.frontier, u.hopLimit} \subseteq Nat
    BY <1>1 DEF IsParsed, IsOptions, Modes
  <1>4. {u.costed, u.desc, u.parallel} \subseteq BOOLEAN
    BY <1>2 DEF IsParsed, IsOptions
  <1>5. HasValues(params) /\ IsWhere(ast.where)
    BY DEF IsParsed, IsOptions
  <1>6. /\ IsFiniteSet(DOMAIN graph.nodes)
        /\ DOMAIN graph.nodes \subseteq (Nat \ {0}) \intersect DOMAIN Rank
        /\ \A n \in DOMAIN graph.nodes : HasValues(graph.nodes[n].props)
    BY DEF IsGraph
  <1>7. ASSUME NEW node, HasValues(node.props)
        PROVE  /\ Verdict(node, ast, params) \in {"other", "yes", "no", "error"}
               /\ WhereKind(ast, params) \in {"none", "equal", "compare", "unbound"}
               /\ WhereKind(ast, params) # "compare" => Verdict(node, ast, params) # "error"
    BY <1>5, <1>7, VerdictAnswers
  <1> HIDE DEF params
  <1>8. /\ \A n \in DOMAIN u.verdict : u.verdict[n] \in {"other", "yes", "no", "error"}
        /\ u.where # "compare" => \A n \in DOMAIN u.verdict : u.verdict[n] # "error"
    BY <1>1, <1>6, <1>7
  <1>9. u.where \in {"none", "equal", "compare", "unbound"}
    <2>1. u.where = WhereKind(ast, params) /\ ast.where.op \in Ops \union {"none"}
      BY <1>1, <1>5 DEF IsWhere
    <2> QED
      BY <2>1 DEF WhereKind
  <1>10. DOMAIN u.verdict = DOMAIN graph.nodes
    BY <1>1
  <1>11. /\ DOMAIN u.edges = 1..Len(u.edges) /\ Len(u.edges) \in Nat
         /\ \A e \in DOMAIN u.edges : {u.edges[e].from, u.edges[e].to} \subseteq DOMAIN u.verdict
                                      /\ u.edges[e].cost \in Int
    BY <1>1, <1>10, EdgesOfGraph
  <1>12. IsQuery(u)
    BY <1>3, <1>4, <1>6, <1>8, <1>9, <1>10, <1>11 DEF IsQuery
  <1> QED
    BY <1>12 DEF u

-----------------------------------------------------------------------------
(* Requests.                                                                *)

\* The executor before it starts.
Unstarted ==
  /\ pc = "start" /\ cancelled = FALSE /\ seeds = <<>> /\ parts = <<>>
  /\ outcome = "none" /\ rows = <<>>
  /\ offset = 0 /\ delivered = <<>> /\ complete = FALSE /\ closed = FALSE

\* The invariant of a request: the executor runs only a query that was prepared.
OqsInv ==
  \/ prepared = "yes" /\ IInv
  \/ prepared # "yes" /\ Unstarted /\ (prepared = "no" => request \in Requests)

(* An executor that has not started has nothing to answer for.              *)
LEMMA UnstartedHolds ==
  Unstarted => TypeOK /\ ResultIsExact /\ ErrorHasCause /\ SucceedsIffFits /\ CompleteMeansAll
  <1> SUFFICES ASSUME Unstarted
               PROVE  TypeOK /\ ResultIsExact /\ ErrorHasCause /\ SucceedsIffFits /\ CompleteMeansAll
    OBVIOUS
  <1>1. Len(<<>>) = 0 /\ DOMAIN <<>> = {} /\ 0 \in 0..0 /\ 0 <= MaxWorkers /\ MaxWorkers \in Nat
    BY QueryExecAssumption
  <1>2. TypeOK
    <2>1. /\ pc \in {"start", "plan", "expand", "done"} /\ cancelled \in BOOLEAN
          /\ (outcome = "none" <=> pc # "done") /\ outcome \in Kinds \union {"none", "result"}
          /\ complete \in BOOLEAN /\ closed \in BOOLEAN
      BY DEF Unstarted
    <2>2. /\ seeds = <<>> /\ parts = <<>> /\ rows = <<>> /\ offset = 0
      BY DEF Unstarted
    <2>3. Len(parts) <= MaxWorkers /\ DOMAIN seeds = {} /\ DOMAIN parts = {} /\ offset \in 0..Len(rows)
      BY <1>1, <2>2
    <2> QED
      BY <2>1, <2>3 DEF TypeOK
  <1>3. ResultIsExact /\ ErrorHasCause /\ SucceedsIffFits /\ CompleteMeansAll
    <2>1. pc # "done" /\ outcome # "result"
      BY DEF Unstarted
    <2> QED
      BY <2>1 DEF ResultIsExact, ErrorHasCause, SucceedsIffFits, CompleteMeansAll
  <1> QED
    BY <1>2, <1>3

(* Whatever is prepared is prepared from one of the requests.               *)
LEMMA PreparedOfRequest ==
  ASSUME NEW r \in Requests
  PROVE  /\ Prepared[r.text] = PrepareQuery(r.text) /\ r.text \in Seq(Lexemes)
         /\ IsGraph(r.graph) /\ IsOptions(r.options)
  BY OqsQueryAssumption DEF Prepared

(* The executor starts with the query that was prepared.                    *)
LEMMA PreparedStarts == (IsQuery(q) /\ Unstarted)' => IInv'
  <1>1. IsQuery(q) /\ Unstarted => IInv
    BY InitInvariant DEF Unstarted
  <1> QED
    BY <1>1, PTL

(* The invariant holds initially, and every step keeps it.                  *)
THEOREM OqsInvariant == OqsSpec => []OqsInv
  <1>1. OqsInit => OqsInv
    <2> SUFFICES ASSUME OqsInit PROVE OqsInv
      OBVIOUS
    <2>1. prepared = "no" /\ request \in Requests
      BY DEF OqsInit
    <2>2. Unstarted
      BY DEF OqsInit, Unstarted
    <2> QED
      BY <2>1, <2>2 DEF OqsInv
  <1>2. OqsInv /\ [OqsNext]_OqsVars => OqsInv'
    <2> SUFFICES ASSUME OqsInv, [OqsNext]_OqsVars PROVE OqsInv'
      OBVIOUS
    <2>1. CASE Prepare
      <3> DEFINE parsed == Prepared[request.text]
      <3>1. /\ prepared = "no" /\ pc' = pc /\ cancelled' = cancelled /\ seeds' = seeds /\ parts' = parts
            /\ outcome' = outcome /\ rows' = rows /\ offset' = offset /\ delivered' = delivered
            /\ complete' = complete /\ closed' = closed
        BY <2>1 DEF Prepare, cursor
      <3>2. \/ /\ parsed.error = "none" /\ prepared' = "yes"
               /\ q' = Query(parsed.ast, request.graph, request.options)
            \/ parsed.error # "none" /\ prepared' = parsed.error
        BY <2>1, Zenon DEF Prepare
      <3>3. Unstarted /\ request \in Requests
        BY <3>1 DEF OqsInv
      <3>4. Unstarted'
        BY <3>1, <3>3 DEF Unstarted
      <3>5. /\ parsed = PrepareQuery(request.text) /\ request.text \in Seq(Lexemes)
            /\ IsGraph(request.graph) /\ IsOptions(request.options)
        BY <3>3, PreparedOfRequest
      <3> HIDE DEF parsed
      <3>6. /\ parsed.error \in ParserErrors
            /\ parsed.error = "none" => IsParsed(parsed.ast)
        BY <3>5, ParserIsExact
      <3>7. CASE parsed.error = "none"
        <4>1. prepared' = "yes" /\ q' = Query(parsed.ast, request.graph, request.options)
          BY <3>2, <3>7
        <4>2. IsQuery(q')
          BY <3>5, <3>6, <3>7, <4>1, QueryOfAst
        <4>3. IInv'
          BY <3>4, <4>2, PreparedStarts
        <4> QED
          BY <4>1, <4>3 DEF OqsInv
      <3>8. CASE parsed.error # "none"
        <4>1. prepared' \notin {"yes", "no"}
          BY <3>2, <3>6, <3>8 DEF ParserErrors
        <4> QED
          BY <3>4, <4>1 DEF OqsInv
      <3> QED
        BY <3>7, <3>8
    <2>2. CASE prepared = "yes" /\ Next /\ UNCHANGED requestVars
      <3>1. prepared' = "yes" /\ IInv
        BY <2>2 DEF OqsInv, requestVars
      <3>2. IInv'
        BY <2>2, <3>1, StepInvariant
      <3> QED
        BY <3>1, <3>2 DEF OqsInv
    <2>3. CASE UNCHANGED OqsVars
      <3>1. UNCHANGED vars /\ prepared' = prepared /\ request' = request
        BY <2>3 DEF OqsVars, requestVars
      <3>2. Unstarted => Unstarted'
        BY <3>1 DEF Unstarted, vars
      <3>3. IInv => IInv'
        BY <3>1, StutterInvariant
      <3> QED
        BY <3>1, <3>2, <3>3 DEF OqsInv
    <2> QED
      BY <2>1, <2>2, <2>3 DEF OqsNext
  <1> QED
    BY <1>1, <1>2, PTL DEF OqsSpec

(* From its text on, an execution keeps what the executor promises.         *)
THEOREM OqsExecutes ==
  OqsSpec => [](TypeOK /\ ResultIsExact /\ ErrorHasCause /\ SucceedsIffFits /\ CompleteMeansAll)
  <1>1. IInv => TypeOK /\ ResultIsExact /\ ErrorHasCause /\ SucceedsIffFits /\ CompleteMeansAll
    BY InvariantTypes, InvariantDecides, InvariantCompletes DEF IInv
  <1>2. OqsInv => TypeOK /\ ResultIsExact /\ ErrorHasCause /\ SucceedsIffFits /\ CompleteMeansAll
    BY <1>1, UnstartedHolds DEF OqsInv
  <1> QED
    BY <1>2, OqsInvariant, PTL

(* A request is prepared exactly if its text is a statement of the          *)
(* language, and then what is prepared is the only thing the text says      *)
(* (PreparedAsWritten).                                                     *)
THEOREM OqsPrepares == OqsSpec => []PreparedAsWritten
  <1>1. OqsInv => PreparedAsWritten
    <2> SUFFICES ASSUME OqsInv, prepared = "no" PROVE PreparedAsWritten
      BY DEF PreparedAsWritten
    <2> DEFINE parsed == Prepared[request.text]
    <2>1. request \in Requests
      BY DEF OqsInv
    <2>2. parsed = PrepareQuery(request.text) /\ request.text \in Seq(Lexemes)
      BY <2>1, PreparedOfRequest
    <2>3. \A ast \in Asts : IsAst(ast)
      BY OqsQueryAssumption
    <2>4. /\ parsed.error = "none" => Says(request.text, parsed.ast)
          /\ \A ast : IsAst(ast) /\ Says(request.text, ast) =>
                parsed.error = "none" /\ SameMeaning(ast, parsed.ast)
      <3> HIDE DEF parsed
      <3> QED
        BY <2>2, ParserIsExact
    <2> QED
      BY <2>3, <2>4 DEF PreparedAsWritten
  <1> QED
    BY <1>1, OqsInvariant, PTL

=============================================================================
