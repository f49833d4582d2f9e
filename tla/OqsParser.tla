----------------------------- MODULE OqsParser -----------------------------
(***************************************************************************)
(* prepare_query of src/src/query/query.cpp: from the text of an OQS       *)
(* statement to its QueryAst or the error it is refused with, and the      *)
(* language of docs/OQS_LANGUAGE.md as the set of phrases of an ast.       *)
(*                                                                         *)
(* A text is a sequence of lexemes; characters are not modelled.  What the *)
(* code reads from the characters of a lexeme is given by constants: its   *)
(* upper case, the number or the parameter it spells, and its place in the *)
(* bytewise order of strings.                                              *)
(***************************************************************************)
EXTENDS PropertyValues, Sequences

CONSTANTS
  Upper,        \* spellings that are not in upper case -> their upper case
  Number,       \* spellings parse_literal takes for numbers -> value, or Throws
  Digits,       \* spellings that are digits only -> value, or Overflow
  Parameter,    \* spellings that begin with "$" -> the rest
  Place,        \* other spellings -> their place among strings
  MaxLexemes,   \* Limits::max_query_bytes, counted in lexemes
  MaxHops       \* Limits::max_path_hops

Throws   == [tag |-> "throws", n |-> 0]  \* std::stoll or std::stod throws
Overflow == -1                           \* the number does not fit 64 bits

Folded(t) == IF t \in DOMAIN Upper THEN Upper[t] ELSE t

\* Operators are the same in both cases.
ASSUME OqsParserAssumption ==
  /\ MaxLexemes \in Nat /\ MaxHops \in Nat
  /\ \A t \in DOMAIN Upper : t \notin Ops /\ Upper[t] \notin Ops
  /\ \A t \in DOMAIN Digits : Digits[t] \in Nat \union {Overflow}
  /\ \A t \in DOMAIN Number : Number[t] = Throws \/ IsPropertyValue(Number[t])

\* A lexeme is a word or operator, a string in quotes, or one whose closing
\* quote is missing.
Lexemes == [kind : {"word", "quoted", "open"}, text : STRING]
Word(t)   == [kind |-> "word", text |-> t]
Quoted(t) == [kind |-> "quoted", text |-> t]
Open(t)   == [kind |-> "open", text |-> t]

\* tokenize: a token is the text of its lexeme, and no more.
Tokens(text) == [i \in DOMAIN text |-> text[i].text]

TokenizeError(text) ==
  IF Len(text) > MaxLexemes THEN "limit"
  ELSE IF \E i \in DOMAIN text : text[i].kind = "open" THEN "syntax" ELSE "none"

-----------------------------------------------------------------------------
(***************************************************************************)
(* Parser::parse, clause by clause.  A state s has the tokens that remain, *)
(* the ast so far and the first error; after an error nothing happens.     *)
(***************************************************************************)
NoWhere == [key |-> "", op |-> "none", value |-> BoolValue(0), parameter |-> ""]

Begin(tokens) ==
  [rest |-> tokens, error |-> "none",
   ast |-> [label |-> "", where |-> NoWhere, mode |-> "scan", direction |-> "out", type |-> "",
            hops |-> 1, cost |-> <<>>, yield |-> "node", ordered |-> FALSE, desc |-> FALSE]]

Fails(s, kind) == [s EXCEPT !.error = IF @ = "none" THEN kind ELSE @]
Past(s, n)     == [s EXCEPT !.rest = SubSeq(@, n + 1, Len(@))]

\* match(): keywords in either case.  The token may be one that was in quotes.
Sees(s, n, keyword) == Len(s.rest) >= n /\ Folded(s.rest[n]) = keyword

\* The clause is there: nothing went wrong yet and its keyword is next.
Opens(s, keyword) == s.error = "none" /\ Sees(s, 1, keyword)

\* The two selectors are skipped, whatever they are.
AtClause(s) ==
  IF ~Opens(s, "AT") THEN s
  ELSE IF Sees(s, 2, "COMMIT") /\ Sees(s, 4, "TIME") /\ Len(s.rest) >= 5 THEN Past(s, 5)
  ELSE Fails(s, "syntax")

FromClause(s) ==
  IF Opens(s, "FROM") /\ Len(s.rest) >= 2 THEN [Past(s, 2) EXCEPT !.ast.label = s.rest[2]]
  ELSE Fails(s, "syntax")

\* parse_literal: the token may have been in quotes and is a number all the same.
ParseLiteral(t) ==
  IF Folded(t) = "TRUE" THEN BoolValue(1)
  ELSE IF Folded(t) = "FALSE" THEN BoolValue(0)
  ELSE IF t \in DOMAIN Number THEN Number[t]
  ELSE StringValue(Place[t])

WhereClause(s) ==
  LET key == s.rest[2] op == s.rest[3] literal == s.rest[4]
      Predicate(value, name) ==
        [Past(s, 4) EXCEPT !.ast.where = [key |-> key, op |-> op, value |-> value,
                                          parameter |-> name]]
  IN  IF ~Opens(s, "WHERE") THEN s
      ELSE IF Len(s.rest) < 4 THEN Fails(s, "syntax")
      ELSE IF op \notin Ops THEN Fails(s, "syntax")
      ELSE IF literal \notin DOMAIN Parameter
           THEN IF ParseLiteral(literal) = Throws THEN Fails(s, "throws")
                ELSE Predicate(ParseLiteral(literal), "")
      ELSE IF Parameter[literal] = "" THEN Fails(s, "syntax")
      ELSE Predicate(BoolValue(0), Parameter[literal])

\* A mutation: a hop bound of zero is accepted.
HopsWithinLimit(n) == n <= MaxHops

HopsAllowed(n) == n # 0 /\ n <= MaxHops

\* parse_u64, and the limit of the store.
HopsClause(s) ==
  LET t == s.rest[2]
  IN  IF ~Opens(s, "HOPS") THEN s
      ELSE IF Len(s.rest) < 2 THEN Fails(s, "syntax")
      ELSE IF t \notin DOMAIN Digits THEN Fails(s, "syntax")
      ELSE IF Digits[t] = Overflow THEN Fails(s, "overflow")
      ELSE IF ~HopsAllowed(Digits[t]) THEN Fails(s, "limit")
      ELSE [Past(s, 2) EXCEPT !.ast.hops = Digits[t]]

CostClause(s) ==
  IF ~Opens(s, "COST") THEN s
  ELSE IF Len(s.rest) < 2 THEN Fails(s, "syntax")
  ELSE [Past(s, 2) EXCEPT !.ast.cost = <<s.rest[2]>>]

\* STEP or PATH with a direction and an edge type, which may be any token.
Traversal(s, mode) ==
  IF Len(s.rest) < 3 \/ ~(Sees(s, 2, "OUT") \/ Sees(s, 2, "IN")) THEN Fails(s, "syntax")
  ELSE [Past(s, 3) EXCEPT !.ast.mode = mode, !.ast.type = s.rest[3],
                          !.ast.direction = IF Sees(s, 2, "OUT") THEN "out" ELSE "in"]

TraversalClause(s) ==
  IF Opens(s, "STEP") THEN Traversal(s, "step")
  ELSE IF Opens(s, "PATH") THEN CostClause(HopsClause(Traversal(s, "path")))
  ELSE s

YieldClause(s) ==
  LET Id == Sees(s, 3, ".") /\ Sees(s, 4, "ID")
  IN  IF ~Opens(s, "YIELD") THEN Fails(s, "syntax")
      ELSE IF Sees(s, 2, "NODE") /\ Id THEN [Past(s, 4) EXCEPT !.ast.yield = "node"]
      ELSE IF Sees(s, 2, "EDGE") /\ Id THEN [Past(s, 4) EXCEPT !.ast.yield = "edge"]
      ELSE IF Sees(s, 2, "PATH") THEN [Past(s, 2) EXCEPT !.ast.yield = "path"]
      ELSE Fails(s, "syntax")

OrderClause(s) ==
  IF ~Opens(s, "ORDER") THEN s
  ELSE IF Sees(s, 2, "ASC") THEN [Past(s, 2) EXCEPT !.ast.ordered = TRUE, !.ast.desc = FALSE]
  ELSE IF Sees(s, 2, "DESC") THEN [Past(s, 2) EXCEPT !.ast.ordered = TRUE, !.ast.desc = TRUE]
  ELSE Fails(s, "syntax")

End(s) == IF s.rest = <<>> THEN s ELSE Fails(s, "syntax")

Parse(tokens) ==
  End(OrderClause(YieldClause(TraversalClause(WhereClause(FromClause(AtClause(Begin(tokens))))))))

\* What prepare_query returns: an error other than "none", or the ast.
PrepareQuery(text) ==
  IF TokenizeError(text) # "none" THEN [Begin(<<>>) EXCEPT !.error = TokenizeError(text)]
  ELSE Parse(Tokens(text))

-----------------------------------------------------------------------------
(***************************************************************************)
(* The language: a phrase is a sequence of items, each of which one lexeme *)
(* fits.  Every phrase of an ast says the same.                            *)
(***************************************************************************)
Keyword(k) == [is |-> "keyword", of |-> k]
Name(t)    == [is |-> "name", of |-> t]
Literal(v) == [is |-> "literal", of |-> v]
Bound(n)   == [is |-> "bound", of |-> n]
Argument(p) == [is |-> "argument", of |-> p]
Selector   == [is |-> "selector", of |-> ""]

\* An item as it would be spelled.
IsSpelled(t, item) ==
  CASE item.is = "keyword"  -> Folded(t) = item.of
    [] item.is = "name"     -> t = item.of
    [] item.is = "literal"  -> t \notin DOMAIN Parameter /\ ParseLiteral(t) = item.of
    [] item.is = "argument" -> t \in DOMAIN Parameter /\ Parameter[t] = item.of
    [] item.is = "bound"    -> t \in DOMAIN Digits /\ Digits[t] = item.of
    [] item.is = "selector" -> TRUE

AtPhrases ==
  {<<>>, <<Keyword("AT"), Keyword("COMMIT"), Selector, Keyword("TIME"), Selector>>}

FromPhrase(ast) == <<Keyword("FROM"), Name(ast.label)>>

WherePhrases(w) ==
  IF w.op = "none" THEN {<<>>}
  ELSE {<<Keyword("WHERE"), Name(w.key), Keyword(w.op),
          IF w.parameter = "" THEN Literal(w.value) ELSE Argument(w.parameter)>>}

Turn(direction) == Keyword(IF direction = "out" THEN "OUT" ELSE "IN")

\* One hop is also what no bound means.
HopsPhrases(ast) ==
  {<<Keyword("HOPS"), Bound(n)>> : n \in {ast.hops} \intersect 1..MaxHops}
    \union {<<>> : n \in {ast.hops} \intersect {1}}

CostPhrase(ast) == IF ast.cost = <<>> THEN <<>> ELSE <<Keyword("COST"), Name(ast.cost[1])>>

TraversalPhrases(ast) ==
  CASE ast.mode = "scan" -> {<<>>}
    [] ast.mode = "step" -> {<<Keyword("STEP"), Turn(ast.direction), Name(ast.type)>>}
    [] ast.mode = "path" ->
         {<<Keyword("PATH"), Turn(ast.direction), Name(ast.type)>> \o hops \o CostPhrase(ast) :
            hops \in HopsPhrases(ast)}

YieldPhrase(ast) ==
  CASE ast.yield = "node" -> <<Keyword("YIELD"), Keyword("NODE"), Keyword("."), Keyword("ID")>>
    [] ast.yield = "edge" -> <<Keyword("YIELD"), Keyword("EDGE"), Keyword("."), Keyword("ID")>>
    [] ast.yield = "path" -> <<Keyword("YIELD"), Keyword("PATH")>>

OrderPhrase(ast) ==
  IF ~ast.ordered THEN <<>>
  ELSE <<Keyword("ORDER"), Keyword(IF ast.desc THEN "DESC" ELSE "ASC")>>

Phrases(ast) ==
  {at \o FromPhrase(ast) \o where \o traversal \o YieldPhrase(ast) \o OrderPhrase(ast) :
     at \in AtPhrases, where \in WherePhrases(ast.where), traversal \in TraversalPhrases(ast)}

\* Two asts that a text cannot tell apart: what a clause that is not there
\* would say does not matter.
SamePredicate(v, w) ==
  /\ v.op = w.op
  /\ v.op # "none" => v.key = w.key /\ v.parameter = w.parameter
  /\ v.op # "none" /\ v.parameter = "" => v.value = w.value
SameMeaning(a, b) ==
  /\ a.label = b.label /\ a.mode = b.mode /\ a.yield = b.yield /\ SamePredicate(a.where, b.where)
  /\ a.mode # "scan" => a.direction = b.direction /\ a.type = b.type
  /\ a.mode = "path" => a.hops = b.hops /\ (a.cost = <<>> <=> b.cost = <<>>)
  /\ a.mode = "path" /\ a.cost # <<>> => a.cost[1] = b.cost[1]
  /\ (a.ordered <=> b.ordered) /\ (a.ordered => (a.desc <=> b.desc))

\* The text is a statement of the language that says what ast says.
Says(text, ast) ==
  /\ Len(text) <= MaxLexemes
  /\ \A i \in DOMAIN text : text[i].kind # "open"
  /\ ast.where.value # Throws
  /\ \E phrase \in Phrases(ast) :
       /\ Len(phrase) = Len(text)
       /\ \A i \in DOMAIN text : IsSpelled(text[i].text, phrase[i])
=============================================================================
