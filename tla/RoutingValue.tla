---------------------------- MODULE RoutingValue ----------------------------
(***************************************************************************)
(* The text a shard key is hashed by (write_sql_cl/routing_value.rs).      *)
(*                                                                         *)
(* The coordinator hashes a key before the write leaves it, so it has only *)
(* the key's spelling: a literal of the statement or a bound parameter.    *)
(* Two spellings of one stored value must give one text, or the row is     *)
(* stored on a shard that no lookup of it visits.                          *)
(*                                                                         *)
(* A body is what stands between the quotes of a literal, or bare: a word, *)
(* a numeral with its sign, digits, fraction and exponent, or the digest   *)
(* of another text.                                                        *)
(***************************************************************************)
EXTENDS Integers, Sequences, SequencesExt

Body(sign, int, frac, exp) ==
    [word |-> "", sign |-> sign, int |-> int, frac |-> frac, exp |-> exp, of |-> <<>>]
Word(w) ==
    [word |-> w, sign |-> "", int |-> <<>>, frac |-> <<>>, exp |-> <<>>, of |-> <<>>]

\* anonymization::hmac_sha256_hex: the digest of a text under a secret key.
Hmac(key, text) == [Word("hmac") EXCEPT !.of = <<[key |-> key, text |-> text]>>]

IsNumeral(b) == b.word = "" /\ b.int \o b.frac # <<>>

Zeros(n) == [i \in 1 .. n |-> 0]

(***************************************************************************)
(* expand_scientific_notation: the exponent moves the point; a leading     *)
(* plus of the mantissa is dropped on the way.                             *)
(***************************************************************************)
MovePoint(b, digits, point) ==
    [b EXCEPT !.exp  = <<>>,
              !.sign = IF @ = "-" THEN "-" ELSE "",
              !.int  = IF point <= 0 THEN <<0>>
                       ELSE IF point >= Len(digits) THEN digits \o Zeros(point - Len(digits))
                       ELSE SubSeq(digits, 1, point),
              !.frac = IF point <= 0 THEN Zeros(-point) \o digits
                       ELSE IF point >= Len(digits) THEN <<>>
                       ELSE SubSeq(digits, point + 1, Len(digits))]

ExpandScientific(b) ==
    IF b.exp = <<>> THEN b ELSE MovePoint(b, b.int \o b.frac, Len(b.int) + b.exp[1])

NonZero(s) == {i \in DOMAIN s : s[i] # 0}
TrimStart(s) ==
    IF NonZero(s) = {} THEN <<>>
    ELSE SubSeq(s, CHOOSE i \in NonZero(s) : \A j \in NonZero(s) : i <= j, Len(s))
TrimEnd(s) ==
    IF NonZero(s) = {} THEN <<>>
    ELSE SubSeq(s, 1, CHOOSE i \in NonZero(s) : \A j \in NonZero(s) : j <= i)

(***************************************************************************)
(* canonicalize_numeric: strips a leading minus only, so a plain numeral   *)
(* that still carries a plus is not recognised and is left as it is.       *)
(***************************************************************************)
Trimmed(b, int, frac) ==
    [b EXCEPT !.int  = IF int = <<>> THEN <<0>> ELSE int,
              !.frac = frac,
              !.sign = IF int \o frac = <<>> THEN "" ELSE @]


CanonicalNumeric(b) == Trimmed(b, TrimStart(b.int), TrimEnd(b.frac))

\* canonicalize_routing_value: a bare or single-quoted numeral is replaced by
\* its canonical form; any other text is hashed as it is spelled.
CanonicalText(quote, b) ==
    IF quote \in {"", "'"} /\ IsNumeral(b) /\ ExpandScientific(b).sign # "+"
    THEN [quote |-> "", body |-> CanonicalNumeric(ExpandScientific(b))]
    ELSE [quote |-> quote, body |-> b]

(***************************************************************************)
(* An expression in a statement.                                           *)
(*   number    5              signed    -5, +5 (an operator on a literal)  *)
(*   quoted    '5', 'ada', DATE '2022-01-08'                               *)
(*   prefixed  E'ada', N'ada', $$ada$$                                     *)
(*   param     $idx           null      NULL                               *)
(*   computed  2 + 3, nextval('s'), a column                               *)
(***************************************************************************)
Expr(form, b) == [form |-> form, body |-> b, idx |-> 0]
Param(i)      == [form |-> "param", body |-> Word(""), idx |-> i]
NullExpr      == Expr("null", Word(""))

\* A bound parameter. A decimal is its unscaled digits and a scale; "moment" is
\* a type whose bound and literal spellings differ (a timestamp, an interval),
\* "list" one with no SQL literal at all.
Scalar(kind, b, scale) == [kind |-> kind, body |-> b, scale |-> scale]

Routed(quote, b) == [kind |-> "value", quote |-> quote, body |-> b]
RoutedNull       == [Routed("", Word("")) EXCEPT !.kind = "null"]
RoutedNowhere    == [Routed("", Word("")) EXCEPT !.kind = "unroutable"]

\* scaled_plain_string: an unscaled integer with the point put back.
ScaledPlain(b, scale) ==
    IF scale <= 0 THEN [b EXCEPT !.int = IF NonZero(@) = {} THEN @ ELSE @ \o Zeros(-scale)]
    ELSE IF Len(b.int) <= scale
    THEN [b EXCEPT !.int = <<0>>, !.frac = Zeros(scale - Len(b.int)) \o b.int]
    ELSE [b EXCEPT !.int  = SubSeq(@, 1, Len(@) - scale),
                   !.frac = SubSeq(b.int, Len(b.int) - scale + 1, Len(b.int))]

\* scalar_routing_value
ScalarRoutingValue(s) ==
    CASE s.kind = "null"                -> RoutedNull
      [] s.kind \in {"text", "date"}    -> Routed("'", s.body)
      [] s.kind \in {"int", "boolean"}  -> Routed("", s.body)
      [] s.kind = "decimal"             -> Routed("", ScaledPlain(s.body, s.scale))
      [] OTHER                          -> RoutedNowhere

\* expr_routing_value, value_routing_value, the text as it is spelled
ExprRoutingValue(e, params) ==
    CASE e.form = "null"     -> RoutedNull
      [] e.form \in {"number", "signed"} -> Routed("", e.body)
      [] e.form = "quoted"   -> Routed("'", e.body)
      [] e.form = "prefixed" -> Routed("E'", e.body)
      [] e.form = "param"    -> IF e.idx \in DOMAIN params
                                THEN ScalarRoutingValue(params[e.idx])
                                ELSE RoutedNowhere
      [] OTHER               -> RoutedNowhere

\* The text that is hashed.
RoutingText(v) == CanonicalText(v.quote, v.body)

(***************************************************************************)
(* What the engine stores for an expression: in a numeric column the       *)
(* number, in thousandths so that fractions compare; in a text column the  *)
(* text. Anything it cannot store is an error of the statement.            *)
(***************************************************************************)
Shifted(n, by) == IF by >= 0 THEN n * 10 ^ by ELSE n \div 10 ^ (-by)

Number(b) ==
    (IF b.sign = "-" THEN -1 ELSE 1)
    * Shifted(FoldLeft(LAMBDA m, d : 10 * m + d, 0, b.int \o b.frac),
              3 - Len(b.frac) + (IF b.exp = <<>> THEN 0 ELSE b.exp[1]))

Cell(kind, b, n) == [kind |-> kind, body |-> b, num |-> n]
NullCell  == Cell("null", Word(""), 0)
BadCell   == Cell("error", Word(""), 0)

StoredBody(type, b) ==
    IF type = "text" THEN Cell("text", b, 0)
    ELSE IF IsNumeral(b) THEN Cell("number", Word(""), Number(b))
    ELSE BadCell

StoresNull(e, params) ==
    \/ e.form = "null"
    \/ e.form = "param" /\ (e.idx \notin DOMAIN params \/ params[e.idx].kind = "null")

ScalarBody(s) == IF s.kind = "decimal" THEN ScaledPlain(s.body, s.scale) ELSE s.body

Stored(type, e, params) ==
    IF StoresNull(e, params) THEN NullCell
    ELSE StoredBody(type, IF e.form = "param" THEN ScalarBody(params[e.idx]) ELSE e.body)
=============================================================================
