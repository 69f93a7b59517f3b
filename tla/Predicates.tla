----------------------------- MODULE Predicates -----------------------------
(***************************************************************************)
(* The expressions a read's WHERE is made of (DataFusion's Expr), as far   *)
(* as filter_pushdown.rs tells them apart.                                 *)
(***************************************************************************)

Col(name) == [op |-> "column", name |-> name]
Lit(kind, value) == [op |-> "literal", kind |-> kind, value |-> value]
Binary(o, l, r) == [op |-> "binary", o |-> o, l |-> l, r |-> r]
Unary(o, x) == [op |-> "unary", o |-> o, x |-> x]
Like(x, pattern, escape) == [op |-> "like", x |-> x, pattern |-> pattern, escape |-> escape]
InList(x, list) == [op |-> "in", x |-> x, list |-> list]
Between(x, low, high) == [op |-> "between", x |-> x, low |-> low, high |-> high]
=============================================================================
