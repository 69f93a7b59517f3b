------------------------------ MODULE Parsing -------------------------------
(***************************************************************************)
(* From a query string to the statements that run (parser.rs parse_sql,    *)
(* query_router.rs): every statement is parsed twice, by the PostgreSQL-   *)
(* compatibility parser and, where it matters, verbatim, and each of the   *)
(* two parses is wrong for somebody.  Also how EXPLAIN's options are read  *)
(* (introspection.rs) and the order parameters are reported in.            *)
(*                                                                         *)
(* A statement is known by its kind and by what the parsers disagree on:   *)
(* a COLLATE clause, a bare NULL in its projection, a scalar subquery in   *)
(* its projection (sub), x = ANY or x <> ALL over a subquery (any), a NOT  *)
(* IN over a subquery, an array_contains of the client's own.              *)
(***************************************************************************)
EXTENDS Integers, Sequences, FiniteSets

CONSTANT Refused

\* QueryType and classify_statement: the type of each kind of statement.
ClassifyStatement(kind) ==
  CASE kind = "query" -> "Select"
    [] kind \in {"insert", "update", "delete", "merge", "create table", "alter table",
                 "truncate", "create index", "copy", "create view", "alter view",
                 "create schema", "alter schema"} -> kind
    [] kind \in {"drop index", "drop view", "drop schema"} -> kind
    [] kind \in {"drop table", "drop type"} -> "drop table"
    [] kind \in {"begin", "commit", "rollback", "savepoint", "release"} -> "control"
    [] kind \in {"set", "show"} -> "session"
    [] kind \in {"explain", "describe"} -> "Explain"
    [] OTHER -> "Other"

IsWritePath(type) ==
  type \in {"insert", "update", "delete", "merge", "create table", "alter table", "drop table",
            "truncate", "create index", "drop index", "copy"}

WantsVerbatimAst(type) == IsWritePath(type) \/ type \in {"create view", "alter view"}

-----------------------------------------------------------------------------
(* The compatibility parser and the passes over its result.                *)

\* PostgresCompatibilityParser: what its rules make of the client's statement.
Compat(raw) ==
  [raw EXCEPT !.collate = FALSE,
              !.sub = IF raw.sub = "kept" THEN "folded" ELSE raw.sub,
              !.null = raw.null \/ raw.sub = "kept",
              !.any = IF raw.any # "none" THEN "mangled" ELSE "none"]

\* The guards: each may say yes to a statement that needs nothing.
ProjectsABareNull(ast) == ast.null
HoldsAMangledAnyAll(ast) == ast.any = "mangled" \/ ast.contains
MentionsCollate(raws) == \E i \in DOMAIN raws : raws[i].collate \/ raws[i].literal

\* normalize_any_all_subqueries: x <> ALL becomes NOT IN on the way.
NormalizeAnyAll(raw) ==
  [raw EXCEPT !.any = IF raw.any = "none" THEN "none" ELSE "in",
              !.notin = IF raw.any = "ne_all" THEN "plain" ELSE raw.notin]

\* rewrite_for_read_path: the rest of the compatibility rules, none of the two.
RewriteForReadPath(raw) == [raw EXCEPT !.collate = FALSE]

RewriteNotIn(ast) == [ast EXCEPT !.notin = IF ast.notin = "plain" THEN "safe" ELSE ast.notin]

-----------------------------------------------------------------------------
(* parse_sql.                                                              *)

PushRead(ast) == RewriteNotIn(ast)

\* A statement the write path ships: the client's own, or nothing.
Verbatim(compat, raw) ==
  IF ClassifyStatement(raw.kind) # ClassifyStatement(compat.kind)
  THEN IF compat.divergent THEN Refused ELSE compat
  ELSE IF raw.divergent THEN Refused ELSE raw


Prepared(compat, raw, collate) ==
  CASE WantsVerbatimAst(ClassifyStatement(compat.kind)) -> Verbatim(compat, raw)
    [] collate /\ raw.collate             -> Refused
    [] raw.any # "none" /\ ~raw.meta      -> PushRead(RewriteForReadPath(NormalizeAnyAll(raw)))
    [] raw.sub = "kept" /\ ~raw.meta      -> PushRead(RewriteForReadPath(raw))
    [] OTHER                              -> PushRead(compat)

\* A string none of whose statements needs its own text again.
NeedsNoSecondParse(compats, raws) ==
  /\ ~MentionsCollate(raws)
  /\ \A i \in DOMAIN compats :
       /\ ~WantsVerbatimAst(ClassifyStatement(compats[i].kind))
       /\ ~ProjectsABareNull(compats[i])
       /\ ~HoldsAMangledAnyAll(compats[i])

\* The first refusal is the answer to the whole string.
AllOf(prepared) ==
  IF \E i \in DOMAIN prepared : prepared[i] = Refused THEN Refused ELSE prepared

ParseSqlOf(compats, raws) ==
  IF NeedsNoSecondParse(compats, raws) THEN [i \in DOMAIN compats |-> RewriteNotIn(compats[i])]
  ELSE IF Len(raws) # Len(compats) THEN compats
  ELSE AllOf([i \in DOMAIN compats |-> Prepared(compats[i], raws[i], MentionsCollate(raws))])

ParseSql(raws) == ParseSqlOf([i \in DOMAIN raws |-> Compat(raws[i])], raws)

-----------------------------------------------------------------------------
(* EXPLAIN and DESCRIBE: what is asked for, or a refusal.                  *)

\* option_flag: a bare option is true.
OptionFlag(arg) ==
  CASE arg \in {"", "true", "on", "1", "yes"} -> TRUE
    [] arg \in {"false", "off", "0", "no"}    -> FALSE
    [] OTHER                                  -> Refused

AppliedOption(option, asked) ==
  CASE asked = Refused          -> Refused
    [] option.name = "ANALYZE" /\ OptionFlag(option.arg) # Refused ->
         [asked EXCEPT !.analyze = OptionFlag(option.arg)]
    [] option.name = "VERBOSE" /\ OptionFlag(option.arg) # Refused ->
         [asked EXCEPT !.verbose = OptionFlag(option.arg)]
    [] OTHER                    -> Refused

\* The options are applied left to right over the keywords.
RECURSIVE WithOptions(_, _)
WithOptions(options, asked) ==
  IF options = <<>> THEN asked ELSE WithOptions(Tail(options), AppliedOption(Head(options), asked))

\* Inspection: a relation's or a query's columns, or a plan.
Shape == [shape |-> TRUE, analyze |-> FALSE, verbose |-> FALSE]

Inspected(stmt, asked) ==
  CASE asked = Refused            -> Refused
    [] stmt.alias = "describe"    -> Shape
    [] ~stmt.query                -> Refused
    [] OTHER                      -> asked

\* inspection: the relation forms, then the dialects' modes, then the options.
Inspection(stmt) ==
  CASE stmt.relation  -> IF stmt.alias = "explain" \/ stmt.other THEN Refused ELSE Shape
    [] stmt.other     -> Refused
    [] OTHER -> Inspected(stmt, WithOptions(stmt.options,
                                            [shape |-> FALSE, analyze |-> stmt.analyze,
                                             verbose |-> stmt.verbose]))

-----------------------------------------------------------------------------
(* The parameters of a prepared statement.                                 *)

\* ordered_param_types: the types of the placeholders a plan names, by number.
OrderedParamTypes(types) ==
  [i \in 1 .. Cardinality(DOMAIN types) |->
     types[CHOOSE k \in DOMAIN types : Cardinality({j \in DOMAIN types : j < k}) = i - 1]]

\* get_parameter_types: without a plan, as many unknowns as the highest number.
GetParameterTypes(types, planned) ==
  IF planned THEN OrderedParamTypes(types)
  ELSE [i \in 1 .. (IF DOMAIN types = {} THEN 0
                    ELSE CHOOSE k \in DOMAIN types : \A j \in DOMAIN types : j <= k) |-> "unknown"]
=============================================================================
