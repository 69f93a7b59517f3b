------------------------------ MODULE Settings ------------------------------
(***************************************************************************)
(* A connection's runtime parameters (session_params.rs): what SET, RESET  *)
(* and SHOW do to them, and the rows pg_settings reports (pg_settings.rs). *)
(*                                                                         *)
(* A value's text is a sequence of words, the parts between its commas; a  *)
(* word is its folded spelling, whether it is written with capitals and    *)
(* whether a minus precedes it.  A parameter is named by its folded name.  *)
(***************************************************************************)
EXTENDS Integers, Sequences, SequencesExt, TLC

CONSTANT Unset      \* no value: startup announced none

Word(w) == [w |-> w, up |-> FALSE, neg |-> FALSE]
Text(w) == <<Word(w)>>

-----------------------------------------------------------------------------
(* The registry.  A matching parameter takes a text whose first word is in *)
(* first and whose other words are in rest: what the coordinator does      *)
(* anyway.                                                                 *)

Free(default) == [default |-> Text(default), disposition |-> "free", first |-> {}, rest |-> {}]
Matching(default, first, rest) ==
  [default |-> default, disposition |-> "matching", first |-> first, rest |-> rest]
Fixed(default, disposition) ==
  [default |-> Text(default), disposition |-> disposition, first |-> {}, rest |-> {}]

IsOn == {"on", "true", "yes", "1"}
IsOff == {"off", "false", "no", "0"}

ParamsToI == [
  application_name |-> Free(""),
  client_encoding |-> Matching(Text("utf8"), {"utf8", "utf-8", "unicode"}, {}),
  client_min_messages |-> Free("notice"),
  datestyle |-> Matching(<<Word("iso"), Word("ymd")>>, {"iso"}, {"mdy", "ymd", "dmy"}),
  default_transaction_read_only |-> Matching(Text("off"), IsOff, {}),
  extra_float_digits |-> Matching(Text("1"), {"1", "2", "3"}, {}),
  in_hot_standby |-> Fixed("off", "read_only"),
  integer_datetimes |-> Fixed("on", "read_only"),
  intervalstyle |-> Matching(Text("postgres"), {"postgres"}, {}),
  is_superuser |-> Fixed("on", "read_only")]

ParamsFromR == [
  role |-> Fixed("none", "refused"),
  search_path |-> Fixed("public", "refused"),
  server_encoding |-> Fixed("utf8", "read_only"),
  server_version |-> Fixed("16.6", "read_only"),
  session_authorization |-> Fixed("", "refused"),
  standard_conforming_strings |-> Matching(Text("on"), IsOn, {}),
  statement_timeout |-> Matching(Text("0"), {"0", "0ms"}, {}),
  timezone |-> Matching(Text("etc/utc"), {"utc", "etc/utc", "gmt", "etc/gmt", "universal", "z"}, {}),
  transaction_isolation |-> Fixed("read uncommitted", "read_only")]

Params == ParamsToI @@ ParamsFromR

Modelled(name) == name \in DOMAIN Params

Accepts(spec, text) ==
  /\ text[1].w \in spec.first /\ ~text[1].neg
  /\ \A i \in 2 .. Len(text) : text[i].w \in spec.rest

\* pg_settings.context: whether a SET can work.
Context(spec) == IF spec.disposition \in {"free", "matching"} THEN "user" ELSE "internal"

-----------------------------------------------------------------------------
(* SessionParams: initial is what startup announced, overrides what was    *)
(* SET since.                                                              *)

ResetVal(initial, p) == IF initial[p] = Unset THEN Params[p].default ELSE initial[p]

ValueOf(initial, overrides, p) ==
  IF p \in DOMAIN overrides THEN overrides[p] ELSE ResetVal(initial, p)

Done(overrides) == [code |-> "ok", overrides |-> overrides]
Refusal(code, overrides) == [code |-> code, overrides |-> overrides]

\* SessionParams::set.
Store(overrides, p, text) == Done((p :> text) @@ overrides)

SetParam(overrides, p, text) ==
  CASE ~Modelled(p) -> Refusal("42704", overrides)
    [] Params[p].disposition = "free" -> Store(overrides, p, text)
    [] Params[p].disposition = "matching" ->
         IF Accepts(Params[p], text) THEN Store(overrides, p, text)
         ELSE Refusal("22023", overrides)
    [] Params[p].disposition = "refused" -> Refusal("0A000", overrides)
    [] OTHER -> Refusal("55P02", overrides)

\* SessionParams::reset and reset_all.
Without(overrides, names) == [p \in DOMAIN overrides \ names |-> overrides[p]]

ResetParam(overrides, p) ==
  IF Modelled(p) THEN Done(Without(overrides, {p})) ELSE Refusal("42704", overrides)

-----------------------------------------------------------------------------
(* The statements.  An item of a value list is an identifier, a string or  *)
(* number, a boolean, one of these under a minus, or an expression.        *)

IsLiteral(item) == item.k # "expression"

SingleValueText(item) ==
  CASE item.k = "boolean" -> Text(IF item.value THEN "on" ELSE "off")
    [] item.k = "minus"   -> [item.text EXCEPT ![1].neg = TRUE]
    [] OTHER              -> item.text

ValueText(items) == FlattenSeq([i \in DOMAIN items |-> SingleValueText(items[i])])

IsDefaultKeyword(items) ==
  Len(items) = 1 /\ items[1].k = "identifier" /\ items[1].text[1].w = "default"

\* apply_to: SET TIME ZONE, the single assignment, and the forms refused.
ApplyTo(set, overrides) ==
  CASE set.form = "other" -> Refusal("0A000", overrides)
    [] set.scope \in {"local", "global"} -> Refusal("0A000", overrides)
    [] set.form = "time_zone" ->
         IF IsLiteral(set.items[1])
         THEN SetParam(overrides, "timezone", SingleValueText(set.items[1]))
         ELSE Refusal("22023", overrides)
    [] IsDefaultKeyword(set.items) ->
         IF set.name = "all" THEN Done(<<>>) ELSE ResetParam(overrides, set.name)
    [] \E i \in DOMAIN set.items : ~IsLiteral(set.items[i]) -> Refusal("22023", overrides)
    [] OTHER -> SetParam(overrides, set.name, ValueText(set.items))

\* parse_reset: RESET is the SET to DEFAULT PostgreSQL defines it to be, when
\* it is alone in the query string.
DefaultOf(name) ==
  [form |-> "assign", scope |-> "none", name |-> name,
   items |-> <<[k |-> "identifier", text |-> Text("default")]>>]

ParseReset(target) ==
  CASE target = "time zone" -> DefaultOf("timezone")
    [] target = "session authorization" -> DefaultOf("session_authorization")
    [] OTHER -> DefaultOf(target)

\* show_target.
ShowTarget(phrase) ==
  CASE phrase = "time zone" -> "timezone"
    [] phrase = "transaction isolation level" -> "transaction_isolation"
    [] OTHER -> phrase

-----------------------------------------------------------------------------
(* What a client is told.                                                  *)

\* One row of SHOW ALL and, with its provenance, of pg_settings.
Setting(initial, overrides, p) ==
  [setting   |-> ValueOf(initial, overrides, p),
   context   |-> Context(Params[p]),
   source    |-> IF p \in DOMAIN overrides THEN "session" ELSE "default",
   reset_val |-> ResetVal(initial, p),
   boot_val  |-> Params[p].default]

SettingsOf(initial, overrides) == [p \in DOMAIN Params |-> Setting(initial, overrides, p)]

ShowAll(initial, overrides) == [p \in DOMAIN Params |-> ValueOf(initial, overrides, p)]
=============================================================================
