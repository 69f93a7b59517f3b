----------------------------- MODULE MCReadPath -----------------------------
(***************************************************************************)
(* Small instances of ReadPath and of the operators of Names.  A behaviour *)
(* follows one connection that sets and shows its parameters ("settings"), *)
(* one that reads what others change ("reads"), or examines one relation   *)
(* name ("names").                                                         *)
(***************************************************************************)
EXTENDS ReadPath, FiniteSets

CONSTANTS MaxChanges,   \* catalog changes by other connections
          MaxWrites,    \* writes by other connections
          MaxColumns    \* columns t may have, definitions v may have

VARIABLES part, name, changes,
          want    \* what PostgreSQL would report for each parameter

N == INSTANCE Names

mcvars == <<vars, part, name, changes, want>>

-----------------------------------------------------------------------------
(* The statements of the two connections.                                  *)

Item(k, text) == [k |-> k, text |-> text]
Assign(scope, p, items) ==
  [k |-> "set", set |-> [form |-> "assign", scope |-> scope, name |-> p, items |-> items]]
TimeZone(item) ==
  [k |-> "set", set |-> [form |-> "time_zone", scope |-> "none", name |-> "timezone",
                         items |-> <<item>>]]
Reset(target) == [k |-> "set", set |-> ParseReset(target)]
Capital(w) == <<[w |-> w, up |-> TRUE, neg |-> FALSE]>>

Sets ==
  {Assign("none", "datestyle", <<Item("identifier", Capital("iso")), Item("identifier", Text("dmy"))>>),
   Assign("none", "datestyle", <<Item("string", <<Word("iso"), Word("german")>>)>>),
   Assign("session", "standard_conforming_strings", <<[k |-> "boolean", value |-> TRUE]>>),
   Assign("none", "standard_conforming_strings", <<[k |-> "boolean", value |-> FALSE]>>),
   Assign("none", "extra_float_digits", <<Item("minus", Text("1"))>>),
   Assign("none", "search_path", <<Item("identifier", Text("sales"))>>),
   Assign("none", "server_version", <<Item("expression", <<>>)>>),
   Assign("local", "application_name", <<Item("string", Text("other"))>>),
   Assign("none", "no_such", <<Item("string", Text("on"))>>),
   TimeZone(Item("string", Capital("gmt"))),
   TimeZone(Item("identifier", Text("default"))),
   [k |-> "set", set |-> [form |-> "other", scope |-> "none", name |-> "", items |-> <<>>]],
   Reset("all"), Reset("datestyle"), Reset("time zone")}

Show1(target) == [k |-> "show", target |-> target]
Shows == {Show1("all"), Show1("datestyle"), Show1("time zone"), Show1("no_such")}

Select(rel, con) == [k |-> "select", rel |-> rel, con |-> con]
Explain(mode, rel, con) == [k |-> "explain", mode |-> mode, rel |-> rel, con |-> con]
Control(op) == [k |-> "control", op |-> op]

SettingsStatements == Sets \cup Shows \cup {Select("pg_settings", "plain"), Control("begin"), Control("end")}

ReadStatements ==
  {Select(rel, "plain") : rel \in {"t", "v"} \cup Virtual}
  \cup {Select("t", "sum"), Select("v", "rank")}
  \cup {Explain(mode, "t", "sum") : mode \in {"plan", "analyze", "describe"}}
  \cup {Explain("plan", "v", "plain"), Explain("write", "t", "plain"),
        [k |-> "other"], Control("begin"), Control("end")}

Sendable == IF part = "settings" THEN SettingsStatements ELSE ReadStatements

\* Query strings: one statement, or a change followed by a look.
Strings ==
  {<<s>> : s \in Sendable}
  \cup (IF part = "settings"
        THEN {<<s, l>> : s \in Sets, l \in {Show1("all"), Select("pg_settings", "plain")}}
        ELSE {<<Select("t", "plain"), s>> : s \in {Select("v", "plain"), Select("tables", "plain")}})

-----------------------------------------------------------------------------
(* Names.                                                                  *)

Idents(words) == {[text |-> <<N!Word(w, up)>>, quoted |-> q] : w \in words, up \in BOOLEAN, q \in BOOLEAN}
Schemas == Idents({"public", "sales", "vairedb_catalog"})
RelationIdents == Idents({"orders", "pg_class"})
Database == [text |-> <<N!Word("vairedb", FALSE)>>, quoted |-> FALSE]

RelationNames ==
  {<<r>> : r \in RelationIdents}
  \cup {<<s, r>> : s \in Schemas, r \in RelationIdents}
  \cup {<<Database, s, r>> : s \in Schemas, r \in RelationIdents}

CatalogNames == {<<N!Word("pg_class", FALSE)>>}
NoName == <<[text |-> <<N!Word("orders", FALSE)>>, quoted |-> FALSE]>>

-----------------------------------------------------------------------------
(* PostgreSQL's own reading of a SET it accepts, kept apart from ApplyTo.  *)

Assigned(items) ==
  CASE items[1].k = "boolean" -> IF items[1].value THEN Text("on") ELSE Text("off")
    [] Len(items) = 2         -> items[1].text \o items[2].text
    [] OTHER                  -> items[1].text

Opening == [p \in DOMAIN Params |-> IF p = "timezone" THEN Text("etc/utc") ELSE Params[p].default]

Defaulted(items) == items[1].k = "identifier" /\ items[1].text = Text("default")

Wanted(set) ==
  CASE Defaulted(set.items) /\ set.name = "all" -> Opening
    [] Defaulted(set.items) -> [want EXCEPT ![set.name] = Opening[set.name]]
    [] OTHER                -> [want EXCEPT ![set.name] = Assigned(set.items)]

Follow(stmt) ==
  want' = IF stmt.k = "set" /\ overrides' # overrides THEN Wanted(stmt.set) ELSE want

-----------------------------------------------------------------------------
MCInit ==
  /\ Init
  /\ part \in {"settings", "reads", "names"}
  /\ name \in IF part = "names" THEN RelationNames ELSE {NoName}
  /\ part # "reads" => catalog.t = 1
  /\ changes = 0
  /\ want = Opening

Ours ==
  \/ batch = <<>> /\ \E stmts \in Strings : SimpleQuery(stmts) /\ UNCHANGED want
  \/ RunStatement /\ Follow(Head(batch))
  \/ batch = <<>> /\ \E slot \in Slots, s \in Sendable :
                       Parse(slot, <<s, Control("end")>>) /\ UNCHANGED want
  \/ \E slot \in Slots : Describe(slot) /\ UNCHANGED want
  \/ \E slot \in Slots : Execute(slot) /\ Follow(prepared[slot].stmt)

Others ==
  /\ part = "reads"
  /\ \/ /\ changes < MaxChanges
        /\ changes' = changes + 1
        /\ \E t \in 0 .. MaxColumns, v \in 0 .. MaxColumns :
             (v # catalog.v => t >= v) /\ ChangeCatalog([t |-> t, v |-> v])
     \/ data < MaxWrites /\ OtherWrite /\ UNCHANGED changes
  /\ UNCHANGED want

MCNext ==
  /\ part # "names"
  /\ UNCHANGED <<part, name>>
  /\ (Ours /\ UNCHANGED changes) \/ Others

MCSpec == MCInit /\ [][MCNext]_mcvars

-----------------------------------------------------------------------------
(* What is checked.                                                        *)

\* The answer to the statement that has just run, as a set of at most one.
Answers == IF reply = Nothing THEN {} ELSE {reply.answers[Len(reply.answers)]}

\* What Describe announced of a prepared statement, through get_result_schema,
\* is what Execute sends whenever it sends rows: whatever other connections did
\* to the catalog in between (parser.rs:862-866).
DescribedIsSent ==
  \A slot \in Slots, answer \in Answers :
    (reply.slot = slot /\ described[slot] # Nothing /\ answer.code = "ok")
      => answer.fields = described[slot]

\* The values of a matching parameter that are what the coordinator does.
Honest ==
  [datestyle |-> {<<Word("iso"), Word("ymd")>>, Capital("iso") \o Text("dmy")},
   standard_conforming_strings |-> {Text("on")},
   extra_float_digits |-> {Text("1")},
   timezone |-> {Text("etc/utc"), Capital("gmt")}]

LastSettings(stmt, rows) ==
  CASE stmt.k = "show" /\ stmt.target = "all" -> rows
    [] stmt.k = "show" -> [p \in {ShowTarget(stmt.target)} |-> rows]
    [] OTHER -> [p \in DOMAIN rows |-> rows[p].setting]

TellsSettings(answer) ==
  answer.code = "ok" /\ (answer.stmt.k = "show"
                         \/ (answer.stmt.k = "select" /\ answer.stmt.rel = "pg_settings"))

\* SHOW, SHOW ALL and pg_settings report one truth, simple or prepared: what the
\* last accepted SET or RESET left, for a matching parameter always something
\* the coordinator really does (session_params.rs:430-466, pg_settings.rs).
SettingsAreTruthful ==
  \A answer \in Answers :
    TellsSettings(answer) =>
      \A p \in DOMAIN LastSettings(answer.stmt, answer.rows) :
        /\ LastSettings(answer.stmt, answer.rows)[p] = want[p]
        /\ p \in DOMAIN Honest => want[p] \in Honest[p]

Reads(answer, rels) == answer.code = "ok" /\ answer.stmt.k = "select" /\ answer.stmt.rel \in rels

\* A read of a user table or view returns the rows of the moment it runs, even
\* from a plan kept since Parse; a read in a simple query also sees the views,
\* the columns and the catalog of that moment (handler.rs:633-665, 715-737).
ReadsAreFresh ==
  \A answer \in Answers :
    /\ Reads(answer, {"t", "v"}) => answer.rows.data = data
    /\ (reply.slot = Nothing /\ Reads(answer, {"v"})) => answer.rows.bound.def = catalog.v
    /\ (reply.slot = Nothing /\ Reads(answer, {"t"})) => answer.rows.bound.shape = catalog.t
    /\ (reply.slot = Nothing /\ Reads(answer, {"columns"}))
         => Cardinality(answer.rows.bound.rows) = catalog.t

\* Each virtual table is materialized "on demand from the live catalog state"
\* (schema_provider.rs:40): a read of one returns the catalog it ran against.
VirtualTablesAreLive ==
  \A answer \in Answers :
    Reads(answer, Virtual) /\ reply.slot # Nothing =>
      answer.rows.bound.rows = BuildProvider(answer.stmt.rel, catalog)

\* "an EXPLAIN is that same plan rendered rather than executed"
\* (introspection.rs:6-12): it shows the plan the query would be run with.
ExplainIsWhatRuns ==
  \A answer \in Answers :
    (answer.code = "ok" /\ answer.stmt.k = "explain" /\ reply.slot = Nothing) =>
      answer.rows.types = PlanSelect(answer.stmt, catalog).types

Folded(ident) == IF ident.quoted THEN ident.text ELSE N!Lower(ident.text)

\* The relation a name means in PostgreSQL, with public as the search path.
Means(n) ==
  <<IF Len(n) = 1 THEN <<N!Word("public", FALSE)>> ELSE Folded(n[Len(n) - 1]), Folded(n[Len(n)])>>

Reaches(n) == N!LookedUp(N!Respelled(n, N!TableReference(N!CanonicalTableName(n))))


UserName(n) == Means(n)[1][1].w # "vairedb_catalog" /\ Means(n)[2][1].w # "pg_class"

\* A statement over user relations alone is never taken for metadata, one that
\* names a catalog schema bare always is, and a statement mixing the two is
\* refused when the user relation is written by its bare key
\* (catalog_routing.rs:73-177).
MetadataIsRouted ==
  part = "names" =>
    /\ UserName(name) => ~N!ReferencesCatalogSchema(<<name>>, CatalogNames)
    /\ \A other \in RelationNames :
         (Len(other) = 2 /\ ~other[1].quoted /\ other[1].text[1].w = "vairedb_catalog") =>
            /\ N!ReferencesCatalogSchema(<<name, other>>, CatalogNames)
            /\ N!ReadsMetadata(<<name, other>>, CatalogNames)
            /\ (UserName(name) /\ Len(name) = 1 /\ ~name[1].text[1].up) =>
                 N!RejectsJoin(<<name, other>>, CatalogNames, {N!CanonicalTableName(name)})
=============================================================================
