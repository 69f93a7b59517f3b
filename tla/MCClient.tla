------------------------------ MODULE MCClient ------------------------------
(***************************************************************************)
(* What a client's connection sees, in three parts that share nothing:     *)
(* COPY (Copy), settings, reads and names (ReadPath and Names,             *)
(* see MCReadPath), and the conversions between its text and its result    *)
(* (see MCWire).  A behaviour belongs to one part; the others stand still. *)
(***************************************************************************)
EXTENDS Copy

CONSTANTS Slots, Nothing, NoPlan, Unset, MaxChanges, MaxWrites, MaxColumns, None

VARIABLES part,
          catalog, data, initial, overrides, rpBlock, prepared, described, batch, responses,
          reply, rpPart, name, changes, want,
          input, item, seen

-----------------------------------------------------------------------------
(* COPY: statements, the files clients send and what the table holds.      *)

K == <<"k">>
V == <<"v">>
MCColumns == <<K, V>>
MixedColumns == <<K, <<"V">>>>

Option(o, value) == [name |-> o, value |-> value]
Copies(to, endpoint, columns, options) ==
  [to |-> to, source |-> "table", endpoint |-> endpoint, columns |-> columns, options |-> options,
   inline |-> FALSE]

Header == <<Option("format", "csv"), Option("header", TRUE)>>
Plain == <<Option("format", "csv")>>
AsParquet == <<Option("format", "parquet")>>
Odd == <<Option("quote", "'"), Option("format", "csv"), Option("delimiter", "|")>>

\* COPY FROM, from the client and from a file.
Imports ==
  {Copies(FALSE, e, << >>, o) : e \in {"client", "file"}, o \in {Header, Plain}}
  \cup {Copies(FALSE, e, <<V, K>>, Header) : e \in {"client", "file"}}
  \cup {Copies(FALSE, "file", << >>, AsParquet)}

Exports ==
  {Copies(TRUE, e, c, o) : e \in {"client", "file"}, c \in {<< >>, <<K>>}, o \in {Header, Plain, Odd}}
  \cup {Copies(TRUE, "file", << >>, AsParquet), [Copies(TRUE, "client", << >>, Header) EXCEPT !.source = "query"]}

\* Statements that are refused before any data is read.
Bad ==
  {Copies(FALSE, "client", <<V>>, Plain), Copies(FALSE, "client", <<K, <<"x">>>>, Plain),
   Copies(FALSE, "client", << >>, AsParquet), Copies(FALSE, "program", << >>, Plain),
   Copies(FALSE, "client", << >>, << >>), Copies(FALSE, "client", << >>, <<Option("legacy csv", TRUE), Option("null", "x")>>),
   Copies(TRUE, "file", << >>, <<Option("header", TRUE), Option("format", "parquet")>>),
   Copies(TRUE, "file", << >>, <<Option("format", "csv"), Option("quote", "e'")>>),
   Copies(FALSE, "client", << >>, <<Option("format", "text")>>),
   [Copies(FALSE, "client", << >>, Plain) EXCEPT !.inline = TRUE],
   [Copies(FALSE, "client", << >>, Plain) EXCEPT !.source = "query"]}

MCStatements == Imports \cup Exports \cup Bad

N == Newline
Q == "\""
MCUploads ==
  {<< >>, <<N>>,
   <<"k", ",", "v", N, "1", ",", "a", N, "2", ",", N, "3", ",", "b">>,
   <<"v", ",", "k", Return, N, "a", ",", "1", Return, N>>,
   <<"k", ",", Q, "v", Q, N, "1", ",", Q, "a", N, Q, Q, Q, N>>,
   <<"1", ",", Q, ",", Q, N, N, "2">>,
   <<Q, "1", N, Q, ",", "a", N, "2", ",", "b", N>>,
   <<"1", ",", "a", ",", "b">>,
   <<"v", N, "1", N>>,
   <<"k", "k", "k", "k", "k", "k", "k", "k", "k">>}

MCParquetFiles ==
  {[fields |-> <<V, K>>, batches |-> <<<<<< <<"a">>, <<"1">> >>, << Null, <<"2">> >>>>, <<<< <<"b">>, <<"3">> >>>>>>],
   [fields |-> <<K, V>>, batches |-> <<<<<< <<"1">>, <<"a">> >>>>, Null>>],
   [fields |-> <<V>>, batches |-> <<<<<< <<"a">> >>>>>>]}

Held2(k, v) == Row(<<TableColumns[1], TableColumns[2]>>, <<k, v>>)
MCContents ==
  {<< >>, <<Held2(<<"1">>, Null)>>,
   <<Held2(<<"1">>, <<"a", ",", "b">>), Held2(<<"|", "'">>, <<N, Q, Q>>), Held2(<<"2">>, <<Return>>)>>}

-----------------------------------------------------------------------------
RP == INSTANCE MCReadPath WITH block <- rpBlock, part <- rpPart
WI == INSTANCE MCWire WITH part <- input

rpvars == <<catalog, data, initial, overrides, rpBlock, prepared, described, batch, responses,
            reply, rpPart, name, changes, want>>
wivars == <<input, item, seen>>

\* A part that stands still has one name, or one input, to start from.
ClientInit ==
  /\ part \in {"copy", "reads", "wire"}
  /\ Init
  /\ RP!MCInit /\ (part # "reads" => rpPart = "names" /\ name = RP!NoName)
  /\ IF part = "wire" THEN WI!Init ELSE input = "subscript" /\ item = None /\ seen = FALSE

ClientNext ==
  \/ part = "copy" /\ Next /\ UNCHANGED <<part, rpvars, wivars>>
  \/ part = "reads" /\ RP!MCNext /\ UNCHANGED <<part, vars, wivars>>
  \/ part = "wire" /\ WI!Next /\ UNCHANGED <<part, vars, rpvars>>

ClientSpec == ClientInit /\ [][ClientNext]_<<part, vars, rpvars, wivars>>

-----------------------------------------------------------------------------

\* Through errors, aborts and extended messages the connection stays in step: a
\* sink is left exactly while pgwire takes copy data, no finished request waits
\* for an answer nobody will send, and only what changes between Parse and
\* Execute leaves a ReadyForQuery too many (precheck_copy_from_stdin, on_copy_fail;
\* SinkIsThePhase, NothingIsSwallowed, OnlyChangesLeadAstray).
CopyStaysInStep == part = "copy" => SinkIsThePhase /\ NothingIsSwallowed /\ OnlyChangesLeadAstray

\* What Describe announced is what Execute sends, SHOW and pg_settings tell what
\* the last accepted SET left, and a read returns the rows of the moment it runs,
\* whatever other connections change in between (get_result_schema,
\* session_params.rs, handler.rs; DescribedIsSent, SettingsAreTruthful,
\* ReadsAreFresh).
ReadsAreTruthful ==
  part = "reads" => RP!DescribedIsSent /\ RP!SettingsAreTruthful /\ RP!ReadsAreFresh




=============================================================================
