-------------------------------- MODULE Names --------------------------------
(***************************************************************************)
(* How a relation's name is read: folded to the catalog key                *)
(* (query_router.rs), turned into the reference its table provider is      *)
(* registered under and respelled in a statement (parser.rs), and judged   *)
(* metadata or user data (catalog_routing.rs).                             *)
(*                                                                         *)
(* A word is a name without a dot and whether it is written with capitals; *)
(* a text is a sequence of words, joined by dots.  An identifier is a text *)
(* and whether it is quoted, a name a sequence of identifiers.             *)
(***************************************************************************)
EXTENDS Integers, Sequences, SequencesExt

Word(w, up) == [w |-> w, up |-> up]
DefaultSchema == <<Word("public", FALSE)>>

Lower(text) == [i \in DOMAIN text |-> [text[i] EXCEPT !.up = FALSE]]

-----------------------------------------------------------------------------
(* query_router.rs: the catalog key of a name.                             *)

CanonicalizeIdent(ident) == IF ident.quoted THEN ident.text ELSE Lower(ident.text)

\* canonical_schema_and_table: the last two parts.
SchemaPart(name) == IF Len(name) = 1 THEN DefaultSchema ELSE CanonicalizeIdent(name[Len(name) - 1])
RelationPart(name) == CanonicalizeIdent(name[Len(name)])

QualifiedName(schema, relation) ==
  IF schema = DefaultSchema THEN relation ELSE schema \o relation

CanonicalTableName(name) == QualifiedName(SchemaPart(name), RelationPart(name))

\* schema_of and relation_of split a key at its first dot.
SchemaOf(key) == IF Len(key) = 1 THEN DefaultSchema ELSE <<Head(key)>>
RelationOf(key) == IF Len(key) = 1 THEN key ELSE Tail(key)

\* table_reference: the parts a provider is registered under.
TableReference(key) == IF Len(key) = 2 THEN <<<<key[1]>>, <<key[2]>>>> ELSE <<key>>

-----------------------------------------------------------------------------
(* parser.rs: canonicalize_relation_names.                                 *)

Spells(name, parts) ==
  Len(name) = Len(parts) /\ \A i \in DOMAIN parts : name[i].text = parts[i]


Respelled(name, parts) ==
  IF Spells(name, parts) THEN name
  ELSE [i \in DOMAIN parts |-> [text |-> parts[i], quoted |-> TRUE]]

\* External: the slot DataFusion's planner looks a name up in, and the one a
\* reference is registered in.  Neither folds a quoted part nor splits it.
Slot(parts) == IF Len(parts) = 1 THEN <<DefaultSchema, parts[1]>> ELSE <<parts[1], parts[2]>>
LookedUp(name) == Slot([i \in DOMAIN name |-> CanonicalizeIdent(name[i])])
Registered(key) == Slot(TableReference(key))

-----------------------------------------------------------------------------
(* catalog_routing.rs: metadata or user data.                              *)

CatalogSchemas == {"pg_catalog", "information_schema", "vairedb_catalog"}

\* The prefix is looked for in the name as displayed, quotes and all, folded.
HasCatalogPrefix(name) ==
  Len(name) > 1 /\ ~name[1].quoted /\ name[1].text[1].w \in CatalogSchemas

TrailingIdentifier(name) == name[Len(name)].text

\* is_metadata, with the registered pg_catalog names or with their prefix.
IsMetadata(name, bare) == HasCatalogPrefix(name) \/ Lower(TrailingIdentifier(name)) \in bare

ReferencesCatalogSchema(names, catalogNames) ==
  \E i \in DOMAIN names : IsMetadata(names[i], catalogNames)

ReadsMetadata(names, pgPrefixed) == \E i \in DOMAIN names : IsMetadata(names[i], pgPrefixed)

\* reject_catalog_join_to_user_data looks the trailing identifier up as written.
RejectsJoin(names, pgPrefixed, tables) ==
  \E i \in DOMAIN names :
    ~IsMetadata(names[i], pgPrefixed) /\ TrailingIdentifier(names[i]) \in tables
=============================================================================
