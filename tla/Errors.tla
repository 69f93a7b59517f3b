------------------------------- MODULE Errors -------------------------------
(***************************************************************************)
(* How a failure becomes a SQLSTATE and a message.  A read may fail on the *)
(* coordinator, where the engine's error is still a value, or on an        *)
(* executor, from where it arrives as text under some wrapper; a write     *)
(* fails on a storage node, which names a code.                            *)
(*                                                                         *)
(* A text is what the classifiers tell apart in it: the variants its       *)
(* rendering spells, outermost first, each at a structural position or in  *)
(* prose, with the words the spelling itself says; the Arrow variant at    *)
(* its front; the words of its message; a [VDB-n] tag; what the physical   *)
(* planner refused.  A message to sanitize is the sequence of its layers.  *)
(***************************************************************************)
EXTENDS Naturals, Sequences, FiniteSets

CONSTANTS None

MaxTransportLayers == 8

Unknown == {"EngineError", "InternalError"}

\* The PostgreSQL class of a code.
SqlState(code) ==
  CASE code \in {"TableNotFound", "ShardNotFound"} -> "42P01"
    [] code = "ColumnNotFound" -> "42703"
    [] code = "TypeMismatch" -> "42804"
    [] code = "SqlSyntaxError" -> "42601"
    [] code = "FeatureNotSupported" -> "0A000"
    [] code = "NumericValueOutOfRange" -> "22003"
    [] code = "DivisionByZero" -> "22012"
    [] code = "InvalidTextRepresentation" -> "22P02"
    [] code = "InvalidParameterValue" -> "22023"
    [] code = "GroupingError" -> "42803"
    [] code = "WindowingError" -> "42P20"
    [] code = "InvalidArgumentForNthValue" -> "22016"
    [] code = "WriteConflict" -> "40001"
    [] code \in {"WriteQueueFull", "QuorumNotReached", "NoAliveNodes", "CatalogTransactionError"} -> "53000"
    [] code \in {"NodeUnavailable", "ShardUnavailable"} -> "08001"
    [] code = "NodeCommunicationError" -> "08006"
    [] code = "NodeNotFound" -> "58000"
    [] code = "ShardNotAssigned" -> "55000"
    [] code = "CatalogStorageError" -> "58030"
    [] code = "CatalogCommitError" -> "40000"
    [] OTHER -> "XX000"

-----------------------------------------------------------------------------
(* An error still in hand: [v, text, inner], inner for the wrappers.       *)

IsDivideByZero(words) == words \cap {"divide by zero", "division by zero"} # {}

NamesATable(words) == {"table", "not found"} \subseteq words \/ "no table named" \in words

ClassifyPlanMessage(words) ==
  CASE "aggregates nested" \in words -> "GroupingError"
    [] words \cap {"window function", "over clause"} # {} -> "WindowingError"
    [] words \cap {"no function matches", "invalid function", "not supported"} # {} -> "FeatureNotSupported"
    [] words \cap {"no field named", "ambiguous"} # {} -> "ColumnNotFound"
    [] NamesATable(words) -> "TableNotFound"
    [] words \cap {"cannot cast", "type mismatch"} # {} -> "TypeMismatch"
    [] OTHER -> "SqlSyntaxError"

ClassifyExecutionMessage(words) ==
  CASE IsDivideByZero(words) -> "DivisionByZero"
    [] "overflow" \in words -> "NumericValueOutOfRange"
    [] \/ {"cannot cast", "string"} \subseteq words
       \/ words \cap {"invalid input syntax", "error parsing"} # {} -> "InvalidTextRepresentation"
    [] OTHER -> "EngineError"

ClassifyArrowError(head) ==
  CASE head = "DivideByZero" -> "DivisionByZero"
    [] head = "ArithmeticOverflow" -> "NumericValueOutOfRange"
    [] head \in {"CastError", "ParseError"} -> "InvalidTextRepresentation"
    [] head = "NotYetImplemented" -> "FeatureNotSupported"
    [] head = "SchemaError" -> "ColumnNotFound"
    [] OTHER -> "EngineError"

\* The first rule that matches decides.
ClassifyGenericErrorCode(words) ==
  CASE NamesATable(words) -> "TableNotFound"
    [] {"shard", "not found"} \subseteq words -> "ShardNotFound"
    [] \/ words \cap {"no field named", "ambiguous"} # {}
       \/ {"column", "not found"} \subseteq words -> "ColumnNotFound"
    [] words \cap {"type mismatch", "cannot cast"} # {} -> "TypeMismatch"
    [] words \cap {"syntax error", "unexpected token"} # {} -> "SqlSyntaxError"
    [] words \cap {"feature is not implemented", "not yet implemented", "not supported", "unsupported",
                   "no function matches", "invalid function"} # {} -> "FeatureNotSupported"
    [] words \cap {"resources exhausted", "memory limit"} # {} -> "WriteQueueFull"
    [] IsDivideByZero(words) -> "DivisionByZero"
    [] "overflow" \in words -> "NumericValueOutOfRange"
    [] "duplicate key" \in words -> "WriteConflict"
    [] words \cap {"null value", "check constraint"} # {} -> "EngineError"
    [] {"connection", "refused"} \subseteq words -> "NodeUnavailable"
    [] OTHER -> "InternalError"

\* Everything a text says, its rendering's own words included.
Words(text) == text.words \cup UNION {text.layers[i].says : i \in DOMAIN text.layers}

RECURSIVE ClassifyDatafusionErrorCode(_)
ClassifyDatafusionErrorCode(e) ==
  CASE e.inner # None -> ClassifyDatafusionErrorCode(e.inner)
    [] e.v \in {"NotImplemented", "Substrait"} -> "FeatureNotSupported"
    [] e.v = "Sql" -> "SqlSyntaxError"
    [] e.v = "Schema" -> "ColumnNotFound"
    [] e.v = "Plan" -> ClassifyPlanMessage(Words(e.text))
    [] e.v = "Execution" -> ClassifyExecutionMessage(Words(e.text))
    [] e.v = "Arrow" -> ClassifyArrowError(e.text.head)
    [] e.v = "ResourcesExhausted" -> "WriteQueueFull"
    [] e.v = "External" -> ClassifyGenericErrorCode(Words(e.text))
    [] e.v \in {"Internal", "Configuration"} -> "InternalError"
    [] OTHER -> "EngineError"

-----------------------------------------------------------------------------
(* Rendering, by the engine and the scheduler, and what is read back.      *)

\* The variants a rendering spells recognisably.
Markers ==
  {"Arrow", "Configuration", "Execution", "ExecutionJoin", "Internal", "Io", "NotImplemented", "Plan",
   "ResourcesExhausted", "Schema", "Sql", "Substrait"}

\* The words of a Display prefix; a Debug constructor says none of them.
PrefixSays(v, spelling) ==
  CASE spelling = "debug" -> {}
    [] v = "NotImplemented" -> {"feature is not implemented"}
    [] v = "ResourcesExhausted" -> {"resources exhausted"}
    [] v = "Configuration" -> {"unsupported"}
    [] OTHER -> {}

ArrowSays(head, spelling) ==
  CASE head = "ArithmeticOverflow" -> {"overflow"}
    [] spelling = "debug" -> {}
    [] head = "DivideByZero" -> {"divide by zero"}
    [] head = "NotYetImplemented" -> {"not yet implemented"}
    [] OTHER -> {}

RECURSIVE Render(_, _)
Render(e, spelling) ==
  IF e.inner # None THEN Render(e.inner, spelling)
  ELSE [e.text EXCEPT
          !.layers = (IF e.v \in Markers
                      THEN <<[v |-> e.v, structural |-> TRUE, says |-> PrefixSays(e.v, spelling)]>>
                      ELSE <<>>) \o @,
          !.words = @ \cup ArrowSays(e.text.head, spelling)]

\* The error the scheduler hands back for one raised on an executor.
Arrived(e, spelling, wrapper) == [v |-> wrapper, text |-> Render(e, spelling), inner |-> None]


\* The outermost variant a renderer put there, and what it carries.
Peel(text) ==
  LET at == {i \in DOMAIN text.layers : text.layers[i].structural}
      first == CHOOSE i \in at : \A j \in at : i <= j
  IN IF at = {} THEN None
     ELSE [v |-> text.layers[first].v,
           text |-> [text EXCEPT !.layers = SubSeq(@, first + 1, Len(@))]]

RECURSIVE RecoverFrom(_, _, _)
RecoverFrom(text, recovered, passes) ==
  LET peeled == Peel(text)
  IN IF passes = 0 \/ peeled = None THEN recovered
     ELSE RecoverFrom(peeled.text, peeled, passes - 1)

RecoverTransportedError(text) == RecoverFrom(text, None, MaxTransportLayers)

ClassifyTransported(recovered) ==
  CASE recovered.v = "Arrow" -> ClassifyArrowError(recovered.text.head)
    [] recovered.v \in {"NotImplemented", "Substrait"} -> "FeatureNotSupported"
    [] recovered.v = "Sql" -> "SqlSyntaxError"
    [] recovered.v = "Schema" -> "ColumnNotFound"
    [] recovered.v = "Plan" -> ClassifyPlanMessage(Words(recovered.text))
    [] recovered.v = "Execution" -> ClassifyExecutionMessage(Words(recovered.text))
    [] recovered.v = "ResourcesExhausted" -> "WriteQueueFull"
    [] recovered.v \in {"Internal", "Configuration"} -> "InternalError"
    [] OTHER -> "EngineError"

\* The refusals VaireDB's own functions word.
FunctionCode(words) ==
  CASE words \cap {"hex digit", "odd digits"} # {} -> "InvalidParameterValue"
    [] "invalid input syntax" \in words -> "InvalidTextRepresentation"
    [] "nth_value offset" \in words -> "InvalidArgumentForNthValue"
    [] OTHER -> None

PhysicalExprRefusal(text) ==
  CASE text.refusal = "AggregateFunction" -> "GroupingError"
    [] text.refusal = "WindowFunction" -> "WindowingError"
    [] OTHER -> None

\* A tag beats a refusal, a refusal a classification, and only an answer of
\* "unknown" is read back out of the text.
ReclassifyTransportedError(raw, code) ==
  CASE raw.tag # None -> raw.tag
    [] PhysicalExprRefusal(raw) # None -> PhysicalExprRefusal(raw)
    [] code \notin Unknown -> code
    [] /\ RecoverTransportedError(raw) # None
       /\ ClassifyTransported(RecoverTransportedError(raw)) \notin Unknown
         -> ClassifyTransported(RecoverTransportedError(raw))
    [] FunctionCode(Words(raw)) # None -> FunctionCode(Words(raw))
    [] OTHER -> code

EnrichDatafusionError(e) ==
  SqlState(ReclassifyTransportedError(Render(e, "display"), ClassifyDatafusionErrorCode(e)))

-----------------------------------------------------------------------------
(* A write's failure: what the node says, and the coordinator of it.       *)

FromDuckdb(words) ==
  CASE {"table", "not found"} \subseteq words -> "ShardNotFound"
    [] IsDivideByZero(words) -> "DivisionByZero"
    [] "duplicate key" \in words -> "WriteConflict"
    [] words \cap {"conversion error", "cannot cast", "type mismatch"} # {} -> "TypeMismatch"
    [] OTHER -> "EngineError"

\* A code the coordinator does not know is the engine's.
VdbErrorCode(err, known) ==
  CASE err.v = "NodeExecFailed" -> IF err.code \in known THEN err.code ELSE "EngineError"
    [] err.v = "Grpc" ->
         CASE err.code = "NotFound" -> "ShardNotFound"
           [] err.code \in {"Unavailable", "DeadlineExceeded"} -> "NodeUnavailable"
           [] err.code = "ResourceExhausted" -> "WriteQueueFull"
           [] OTHER -> "InternalError"
    [] err.v = "GrpcTransport" -> "NodeCommunicationError"
    [] OTHER -> err.v

-----------------------------------------------------------------------------
(* The message: a sequence of layers around "words".                       *)

RECURSIVE StripKnownPrefixes(_)
StripKnownPrefixes(msg) ==
  IF msg # <<>> /\ Head(msg) = "prefix" THEN StripKnownPrefixes(Tail(msg)) ELSE msg

UnwrapGrpcStatus(msg) ==
  LET at == {i \in DOMAIN msg : msg[i] = "status"}
      first == CHOOSE i \in at : \A j \in at : i <= j
  IN IF at = {} THEN msg ELSE SubSeq(msg, 1, first - 1) \o SubSeq(msg, first + 1, Len(msg))

ElideSignatureDumps(msg) == [i \in DOMAIN msg |-> IF msg[i] = "signature" THEN "elided" ELSE msg[i]]

StripCodeTags(msg) == SelectSeq(msg, LAMBDA layer : layer # "tag")

\* Only a dump that is the whole message.
UnwrapDebugWrapper(msg) == IF msg # <<>> /\ Head(msg) = "debug" THEN Tail(msg) ELSE msg

UnwrapTransportLayer(msg) ==
  UnwrapDebugWrapper(StripCodeTags(StripKnownPrefixes(ElideSignatureDumps(UnwrapGrpcStatus(msg)))))

RECURSIVE Unwrapped(_, _)
Unwrapped(msg, passes) ==
  LET next == UnwrapTransportLayer(msg)
  IN IF passes = 0 \/ next = msg THEN msg ELSE Unwrapped(next, passes - 1)

StripExecutorWrapper(msg) ==
  LET at == {i \in DOMAIN msg : msg[i] = "executor"}
      first == CHOOSE i \in at : \A j \in at : i <= j
  IN IF at = {} THEN msg ELSE SubSeq(msg, first + 1, Len(msg))

ScrubNodeAddresses(msg) == [i \in DOMAIN msg |-> IF msg[i] = "address" THEN "[node]" ELSE msg[i]]

SanitizeMessage(msg) == ScrubNodeAddresses(StripExecutorWrapper(Unwrapped(msg, MaxTransportLayers)))
=============================================================================
