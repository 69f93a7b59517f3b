-------------------------------- MODULE Csv ---------------------------------
(***************************************************************************)
(* CSV as COPY reads and writes it.  Text is a sequence of characters, and *)
(* a dialect says which one separates fields and which one quotes them.    *)
(*                                                                         *)
(* The reader and the writer are arrow-csv's and are given by what they    *)
(* do; first_record (copy_stream.rs) is the scan the coordinator does of   *)
(* the first record, before the reader has a schema.                       *)
(***************************************************************************)
EXTENDS Integers, Sequences, FiniteSets, SequencesExt

CONSTANT Null

Newline == "\n"
Return == "\r"

-----------------------------------------------------------------------------
(***************************************************************************)
(* The library's reader, for text whose quotes open and close whole fields *)
(***************************************************************************)

\* Whether position i of text b is inside quotes.
InQuotes(b, i, d) == Cardinality({j \in 1..(i - 1) : b[j] = d.quote}) % 2 = 1

\* Positions of c outside quotes.
Bare(b, c, d) == {i \in DOMAIN b : b[i] = c /\ ~InQuotes(b, i, d)}

Least(S) == CHOOSE i \in S : \A j \in S : i <= j

RECURSIVE Undoubled(_, _)
Undoubled(b, q) ==
  CASE b = << >> -> << >>
    [] b # << >> /\ Len(b) > 1 /\ b[1] = q /\ b[2] = q -> <<q>> \o Undoubled(SubSeq(b, 3, Len(b)), q)
    [] OTHER -> <<b[1]>> \o Undoubled(Tail(b), q)

Unquoted(field, d) ==
  IF field # << >> /\ Head(field) = d.quote
  THEN Undoubled(SubSeq(field, 2, Len(field) - 1), d.quote)
  ELSE field

RECURSIVE Fields(_, _)
RECURSIVE FieldsCut(_, _, _)
FieldsCut(record, cuts, d) ==
  IF cuts = {} THEN <<Unquoted(record, d)>>
  ELSE <<Unquoted(SubSeq(record, 1, Least(cuts) - 1), d)>>
       \o Fields(SubSeq(record, Least(cuts) + 1, Len(record)), d)
Fields(record, d) == FieldsCut(record, Bare(record, d.delimiter, d), d)

\* The line that ends before the terminator at i, without the CR of a CRLF.
Line(b, i) == IF i > 1 /\ b[i - 1] = Return THEN SubSeq(b, 1, i - 2) ELSE SubSeq(b, 1, i - 1)

\* The complete records of b, at most n of them, as sequences of fields, and
\* how much of b they are.  An empty line is no record.
After(i, line, rest, d) ==
  [rows |-> IF line = << >> THEN rest.rows ELSE <<Fields(line, d)>> \o rest.rows,
   taken |-> i + rest.taken]

RECURSIVE Records(_, _, _)
RECURSIVE RecordsTo(_, _, _, _)
RecordsTo(b, n, i, d) ==
  After(i, Line(b, i), Records(SubSeq(b, i + 1, Len(b)), IF Line(b, i) = << >> THEN n ELSE n - 1, d), d)
Records(b, n, d) ==
  IF n = 0 \/ Bare(b, Newline, d) = {} THEN [rows |-> << >>, taken |-> 0]
  ELSE RecordsTo(b, n, Least(Bare(b, Newline, d)), d)

\* A field's value: an empty one is NULL, quoted or not.
Value(field) == IF field = << >> THEN Null ELSE field

-----------------------------------------------------------------------------
(***************************************************************************)
(* The library's writer                                                    *)
(***************************************************************************)

RECURSIVE Doubled(_, _)
Doubled(v, q) ==
  IF v = << >> THEN << >>
  ELSE (IF Head(v) = q THEN <<q, q>> ELSE <<Head(v)>>) \o Doubled(Tail(v), q)

Written(v, d) ==
  CASE v = Null -> << >>
    [] v = << >> -> <<d.quote, d.quote>>
    [] v # Null /\ Range(v) \cap {d.quote, d.delimiter, Newline, Return} # {} ->
         <<d.quote>> \o Doubled(v, d.quote) \o <<d.quote>>
    [] OTHER -> v

RECURSIVE WrittenLine(_, _)
WrittenLine(values, d) ==
  IF Len(values) = 1 THEN Written(values[1], d) \o <<Newline>>
  ELSE Written(values[1], d) \o <<d.delimiter>> \o WrittenLine(Tail(values), d)

-----------------------------------------------------------------------------
(***************************************************************************)
(* copy_stream.rs: first_record                                            *)
(***************************************************************************)

\* The loop, at byte i with the fields before it, the field it is in and
\* whether that is inside quotes.
RECURSIVE ScanFrom(_, _, _, _, _, _)
ScanFrom(buf, d, i, fields, field, quoted) ==
  CASE i > Len(buf) -> Null
    [] i <= Len(buf) /\ quoted /\ buf[i] = d.quote ->
         IF i < Len(buf) /\ buf[i + 1] = d.quote
         THEN ScanFrom(buf, d, i + 2, fields, Append(field, d.quote), TRUE)
         ELSE ScanFrom(buf, d, i + 1, fields, field, FALSE)
    [] i <= Len(buf) /\ quoted /\ buf[i] # d.quote ->
         ScanFrom(buf, d, i + 1, fields, Append(field, buf[i]), TRUE)
    [] i <= Len(buf) /\ ~quoted /\ buf[i] = d.quote /\ field = << >> ->
         ScanFrom(buf, d, i + 1, fields, field, TRUE)
    [] i <= Len(buf) /\ ~quoted /\ buf[i] = d.delimiter ->
         ScanFrom(buf, d, i + 1, Append(fields, field), << >>, FALSE)
    [] i <= Len(buf) /\ ~quoted /\ buf[i] = Newline ->
         LET last == IF field # << >> /\ Last(field) = Return THEN Front(field) ELSE field
         IN [fields |-> Append(fields, last), consumed |-> i]
    [] OTHER -> ScanFrom(buf, d, i + 1, fields, Append(field, buf[i]), FALSE)

\* The first record's fields and the bytes it occupies, or Null.
FirstRecord(buf, d) == ScanFrom(buf, d, 1, << >>, << >>, FALSE)
=============================================================================
