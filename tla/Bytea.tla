------------------------------- MODULE Bytea --------------------------------
(***************************************************************************)
(* The bytes a text spells as a bytea, PostgreSQL's byteain (vairedb-      *)
(* common, bytea_in.rs): the hex format after a \x, and the escape format. *)
(* A text is a sequence of character codes.                                *)
(***************************************************************************)
EXTENDS Integers, Sequences, SequencesExt

CONSTANT Refused

Backslash == 92
Space == 32

HexMarker == <<Backslash, 120>>

Spaces == {9, 10, 13, Space}

\* A hexadecimal digit's value by its code.
HexDigit(c) ==
  CASE c \in 48 .. 57 -> c - 48
    [] c \in 97 .. 102 -> c - 87
    [] c \in 65 .. 70 -> c - 55
    [] OTHER -> Refused

IsHexDigit(c) == c \in 48 .. 57 \cup 97 .. 102 \cup 65 .. 70

\* The text after the first bytes, or the refusal of what follows them.
Byte(b, rest) == IF rest = Refused THEN Refused ELSE <<b>> \o rest

\* White space is skipped where a pair begins.
RECURSIVE DecodeHex(_)
DecodeHex(body) ==
  CASE body = <<>> -> <<>>
    [] body # <<>> /\ Head(body) \in Spaces -> DecodeHex(Tail(body))
    [] OTHER ->
         IF Len(body) < 2 \/ ~IsHexDigit(body[1]) \/ ~IsHexDigit(body[2]) THEN Refused
         ELSE Byte(16 * HexDigit(body[1]) + HexDigit(body[2]), DecodeHex(SubSeq(body, 3, Len(body))))

\* How many characters after a backslash an escape spans, none if it is none.
EscapeWidth(tail) ==
  IF tail # <<>> /\ tail[1] = Backslash THEN 1
  ELSE IF Len(tail) >= 3 /\ tail[1] \in 48 .. 51 /\ tail[2] \in 48 .. 55 /\ tail[3] \in 48 .. 55 THEN 3
  ELSE 0

EscapedByte(tail) ==
  IF EscapeWidth(tail) = 1 THEN Backslash
  ELSE 64 * (tail[1] - 48) + 8 * (tail[2] - 48) + (tail[3] - 48)

RECURSIVE DecodeEscape(_)
DecodeEscape(text) ==
  IF text = <<>> THEN <<>>
  ELSE IF Head(text) # Backslash THEN Byte(Head(text), DecodeEscape(Tail(text)))
  ELSE IF EscapeWidth(Tail(text)) = 0 THEN Refused
  ELSE Byte(EscapedByte(Tail(text)),
            DecodeEscape(SubSeq(text, 2 + EscapeWidth(Tail(text)), Len(text))))

Decode(text) ==
  IF IsPrefix(HexMarker, text) THEN DecodeHex(SubSeq(text, 3, Len(text))) ELSE DecodeEscape(text)
=============================================================================
