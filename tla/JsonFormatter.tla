---------------------------- MODULE JsonFormatter ----------------------------
(***************************************************************************)
(* br_logger::JsonFormatter: one line of JSON in a buffer that may be too  *)
(* small.  The line alternates between literal text (punctuation, field    *)
(* names, numbers, the time stamp), of which safe_append copies as many    *)
(* bytes as there is room for, and escaped text, of which EscapeJsonString *)
(* copies whole escaped characters only.  A run of safe_append calls with  *)
(* no escaped text between them copies what one call with all their bytes  *)
(* would, and is one piece here.                                           *)
(*                                                                         *)
(* The pieces are the line from the last tag on: what stands in front of   *)
(* it (lead), its key, `":"`, its value, `"},"msg":"`, the message, `"}`,  *)
(* with the newlines and indentation between them when pretty_ is set.  An *)
(* entry without tags has no key, value and quotes there.  The lead is one *)
(* literal although it holds escaped text too (file, func, thread, earlier *)
(* tags): that text would be cut the way the last key and value are, which *)
(* are followed by the same kind of literals.  A character is the width of *)
(* its escaped form: 1, 2 (\n, \"), 6 (\u).                                *)
(***************************************************************************)
EXTENDS Integers, Sequences, FiniteSetsExt, SequencesExt

CONSTANT LeadLen    \* bytes in front of the last tag's key, or up to `"tags":{`

VARIABLES
    pretty,     \* pretty_
    tagged,     \* entry.tag_count > 0
    key, value, \* of the last tag, empty without one
    msg,        \* the characters of entry.msg
    msg_len,    \* entry.msg_len
    buf_size,   \* argument of Format
    pos,        \* bytes written
    kept,       \* of each piece so far: bytes of a literal, characters of text
    ended       \* the terminating NUL is written and Format has returned

Widths == {1, 2, 6}
Layout == <<"lead", "key", "colon", "value", "middle", "msg", "close">>
LiteralLen ==
    [lead   |-> LeadLen,
     colon  |-> IF tagged THEN (IF pretty THEN 4 ELSE 3) ELSE 0,
     middle |-> (IF pretty THEN 13 ELSE 9) + (IF tagged THEN 1 ELSE 0),
     close  |-> IF pretty THEN 3 ELSE 2]
Escaped == [key |-> key, value |-> value, msg |-> SubSeq(msg, 1, msg_len)]
Piece == Layout[Len(kept) + 1]

\* Bytes that the first k characters of t take, for every k.
RunningWidth(t) ==
    LET width[k \in 0..Len(t)] == IF k = 0 THEN 0 ELSE width[k - 1] + t[k]
    IN  width

Width(t) == RunningWidth(t)[Len(t)]

\* avail, or nothing when pos >= buf_size - 1.
Room == IF pos >= buf_size - 1 THEN 0 ELSE buf_size - 1 - pos

\* Mutant: a literal is copied whole or not at all.
SafeAppendWhole(n) == IF n <= Room THEN n ELSE 0

\* How many of n bytes are copied.
SafeAppend(n) == IF n < Room THEN n ELSE Room

\* How many characters of t are copied: up to the first that does not fit.
EscapeJsonString(t) ==
    Max({k \in 0..Len(t) : RunningWidth(t)[k] <= Room})

AppendLiteral ==
    /\ ~ended /\ Len(kept) < Len(Layout) /\ Piece \in DOMAIN LiteralLen
    /\ LET n == SafeAppend(LiteralLen[Piece]) IN
         kept' = Append(kept, n) /\ pos' = pos + n
    /\ UNCHANGED ended

AppendEscaped ==
    /\ ~ended /\ Len(kept) < Len(Layout) /\ Piece \in DOMAIN Escaped
    /\ LET k == EscapeJsonString(Escaped[Piece]) IN
         kept' = Append(kept, k) /\ pos' = pos + RunningWidth(Escaped[Piece])[k]
    /\ UNCHANGED ended

\* buf[pos] = '\0'
Terminate ==
    /\ ~ended /\ Len(kept) = Len(Layout)
    /\ ended' = TRUE
    /\ UNCHANGED <<pos, kept>>

Format ==
    /\ AppendLiteral \/ AppendEscaped \/ Terminate
    /\ UNCHANGED <<pretty, tagged, key, value, msg, msg_len, buf_size>>

\* The bytes of the line, and whether all of a piece was copied.
TotalLen ==
    LiteralLen["lead"] + LiteralLen["colon"] + LiteralLen["middle"] + LiteralLen["close"]
    + Width(Escaped["key"]) + Width(Escaped["value"]) + Width(Escaped["msg"])
Whole(i) ==
    LET p == Layout[i]
    IN  kept[i] = IF p \in DOMAIN Escaped THEN Len(Escaped[p]) ELSE LiteralLen[p]
=============================================================================
