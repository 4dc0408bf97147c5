-------------------------- MODULE PatternFormatter --------------------------
(***************************************************************************)
(* br_logger::PatternFormatter.  CompilePattern scans a pattern once, one  *)
(* step per turn of its loop, into a list of operations; Format then runs  *)
(* the list over an entry, one step per operation, appending what fits     *)
(* into the buffer.                                                        *)
(*                                                                         *)
(* Pattern characters are themselves.  Of an operation's text only its     *)
(* length matters to Format.  A run of append_data calls copies what one   *)
(* call with all their bytes would, so the tags are one piece of text.     *)
(***************************************************************************)
EXTENDS Integers, Sequences, SequencesExt

VARIABLES
    pattern,        \* pattern_
    enable_color,   \* enable_color_
    i,              \* characters of the pattern consumed
    literal,        \* literal text not yet flushed
    ops,            \* ops_
    compiled,       \* the constructor has returned
    level,          \* entry.level
    msg_len,        \* entry.msg_len
    fields,         \* length of each other text the entry brings
    buf_size, pos,  \* argument and local of Format
    kept,           \* bytes copied of each operation so far
    ended           \* Format has returned

compileVars == <<i, literal, ops, compiled>>
entryVars == <<level, msg_len, fields>>
formatVars == <<pos, kept, ended>>

\* The switch over the character behind a '%'.
Directive ==
    [c \in {"D", "T", "e", "L", "l", "f", "F", "n", "N", "#", "t", "P", "k", "q", "g", "m", "C", "R"} |->
        CASE c = "D" -> "Date"         [] c = "T" -> "Time"      [] c = "e" -> "Microseconds"
          [] c = "L" -> "LevelFull"    [] c = "l" -> "LevelShort"
          [] c = "f" -> "FileName"     [] c = "F" -> "FilePath"
          [] c = "n" -> "FuncName"     [] c = "N" -> "PrettyFunc" [] c = "#" -> "Line"
          [] c = "t" -> "ThreadId"     [] c = "P" -> "ProcessId" [] c = "k" -> "ThreadName"
          [] c = "q" -> "SequenceId"   [] c = "g" -> "Tags"      [] c = "m" -> "Message"
          [] c = "C" -> "ColorStart"   [] OTHER -> "ColorReset"]

\* Texts an entry brings whose length no other variable gives; a null
\* pointer and an empty list of tags have length 0.
Fields == {"FileName", "FilePath", "FuncName", "PrettyFunc", "Line", "ThreadId",
           "ProcessId", "ThreadName", "SequenceId", "Tags"}

-----------------------------------------------------------------------------
(***************************************************************************)
(* CompilePattern.                                                         *)
(***************************************************************************)
CompileInit == i = 0 /\ literal = << >> /\ ops = << >> /\ compiled = FALSE

Ch == pattern[i + 1]
IsLast == i + 1 >= Len(pattern)
Scanning == ~compiled /\ i < Len(pattern)

\* flush_literal; the caller empties literal.
FlushLiteral ==
    IF literal = << >> THEN ops
    ELSE Append(ops, [type |-> "Literal", literal |-> literal])

ToLiteral(text, n) ==
    /\ literal' = literal \o text
    /\ i' = i + n
    /\ UNCHANGED <<ops, compiled>>

ScanChar == Scanning /\ Ch # "%" /\ ToLiteral(<<Ch>>, 1)

ScanLonePercent == Scanning /\ Ch = "%" /\ IsLast /\ ToLiteral(<<"%">>, 1)

ScanDirective ==
    /\ Scanning /\ Ch = "%" /\ ~IsLast
    /\ pattern[i + 2] \in DOMAIN Directive
    /\ ops' = Append(FlushLiteral, [type |-> Directive[pattern[i + 2]], literal |-> << >>])
    /\ literal' = << >>
    /\ i' = i + 2
    /\ UNCHANGED compiled

\* Mutant: the second '%' is read again as the start of a directive.
ScanEscapedHalf ==
    /\ Scanning /\ Ch = "%" /\ ~IsLast
    /\ pattern[i + 2] = "%"
    /\ ToLiteral(<<"%">>, 1)

\* "%%"
ScanEscaped ==
    /\ Scanning /\ Ch = "%" /\ ~IsLast
    /\ pattern[i + 2] = "%"
    /\ ToLiteral(<<"%">>, 2)

\* An unknown directive stands for itself.
ScanUnknown ==
    /\ Scanning /\ Ch = "%" /\ ~IsLast
    /\ pattern[i + 2] \notin DOMAIN Directive \cup {"%"}
    /\ ToLiteral(<<"%", pattern[i + 2]>>, 2)

CompileReturn ==
    /\ ~compiled /\ i = Len(pattern)
    /\ ops' = FlushLiteral
    /\ literal' = << >>
    /\ compiled' = TRUE
    /\ UNCHANGED i

Compile ==
    /\ \/ ScanChar \/ ScanLonePercent \/ ScanDirective \/ ScanEscaped \/ ScanUnknown
       \/ CompileReturn
    /\ UNCHANGED <<pattern, enable_color, entryVars, buf_size, formatVars>>

-----------------------------------------------------------------------------
(***************************************************************************)
(* Format.                                                                 *)
(***************************************************************************)
\* What snprintf into a buffer of size returns, as format_date does it: n
\* bytes are due.
Formatted(n, size) == IF n < size THEN n ELSE size - 1

\* to_string, and the escape sequence of the level, by level (TRACE..OFF).
LevelLen == <<5, 5, 4, 4, 5, 5, 3>>
ColorLen == <<5, 5, 5, 5, 5, 7, 0>>

\* How many bytes an operation has to append.
OpLen(op) ==
    CASE op.type = "Literal"      -> Len(op.literal)
      [] op.type = "Date"         -> Formatted(10, 128)
      [] op.type = "Time"         -> 8
      [] op.type = "Microseconds" -> 7
      [] op.type = "LevelFull"    -> LevelLen[level + 1]
      [] op.type = "LevelShort"   -> 1
      [] op.type = "Message"      -> msg_len
      [] op.type = "ColorStart"   -> IF enable_color THEN ColorLen[level + 1] ELSE 0
      [] op.type = "ColorReset"   -> IF enable_color THEN 4 ELSE 0
      [] OTHER                    -> fields[op.type]

\* Mutant: no byte is kept for the NUL.
AppendDataNoNul(n) == IF n < buf_size - pos THEN n ELSE buf_size - pos

\* append_data: how many of n bytes are copied; the NUL follows them.
AppendData(n) ==
    LET avail == IF pos < buf_size THEN buf_size - 1 - pos ELSE 0
    IN  IF n < avail THEN n ELSE avail

AppendOp ==
    /\ ~ended /\ Len(kept) < Len(ops)
    /\ LET n == AppendData(OpLen(ops[Len(kept) + 1])) IN
         kept' = Append(kept, n) /\ pos' = pos + n
    /\ UNCHANGED ended

FormatReturn ==
    /\ ~ended /\ Len(kept) = Len(ops)
    /\ ended' = TRUE
    /\ UNCHANGED <<pos, kept>>

Format ==
    /\ compiled
    /\ AppendOp \/ FormatReturn
    /\ UNCHANGED <<pattern, enable_color, compileVars, entryVars, buf_size>>

-----------------------------------------------------------------------------
(***************************************************************************)
(* A reference for CompilePattern that looks at each position by itself.   *)
(* A '%' introduces a directive when the run of '%' that ends at it is of  *)
(* odd length; the next character is what it introduces.                   *)
(***************************************************************************)
\* What the user is told a directive means: the table in src/README.md.
Documented ==
    [c \in {"D", "T", "e", "L", "l", "f", "F", "n", "N", "#", "t", "P", "r", "s", "g", "m", "C", "R"} |->
        CASE c = "D" -> "Date"         [] c = "T" -> "Time"      [] c = "e" -> "Microseconds"
          [] c = "L" -> "LevelFull"    [] c = "l" -> "LevelShort"
          [] c = "f" -> "FileName"     [] c = "F" -> "FilePath"
          [] c = "n" -> "FuncName"     [] c = "N" -> "PrettyFunc" [] c = "#" -> "Line"
          [] c = "t" -> "ThreadId"     [] c = "P" -> "ProcessId" [] c = "r" -> "ThreadName"
          [] c = "s" -> "SequenceId"   [] c = "g" -> "Tags"      [] c = "m" -> "Message"
          [] c = "C" -> "ColorStart"   [] OTHER -> "ColorReset"]

\* The code reads %k and %q, which the table does not have, in place of its %r
\* and %s.
Disputed == {"r", "s", "k", "q"}

RunOfPercents(j) ==
    Cardinality({k \in 1..j : \A m \in k..j : pattern[m] = "%"})
Introduces(j) == j \in DOMAIN pattern /\ RunOfPercents(j) % 2 = 1

\* What position j contributes: characters, or the type of an operation.
Emits(j) ==
    LET c == pattern[j] IN
    CASE Introduces(j)     -> IF j = Len(pattern) THEN <<"%">> ELSE << >>
      [] Introduces(j - 1) -> IF c \in DOMAIN Documented THEN <<Documented[c]>>
                              ELSE IF c = "%" THEN <<"%">> ELSE <<"%", c>>
      [] OTHER             -> <<c>>

Meaning == FlattenSeq([j \in 1..i |-> Emits(j)])

Flat(op) == IF op.type = "Literal" THEN op.literal ELSE <<op.type>>

\* At every point of the scan the operations and the pending literal are what
\* the documentation says of the consumed characters, nothing lost, doubled or
\* out of order.
CompiledAsDocumented ==
    FlattenSeq([j \in DOMAIN ops |-> Flat(ops[j])]) \o literal = Meaning

\* So it is unless one of the four disputed directives was consumed, and always
\* no literal is empty or split in two.
CompiledAsMeant ==
    /\ (\A j \in 1..i : Introduces(j - 1) => pattern[j] \notin Disputed) =>
          CompiledAsDocumented
    /\ \A j \in DOMAIN ops : ops[j].type = "Literal" =>
          /\ ops[j].literal # << >>
          /\ j + 1 \in DOMAIN ops => ops[j + 1].type # "Literal"
=============================================================================
