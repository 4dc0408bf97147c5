------------------------------ MODULE LogLine ------------------------------
(***************************************************************************)
(* From the arguments of a logging macro to what sinks show: LogImpl puts  *)
(* the message into the entry, and a sink's Write filters by level, has    *)
(* the entry formatted by its JsonFormatter or PatternFormatter and puts   *)
(* the line out.  Three sinks get the entry: a ConsoleSink, a CallbackSink *)
(* whose function reads msg_len characters, and a ROS2Sink, which hands    *)
(* entry.msg over as a C string.                                           *)
(*                                                                         *)
(* The console's buffer, SinkBuf = 2048 bytes in the code, takes every     *)
(* size of BufSizes here, so that short texts are cut at every place.  A   *)
(* message is the sequence of its characters, each the width of its JSON   *)
(* escape.  Which stream a line goes to is left out.                       *)
(***************************************************************************)
EXTENDS Integers, Sequences, SequencesExt

CONSTANTS
    Patterns,       \* patterns given to SetFormatter
    Texts,          \* what the arguments of the macro expand to
    Contents,       \* the rest of an entry: the last tag if any, field lengths
    Levels,         \* levels entries and sinks have
    BufSizes,       \* values for sizeof(format_buf_)
    SinkBuf,        \* the one it has
    LeadLen,        \* of JsonFormatter
    MaxMsgLen,      \* BR_LOG_MAX_MSG_LEN
    LenModulus,     \* 2^16: msg_len is a uint16_t
    MaxEntries      \* bound: entries logged

\* BR_LOG_MAX_MSG_LEN is 128 or 384: the length of what is stored does not wrap.
ASSUME LengthsAssumption ==
    MaxMsgLen \in Nat \ {0} /\ LenModulus \in Nat \ {0} /\ MaxMsgLen <= LenModulus
\* Large enough for the default pattern up to its level and the colours around it.
ASSUME BuffersAssumption == BufSizes \subseteq Nat /\ SinkBuf \in Nat /\ SinkBuf > 46
ASSUME LeadAssumption == LeadLen \in Nat \ {0}
ASSUME LevelsAssumption == Levels \subseteq 0..6

VARIABLES
    pattern, enable_color, i, literal, ops, compiled, level, msg_len, fields,
    buf_size, pos, kept, ended,     \* of PatternFormatter
    pretty, tagged, key, value, msg,    \* of JsonFormatter
    formatter,      \* formatter_: "none", "json" or "pattern"
    use_color,      \* use_color_ of the console
    min_level,      \* min_level_ of the console
    pc,             \* what the threads are at with the current entry
    entries,        \* entries logged
    literalText,    \* history: the macro had no arguments, and fmtlib is not used
    stored,         \* history: characters LogImpl put into entry.msg
    shown           \* history: characters of the message each sink showed

Pattern == INSTANCE PatternFormatter
Json == INSTANCE JsonFormatter

ASSUME TextsAssumption ==
    /\ Patterns \subseteq Seq(STRING)
    /\ Texts \subseteq Seq(Json!Widths)
    /\ \A c \in Contents :
          /\ c.tagged \in BOOLEAN /\ (~c.tagged => c.key = << >> /\ c.value = << >>)
          /\ c.key \in Seq(Json!Widths) /\ c.value \in Seq(Json!Widths)
          /\ c.fields \in [Pattern!Fields -> Nat]

formatterVars == <<formatter, pattern, enable_color, i, literal, ops, compiled, pretty>>
entryVars == <<level, msg, msg_len, tagged, key, value, fields, literalText, stored, entries>>
lineVars == <<buf_size, pos, kept, ended>>
consoleVars == <<use_color, min_level>>
vars == <<formatterVars, entryVars, lineVars, consoleVars, pc, shown>>

\* Mutant: the colour lasts to the end of the line.
LateReset ==
    <<"%", "C", "%", "L", " ", "%", "f", ":", "%", "#", ":", "%", "n", " ", "%", "g", " ", "%",
      "m", "%", "R">>

\* "[%D %T%e] [%C%L%R] [tid:%t] [%f:%#::%n] %g %m"
DefaultPattern ==
    <<"[", "%", "D", " ", "%", "T", "%", "e", "]", " ", "[", "%", "C", "%", "L", "%", "R",
      "]", " ", "[", "t", "i", "d", ":", "%", "t", "]", " ", "[", "%", "f", ":", "%", "#",
      ":", ":", "%", "n", "]", " ", "%", "g", " ", "%", "m">>

-----------------------------------------------------------------------------
\* ConsoleSink's constructor: force_color is given or each stream is a terminal
\* or not.
UseColor(force_color, stdout_is_tty, stderr_is_tty) ==
    IF force_color = "unset" THEN stdout_is_tty \/ stderr_is_tty ELSE force_color = "on"

\* After SetLevel and perhaps SetFormatter, at the start of a PatternFormatter's
\* constructor.  (use_color_ is read only by a sink that has no formatter.)
Init ==
    /\ min_level \in Levels
    /\ Pattern!CompileInit
    /\ \/ /\ formatter = "none" /\ pattern = << >> /\ enable_color = FALSE /\ pretty = FALSE
          /\ \E force_color \in {"unset", "on", "off"}, out, err \in BOOLEAN :
               use_color = UseColor(force_color, out, err)
       \/ /\ formatter = "json" /\ pattern = << >> /\ enable_color = FALSE /\ use_color = FALSE
          /\ pretty \in BOOLEAN
       \/ /\ formatter = "pattern" /\ pattern \in Patterns /\ pretty = FALSE /\ use_color = FALSE
          /\ enable_color \in BOOLEAN
    /\ level = 0 /\ msg = << >> /\ msg_len = 0 /\ tagged = FALSE /\ key = << >> /\ value = << >>
    /\ fields = [f \in Pattern!Fields |-> 0]
    /\ buf_size = 0 /\ pos = 0 /\ kept = << >> /\ ended = TRUE
    /\ pc = IF formatter = "pattern" THEN "compile" ELSE "idle"
    /\ entries = 0
    /\ literalText = TRUE
    /\ stored = 0
    /\ shown = [s \in {} |-> 0]

\* The loop of CompilePattern, in SetFormatter's argument or in Write.
Compile ==
    /\ pc = "compile"
    /\ Pattern!Compile
    /\ pc' = IF compiled' THEN (IF entries = 0 THEN "idle" ELSE "format") ELSE pc
    /\ UNCHANGED <<formatter, pretty, tagged, key, value, msg, literalText, stored, entries,
                   consoleVars, shown>>

\* Characters of a text of n that entry.msg, MaxMsgLen bytes with the NUL, takes.
Stored(n) == IF n >= MaxMsgLen THEN MaxMsgLen - 1 ELSE n

\* Mutant: text without arguments is not clamped.
LiteralMsgLenWhole(n) == n % LenModulus

\* Step 6 of LogImpl for a format without arguments, in the build without fmtlib.
LiteralMsgLen(n) == (IF n >= MaxMsgLen THEN MaxMsgLen - 1 ELSE n) % LenModulus

\* Otherwise snprintf or format_to_n stores what fits and returns how many
\* characters there would have been; snprintf may also report an error.
FormattedMsgLens(n) == {n % LenModulus, 0}

\* LogImpl and the level, location and tags it fills in.  A reader of entry.msg
\* finds the stored characters and behind them (msg, rest) anything.
LogImpl(text, plain) ==
    /\ pc = "idle"
    /\ entries < MaxEntries
    /\ entries' = entries + 1
    /\ level' \in Levels
    /\ \E c \in Contents :
         tagged' = c.tagged /\ key' = c.key /\ value' = c.value /\ fields' = c.fields
    /\ literalText' = plain
    /\ msg_len' \in IF plain THEN {LiteralMsgLen(Len(text))} ELSE FormattedMsgLens(Len(text))
    /\ stored' = Stored(Len(text))
    /\ \E rest \in [1..(msg_len' - stored') -> Json!Widths] :
         msg' = SubSeq(text, 1, stored') \o rest
    /\ shown' = [s \in {} |-> 0]
    /\ pc' = "write"
    /\ UNCHANGED <<formatterVars, lineVars, consoleVars>>

-----------------------------------------------------------------------------
(***************************************************************************)
(* Dispatch to the sinks.                                                  *)
(***************************************************************************)
ShouldLog == level >= min_level

\* ConsoleSink::Write: the sink's level, then the formatter made on demand.
Filtered ==
    /\ pc = "write"
    /\ ~ShouldLog
    /\ pc' = "others"
    /\ UNCHANGED <<formatterVars, entryVars, lineVars, consoleVars, shown>>

MakeFormatter ==
    /\ pc = "write" /\ ShouldLog
    /\ formatter = "none"
    /\ formatter' = "pattern"
    /\ pattern' = DefaultPattern
    /\ enable_color' = use_color
    /\ pc' = "compile"
    /\ UNCHANGED <<i, literal, ops, compiled, pretty, entryVars, lineVars, consoleVars, shown>>

HaveFormatter ==
    /\ pc = "write" /\ ShouldLog
    /\ formatter # "none"
    /\ pc' = "format"
    /\ UNCHANGED <<formatterVars, entryVars, lineVars, consoleVars, shown>>

\* DoFormat: Format returns at once when the buffer is empty.
DoFormat ==
    /\ pc = "format" /\ ended
    /\ buf_size' \in BufSizes
    /\ pos' = 0 /\ kept' = << >>
    /\ ended' = (buf_size' = 0)
    /\ pc' = "line"
    /\ UNCHANGED <<formatterVars, entryVars, consoleVars, shown>>

FormatLine ==
    /\ pc = "line"
    /\ \/ formatter = "json" /\ Json!Format
          /\ UNCHANGED <<formatter, pattern, enable_color, i, literal, ops, compiled, level,
                         fields>>
       \/ formatter = "pattern" /\ Pattern!Format
          /\ UNCHANGED <<formatter, pretty, tagged, key, value, msg>>
    /\ UNCHANGED <<literalText, stored, entries, consoleVars, pc, shown>>

Pieces == IF formatter = "json" THEN Json!Layout ELSE [k \in DOMAIN ops |-> ops[k].type]

\* Characters of the message in the line: the most any of its pieces kept.
MessageKept ==
    LET places == {k \in DOMAIN kept : Pieces[k] \in {"msg", "Message"}}
    IN  Max({0} \cup {kept[k] : k \in places})

\* The line, unless it is empty, and a newline are put out.
PutLine ==
    /\ pc = "line" /\ ended
    /\ shown' = IF pos = 0 THEN shown ELSE [s \in {"console"} |-> MessageKept]
    /\ pc' = "others"
    /\ UNCHANGED <<formatterVars, entryVars, lineVars, consoleVars>>

\* CallbackSink::Write and ROS2Sink::Write, with their level at its default.
CallBack == msg_len
RosLog == stored

OtherSinks ==
    /\ pc = "others"
    /\ shown' = [s \in DOMAIN shown \cup {"callback", "ros2"} |->
                    CASE s = "callback" -> CallBack
                      [] s = "ros2"     -> RosLog
                      [] OTHER          -> shown[s]]
    /\ pc' = "idle"
    /\ UNCHANGED <<formatterVars, entryVars, lineVars, consoleVars>>

Next ==
    \/ Compile
    \/ \E text \in Texts, plain \in BOOLEAN : LogImpl(text, plain)
    \/ Filtered \/ MakeFormatter \/ HaveFormatter
    \/ DoFormat \/ FormatLine \/ PutLine
    \/ OtherSinks

Spec == Init /\ [][Next]_vars

-----------------------------------------------------------------------------
(***************************************************************************)
(* Properties.                                                             *)
(***************************************************************************)
\* CompilePattern makes of a pattern what the table of directives in
\* src/README.md says: %r is the thread name and %s the sequence number.
CompiledAsDocumented ==
    pc \in {"compile", "idle", "format"} => Pattern!CompiledAsDocumented

\* It does so, one character after the other and at every point of the scan, for
\* the directives on which table and code agree, whatever stands around them,
\* for patterns given by the user and for the default one.
CompiledAsMeant == pc \in {"compile", "idle", "format"} => Pattern!CompiledAsMeant

PatternLen == Json!Width([k \in DOMAIN ops |-> Pattern!OpLen(ops[k])])

\* Neither formatter writes past its buffer, whatever was cut before, and a line
\* that fits is whole.  The pattern formatter fills the buffer to the last byte
\* before the NUL; after the piece it cut nothing more is copied.
LineFits ==
    pc = "line" /\ buf_size > 0 =>
        /\ pos <= buf_size - 1
        /\ ended /\ formatter = "json" /\ Json!TotalLen < buf_size =>
              \A k \in DOMAIN kept : Json!Whole(k)
        /\ ended /\ formatter = "pattern" =>
              pos = IF PatternLen < buf_size THEN PatternLen ELSE buf_size - 1

\* A JSON line cut short does not pass for a complete one: when its closing
\* `"}` was copied, everything in front of the message is whole.  (The message
\* may be cut in front of an escape: the bytes the escape would have needed
\* then hold the closing `"}`.)
ClosedMeansComplete ==
    pc = "line" /\ formatter = "json" /\ ended /\ buf_size > 0 /\ Json!Whole(7) =>
        \A k \in 1..5 : Json!Whole(k)

\* A colour that the console's own pattern turns on is turned off again later in
\* the same line, however long tags, names and message are.
ColourIsReset ==
    pc = "line" /\ ended /\ buf_size = SinkBuf /\ formatter = "pattern"
    /\ pattern = DefaultPattern =>
        \A k \in DOMAIN kept : Pieces[k] = "ColorStart" /\ kept[k] > 0 =>
            \E j \in DOMAIN kept : j > k /\ Pieces[j] = "ColorReset" /\ kept[j] = 4

\* The sinks show characters that LogImpl stored and nothing else: what
\* BR_LOG_MAX_MSG_LEN says, the most bytes one message has.
ShownIsStored == \A s \in DOMAIN shown : shown[s] <= stored

\* It holds for messages without arguments, which are clamped when stored in the
\* build without fmtlib, and a reader by length and a reader of the C string
\* then see the same message.
LiteralShownIsStored ==
    /\ literalText => ShownIsStored
    /\ literalText /\ {"callback", "ros2"} \subseteq DOMAIN shown =>
          shown["callback"] = shown["ros2"]
=============================================================================
