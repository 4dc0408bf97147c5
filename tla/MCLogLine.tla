----------------------------- MODULE MCLogLine -----------------------------
(***************************************************************************)
(* Small instances of LogLine for TLC.  Messages of three and more         *)
(* characters exceed the two that an entry with MaxMsgLen = 3 stores; one  *)
(* of nine wraps msg_len.                                                  *)
(***************************************************************************)
EXTENDS LogLine

MCPatterns ==
    SeqOf({"%", "a", "m"}, 3)
    \cup {<<"%", "%", "%", "m">>, <<"%", "%", "a", "%">>, <<"%", "C", "m", "%", "R">>,
          <<"%", "a", "%", "%", "%", "%", "m", "%">>, <<"a", "%", "k", "%", "q">>,
          <<"%", "%", "r", "%", "%", "s">>, <<"%", "m", "%", "s", "a">>}
\* The directives the documentation has for thread name and sequence number.
MCDocumentedPatterns == {<<"%", "m">>, <<"%", "r", " ", "%", "m">>, <<"%", "s", " ", "%", "m">>}
MCTexts == {<< >>, <<1>>, <<6>>, <<1, 6>>, <<2, 2>>, <<1, 2, 1>>, <<2, 1, 1, 6>>,
            [k \in 1..9 |-> 1]}
\* Names in the source may be of any length; the rest has a longest form.
Longest == [ThreadName |-> 31, Tags |-> 769, SequenceId |-> 20, Line |-> 10,
            ThreadId |-> 10, ProcessId |-> 10]
Content(t, k, v, n) ==
    [tagged |-> t, key |-> k, value |-> v,
     fields |-> [f \in Pattern!Fields |->
                    IF f \in DOMAIN Longest /\ n > Longest[f] THEN Longest[f] ELSE n]]
MCContents ==
    {Content(FALSE, << >>, << >>, 0), Content(TRUE, <<1>>, << >>, 0),
     Content(TRUE, <<1, 6>>, <<1, 2>>, 3), Content(TRUE, <<2>>, <<6, 1>>, 800)}
MCBufSizes == {0, 1, 2, 5, 7, 9, 12, 15, 18, 20, 22, 23, 24, 25, 26, 28, 30, 33, 38, 2048}
=============================================================================
