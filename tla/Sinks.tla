-------------------------------- MODULE Sinks --------------------------------
(***************************************************************************)
(* The sinks of a backend that has a RingMemorySink and, behind it, a      *)
(* RotatingFileSink.  LoggerBackend::Dispatch, on the backend's consumer,  *)
(* hands every entry to Write of the one and then of the other; another    *)
(* thread dumps the memory sink meanwhile, and the process may be killed   *)
(* anywhere and start again with new sinks on the same files.              *)
(***************************************************************************)
EXTENDS RotatingFileSink, RingMemorySink

VARIABLE sink       \* the sink whose Write Dispatch is in, or calls next

sinksVars == <<vars, memoryVars, sink>>

SinksInit == Init /\ MemoryInit /\ sink = "memory"

\* sinks_[0]->Write(entry); its last assignment ends the call.
WriteMemory ==
    /\ sink = "memory"
    /\ \/ (CopyBegin \/ CopyEnd \/ MoveHead) /\ UNCHANGED sink
       \/ MoveCount /\ sink' = "file"
    /\ UNCHANGED vars

\* sinks_[1]->Write(entry).
WriteFile ==
    /\ sink = "file"
    /\ \/ (\E len \in Lens : WriteBegin(len)) \/ WriteClosed
       \/ RemoveOldest \/ Rename \/ Reopen \/ WritePayload \/ WriteNewline
    /\ sink' = IF pc' = "idle" THEN "memory" ELSE "file"
    /\ UNCHANGED memoryVars

\* DumpToFile, on another thread.
Dump ==
    /\ DumpBegin \/ DumpLine \/ DumpEnd
    /\ UNCHANGED <<vars, sink>>

\* The process is killed and started again.
RestartSinks ==
    /\ Restart /\ Reconstruct
    /\ sink' = "memory"

SinksNext == WriteMemory \/ WriteFile \/ Dump \/ RestartSinks

SinksSpec == SinksInit /\ [][SinksNext]_sinksVars
=============================================================================
