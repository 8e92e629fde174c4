---------------------------- MODULE MCTitleImport ----------------------------
(* Two sessions: one imports part by part, the other does the same, imports a *)
(* CIA or is replaced.  One fault at a time: the properties say which of them *)
(* each of them can stand.                                                    *)
EXTENDS TitleImport

Faults == {"die", "overlap", "late_start", "late_read", "no_pipe", "refuse_end",
           "finish_open", "finish_early"}
Environments == {{f} : f \in Faults}

\* What it takes for a stop to miss the pipe thread.
LateStart == {{"late_start"}}
=============================================================================
