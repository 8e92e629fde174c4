---------------------------- MODULE MCPipeManager ----------------------------
(* Two sessions and two imports, that overlap in every way or come one after *)
(* another: one can be refused, follow the other, and meet what it has left  *)
(* behind.                                                                   *)
EXTENDS PipeManager, TLC

Everything == {"overlap", "drop", "no_session", "end_title"}
Overlapping == {Everything, Everything \ {"end_title"}}
OneByOne == {{"drop", "no_session"}, {"drop", "end_title"}}
OverlapOnly == {{"overlap"}}
Nothing == {{}}

Perms == Permutations(Sessions)
=============================================================================
