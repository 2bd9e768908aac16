---------------------------- MODULE MCProgramLog ----------------------------
(* The TLC runs of ProgramLog. *)
EXTENDS ProgramLog

MCReadArgs == -8 .. 7

\* A file above the limit; a full backup and a file below the limit.
MCFound == {<<0, 3>>, <<2, 1>>}
MCNothingFound == {<<0, 0>>}
=============================================================================
