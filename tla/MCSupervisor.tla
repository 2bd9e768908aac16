---------------------------- MODULE MCSupervisor ----------------------------
(* The TLC run of Supervisor: two programs and an event listener, files that  *)
(* add and remove them, a client that starts and signals, one that stops and  *)
(* shuts down, and a callback of the first process.                           *)
EXTENDS Supervisor, TLC

CONSTANTS a, b, l, c1, c2

MCFiles == {{a, b}, {b, l}}
MCSelections == {{a}, {a, b}}
MCOperations == c1 :> {"start", "signal"} @@ c2 :> {"stop", "shutdown"}
=============================================================================
