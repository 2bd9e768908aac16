-------------------------- MODULE MCEventListener --------------------------
(* Event types for the TLC runs: each is derived from two abstract types. *)
EXTENDS EventListener, TLC

CONSTANTS e1, e2

MCTypes == {"PROCESS_STATE_RUNNING", "TICK_5"}
MCDerives == [t \in MCTypes |-> IF t = "TICK_5" THEN {"EVENT", "TICK"} ELSE {"EVENT", "PROCESS_STATE"}]
EmitterSymmetry == Permutations({e1, e2})
=============================================================================
