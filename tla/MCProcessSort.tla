--------------------------- MODULE MCProcessSort ---------------------------
(* Three programs, two of them with the same priority, and a name nobody      *)
(* configured; every dependency graph over them is an initial state.          *)
EXTENDS ProcessSort

MCPrograms == {"a", "b", "c"}
MCNames == MCPrograms \cup {"missing"}
MCPriority == [p \in MCPrograms |-> IF p = "c" THEN 100 ELSE 999]
=============================================================================
