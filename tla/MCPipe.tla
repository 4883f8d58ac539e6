-------------------------------- MODULE MCPipe --------------------------------
(* Two processes and two pipes: one from a to b, one back. *)
EXTENDS Pipe

CONSTANTS a, b

MCTasks == {a, b}
MCReadersOf == [p \in Pipes |-> IF p = 1 THEN {b} ELSE {a}]
MCWritersOf == [p \in Pipes |-> IF p = 1 THEN {a} ELSE {b}]
===============================================================================
