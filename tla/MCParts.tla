------------------------------- MODULE MCParts -------------------------------
(***************************************************************************)
(* An instance of the parts for TLC: the launches and the usage poll share *)
(* a process, `burnrate token` has one of its own.                         *)
(***************************************************************************)
EXTENDS Parts

MCHome == [c \in Callers |-> IF c = "cli" THEN "cli" ELSE "daemon"]
=============================================================================
