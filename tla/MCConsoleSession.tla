--------------------------- MODULE MCConsoleSession ---------------------------
(* Roles for ConsoleSession; calls and tokens are interchangeable. *)
EXTENDS ConsoleSession, TLC

CONSTANTS u1, u2

MCRoleOf == u1 :> "developer" @@ u2 :> "readonly"

Symmetry == Permutations(Request) \cup Permutations(Token)
=============================================================================
