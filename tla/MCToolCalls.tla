----------------------------- MODULE MCToolCalls -----------------------------
(***************************************************************************)
(* Small instances of tool invocation.                                     *)
(***************************************************************************)
EXTENDS ToolCalls, TLC

Interchangeable ==
    Permutations(Sessions) \union Permutations(Sockets)
        \union Permutations(Calls) \union Permutations(Clients)
===============================================================================
