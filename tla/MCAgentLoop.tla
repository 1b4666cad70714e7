---------------------------- MODULE MCAgentLoop ----------------------------
(* The instances of AgentLoop that TLC examines: sessions without a        *)
(* context manager on every reply, tool outcome and budget, sessions with  *)
(* one on the operations on its view.                                      *)
EXTENDS AgentLoop

Managed(mode, assembly, limit, n) ==
    [mode |-> mode, assembly |-> assembly, tools |-> limit, tokens |-> 0, secure |-> FALSE,
     hangs |-> FALSE, edits |-> n]
Plain(n, limit, secure) ==
    [mode |-> "none", assembly |-> "none", tools |-> limit, tokens |-> n, secure |-> secure,
     hangs |-> TRUE, edits |-> 0]

MCSessions ==
    {Plain(0, 3, TRUE), Plain(0, 3, FALSE), Plain(2, 2, FALSE),
     Managed("slice", "none", 2, 2), Managed("slice", "refused", 1, 0),
     Managed("passthrough", "given", 2, 1), Managed("custom", "none", 1, 3),
     [Managed("custom", "none", 2, 0) EXCEPT !.tokens = 1], Managed("compact_conservative", "none", 2, 1),
     Managed("compact_conservative", "given", 2, 0),
     Managed("compact_conservative", "given", 1, 1)}
=============================================================================
