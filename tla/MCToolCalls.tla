---------------------------- MODULE MCToolCalls ----------------------------
(* ToolCalls with two clients, the first one coming back for a second      *)
(* request, and a tool of each kind.                                       *)
EXTENDS ToolCalls, TLC

CONSTANTS c1, c2

\* A result, one that is not UTF-8, and an error.
ResultsAndAnError ==
    {[result |-> "utf8", error |-> "none"], [result |-> "bytes", error |-> "none"],
     [result |-> "utf8", error |-> "utf8"]}

TwoAndOne == (c1 :> 2) @@ (c2 :> 1)
============================================================================
