----------------------------- MODULE MCRunScene -----------------------------
(* Two calls, the second for the helper's own path. *)
EXTENDS RunScene, TLC

MCOutput == ("c1" :> "shots/one.png") @@ ("c2" :> "screenshot.png")
=============================================================================
