---------------------------- MODULE MCSceneEdits ----------------------------
(* A root with a child, a grandchild and a second child, and two new nodes. *)
EXTENDS SceneEdits

MCInitial == ("Root" :> "viewport") @@ ("a" :> "Root") @@ ("b" :> "a") @@ ("c" :> "Root")
MCFresh == <<"x", "y">>

\* The nodes' paths, one with the root's name before it, and one that leads
\* back to the root without being one of its two names.
MCPaths == {<<".">>, <<"Root", "a">>, <<"a", "b">>, <<"c">>, <<"x">>, <<"a", "x">>,
            <<"c", "a">>, <<"a", "..">>}

MCRequests == {[number |-> <<1>>], [text |-> <<"hi">>, number |-> <<1>>]}
=============================================================================
