-------------------------- MODULE MCMessageFraming --------------------------
(* MessageFraming on sessions of up to three messages, pretty-printed,     *)
(* nested or with a brace, an escaped quote or a newline in a string.      *)
EXTENDS MessageFraming

Messages == {
    <<"{", "}">>,
    <<"{", "\n", "{", "}", "}">>,
    <<"{", "\"", "}", "\"", "}">>,
    <<"{", "\"", "\\", "\"", "}", "\"", "}">>,
    <<"{", "\"", "\\", "\\", "\"", "}">>,
    <<"{", "\"", "{", "\n", "\"", "}">>}

Blanks == {<<>>, <<"\n">>, <<" ", "\n">>}

Parts(leads) == [lead : leads, msg : Messages]
SessionsOver(parts, n) == UNION {[1..k -> parts] : k \in 1..n}

WellFormed == SessionsOver(Parts(Blanks), 2)
    \cup [1..3 -> [lead : {<<"\n">>}, msg : Messages]]
============================================================================
