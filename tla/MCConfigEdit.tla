---------------------------- MODULE MCConfigEdit ----------------------------
(* ConfigEdit on files as the editor saves them: a blank line below each   *)
(* header and above the next one.                                          *)
EXTENDS ConfigEdit

Line(key) == key \o <<"=", "v1", NL>>
Block(header, keys) == <<header, NL, NL>> \o FlattenSeq([i \in DOMAIN keys |-> Line(keys[i])])
Saved(blocks) ==
    Line(<<"config_version">>) \o
    FlattenSeq([i \in DOMAIN blocks |-> <<NL>> \o Block(blocks[i][1], blocks[i][2])])

Application == <<"[application]", <<<<"name">>>>>>
Editor(keys) == <<"[editor_plugins]", keys>>
Loads(keys) == <<"[autoload]", keys>>

SavedFiles == {
    Saved(<<Application>>),
    Saved(<<Application, Loads(<<<<"A">>>>)>>),
    Saved(<<Application, Loads(<<<<"B">>, <<"A">>, <<"C">>>>), Editor(<<>>)>>),
    Saved(<<Loads(<<<<"A">>>>), Editor(<<<<"plugin/", "p">>>>)>>)}

SomeSettings == {
    [section |-> "[application]", key |-> <<"name">>],
    [section |-> "[application]", key |-> <<"run/main_scene">>],
    [section |-> "[autoload]", key |-> <<"name">>]}
SomeAutoloads == {<<"A">>, <<"B">>, <<"C">>}
SomePlugins == {<<"plugin/", "p">>, <<"plugin/", "q">>}
============================================================================
