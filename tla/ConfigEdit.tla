----------------------------- MODULE ConfigEdit -----------------------------
(***************************************************************************)
(* The tools that edit project.godot in place (src/shared/                 *)
(* config_parser.cpp and src/tools/plugin/plugin_tools.cpp): the file is   *)
(* read as one string, searched for substrings, spliced and written back.  *)
(* parse_ini_file, which the other tools read it with, says what an edit   *)
(* has done to the settings.                                               *)
(*                                                                         *)
(* A content is a sequence of tokens: the newline, a section's header, "=",*)
(* the parts of a key (<<"Game", "Audio">> ends in <<"Audio">>), a value.  *)
(* How a value is quoted is left out.                                      *)
(***************************************************************************)
EXTENDS Naturals, Sequences, FiniteSets, FiniteSetsExt, SequencesExt

CONSTANTS
    Files,      \* the files a project may start with
    Settings,   \* [section, key] pairs set_project_setting is called with
    Autoloads,  \* keys of the autoload tools
    Plugins,    \* keys of the plugin tools ("plugin/<name>")
    Values,     \* values
    MaxEdits    \* bound: calls

NL == "\n"
Headers == {"[application]", "[autoload]", "[editor_plugins]"}
Bools == {"true", "false"}

ASSUME EditAssumption == MaxEdits \in Nat

VARIABLES
    content,    \* project.godot
    last,       \* history: the last call
    edits,      \* calls so far
    joined      \* history: remove_autoload has taken two lines' ends

vars == <<content, last, edits, joined>>

----------------------------------------------------------------------------
(* std::string's find and replace                                          *)

Least(positions, none) == IF positions = {} THEN none ELSE Min(positions)
Find(c, pattern, from) ==
    Least({i \in from..(Len(c) - Len(pattern) + 1) :
             SubSeq(c, i, i + Len(pattern) - 1) = pattern}, Len(c) + 1)
Splice(c, first, end, new) == SubSeq(c, 1, first - 1) \o new \o SubSeq(c, end, Len(c))
At(c, i, token) == i \in DOMAIN c /\ c[i] = token

\* The newline before the next section's header.
NextSection(c, from) ==
    Least({i \in from..(Len(c) - 1) : c[i] = NL /\ c[i + 1] \in Headers}, Len(c) + 1)

----------------------------------------------------------------------------
(* parse_ini_file                                                          *)

\* The state of its loop after a line: [section, settings].
ParseLine(st, line) ==
    LET eq == Find(line, <<"=">>, 1)
        key == SubSeq(line, 1, eq - 1)
    IN  CASE line = <<>> -> st
          [] line # <<>> /\ line[1] \in Headers -> [st EXCEPT !.section = line[1]]
          [] line # <<>> /\ line[1] \notin Headers /\ eq \in DOMAIN line ->
               [st EXCEPT !.settings =
                   {x \in @ : x.section # st.section \/ x.key # key}
                   \cup {[section |-> st.section, key |-> key,
                          value |-> SubSeq(line, eq + 1, Len(line))]}]
          [] OTHER -> st

ParseToken(st, token) ==
    IF token = NL THEN [ParseLine(st, st.line) EXCEPT !.line = <<>>]
    ELSE [st EXCEPT !.line = Append(@, token)]

Parse(c) ==
    FoldLeft(ParseToken, [section |-> "", settings |-> {}, line |-> <<>>], c \o <<NL>>).settings

----------------------------------------------------------------------------
(* The edits                                                               *)

SetSettingUnbounded(c, section, key, value) ==
    LET header == Find(c, <<section>>, 1)
        line == key \o <<"=", value>>
        found == Find(c, key \o <<"=">>, header + 1)
    IN  IF header > Len(c) THEN c \o <<NL, section, NL>> \o line \o <<NL>>
        ELSE IF found <= Len(c) THEN Splice(c, found, Find(c, <<NL>>, found), line)
        ELSE Splice(c, header + 2, header + 2, line \o <<NL>>)

\* set_project_setting: replace the key's line, or insert one below the
\* header, or add the section at the end.
SetSetting(c, section, key, value) ==
    LET header == Find(c, <<section>>, 1)
        line == key \o <<"=", value>>
        found == Find(c, key \o <<"=">>, header + 1)
        below == IF At(c, header + 1, NL) THEN header + 2 ELSE header + 1
    IN  CASE header > Len(c) ->
               c \o (IF At(c, Len(c), NL) THEN <<>> ELSE <<NL>>)
                 \o <<NL, section, NL>> \o line \o <<NL>>
          [] header <= Len(c) /\ found < NextSection(c, header + 1) ->
               Splice(c, found, Find(c, <<NL>>, found), line)
          [] OTHER -> Splice(c, below, below, line \o <<NL>>)

\* remove_autoload: erase from the newline before the key to the one after
\* its value, both included.
EraseAutoload(c, key) ==
    LET header == Find(c, <<"[autoload]">>, 1)
        found == Find(c, key \o <<"=">>, header + 1)
        start == IF At(c, found - 1, NL) THEN found - 1 ELSE found
    IN  IF header > Len(c) \/ found > Len(c) \/ found > NextSection(c, header + 1) THEN c
        ELSE Splice(c, start, Find(c, <<NL>>, found) + 1, <<>>)

PluginAppended(c, key, value) ==
    LET header == Find(c, <<"[editor_plugins]">>, 1)
        line == key \o <<"=", value>>
        end == NextSection(c, header + 1)
    IN  IF header > Len(c) THEN c \o <<NL, "[editor_plugins]", NL>> \o line \o <<NL>>
        ELSE Splice(c, end, end, line \o <<NL>>)

\* set_plugin_enabled, for a plugin that is installed: like set_project_setting,
\* but a new line goes to the end of the section.
SetPluginEnabled(c, key, value) ==
    LET header == Find(c, <<"[editor_plugins]">>, 1)
        line == key \o <<"=", value>>
        end == NextSection(c, header + 1)
        found == Find(c, key \o <<"=">>, header)
    IN  CASE header > Len(c) -> c \o <<NL, "[editor_plugins]", NL>> \o line \o <<NL>>
          [] header <= Len(c) /\ found < end ->
               Splice(c, found, Find(c, <<NL>>, found), line)
          [] OTHER -> Splice(c, end, end, line \o <<NL>>)

----------------------------------------------------------------------------
(* A sequence of calls                                                     *)

Init ==
    /\ content \in Files
    /\ last = [call |-> "none", section |-> "", key |-> <<>>, value |-> ""]
    /\ edits = 0 /\ joined = FALSE

Edit(call, section, key, value, new) ==
    /\ edits < MaxEdits /\ edits' = edits + 1
    /\ content' = new
    /\ last' = [call |-> call, section |-> section, key |-> key, value |-> value]

\* The lines that are not blank and end in a newline.
Lines(c) == Cardinality({i \in DOMAIN c : c[i] # NL /\ At(c, i + 1, NL)})

\* config_parser leaves an empty (or unreadable) file alone.
Readable == content # <<>>

\* set_project_setting, and set_main_scene by way of it
SetProjectSetting ==
    /\ Readable
    /\ \E s \in Settings, v \in Values :
           Edit("set", s.section, s.key, v, SetSetting(content, s.section, s.key, v))
    /\ UNCHANGED joined

\* add_autoload
AddAutoload ==
    /\ Readable
    /\ \E k \in Autoloads, v \in Values :
           Edit("set", "[autoload]", k, v, SetSetting(content, "[autoload]", k, v))
    /\ UNCHANGED joined

\* remove_autoload
RemoveAutoload ==
    /\ Readable
    /\ \E k \in Autoloads : Edit("remove", "[autoload]", k, "", EraseAutoload(content, k))
    /\ joined' = (joined \/ Lines(content') < Lines(content) - 1)

\* enable_plugin, disable_plugin
TogglePlugin ==
    /\ \E k \in Plugins, v \in Bools :
           Edit("set", "[editor_plugins]", k, v, SetPluginEnabled(content, k, v))
    /\ UNCHANGED joined

Next == SetProjectSetting \/ AddAutoload \/ RemoveAutoload \/ TogglePlugin

Spec == Init /\ [][Next]_vars

----------------------------------------------------------------------------
(* Properties                                                              *)

Without(settings, call) ==
    {x \in settings : x.section # call.section \/ x.key # call.key}
Asked(call) ==
    IF call.call = "set"
    THEN {[section |-> call.section, key |-> call.key, value |-> <<call.value>>]}
    ELSE {}

\* An edit changes the setting it names and no other one: whatever was added
\* to the file or removed from it before, in whatever place, a reader finds
\* every other setting with its value -- until a removal takes the end of the
\* line above as well (config_parser.cpp:379 says "Remove the line").
EditsAreExact ==
    [][~joined' => Parse(content') = Without(Parse(content), last') \cup Asked(last')]_vars

\* However often a key is set, by whichever tool, it stands in its section
\* once (no two keys of the runs end in the same part in one section).
KeysOnce ==
    ~joined => \A i, j \in DOMAIN content :
        /\ i < j /\ content[i] = "=" /\ content[j] = "="
        /\ content[i - 1] = content[j - 1]
        => NextSection(content, i) < j
============================================================================
