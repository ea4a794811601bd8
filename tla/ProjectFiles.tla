----------------------------- MODULE ProjectFiles -----------------------------
(***************************************************************************)
(* The tools that edit a resource, an import or a scene file as text       *)
(* (src/tools: resource, animation, theme, import, signal, navigation and  *)
(* scene). Each reads the file, computes the new text and writes it; no    *)
(* lock is held. A tool registered for the main thread runs there, one at a*)
(* time, unless the dispatch flag is down; every other one, and then that  *)
(* one too, runs on its client's thread. Any of them may be cut off when   *)
(* the editor ends.                                                        *)
(*                                                                         *)
(* A file is a sequence of lines and says whether the last one lacks its   *)
(* newline. What Godot loads from it is compared with what the tools have  *)
(* acknowledged.                                                           *)
(***************************************************************************)
EXTENDS Integers, Sequences, SequencesExt, FiniteSetsExt

CONSTANTS
    Calls,          \* tool calls, each made at most once
    Names,          \* property keys, node names and connections
    MaxCrashes      \* bound: ends of the editor

ASSUME FilesAssumption ==
    /\ MaxCrashes \in Nat
    /\ Names \cap {"root", "shader"} = {} /\ "user" \notin Calls

VARIABLES
    kind,       \* "resource", "import" or "scene": which file this is
    file,       \* [there, lines, open]; open: the last line has no newline
    pc,         \* [call -> "idle", "read", "rewrite", "write", "append", "done"]
    job,        \* [call -> [tool, name, main]]; main: it runs on the main thread
    text,       \* [call -> the edit it has computed, see Plan]
    facts,      \* the acknowledged <<slot, value>> pairs
    lost,       \* history: the slots an edit of which was lost, see LosesItself
    known,      \* history: no two calls were in the middle of their writes at once
    crashes

vars == <<kind, file, pc, job, text, facts, lost, known, crashes>>

----------------------------------------------------------------------------
(* Text                                                                    *)

\* name is what the line is looked for by, by the call that wrote its value.
Line(is, name, by) == [is |-> is, name |-> name, by |-> by]
Header == Line("header", "", "user")       \* [gd_resource ...], [gd_scene ...]
Blank == Line("blank", "", "user")
Section == Line("section", "", "user")     \* [resource], [params]
Sub == Line("sub", "", "user")             \* [sub_resource ...]

Text(lines) == [there |-> TRUE, lines |-> lines, open |-> FALSE]
Absent == [there |-> FALSE, lines |-> <<>>, open |-> FALSE]

At(lines, is) == {i \in DOMAIN lines : lines[i].is = is}
Keys(lines, name) == {i \in At(lines, "key") : lines[i].name = name}
First(places) == Min(places \cup {1000})
Insert(lines, i, line) == SubSeq(lines, 1, i - 1) \o <<line>> \o SubSeq(lines, i, Len(lines))
HasHeader(lines) == lines # <<>> /\ lines[1].is = "header"

\* std::ios::app. Behind an open line the text goes on in that line.
Glue(f, lines) ==
    IF ~f.open THEN Text(f.lines \o lines)
    ELSE LET last == Last(f.lines)
             glued == IF lines[1] = Blank THEN last ELSE [last EXCEPT !.by = "garbled"]
         IN Text(Append(Front(f.lines), glued) \o Tail(lines))

\* A write from offset 0 leaves the end of a longer file.
Over(f, new) ==
    IF Len(f.lines) <= Len(new.lines) THEN new
    ELSE [f EXCEPT !.lines = new.lines \o SubSeq(@, Len(new.lines) + 1, Len(@))]

----------------------------------------------------------------------------
(* What Godot loads: the last assignment of a key counts, a script is bound*)
(* to the node above it through the resource of its id.                    *)

LoadedKeys(lines) ==
    LET start == First(At(lines, "section"))
        ends == {i \in At(lines, "key") : i > start /\
                    \A j \in Keys(lines, lines[i].name) : j <= i}
    IN {<<<<"key", lines[i].name>>, lines[i].by>> : i \in ends}

LoadedTracks(lines) ==
    {<<<<"track", lines[i].by>>, lines[i].name>> : i \in
        {j \in At(lines, "track") :
            \A k \in At(lines, "track") : lines[k].name = lines[j].name => k <= j}}

LoadedScene(lines) ==
    LET node(i) == lines[Max({j \in At(lines, "node") : j < i})].by
        ext(id) == {lines[j].by : j \in {k \in At(lines, "ext") : lines[k].name = id}}
    IN  {<<<<"node", lines[i].by>>, lines[i].name>> : i \in At(lines, "node")}
        \cup {<<<<"connection", lines[i].name>>, "made">> : i \in At(lines, "connection")}
        \cup UNION {{<<<<"script", node(i)>>, by>> : by \in ext(lines[i].name)} :
                        i \in At(lines, "script")}

Loaded(f) ==
    IF ~HasHeader(f.lines) THEN {}
    ELSE LoadedKeys(f.lines) \cup LoadedTracks(f.lines) \cup LoadedScene(f.lines)

----------------------------------------------------------------------------
(* The tools. A plan is how the file is written, the text, the fact that is*)
(* acknowledged, whether it misses its place, and whether it was made from *)
(* a file without a header.                                                *)

Plan(how, new, slot, value) ==
    [how |-> how, new |-> new, slot |-> slot, value |-> value, misses |-> FALSE, blind |-> FALSE]
Refuse == Plan("refuse", Absent, <<>>, "")
Rewrite(new, slot, value) == Plan("rewrite", new, slot, value)
AppendLine(line, slot, value) == Plan("append", Text(<<line>>), slot, value)

\* The line that is replaced is not the one the key is loaded from.
Misses(lines, i) ==
    i \in DOMAIN lines /\ (i < First(At(lines, "section")) \/ i # Max(Keys(lines, lines[i].name)))

CreateResource(c, k, f) ==
    Rewrite(Text(<<Header, Blank, Section, Line("key", k, c)>>), <<"key", k>>, c)

\* A key's first line inside the section is replaced, or one is inserted at its
\* end. A second [resource] line moves the start.
InSection(lines, line) ==
    LET first == First(At(lines, "section"))
        end == Min({i \in At(lines, "sub") : i > first} \cup {Len(lines) + 1})
        start == Max({i \in At(lines, "section") : i < end})
        found == {i \in Keys(lines, line.name) : start < i /\ i < end}
    IN IF found = {} THEN [lines |-> Insert(lines, end, line), at |-> end]
       ELSE [lines |-> ReplaceAt(lines, Min(found), line), at |-> Min(found)]

\* Written without a newline at the end.
ModifyResource(c, k, f) ==
    IF At(f.lines, "section") = {} THEN Refuse
    ELSE LET edit == InSection(f.lines, Line("key", k, c))
         IN [Rewrite([Text(edit.lines) EXCEPT !.open = TRUE], <<"key", k>>, c)
                EXCEPT !.misses = Misses(edit.lines, edit.at)]

\* set_theme_color, set_theme_font_size: the first such line of the file.
SetThemeItem(c, k, f) ==
    LET line == Line("key", k, c)
        found == Keys(f.lines, k)
        lines == ReplaceAt(f.lines, Min(found), line)
    IN CASE found # {} -> [Rewrite(Text(lines), <<"key", k>>, c)
                              EXCEPT !.misses = Misses(lines, Min(found))]
         [] found = {} /\ ~HasHeader(f.lines) -> CreateResource(c, k, f)
         [] found = {} /\ HasHeader(f.lines) -> AppendLine(line, <<"key", k>>, c)

\* The file is not read.
ApplyThemeShader(c, k, f) == AppendLine(Line("key", "shader", c), <<"key", "shader">>, c)

NextTrackLow(lines) == Max({0} \cup {lines[i].name : i \in At(lines, "track")})
NextTrack(lines) == Max({0} \cup {lines[i].name + 1 : i \in At(lines, "track")})

AddAnimationTrack(c, k, f) ==
    LET n == NextTrack(f.lines)
    IN IF ~f.there THEN Refuse
       ELSE Rewrite(Text(Append(f.lines, Line("track", n, c))), <<"track", c>>, n)

SetImportOptions(c, k, f) ==
    LET line == Line("key", k, c)
        edit == InSection(f.lines, line)
    IN CASE ~f.there -> Refuse
         [] f.there /\ At(f.lines, "section") = {} ->
                Plan("append", Text(<<Blank, Section, line>>), <<"key", k>>, c)
         [] f.there /\ At(f.lines, "section") # {} ->
                [Rewrite(Text(edit.lines), <<"key", k>>, c)
                    EXCEPT !.misses = Misses(edit.lines, edit.at)]

CreateScene(c, k, f) ==
    Rewrite(Text(<<Header, Blank, Line("node", "root", c)>>), <<"node", c>>, "root")

\* add_node on a scene that is not open in the editor.
AddNodeToFile(c, k, f) ==
    IF ~f.there THEN Refuse
    ELSE Rewrite(Text(Append(f.lines, Line("node", k, c))), <<"node", c>>, k)

\* create_navigation_region, create_navigation_agent, create_animation_tree.
AppendNode(c, k, f) ==
    IF ~HasHeader(f.lines) THEN Refuse ELSE AppendLine(Line("node", k, c), <<"node", c>>, k)

\* Without a look at the ids of the file.
FixedId(lines) == 1

\* The smallest id no resource of the file has.
FreshId(lines) == Min((1 .. Len(lines) + 1) \ {lines[i].name : i \in At(lines, "ext")})

\* The first node of that name; MayRefuse stands for the test of its parent. Its
\* block ends at the next blank line; one that has a script in it is refused.
AttachScriptToNode(c, k, f) ==
    LET nodes == At(f.lines, "node")
        named == {i \in nodes : f.lines[i].name = k}
        node == Min(named)
        end == Min({i \in At(f.lines, "blank") : i > node} \cup {Len(f.lines) + 1})
        id == FreshId(f.lines)
        scripted == Insert(f.lines, node + 1, Line("script", id, c))
    IN IF named = {} \/ \E i \in At(f.lines, "script") : node < i /\ i < end THEN Refuse
       ELSE Rewrite(Text(Insert(scripted, Min(nodes), Line("ext", id, c))),
                    <<"script", f.lines[node].by>>, c)

Connections(lines, k) == {i \in At(lines, "connection") : lines[i].name = k}

ConnectSignal(c, k, f) ==
    IF ~f.there \/ Connections(f.lines, k) # {} THEN Refuse
    ELSE Rewrite(Text(Append(f.lines, Line("connection", k, c))), <<"connection", k>>, "made")

DisconnectSignal(c, k, f) ==
    IF Connections(f.lines, k) = {} THEN Refuse
    ELSE Rewrite(Text(RemoveAt(f.lines, Min(Connections(f.lines, k)))), <<"connection", k>>, "made")

ToolPlan(c, f) ==
    LET k == job[c].name IN
    CASE job[c].tool = "create_resource" -> CreateResource(c, k, f)
      [] job[c].tool = "modify_resource" -> ModifyResource(c, k, f)
      [] job[c].tool = "set_theme_color" -> SetThemeItem(c, k, f)
      [] job[c].tool = "apply_theme_shader" -> ApplyThemeShader(c, k, f)
      [] job[c].tool = "add_animation_track" -> AddAnimationTrack(c, k, f)
      [] job[c].tool = "set_import_options" -> SetImportOptions(c, k, f)
      [] job[c].tool = "create_scene" -> CreateScene(c, k, f)
      [] job[c].tool = "add_node" -> AddNodeToFile(c, k, f)
      [] job[c].tool = "create_navigation_region" -> AppendNode(c, k, f)
      [] job[c].tool = "attach_script_to_node" -> AttachScriptToNode(c, k, f)
      [] job[c].tool = "connect_signal" -> ConnectSignal(c, k, f)
      [] job[c].tool = "disconnect_signal" -> DisconnectSignal(c, k, f)

Tools ==
    CASE kind = "resource" -> {"create_resource", "modify_resource", "set_theme_color",
                               "apply_theme_shader", "add_animation_track"}
      [] kind = "import" -> {"set_import_options"}
      [] kind = "scene" -> {"create_scene", "add_node", "create_navigation_region",
                            "attach_script_to_node", "connect_signal", "disconnect_signal"}

\* The parents of nodes are not in the model: the one that attach_script_to_node
\* finds may not be the one in the path it was given.
MayRefuse(c) == job[c].tool = "attach_script_to_node"

OnMain(tool) == tool \in {"add_node", "create_navigation_region", "attach_script_to_node"}

Creates(c) == job[c].tool \in {"create_resource", "create_scene"}
Removes(c) == job[c].tool = "disconnect_signal"

----------------------------------------------------------------------------
(* A call's steps                                                          *)

Active(c) == pc[c] \notin {"idle", "done"}

NoJob == [tool |-> "none", name |-> "none", main |-> FALSE]

\* The call is answered; its locals are gone.
End(c) ==
    /\ pc' = [pc EXCEPT ![c] = "done"]
    /\ job' = [job EXCEPT ![c] = NoJob]
    /\ text' = [text EXCEPT ![c] = Refuse]

BeginAnyTime(c) ==
    /\ pc[c] = "idle"
    /\ \E tool \in Tools, name \in Names, main \in BOOLEAN :
            /\ main => OnMain(tool)
            /\ job' = [job EXCEPT ![c] = [tool |-> tool, name |-> name, main |-> main]]
    /\ pc' = [pc EXCEPT ![c] = "read"]
    /\ UNCHANGED <<kind, file, text, facts, lost, known, crashes>>

\* What the main thread's queue runs, it runs one at a time. While the dispatch
\* flag is down it is passed by.
Begin(c) ==
    /\ BeginAnyTime(c)
    /\ job'[c].main => \A d \in Calls : Active(d) => ~job[d].main

\* Another call, not of the same main thread, is at one of the places.
Crossed(c, places) ==
    \E d \in Calls \ {c} : pc[d] \in places /\ ~(job[c].main /\ job[d].main)

\* A read between another call's truncation and its write finds nothing.
Read(c) ==
    LET plan == ToolPlan(c, file) IN
    /\ pc[c] = "read"
    /\ \/ (plan.how = "refuse" \/ MayRefuse(c)) /\ End(c)
       \/ /\ plan.how # "refuse"
          /\ pc' = [pc EXCEPT ![c] = plan.how]
          /\ text' = [text EXCEPT ![c] = [plan EXCEPT !.blind = ~HasHeader(file.lines)]]
          /\ UNCHANGED job
    /\ UNCHANGED <<kind, file, facts, lost, known, crashes>>

Continues(c) == text[c].how = "append" /\ file.open /\ text[c].new.lines[1] # Blank

\* An edit is lost when another call has read the file before it and writes
\* after it, when the line it replaces is not the one that counts, when it goes
\* on in an open line, and when the file has no header.
LosesItself(c) ==
    \/ Crossed(c, {"rewrite", "write"})
    \/ text[c].misses
    \/ Continues(c)
    \/ ~HasHeader(IF text[c].how = "append" THEN file.lines ELSE text[c].new.lines)

Slots(pairs) == {p[1] : p \in pairs}

\* It takes others with it: what the open line said; all that an empty file no
\* longer tells a call that reads it; and when the file is made anew, all that a
\* call still knows of the old one.
LosesOthers(c) ==
    IF Continues(c)
    THEN LET last == Last(file.lines)
         IN CASE last.is = "key" -> {<<"key", last.name>>}
              [] last.is = "track" -> {<<"track", last.by>>, <<"track", "garbled">>}
              [] OTHER -> {}
    ELSE IF text[c].how = "rewrite" /\ (IF Creates(c) THEN Crossed(c, {"rewrite"}) ELSE text[c].blind)
    THEN Slots(facts)
    ELSE {}

\* An edit that is not lost makes its slot good.
Lose(c) ==
    LET own == {text[c].slot}
    IN lost' = (IF LosesItself(c) THEN lost \cup own ELSE lost \ own) \cup LosesOthers(c)

Truncate(c) ==
    /\ pc[c] = "rewrite"
    /\ file' = Text(<<>>)
    /\ pc' = [pc EXCEPT ![c] = "write"]
    /\ Lose(c)
    /\ known' = (known /\ ~Crossed(c, {"write"}))
    /\ UNCHANGED <<kind, job, text, facts, crashes>>

Acknowledge(c) ==
    LET fact == IF Removes(c) THEN {} ELSE {<<text[c].slot, text[c].value>>}
    IN facts' = fact \cup {p \in facts : p[1] # text[c].slot /\ ~Creates(c)}

\* A file that is made anew, with no other call near it, is known again.
Write(c) ==
    LET anew == Creates(c) /\ file = Text(<<>>) /\ \A d \in Calls \ {c} : ~Active(d) IN
    /\ pc[c] = "write"
    /\ file' = Over(file, text[c].new)
    /\ Acknowledge(c) /\ End(c)
    /\ known' = (known \/ anew)
    /\ lost' = IF anew THEN {} ELSE lost
    /\ UNCHANGED <<kind, crashes>>

AppendTo(c) ==
    /\ pc[c] = "append"
    /\ file' = Glue(file, text[c].new.lines)
    /\ Acknowledge(c) /\ End(c)
    /\ Lose(c)
    /\ UNCHANGED <<kind, known, crashes>>

\* The editor ends. The calls end unanswered, the file stays as it is: if one of
\* them had truncated it, all it said is lost.
Crash ==
    /\ crashes < MaxCrashes
    /\ crashes' = crashes + 1
    /\ pc' = [c \in Calls |-> IF Active(c) THEN "done" ELSE pc[c]]
    /\ job' = [c \in Calls |-> NoJob] /\ text' = [c \in Calls |-> Refuse]
    /\ lost' = IF \E c \in Calls : pc[c] = "write" THEN lost \cup Slots(facts) ELSE lost
    /\ UNCHANGED <<kind, file, facts, known>>

----------------------------------------------------------------------------

User(is, name) == Line(is, name, "user")

\* The file before the first call, as Godot leaves it.
Existing ==
    [resource |-> {<<Header, Blank, Section, User("key", k)>> : k \in Names}
        \cup {<<Header, Blank, Sub, User("key", k), Blank, Section>> : k \in Names},
     import |-> {<<Header, Blank, Section, User("key", k)>> : k \in Names} \cup {<<Header>>},
     scene |-> {<<Header, Blank, User("node", "root"), Blank, User("node", k)>> : k \in Names}]

Init ==
    /\ kind \in {"resource", "import", "scene"}
    /\ file \in {Text(lines) : lines \in Existing[kind]} \cup {Absent}
    /\ pc = [c \in Calls |-> "idle"]
    /\ job = [c \in Calls |-> NoJob]
    /\ text = [c \in Calls |-> Refuse]
    /\ facts = Loaded(file)
    /\ lost = {} /\ known = TRUE /\ crashes = 0

Next ==
    \/ \E c \in Calls : Begin(c) \/ Read(c) \/ Truncate(c) \/ Write(c) \/ AppendTo(c)
    \/ Crash

Spec == Init /\ [][Next]_vars

----------------------------------------------------------------------------

\* Whenever no call is in the middle of its write, Godot loads from the file
\* exactly what the tools have acknowledged, and every script is at the node it
\* was asked for, except for the slots whose last edit was lost: calls that
\* overlap, edits that miss their place, and ends of the editor cost no other
\* slot than their own, and one good edit mends a slot. Two writes at once leave
\* nothing to say until the file is made anew.
FileHoldsFacts ==
    known /\ (\A c \in Calls : pc[c] # "write") =>
        {p \in Loaded(file) : p[1] \notin lost} = {p \in facts : p[1] \notin lost}
=============================================================================
