----------------------------- MODULE SceneEdits -----------------------------
(***************************************************************************)
(* The tools that edit the scene open in the editor (src/tools/scene/      *)
(* scene_tools_phase2.cpp, the live branch of add_node and of the          *)
(* navigation and animation tools), the undo history they register their   *)
(* edits with, and the file save_scene writes. All of them run on the main *)
(* thread, one call at a time; the user's undo and redo come in between.   *)
(*                                                                         *)
(* Godot's part is external: the tree refuses a second parent and a cycle, *)
(* a node taken out of the tree loses an owner that stays behind, and so   *)
(* does everything below it; the history skips an operation with a wrong   *)
(* number of arguments or on a freed object, and erases the objects of the *)
(* redo steps a new action drops.                                          *)
(***************************************************************************)
EXTENDS Naturals, Sequences, FiniteSets, SequencesExt

CONSTANTS
    Initial,    \* the scene at the start: [node -> parent], the root included
    Fresh,      \* the nodes the tools may create, in that order: a sequence
    Root,       \* the edited scene's root, which is also its name
    Viewport,   \* the editor's parent of the root
    Nil,        \* no node
    Paths,      \* node paths the tools are called with
    Requests,   \* properties and their values set_node_properties is called with
    MaxSteps    \* bound: tool calls, undos and redos

Nodes == DOMAIN Initial \cup Range(Fresh)

ASSUME SceneAssumption ==
    /\ MaxSteps \in Nat
    /\ Initial[Root] = Viewport
    /\ Range(Fresh) \cap DOMAIN Initial = {}

VARIABLES
    scene,      \* [parent, owner, property] of every node
    made,       \* nodes that exist
    unused,     \* the rest of Fresh
    history,    \* the undo history: a sequence of actions [do, undo, refs]
    cursor,     \* how many of them are done
    file,       \* [node -> parent] of the scene file
    gone,       \* the root, or a node a handler still uses, has been freed
    steps,
    about,      \* history: nodes the last step may touch
    before,     \* history: the scene before the last tool call, <<>> after others
    carried     \* history: nodes moved below a reparented node

vars == <<scene, made, unused, history, cursor, file, gone, steps, about, before, carried>>

----------------------------------------------------------------------------
(* Godot's tree                                                            *)

RECURSIVE Ancestors(_, _)
Ancestors(s, n) ==
    IF s.parent[n] \in Nodes THEN {s.parent[n]} \cup Ancestors(s, s.parent[n]) ELSE {}
Branch(s, top) == {n \in Nodes : top \in {n} \cup Ancestors(s, n)}

AddChild(s, parent, child) ==
    IF s.parent[child] # Nil \/ parent \in Branch(s, child) THEN s
    ELSE [s EXCEPT !.parent[child] = parent]

RemoveChild(s, parent, child) ==
    LET cut == Branch(s, child)
        leaves(n) == /\ n \in cut
                     /\ s.parent[Root] = Viewport
                     /\ s.owner[n] \notin cut
    IN  IF s.parent[child] # parent THEN s
        ELSE [s EXCEPT !.parent[child] = Nil,
                       !.owner = [n \in Nodes |-> IF leaves(n) THEN Nil ELSE @[n]]]

SetOwner(s, node, owner) ==
    IF owner \in Ancestors(s, node) \cup {Nil}
    THEN [s EXCEPT !.owner[node] = owner] ELSE s
SetOwnerNodeOnly(s, top, owner) == SetOwner(s, top, owner)
SetOwnerRecursive(s, top, owner) ==
    IF owner \in Ancestors(s, top)
    THEN [s EXCEPT !.owner = [n \in Nodes |-> IF n \in Branch(s, top) THEN owner ELSE @[n]]]
    ELSE s

\* A freed node takes its branch with it.
Free(s, nodes) ==
    LET dead == UNION {Branch(s, n) : n \in nodes}
    IN  [s EXCEPT !.parent = [n \in Nodes |-> IF n \in dead THEN Nil ELSE @[n]],
                  !.owner = [n \in Nodes |-> IF n \in dead THEN Nil ELSE @[n]]]

\* What the editor packs: the nodes with an unbroken chain of owned ancestors.
Packed(s) ==
    LET kept == {n \in Branch(s, Root) \ {Root} :
                   \A m \in (Ancestors(s, n) \cup {n}) \ {Root} : s.owner[m] = Root}
    IN  [n \in kept |-> s.parent[n]]

----------------------------------------------------------------------------
(* The undo history                                                        *)

Call(object, method, args) ==
    [kind |-> "method", object |-> object, method |-> method, args |-> args]
Set(object, property, value) ==
    [kind |-> "property", object |-> object, property |-> property, value |-> value]

\* The methods take one argument each. The values registered are Strings,
\* which a property of another type refuses.
Run(s, op) ==
    IF op.object \notin made THEN s
    ELSE CASE op.kind = "property" ->
                IF op.property = "text" THEN [s EXCEPT !.property[op.object].text = op.value] ELSE s
           [] op.kind = "method" /\ Len(op.args) # 1 -> s
           [] op.kind = "method" /\ Len(op.args) = 1 ->
                CASE op.method = "add_child" -> AddChild(s, op.object, op.args[1])
                  [] op.method = "remove_child" -> RemoveChild(s, op.object, op.args[1])
                  [] op.method = "set_owner" -> SetOwner(s, op.object, op.args[1])

RunAll(s, ops) == FoldLeft(Run, s, ops)

\* The objects create_action erases with the redo steps it drops.
Dropped == UNION {history[i].refs : i \in (cursor + 1)..Len(history)} \cap made
Erased == UNION {Branch(scene, n) : n \in Dropped}

\* create_action, the registrations and commit_action, which runs the do
\* operations. What they do to the scene s:
Committed(s, do) == RunAll(Free(s, Dropped), do)
Register(do, undo, refs) ==
    /\ history' = Append(SubSeq(history, 1, cursor), [do |-> do, undo |-> undo, refs |-> refs])
    /\ cursor' = cursor + 1

----------------------------------------------------------------------------
(* Paths                                                                   *)

Step(n, segment) ==
    CASE n = Nil \/ segment = "." -> n
      [] n # Nil /\ segment = ".." -> scene.parent[n]
      [] OTHER -> IF segment \in made /\ scene.parent[segment] = n THEN segment ELSE Nil

GetNodeChild(path) == FoldLeft(Step, Root, path)

IsRoot(path) == path \in {<<".">>, <<Root>>}
Resolve(path) ==
    CASE IsRoot(path) -> Root
      [] ~IsRoot(path) /\ Len(path) > 1 /\ path[1] = Root -> GetNodeChild(Tail(path))
      [] OTHER -> GetNodeChild(path)
\* add_node and the tools like it do not strip the root's name.
ResolveParent(path) == IF IsRoot(path) THEN Root ELSE GetNodeChild(path)

----------------------------------------------------------------------------
(* The tools. A path that names no node is an error and changes nothing.   *)

\* A handler that still holds a node the history has just erased is undefined
\* behaviour, and so is everything once the root is freed: the model stops.
Edit(s, nodes, touched, held) ==
    /\ steps < MaxSteps /\ ~gone
    /\ steps' = steps + 1
    /\ scene' = s
    /\ made' = nodes \ Erased
    /\ gone' = (Root \notin made' \/ Erased \cap held # {})
    /\ about' = touched \cup Erased
    /\ before' = <<scene>>
    /\ UNCHANGED file

\* Nothing is registered: no action is created, no redo step is dropped.
PlainEdit(s, new) ==
    /\ steps < MaxSteps /\ ~gone
    /\ steps' = steps + 1
    /\ scene' = s
    /\ made' = made \cup new
    /\ unused' = SubSeq(unused, Cardinality(new) + 1, Len(unused))
    /\ about' = new
    /\ before' = <<>>
    /\ UNCHANGED <<history, cursor, file, gone, carried>>

Enter(s, parent, new) == SetOwner(AddChild(s, parent, new), new, Root)

AddNode(path) ==
    LET parent == ResolveParent(path)
        new == Head(unused)
        do == <<Call(parent, "add_child", <<parent, new>>), Call(new, "set_owner", <<new, Root>>)>>
        undo == <<Call(parent, "remove_child", <<parent, new>>)>>
    IN  /\ unused # <<>> /\ parent \in Nodes
        /\ Edit(Enter(Committed(scene, do), parent, new), made \cup {new}, {new}, {parent})
        /\ Register(do, undo, {new})
        /\ unused' = Tail(unused)
        /\ UNCHANGED carried

CreateNavigationRegion(path) ==
    LET parent == ResolveParent(path)
        new == Head(unused)
    IN  /\ unused # <<>> /\ parent \in Nodes
        /\ PlainEdit(Enter(scene, parent, new), {new})

CreateNavigationAgent(path) == CreateNavigationRegion(path)

CreateAnimationTree(path) ==
    LET parent == ResolveParent(path)
        new == Head(unused)
    IN  /\ unused # <<>> /\ parent \in Nodes
        /\ PlainEdit(SetOwnerRecursive(AddChild(scene, parent, new), new, Root), {new})

DeleteNode(path) ==
    LET node == Resolve(path)
        parent == scene.parent[node]
        do == <<Call(parent, "remove_child", <<parent, node>>)>>
        undo == <<Call(parent, "add_child", <<parent, node>>)>>
        branch == Branch(scene, node)
    IN  /\ ~IsRoot(path) /\ node \in Nodes /\ parent # Nil
        /\ Edit(Free(RemoveChild(Committed(scene, do), parent, node), {node}),
                made \ branch, branch, {node, parent})
        /\ Register(do, undo, {node})
        /\ UNCHANGED <<unused, carried>>

\* Node.duplicate: every node of the branch gets a new one, outside the tree.
Copies(node) ==
    LET branch == SetToSeq(Branch(scene, node))
    IN  [n \in Range(branch) |-> unused[CHOOSE i \in DOMAIN branch : branch[i] = n]]
Copied(node, copies) ==
    LET of(n) == CHOOSE m \in DOMAIN copies : copies[m] = n
        isNew(n) == n \in Range(copies)
    IN  [scene EXCEPT
           !.parent = [n \in Nodes |-> IF isNew(n) /\ of(n) # node THEN copies[@[of(n)]] ELSE @[n]],
           !.property = [n \in Nodes |-> IF isNew(n) THEN @[of(n)] ELSE @[n]]]

DuplicateNodeOwnsAll(path) ==
    LET node == Resolve(path)
        parent == scene.parent[node]
        copies == Copies(node)
        added == AddChild(Copied(node, copies), parent, copies[node])
    IN  /\ node \in Nodes /\ parent \in Nodes
        /\ Cardinality(Branch(scene, node)) <= Len(unused)
        /\ PlainEdit(SetOwnerRecursive(added, parent, Root), Range(copies))

DuplicateNode(path) ==
    LET node == Resolve(path)
        parent == scene.parent[node]
        copies == Copies(node)
        added == AddChild(Copied(node, copies), parent, copies[node])
    IN  /\ node \in Nodes /\ parent # Nil
        /\ Cardinality(Branch(scene, node)) <= Len(unused)
        /\ PlainEdit(SetOwnerRecursive(added, copies[node], Root), Range(copies))

ReparentNode(path, newPath) ==
    LET node == Resolve(path)
        target == Resolve(newPath)
        parent == scene.parent[node]
        do == <<Call(parent, "remove_child", <<parent, node>>),
                Call(target, "add_child", <<target, node>>),
                Call(node, "set_owner", <<node, Root>>)>>
        undo == <<Call(target, "remove_child", <<target, node>>),
                  Call(parent, "add_child", <<parent, node>>),
                  Call(node, "set_owner", <<node, Nil>>)>>
    IN  /\ node \in Nodes /\ target \in Nodes /\ parent # Nil
        /\ Edit(SetOwner(AddChild(RemoveChild(Committed(scene, do), parent, node), target, node),
                         node, Root),
                made, Branch(scene, node), {node, target, parent})
        /\ Register(do, undo, {})
        /\ UNCHANGED unused
        /\ carried' = (carried \ {node}) \cup (Branch(scene, node) \ {node})

\* A String's JSON text has the quotes, which get_property_json puts around
\* every value.
Quoted(value) == <<"quote">> \o value \o <<"quote">>
JsonText(property, value) == IF property = "text" THEN Quoted(value) ELSE value

\* The values are assigned first: what is read back then is what the do
\* operations set, and the undo operations set what was requested.
SetNodeProperties(path, request) ==
    LET node == Resolve(path)
        assigned == [scene EXCEPT !.property[node] = request @@ @]
        names == SetToSeq(DOMAIN request)
        do == [i \in DOMAIN names |->
                 Set(node, names[i], Quoted(assigned.property[node][names[i]]))]
        undo == [i \in DOMAIN names |->
                   Set(node, names[i], JsonText(names[i], request[names[i]]))]
    IN  /\ node \in Nodes
        /\ Edit(Committed(assigned, do), made, {node}, {node})
        /\ Register(do, undo, {})
        /\ UNCHANGED <<unused, carried>>

\* save_scene's path is not used: the edited scene is saved where it lives.
SaveScene ==
    /\ ~gone /\ file # Packed(scene)
    /\ file' = Packed(scene)
    /\ about' = {} /\ before' = <<>>
    /\ UNCHANGED <<scene, made, unused, history, cursor, gone, steps, carried>>

----------------------------------------------------------------------------
(* The user: Ctrl+Z and its reverse                                        *)

Replay(ops, position) ==
    /\ steps < MaxSteps /\ ~gone
    /\ steps' = steps + 1
    /\ scene' = RunAll(scene, ops)
    /\ cursor' = position
    /\ about' = {op.object : op \in Range(ops)}
    /\ before' = <<>>
    /\ UNCHANGED <<made, unused, history, file, gone, carried>>

Undo == cursor > 0 /\ Replay(history[cursor].undo, cursor - 1)
Redo == cursor < Len(history) /\ Replay(history[cursor + 1].do, cursor + 1)

----------------------------------------------------------------------------

Init ==
    /\ scene = [parent |-> [n \in Nodes |-> IF n \in Range(Fresh) THEN Nil ELSE Initial[n]],
                owner |-> [n \in Nodes |-> IF n \in Range(Fresh) \cup {Root} THEN Nil ELSE Root],
                property |-> [n \in Nodes |-> [text |-> <<>>, number |-> <<0>>]]]
    /\ made = DOMAIN Initial /\ unused = Fresh
    /\ history = <<>> /\ cursor = 0
    /\ file = Packed(scene)
    /\ gone = FALSE /\ steps = 0
    /\ about = {} /\ before = <<>> /\ carried = {}

Next ==
    \/ \E path \in Paths :
         \/ AddNode(path)
         \/ CreateNavigationRegion(path)
         \/ CreateNavigationAgent(path)
         \/ CreateAnimationTree(path)
         \/ DeleteNode(path)
         \/ DuplicateNode(path)
         \/ \E newPath \in Paths : ReparentNode(path, newPath)
         \/ \E request \in Requests : SetNodeProperties(path, request)
    \/ SaveScene \/ Undo \/ Redo

Spec == Init /\ [][Next]_vars

----------------------------------------------------------------------------

\* A call changes nothing but the branch it names and the nodes it makes, and
\* the user's undo and redo nothing but the objects of the undone call: no
\* other node moves, loses its owner or gets another value
\* (scene_tools_phase2.cpp's handlers work on the live tree, without a copy).
OthersUntouched ==
    [][\A n \in Nodes \ about' :
          /\ scene'.parent[n] = scene.parent[n]
          /\ scene'.owner[n] = scene.owner[n]
          /\ scene'.property[n] = scene.property[n]]_vars

\* What save_scene writes: every node of the tree is in the file, however it
\* came there, unless it or a node above it was carried along by a reparent,
\* which gives the owner back to the named node only.
SavedUnlessCarried ==
    \A n \in Branch(scene, Root) \ {Root} :
        (Ancestors(scene, n) \cup {n}) \cap carried = {} => n \in DOMAIN Packed(scene)

\* scene_tools_phase2.cpp:149: "Wrapped in EditorUndoRedoManager so Ctrl+Z in
\* the editor undoes the change": undoing right after a call restores the scene.
UndoRestores ==
    [][cursor' < cursor /\ before # <<>> => scene' = before[1]]_vars
=============================================================================
