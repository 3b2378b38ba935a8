------------------------------ MODULE Manifests ------------------------------
(***************************************************************************)
(* A plugin's manifest as a graph of named steps: what validate() in       *)
(* plugin_manifest.py accepts, and the rewrites the editor makes           *)
(* (plugins.py, editor_server.py).                                         *)
(*                                                                         *)
(* A manifest is [starts, nodes]: the first step of each entry and the     *)
(* steps in the order they are declared.  A step's body and skill are true *)
(* or false as one is declared; body names the step its code was written   *)
(* for, because the text of a route's code names its ports.  The files of  *)
(* the plugin's directory that a step needs are the set files: "code" when *)
(* every module imports and holds the functions named, "skills" when every *)
(* SKILL.md is there and well formed, "schema" when every schema is.       *)
(***************************************************************************)
EXTENDS Integers, Sequences, FiniteSets, SequencesExt

CONSTANT Nil   \* None

NodeKinds == {"compute", "ask", "route", "stop", "call", "each", "wait"}
KindsNotRunnable == {"each"}

Node(name, kind, body, skill, next, ports) ==
  [name |-> name, kind |-> kind, body |-> body, skill |-> skill, next |-> next, ports |-> ports]

(* The steps by name; of two with one name the later stands.               *)
Names(m) == {m.nodes[i].name : i \in DOMAIN m.nodes}

NodeOf(m, name) ==
  m.nodes[CHOOSE i \in DOMAIN m.nodes :
            /\ m.nodes[i].name = name
            /\ \A j \in DOMAIN m.nodes : m.nodes[j].name = name => j <= i]

Successors(node) == (IF node.next = Nil THEN << >> ELSE << node.next >>) \o SetToSeq(node.ports)

-----------------------------------------------------------------------------
(* What the walks of the graph look at in turn: the steps one step leads   *)
(* to or, for Nil, the steps the entries start at.                         *)
Ahead(m, name) == IF name = Nil THEN m.starts ELSE Successors(NodeOf(m, name))

(* Where a walk may stand: at a step, with so many of its successors left. *)
(* It stands nowhere twice, and so is over after as many moves.            *)
Places(m) == UNION {{name} \X (0..Len(Ahead(m, name))) : name \in Names(m) \cup {Nil}}

(* _first_unreachable: the breadth-first walk after so many moves.         *)
Look(m, w) ==
  IF w.queue = << >> THEN w
  ELSE IF Head(w.queue) \in w.visited THEN [w EXCEPT !.queue = Tail(@)]
  ELSE [queue   |-> Tail(w.queue) \o Ahead(m, Head(w.queue)),
        visited |-> w.visited \cup {Head(w.queue)}]

Broad(m) ==
  LET walk[k \in Nat] == IF k = 0 THEN [queue |-> m.starts, visited |-> {}] ELSE Look(m, walk[k - 1])
  IN walk

Unreachable(m) == ~ (Names(m) \subseteq Broad(m)[Cardinality(Places(m))].visited)

(* _first_cycle: visit() on a stack of its own.  A frame is a step and the *)
(* successors it has not come to yet; the lowest frame is the loop over    *)
(* the entries.                                                            *)
Frame(name, rest) == [name |-> name, rest |-> rest]

Visit(m, w) ==
  LET top == Last(w.stack)
      under == Front(w.stack)
      name == Head(top.rest)
      left == Append(under, [top EXCEPT !.rest = Tail(@)])
  IN IF w.found \/ w.stack = << >> THEN w
     ELSE IF top.rest = << >> THEN [w EXCEPT !.stack = under, !.path = @ \ {top.name}]
     ELSE IF name \in w.path THEN [w EXCEPT !.found = TRUE]
     ELSE IF name \in w.visited THEN [w EXCEPT !.stack = left]
     ELSE [w EXCEPT !.stack = Append(left, Frame(name, Ahead(m, name))),
                    !.visited = @ \cup {name}, !.path = @ \cup {name}]

Entering(m) == [stack |-> << Frame(Nil, m.starts) >>, visited |-> {}, path |-> {}, found |-> FALSE]

Deep(m) ==
  LET walk[k \in Nat] == IF k = 0 THEN Entering(m) ELSE Visit(m, walk[k - 1])
  IN walk

\* Mutant of Cyclic: a step stays on the path when its visit is over.
CyclicWithPath(m) ==
  LET walk[k \in Nat] ==
        IF k = 0 THEN Entering(m)
        ELSE LET w == walk[k - 1] IN [Visit(m, w) EXCEPT !.path = @ \cup w.path]
  IN walk[Cardinality(Places(m))].found

Cyclic(m) == Deep(m)[Cardinality(Places(m))].found

Dangling(m) ==
  \/ \E i \in DOMAIN m.starts : m.starts[i] \notin Names(m)
  \/ \E i \in DOMAIN m.nodes : ({m.nodes[i].next} \ {Nil}) \cup m.nodes[i].ports \notin SUBSET Names(m)

Duplicate(m) == \E i, j \in DOMAIN m.nodes : i # j /\ m.nodes[i].name = m.nodes[j].name

(* _check_skill and _check_body, over every step of the manifest.          *)
SkillsResolve(m, files) ==
  \A i \in DOMAIN m.nodes : m.nodes[i].kind = "ask" => m.nodes[i].skill /\ "skills" \in files

BodiesResolve(m, files) == \A i \in DOMAIN m.nodes : m.nodes[i].body # Nil => "code" \in files

(* validate(): the outcome, the first check that fails deciding.           *)
Validate(m, files, checkBodies) ==
  IF "schema" \notin files THEN "InvalidSchema"
  ELSE IF ~SkillsResolve(m, files) THEN "UnresolvedSkill"
  ELSE IF Duplicate(m) THEN "DuplicateNodeName"
  ELSE IF Dangling(m) THEN "DanglingTarget"
  ELSE IF checkBodies /\ ~BodiesResolve(m, files) THEN "UnresolvedBody"
  ELSE IF Unreachable(m) THEN "UnreachableNode"
  ELSE IF Cyclic(m) THEN "CyclicGraph"
  ELSE "Valid"

-----------------------------------------------------------------------------
(* rename_node, remove_node and add_node, and whether each refuses.        *)
Swap(name, old, new) == IF name = old THEN new ELSE name

\* Mutant of RenameNode: the ports are left as they were.
RenameKeepingPorts(m, old, new) ==
  [starts |-> [i \in DOMAIN m.starts |-> Swap(m.starts[i], old, new)],
   nodes  |-> [i \in DOMAIN m.nodes |->
                 [m.nodes[i] EXCEPT !.name = Swap(@, old, new), !.next = Swap(@, old, new)]]]

RenameNode(m, old, new) ==
  [starts |-> [i \in DOMAIN m.starts |-> Swap(m.starts[i], old, new)],
   nodes  |-> [i \in DOMAIN m.nodes |->
                 [m.nodes[i] EXCEPT !.name = Swap(@, old, new), !.next = Swap(@, old, new),
                                    !.ports = {Swap(p, old, new) : p \in @}]]]

RenameRefused(m, old, new) == old \notin Names(m) \/ (new # old /\ new \in Names(m))

(* One step has the name: no manifest the editor works on repeats one.     *)
RemoveNode(m, name) ==
  LET kept == RemoveAt(m.nodes, CHOOSE i \in DOMAIN m.nodes : m.nodes[i].name = name)
      cut == [i \in DOMAIN kept |->
                [kept[i] EXCEPT !.next = IF @ = name THEN Nil ELSE @, !.ports = @ \ {name}]]
      fallback == IF kept = << >> THEN Nil ELSE kept[1].name
  IN [starts |-> [i \in DOMAIN m.starts |-> Swap(m.starts[i], name, fallback)], nodes |-> cut]

(* fresh is the lowest step_N not taken.                                   *)
AddNode(m, kind, fresh) == [m EXCEPT !.nodes = Append(@, Node(fresh, kind, Nil, FALSE, Nil, {}))]

(* waiting() and the word the editor shows: a plugin is not in trouble for *)
(* code or a skill nobody has written yet.                                 *)
Waiting(m, files) ==
  \/ ~BodiesResolve(m, files)
  \/ "skills" \notin files /\ \E i \in DOMAIN m.nodes : m.nodes[i].kind = "ask" /\ m.nodes[i].skill

StatusWord(m, files) ==
  IF Validate(m, files, FALSE) \notin {"Valid", "UnresolvedSkill"} THEN "has problems"
  ELSE IF Waiting(m, files) THEN "unfinished" ELSE "ready"
=============================================================================
