----------------------------- MODULE PluginGraph -----------------------------
(***************************************************************************)
(* One plugin of one conversation: the walk of its graph (plugin_manifest. *)
(* run_graph), the dispatch of a turn that starts it and records it        *)
(* (plugin_dispatch.build_dispatch, observability.py), the child turns of  *)
(* its ask steps (conversation.run_child), the run that parks and the one  *)
(* that resumes (resume_paused_run), while an editor (editor_server.py)    *)
(* rewrites the manifest under them and the process may die.               *)
(*                                                                         *)
(* A run is numbered when it is dispatched and keeps its number when it is *)
(* resumed.  Its key is the turn and the place in the turn: the primary    *)
(* key of plugin_runs and the name of the run's output directory.  Turns   *)
(* of one conversation, and resumes, exclude each other (conversation_     *)
(* lock), so there is one walk at a time.                                  *)
(***************************************************************************)
EXTENDS Manifests

CONSTANTS
  Steps,        \* the names a step may have
  Authored,     \* the manifests a plugin may be installed with
  Pages,        \* the manifests a page of the editor may save
  MaxTurns, MaxRuns, MaxEdits, MaxCrashes   \* bounds of the model

ASSUME BoundsAssumption == {MaxTurns, MaxRuns, MaxEdits, MaxCrashes} \subseteq Nat
ASSUME NamesAssumption == Nil \notin Steps \cup {"entry", "wait", "call"}

StepShape ==
  [name : Steps, kind : NodeKinds, body : Steps \cup {Nil}, skill : BOOLEAN,
   next : Steps \cup {Nil}, ports : SUBSET Steps]
ManifestShape == [starts : Seq(Steps \cup {Nil}), nodes : Seq(StepShape)]

(* No two steps share a name, every arrow ends at a step, and the entries  *)
(* start at steps, or all at nothing once the last step has been removed.  *)
Arrows(m, i) == ({m.nodes[i].next} \ {Nil}) \cup m.nodes[i].ports
Whole(m) ==
  /\ ~Duplicate(m)
  /\ \A i \in DOMAIN m.nodes : Arrows(m, i) \subseteq Names(m)
  /\ (\A i \in DOMAIN m.starts : m.starts[i] \in Names(m)) \/ (\A i \in DOMAIN m.starts : m.starts[i] = Nil)

(* A plugin is installed when validate() accepts it; the page draws an     *)
(* arrow from a box to a box, takes names from the server and leaves the   *)
(* entries alone (joinTo, stepOp in editor.js).                            *)
ASSUME ManifestsAssumption ==
  /\ Authored \cup Pages \subseteq ManifestShape
  /\ \A m \in Authored : Validate(m, {"code", "skills", "schema"}, TRUE) = "Valid"
  /\ \A m \in Pages : Whole(m)

VARIABLES
  disk,      \* the plugin's directory: its manifest and the files that are well
  code,      \* what each route's code may return, by the step it was written for
  setting,   \* the one setting it declares, a secret: where a value may come from
  held,      \* the manifest in the runtime's plugin set; Nil when it is not in it
  conv,      \* the conversation's row: the next turn and the next child
  turn,      \* the turn being taken: seq_in_turn and the ChildSeqTracker
  walk,      \* the walk being made
  pause,     \* the plugin_pauses row
  rows,      \* plugin_runs, by key
  spans,     \* spans
  children,  \* ghost: the child turns, in the order they were started
  runs,      \* ghost: the runs, in the order they were dispatched
  left       \* edits and crashes left

vars == << disk, code, setting, held, conv, turn, walk, pause, rows, spans, children, runs, left >>

(* What is threaded from step to step.  "live" is the call's arguments,    *)
(* with the memory context in them; "keyed" and "data" are dicts without.  *)
Values == {"live", "keyed", "data", "text"}

CoerceRaises(value) == value = "live"
Persistable(value) == IF value \in {"live", "keyed"} THEN "data" ELSE value

Result(text, failed, paused) == [text |-> text, failed |-> failed, paused |-> paused]
NoResult == Result("none", Nil, Nil)

Resting ==
  [at |-> "rest", run |-> 0, resumed |-> FALSE, parks |-> TRUE, m |-> Nil, node |-> Nil,
   value |-> "text", visited |-> {}, trace |-> << >>, made |-> 0, result |-> NoResult]
NoPause == [node |-> Nil, kind |-> "wait", value |-> "text", trace |-> << >>, made |-> 0, run |-> 0, key |-> Nil]
NoTurn == [live |-> FALSE, parks |-> TRUE, seq |-> 0, child |-> 0]

(* read_setting: a reference in config.toml decides alone when it is there *)
(* and the namespaced variable only when it is not.                        *)
ReadSetting == IF setting.ref THEN setting.target ELSE setting.own

Init ==
  /\ \E m \in Authored :
       /\ disk = [m |-> m, files |-> {"code", "skills", "schema"}]
       /\ code = [s \in Steps |-> IF s \in Names(m) THEN NodeOf(m, s).ports ELSE {}]
       /\ held = m
  /\ setting = [ref |-> FALSE, target |-> TRUE, own |-> TRUE]
  /\ conv = [turn |-> 0, child |-> 0]
  /\ turn = NoTurn /\ walk = Resting /\ pause = NoPause
  /\ rows = << >> /\ spans = {}
  /\ children = << >> /\ runs = << >>
  /\ left = [edits |-> MaxEdits, crashes |-> MaxCrashes]

Ghosts == << children, runs >>
Records == << rows, spans >>
Plugin == << disk, code, setting >>

-----------------------------------------------------------------------------
(* The editor and the people who set values.  A rewrite starts from what   *)
(* is on disk; a page's PUT replaces it by what the page holds.            *)
Write(m) ==
  /\ left.edits > 0
  /\ left' = [left EXCEPT !.edits = @ - 1]
  /\ disk' = [disk EXCEPT !.m = m]
  /\ UNCHANGED << code, setting, held, conv, turn, walk, pause, Records, Ghosts >>

AddStep == \E kind \in {"ask", "wait"}, fresh \in Steps \ Names(disk.m) : Write(AddNode(disk.m, kind, fresh))

RenameStep ==
  \E old, new \in Steps :
    ~RenameRefused(disk.m, old, new) /\ old # new /\ Write(RenameNode(disk.m, old, new))

DeleteStep == \E name \in Names(disk.m) : Write(RemoveNode(disk.m, name))

Save == \E m \in Pages : Write(m)

Tamper ==
  /\ left.edits > 0
  /\ left' = [left EXCEPT !.edits = @ - 1]
  /\ \/ \E f \in {"code", "skills"} : disk' = [disk EXCEPT !.files = @ \ {f}] /\ UNCHANGED setting
     \/ \E f \in DOMAIN setting : setting' = [setting EXCEPT ![f] = ~@] /\ UNCHANGED disk
  /\ UNCHANGED << code, held, conv, turn, walk, pause, Records, Ghosts >>

-----------------------------------------------------------------------------
(* open_runtime: the plugin set is what discover_plugins finds valid.      *)
OpenRuntime ==
  /\ ~turn.live /\ walk.at = "rest"
  /\ held' = IF Validate(disk.m, disk.files, TRUE) = "Valid" THEN disk.m ELSE Nil
  /\ held' # held
  /\ UNCHANGED << Plugin, conv, turn, walk, pause, Records, Ghosts, left >>

(* take_turn on a conversation with no pause: build_dispatch.  A terminal  *)
(* answers for itself, every other client parks.                           *)
StartTurn ==
  /\ ~turn.live /\ walk.at = "rest" /\ pause = NoPause
  /\ conv.turn < MaxTurns
  /\ \E parks \in BOOLEAN : turn' = [live |-> TRUE, parks |-> parks, seq |-> 0, child |-> conv.child]
  /\ UNCHANGED << Plugin, held, conv, walk, pause, Records, Ghosts, left >>

\* Mutant of Reconciled: the tracker is forgotten with the turn.
Forgotten == conv.child

(* take_turn_and_reconcile and the save: the first time the turn's number  *)
(* and the children's reach the conversation's row.                        *)
Reconciled == turn.child

EndTurn ==
  /\ turn.live /\ walk.at = "rest"
  /\ conv' = [turn |-> conv.turn + 1, child |-> Reconciled]
  /\ turn' = NoTurn
  /\ UNCHANGED << Plugin, held, walk, pause, Records, Ghosts, left >>

-----------------------------------------------------------------------------
(* The walk.  result() of _run_graph ends it; so does an exception.        *)
End(w, result) == walk' = [w EXCEPT !.at = "ended", !.result = result]

Traced(w, node, ok) == [w EXCEPT !.trace = Append(@, [node |-> node, ok |-> ok])]

Fail(w, node) == End(Traced(w, node, FALSE), Result("failed", node, Nil))

(* The step is over: the next one, or the coercion of the final value,     *)
(* which nothing guards.                                                   *)
Proceed(w, next) ==
  IF next # Nil THEN walk' = [w EXCEPT !.at = "step", !.node = next]
  ELSE IF CoerceRaises(w.value) THEN walk' = [w EXCEPT !.at = "raised"]
  ELSE End(w, Result("done", Nil, Nil))

(* dispatch(): the key, the running row (a second insert under one key is  *)
(* logged and dropped), the guard on settings, the entry's first step.     *)
Key == << conv.turn, turn.seq >>

With(key, row) == [k \in DOMAIN rows \cup {key} |-> IF k = key THEN row ELSE rows[k]]

Dispatch ==
  /\ turn.live /\ walk.at = "rest" /\ held # Nil
  /\ Len(runs) < MaxRuns
  /\ LET run == Len(runs) + 1
         fresh == [Resting EXCEPT !.run = run, !.m = held, !.value = "live", !.parks = turn.parks]
     IN /\ runs' = Append(runs, [key |-> Key, made |-> 0, life |-> left.crashes, end |-> "none", parked |-> FALSE])
        /\ rows' = IF Key \in DOMAIN rows THEN rows
                   ELSE With(Key, [run |-> run, state |-> "running", nodes |-> 0, made |-> 0, shows |-> run])
        /\ \E start \in {held.starts[i] : i \in DOMAIN held.starts} :
             IF ReadSetting THEN walk' = [fresh EXCEPT !.at = "step", !.node = start]
             ELSE End(fresh, Result("unset", "entry", Nil))
  /\ UNCHANGED << Plugin, held, conv, turn, pause, spans, children, left >>

Here == NodeOf(walk.m, walk.node)
Entered == [walk EXCEPT !.visited = @ \cup {walk.node}]

(* A run's step is refused by its kind, or parks at a wait.                *)
Refuse ==
  /\ walk.at = "step" /\ Here.kind \in KindsNotRunnable
  /\ Fail(Entered, walk.node)
  /\ UNCHANGED << Plugin, held, conv, turn, pause, Records, Ghosts, left >>

ReachWait ==
  /\ walk.at = "step" /\ Here.kind = "wait"
  /\ End([Entered EXCEPT !.value = "text"], Result("waiting", Nil, "wait"))
  /\ UNCHANGED << Plugin, held, conv, turn, pause, Records, Ghosts, left >>

(* _resolve_body fails when the step has no body or its code is not there  *)
(* any more; a body may raise.                                             *)
Resolves(node) == node.body # Nil /\ "code" \in disk.files

Compute ==
  /\ walk.at = "step" /\ Here.kind = "compute"
  /\ \/ /\ Resolves(Here)
        /\ \E value \in {"text", walk.value} :
             Proceed(Traced([Entered EXCEPT !.value = value], walk.node, TRUE), Here.next)
     \/ Fail(Entered, walk.node)
  /\ UNCHANGED << Plugin, held, conv, turn, pause, Records, Ghosts, left >>

Route ==
  /\ walk.at = "step" /\ Here.kind = "route"
  /\ \/ /\ Resolves(Here)
        /\ \E port \in code[Here.body] :
             IF port \in Here.ports THEN Proceed(Traced(Entered, walk.node, TRUE), port)
             ELSE Fail(Entered, walk.node)
     \/ Fail(Entered, walk.node)
  /\ UNCHANGED << Plugin, held, conv, turn, pause, Records, Ghosts, left >>

Stop ==
  /\ walk.at = "step" /\ Here.kind = "stop"
  /\ Proceed(Traced(Entered, walk.node, TRUE), Here.next)
  /\ UNCHANGED << Plugin, held, conv, turn, pause, Records, Ghosts, left >>

-----------------------------------------------------------------------------
(* ask: the text of the value, then a child of its own.  A resumed walk    *)
(* has no conversation to spawn one from (_unsupported_ask).  The child's  *)
(* key ends in the tracker's number, which is advanced when run_child      *)
(* returns; a child whose skill does not load raises before that.          *)
StartAsk ==
  /\ walk.at = "step" /\ Here.kind = "ask"
  /\ IF CoerceRaises(walk.value) \/ walk.resumed \/ ~Here.skill
       THEN Fail(Entered, walk.node) /\ UNCHANGED children
       ELSE /\ children' = Append(children, [seq |-> turn.child, state |-> "running", life |-> left.crashes])
            /\ IF "skills" \in disk.files THEN walk' = [Entered EXCEPT !.at = "ask"]
               ELSE Fail(Entered, walk.node)
  /\ UNCHANGED << Plugin, held, conv, turn, pause, Records, runs, left >>

FinishAsk ==
  /\ walk.at = "ask"
  /\ turn' = [turn EXCEPT !.child = @ + 1]
  /\ children' = [children EXCEPT ![Len(children)].state = "done"]
  /\ \/ Proceed(Traced([walk EXCEPT !.value = "text"], walk.node, TRUE), Here.next)
     \/ Fail(walk, walk.node)
  /\ UNCHANGED << Plugin, held, conv, pause, Records, runs, left >>

-----------------------------------------------------------------------------
(* call: asked about first.  What the body gives back is checked the same  *)
(* way whether it ran live or after an approval: a file outside the run's  *)
(* directory fails the step, any other artifact is one more of the run's.  *)
ReachCall ==
  /\ walk.at = "step" /\ Here.kind = "call"
  /\ IF walk.parks THEN End([Entered EXCEPT !.value = Persistable(@)], Result("waiting", Nil, "call"))
     ELSE walk' = [Entered EXCEPT !.at = "decide"]
  /\ UNCHANGED << Plugin, held, conv, turn, pause, Records, Ghosts, left >>

FinishCallBody(w, next) ==
  \/ /\ Resolves(NodeOf(w.m, w.node))
     /\ \/ Proceed(Traced([w EXCEPT !.value = "text"], w.node, TRUE), next) /\ UNCHANGED runs
        \/ /\ Proceed(Traced([w EXCEPT !.value = "text", !.made = @ + 1], w.node, TRUE), next)
           /\ runs' = [runs EXCEPT ![w.run].made = @ + 1]
  \/ Fail(w, w.node) /\ UNCHANGED runs

Decide ==
  /\ walk.at = "decide"
  /\ \/ FinishCallBody(walk, Here.next)
     \/ Fail(walk, walk.node) /\ UNCHANGED runs
  /\ UNCHANGED << Plugin, held, conv, turn, pause, Records, children, left >>

-----------------------------------------------------------------------------
(* Back in dispatch: flush and record_plugin_run, one row per key.  The    *)
(* row's id stays the one it was inserted with; its artifacts are added.   *)
StateOf(result) == IF result.failed # Nil THEN "failed" ELSE "closed"

Spanned(w) == {[key |-> runs[w.run].key, run |-> w.run, seq |-> i, node |-> w.trace[i].node] : i \in DOMAIN w.trace}

\* Mutant of Recorded: the spans of a failed step are left out.
RecordedOk(w) == {s \in Spanned(w) : w.trace[s.seq].ok}

Recorded(w) == Spanned(w)

Record ==
  /\ walk.at = "ended" /\ ~walk.resumed
  /\ LET key == runs[walk.run].key
         row == rows[key]
     IN rows' = With(key, [row EXCEPT !.state = StateOf(walk.result), !.nodes = Len(walk.trace),
                                      !.made = @ + walk.made, !.shows = walk.run])
  /\ spans' = spans \cup Recorded(walk)
  /\ runs' = [runs EXCEPT ![walk.run].end = walk.result.text, ![walk.run].parked = walk.result.paused # Nil]
  /\ walk' = [walk EXCEPT !.at = "recorded"]
  /\ UNCHANGED << Plugin, held, conv, turn, pause, children, left >>

Parked(w) ==
  [node |-> w.node, kind |-> w.result.paused, value |-> w.value, trace |-> w.trace,
   made |-> w.made, run |-> w.run, key |-> runs[w.run].key]

(* persist_pause, over whatever the conversation had parked before, and    *)
(* the next place in the turn.                                             *)
Return ==
  /\ walk.at = "recorded"
  /\ pause' = IF walk.result.paused = Nil THEN pause ELSE Parked(walk)
  /\ turn' = [turn EXCEPT !.seq = @ + 1]
  /\ walk' = Resting
  /\ UNCHANGED << Plugin, held, conv, Records, Ghosts, left >>

(* An exception out of run_graph leaves dispatch the same way, before the  *)
(* place in the turn is taken; run_turn makes a tool error of it.  The     *)
(* spans it had scheduled are written.                                     *)
Escape ==
  /\ walk.at = "raised" /\ ~walk.resumed
  /\ spans' = spans \cup Recorded(walk)
  /\ runs' = [runs EXCEPT ![walk.run].end = "raised"]
  /\ walk' = Resting
  /\ UNCHANGED << Plugin, held, conv, turn, pause, rows, children, left >>

-----------------------------------------------------------------------------
(* resume_paused_run: the plugin as it is on disk now.  A plugin or a step *)
(* that is gone ends the run; a setting without a value leaves the pause   *)
(* as it was.                                                              *)
Resumed ==
  [Resting EXCEPT !.run = pause.run, !.resumed = TRUE, !.m = disk.m, !.node = pause.node,
                  !.trace = pause.trace, !.made = pause.made]

Gone == Validate(disk.m, disk.files, TRUE) # "Valid" \/ pause.node \notin Names(disk.m)

Resumable == ~turn.live /\ walk.at = "rest" /\ pause # NoPause

\* Mutant of KeepUnset: a run refused for a setting is over.
EndUnset(w) == End(w, Result("unset", Nil, Nil))

KeepUnset(w) == End([w EXCEPT !.value = pause.value], Result("unset", Nil, pause.kind))

FailResume ==
  /\ Resumable /\ Gone
  /\ End(Resumed, Result("gone", pause.node, Nil))
  /\ UNCHANGED << Plugin, held, conv, turn, pause, Records, Ghosts, left >>

RefuseResume ==
  /\ Resumable /\ ~Gone /\ ~ReadSetting
  /\ KeepUnset(Resumed)
  /\ UNCHANGED << Plugin, held, conv, turn, pause, Records, Ghosts, left >>

Decline ==
  /\ Resumable /\ ~Gone /\ ReadSetting /\ pause.kind = "call"
  /\ Fail(Resumed, pause.node)
  /\ UNCHANGED << Plugin, held, conv, turn, pause, Records, Ghosts, left >>

Approve ==
  /\ Resumable /\ ~Gone /\ ReadSetting /\ pause.kind = "call"
  /\ \E parks \in BOOLEAN :
       FinishCallBody([Resumed EXCEPT !.parks = parks, !.value = IF pause.value = "data" THEN "keyed" ELSE @],
                      NodeOf(disk.m, pause.node).next)
  /\ UNCHANGED << Plugin, held, conv, turn, pause, Records, children, left >>

Answer ==
  /\ Resumable /\ ~Gone /\ ReadSetting /\ pause.kind = "wait"
  /\ \E parks \in BOOLEAN :
       Proceed(Traced([Resumed EXCEPT !.parks = parks], pause.node, TRUE), NodeOf(disk.m, pause.node).next)
  /\ UNCHANGED << Plugin, held, conv, turn, pause, Records, Ghosts, left >>

(* resolve_pause: the row goes, or stands for the step the run parked at.  *)
Resolve ==
  /\ walk.at = "ended" /\ walk.resumed
  /\ pause' = IF walk.result.paused = Nil THEN NoPause ELSE Parked(walk)
  /\ runs' = [runs EXCEPT ![walk.run].end = walk.result.text]
  /\ walk' = Resting
  /\ UNCHANGED << Plugin, held, conv, turn, Records, children, left >>

(* The process dies: the turn is never saved.                              *)
Crash ==
  /\ left.crashes > 0 /\ (turn.live \/ walk.at # "rest")
  /\ left' = [left EXCEPT !.crashes = @ - 1]
  /\ turn' = NoTurn /\ walk' = Resting
  /\ held' = IF Validate(disk.m, disk.files, TRUE) = "Valid" THEN disk.m ELSE Nil
  /\ UNCHANGED << Plugin, conv, pause, Records, Ghosts >>

Edit == AddStep \/ RenameStep \/ DeleteStep \/ Save \/ Tamper
Turn == OpenRuntime \/ StartTurn \/ Dispatch \/ EndTurn
Walk == Refuse \/ ReachWait \/ Compute \/ Route \/ Stop \/ StartAsk \/ FinishAsk \/ ReachCall \/ Decide
Settle == Record \/ Return \/ Escape
Resume == FailResume \/ RefuseResume \/ Decline \/ Approve \/ Answer \/ Resolve

Next == Edit \/ Turn \/ Walk \/ Settle \/ Resume \/ Crash

Spec == Init /\ [][Next]_vars

-----------------------------------------------------------------------------
Kinds == {"wait", "call"}
Keys == (0..MaxTurns) \X (0..MaxRuns)

(* Every variable has its shape.                                           *)
TypeOK ==
  /\ disk.files \subseteq {"code", "skills", "schema"} /\ Names(disk.m) \subseteq Steps
  /\ conv \in [turn : 0..MaxTurns, child : Nat]
  /\ turn \in [live : BOOLEAN, parks : BOOLEAN, seq : 0..MaxRuns, child : Nat]
  /\ walk.at \in {"rest", "step", "ask", "decide", "ended", "recorded", "raised"}
  /\ walk.run \in 0..Len(runs) /\ walk.value \in Values /\ walk.visited \subseteq Steps
  /\ pause.kind \in Kinds /\ pause.value \in Values \ {"live", "keyed"} /\ pause.run \in 0..Len(runs)
  /\ DOMAIN rows \subseteq Keys
  /\ \A key \in DOMAIN rows : rows[key].state \in {"running", "closed", "failed"}
  /\ \A s \in spans : s.key \in Keys /\ s.run \in DOMAIN runs /\ s.seq \in Nat \ {0}
  /\ \A i \in DOMAIN children : children[i].state \in {"running", "done"}

(* Every step can be reached from an entry: the steps that can are in      *)
(* every set that holds the entries' and whatever its members lead to.     *)
Out(m, n) == ({NodeOf(m, n).next} \ {Nil}) \cup NodeOf(m, n).ports
Reached(m) ==
  \A S \in SUBSET Names(m) : Range(m.starts) \subseteq S /\ (\A n \in S : Out(m, n) \subseteq S) => S = Names(m)

(* No step can reach itself: of any steps, one leads to none of them.      *)
Acyclic(m) == \A S \in SUBSET Names(m) : S # {} => \E n \in S : Out(m, n) \cap S = {}

(* What validate() says of the plugin on disk once no target dangles: it   *)
(* is valid when every step can be reached and none can reach itself.      *)
Says(m, outcome) == Validate(m, {"code", "skills", "schema"}, TRUE) = outcome
Means(m) ==
  Says(m, "Valid") \/ Says(m, "UnreachableNode") \/ Says(m, "CyclicGraph") =>
    /\ Says(m, "Valid") <=> Reached(m) /\ Acyclic(m)
    /\ Says(m, "UnreachableNode") <=> ~Reached(m)
ChecksMean == Means(disk.m)

(* A walk comes to no step twice: what validate() accepts has no way back, *)
(* and neither an edit on disk nor a resume lets one in.                   *)
StepsApart == walk.at = "step" => walk.node \notin walk.visited

(* The checks of a manifest are worth what the walk takes them for.        *)
ChecksRight == ChecksMean /\ StepsApart

(* The editor's rewrites leave no name taken twice and no arrow pointing   *)
(* at nothing, and no entry either unless every step has been removed:     *)
(* nothing gives an entry a start again, and the plugin has problems until *)
(* somebody writes one.                                                    *)
NoDangling == Whole(disk.m)

(* "ready" is said of a plugin that validates, unless a step asks and names*)
(* no skill: nobody is told of that one.                                   *)
ReadyValidates ==
  StatusWord(disk.m, disk.files) = "ready" /\ (\A i \in DOMAIN disk.m.nodes : disk.m.nodes[i].kind = "ask" => disk.m.nodes[i].skill)
    => Validate(disk.m, disk.files, TRUE) = "Valid"

(* No sequence of edits leaves a manifest broken in a way the editor does  *)
(* not show (editor_server.py).                                            *)
EditorHonest == NoDangling /\ ReadyValidates

(* Two runs of a conversation, and two child turns, are told apart by      *)
(* their keys, except that a run that raised, a child that never returned  *)
(* or a turn that a crash cut off gives its key back.                      *)
RunsApart ==
  \A i, j \in DOMAIN runs :
    i < j /\ runs[i].key = runs[j].key => runs[i].end = "raised" \/ runs[i].life # runs[j].life

ChildrenApart ==
  \A i, j \in DOMAIN children :
    i < j /\ children[i].seq = children[j].seq =>
      children[i].state = "running" \/ children[i].life # children[j].life

KeysApart == RunsApart /\ ChildrenApart

(* The rows of a run that came back and that shares its key with no other  *)
(* tell what it did: its outcome, a span for each step it finished, in     *)
(* order, and, when it did not park, as many artifacts as it made.         *)
Alone(i) == \A j \in DOMAIN runs : runs[j].key = runs[i].key => j = i

RowsTellRun ==
  \A i \in DOMAIN runs :
    runs[i].end \notin {"none", "raised"} /\ Alone(i) =>
      LET row == rows[runs[i].key] IN
      /\ row.state # "running" /\ row.shows = i
      /\ {s.seq : s \in {x \in spans : x.key = runs[i].key}} = 1..row.nodes
      /\ ~runs[i].parked => row.made = runs[i].made /\ (row.state = "failed" <=> runs[i].end \in {"failed", "unset"})

(* An answer that comes while a setting has no value does not cost the run *)
(* that waits for it.                                                      *)
PauseSurvives ==
  [][walk.at = "ended" /\ walk.resumed /\ walk.result.text = "unset" => pause' = pause]_vars
=============================================================================
