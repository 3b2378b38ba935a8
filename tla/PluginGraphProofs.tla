-------------------------- MODULE PluginGraphProofs --------------------------
(***************************************************************************)
(* The walks of a plugin and what is recorded of them, for every number of *)
(* steps, turns, runs, edits and crashes.  The first half follows the one  *)
(* walk there is: where it belongs (a turn being taken, or the pause it    *)
(* resumes), and that its manifest stays whole.  The second half is what   *)
(* the rows, the keys and the pause owe to that.                           *)
(***************************************************************************)
EXTENDS PluginGraph, SequenceTheorems, FiniteSetTheorems, WellFoundedInduction, TLAPS

-----------------------------------------------------------------------------
(* Shapes.                                                                 *)
Texts == {"done", "failed", "unset", "waiting", "gone"}
ResultShape ==
  [text : Texts \cup {"none"}, failed : Steps \cup {Nil, "entry"}, paused : Kinds \cup {Nil}]
TracePart == [node : Steps, ok : BOOLEAN]
TraceShape == Seq(TracePart)
WalkShape ==
  [at : {"rest", "step", "ask", "decide", "ended", "recorded", "raised"},
   run : Nat, resumed : BOOLEAN, parks : BOOLEAN, m : ManifestShape \cup {Nil}, node : Steps \cup {Nil},
   value : Values, visited : SUBSET Steps, trace : TraceShape, made : Nat, result : ResultShape]
RunShape ==
  [key : Nat \X Nat, made : Nat, life : Nat, end : Texts \cup {"none", "raised"}, parked : BOOLEAN]
ChildShape == [seq : Nat, state : {"running", "done"}, life : Nat]
RowShape == [run : Nat, state : {"running", "closed", "failed"}, nodes : Nat, made : Nat, shows : Nat]
SpanShape == [key : Nat \X Nat, run : Nat, seq : Nat \ {0}, node : Steps]

Shaped ==
  /\ conv \in [turn : Nat, child : Nat]
  /\ turn \in [live : BOOLEAN, parks : BOOLEAN, seq : Nat, child : Nat]
  /\ left \in [edits : Nat, crashes : Nat]
  /\ runs \in Seq(RunShape)
  /\ children \in Seq(ChildShape)
  /\ DOMAIN rows \subseteq Nat \X Nat
  /\ \A key \in DOMAIN rows : rows[key] \in RowShape
  /\ spans \subseteq SpanShape
  /\ walk \in WalkShape

(* The plugin.                                                             *)
PluginInv ==
  /\ disk \in [m : ManifestShape, files : SUBSET {"code", "skills", "schema"}]
  /\ Whole(disk.m)
  /\ held = Nil \/ (held \in ManifestShape /\ Whole(held) /\ ~Dangling(held))

(* The walk is at a step of a manifest that is whole, and what ended it    *)
(* says whether it failed.                                                 *)
Stepping ==
  walk.at \in {"step", "ask", "decide"} =>
    walk.m \in ManifestShape /\ Whole(walk.m) /\ walk.node \in Names(walk.m)

Outcome ==
  walk.at \in {"ended", "recorded"} =>
    /\ walk.result.text # "none"
    /\ walk.result.paused # Nil => walk.node \in Steps /\ walk.value \in {"data", "text"}
    /\ ~walk.resumed /\ walk.result.paused = Nil =>
         (walk.result.failed # Nil <=> walk.result.text \in {"failed", "unset"})

(* A walk is the last run of the turn being taken, or the run that waits.  *)
Own == walk.at # "rest" /\ ~walk.resumed

Placed ==
  /\ walk.at = "rest" => walk = Resting
  /\ Own =>
       /\ turn.live /\ Len(runs) > 0 /\ walk.run = Len(runs)
       /\ runs[Len(runs)].key = Key /\ runs[Len(runs)].life = left.crashes
       /\ runs[Len(runs)].made = walk.made
       /\ walk.at # "recorded" => runs[Len(runs)].end = "none"
       /\ walk.at = "recorded" =>
            /\ runs[Len(runs)].end = walk.result.text
            /\ runs[Len(runs)].parked <=> walk.result.paused # Nil
  /\ walk.resumed =>
       /\ walk.at \in {"step", "decide", "ended"}
       /\ ~turn.live /\ pause # NoPause /\ walk.run = pause.run /\ walk.value # "live"

Waits ==
  \/ pause = NoPause
  \/ /\ pause \in [node : Steps, kind : Kinds, value : {"data", "text"}, trace : TraceShape,
                   made : Nat, run : Nat \ {0}, key : Nat \X Nat]
     /\ pause.run \in DOMAIN runs /\ pause.key = runs[pause.run].key
     /\ runs[pause.run].end \notin {"none", "raised"} /\ runs[pause.run].parked

(* A run that is refused for a setting is still where it waited.           *)
Refused ==
  walk.at = "ended" /\ walk.resumed /\ walk.result.text = "unset" =>
    /\ walk.node = pause.node /\ walk.value = pause.value /\ walk.trace = pause.trace
    /\ walk.made = pause.made /\ walk.result.paused = pause.kind

(* Keys.                                                                   *)
Spent(i) ==
  \/ runs[i].key[1] < conv.turn
  \/ /\ turn.live /\ runs[i].key[1] = conv.turn
     /\ \/ runs[i].key[2] < turn.seq
        \/ runs[i].key[2] = turn.seq /\ (runs[i].end = "raised" \/ (Own /\ i = Len(runs)))

RunsSpent ==
  \A i \in DOMAIN runs : runs[i].life >= left.crashes /\ (runs[i].life = left.crashes => Spent(i))

NextChild == IF turn.live THEN turn.child ELSE conv.child

ChildrenSpent ==
  /\ conv.child <= NextChild
  /\ \A i \in DOMAIN children :
       /\ children[i].life >= left.crashes
       /\ children[i].life = left.crashes =>
            children[i].seq < NextChild \/ (children[i].seq = NextChild /\ children[i].state = "running")
  /\ walk.at = "ask" => turn.live /\ Len(children) > 0

(* Rows.                                                                   *)
RowsKeyed == DOMAIN rows = {runs[i].key : i \in DOMAIN runs}

SpansKeyed ==
  \A s \in spans : s.run \in DOMAIN runs /\ s.key = runs[s.run].key /\ runs[s.run].end # "none"

RowFresh ==
  \A i \in DOMAIN runs : Own /\ walk.at # "recorded" /\ i = Len(runs) /\ Alone(i) => rows[Key].made = 0

IInv ==
  /\ Shaped /\ PluginInv /\ Stepping /\ Outcome /\ Placed /\ Waits /\ Refused
  /\ RunsSpent /\ RunsApart /\ ChildrenSpent /\ ChildrenApart
  /\ RowsKeyed /\ SpansKeyed /\ RowFresh /\ RowsTellRun
-----------------------------------------------------------------------------
(* Manifests.                                                              *)

(* The names of a manifest are names of steps, and none is None.           *)
LEMMA NamesAre ==
  ASSUME NEW m \in ManifestShape
  PROVE  Names(m) \subseteq Steps /\ Nil \notin Names(m)
<1>1. m.nodes \in Seq(StepShape)
  BY DEF ManifestShape
<1>2. \A i \in DOMAIN m.nodes : m.nodes[i] \in StepShape
  BY <1>1
<1>3. \A i \in DOMAIN m.nodes : m.nodes[i].name \in Steps
  BY <1>2 DEF StepShape
<1> QED
  BY <1>3, NamesAssumption DEF Names

(* A name stands for one step, whose arrows end at steps.                  *)
LEMMA NodeOfIs ==
  ASSUME NEW m \in ManifestShape, Whole(m), NEW name \in Names(m)
  PROVE  /\ NodeOf(m, name) \in StepShape
         /\ NodeOf(m, name).next \in Names(m) \cup {Nil}
         /\ NodeOf(m, name).ports \subseteq Names(m)
<1>1. m.nodes \in Seq(StepShape)
  BY DEF ManifestShape
<1>2. PICK i \in DOMAIN m.nodes : m.nodes[i].name = name
  BY DEF Names
<1>3. \A j \in DOMAIN m.nodes : m.nodes[j].name = name => j = i
  BY <1>2 DEF Whole, Duplicate
<1>4. i \in Int
  BY <1>1
<1>5. NodeOf(m, name) = m.nodes[i]
  <2> DEFINE Is(k) == /\ m.nodes[k].name = name
                      /\ \A j \in DOMAIN m.nodes : m.nodes[j].name = name => j <= k
  <2>1. Is(i)
    BY <1>2, <1>3, <1>4
  <2>2. \A k \in DOMAIN m.nodes : Is(k) => k = i
    BY <1>3
  <2>3. (CHOOSE k \in DOMAIN m.nodes : Is(k)) = i
    BY <2>1, <2>2
  <2> QED
    BY <2>3 DEF NodeOf
<1>6. m.nodes[i] \in StepShape
  BY <1>1
<1>7. Arrows(m, i) \subseteq Names(m)
  BY DEF Whole
<1> QED
  BY <1>5, <1>6, <1>7 DEF Arrows

(* What validate() accepts is whole, and its entries start at steps.       *)
LEMMA ValidWhole ==
  ASSUME NEW m \in ManifestShape, NEW files, Validate(m, files, TRUE) = "Valid"
  PROVE  Whole(m) /\ ~Dangling(m)
<1>1. ~Duplicate(m) /\ ~Dangling(m)
  BY DEF Validate
<1> QED
  BY <1>1 DEF Whole, Dangling, Arrows

-----------------------------------------------------------------------------
(* One step of a walk.                                                     *)
Core(w, v) ==
  /\ v \in WalkShape
  /\ v.run = w.run /\ v.resumed = w.resumed /\ v.m = w.m /\ v.value = w.value /\ v.made = w.made

(* A walk that records a step keeps everything but its trace.              *)
LEMMA TracedIs ==
  ASSUME NEW w \in WalkShape, NEW node \in Steps, NEW ok \in BOOLEAN
  PROVE  Core(w, Traced(w, node, ok)) /\ Traced(w, node, ok).node = w.node
<1>1. Append(w.trace, [node |-> node, ok |-> ok]) \in TraceShape
  BY DEF WalkShape, TraceShape, TracePart
<1> QED
  BY <1>1 DEF WalkShape, Core, Traced

(* A walk that ends keeps all but where it is and what it gave.            *)
LEMMA EndIs ==
  ASSUME NEW w \in WalkShape, NEW result \in ResultShape, End(w, result)
  PROVE  Core(w, walk') /\ walk'.at = "ended" /\ walk'.result = result /\ walk'.node = w.node
BY DEF WalkShape, Core, End

(* A walk that fails at a step ends with that step as its reason.          *)
LEMMA FailIs ==
  ASSUME NEW w \in WalkShape, NEW node \in Steps, Fail(w, node)
  PROVE  Core(w, walk') /\ walk'.at = "ended" /\ walk'.result = Result("failed", node, Nil)
<1>1. Core(w, Traced(w, node, FALSE))
  BY TracedIs
<1>2. Result("failed", node, Nil) \in ResultShape
  BY DEF Result, ResultShape, Texts
<1>3. Traced(w, node, FALSE) \in WalkShape
  BY <1>1 DEF Core
<1>4. End(Traced(w, node, FALSE), Result("failed", node, Nil))
  BY DEF Fail
<1> HIDE DEF Result
<1>5. Core(Traced(w, node, FALSE), walk') /\ walk'.at = "ended" /\ walk'.result = Result("failed", node, Nil)
  BY <1>2, <1>3, <1>4, EndIs
<1> QED
  BY <1>1, <1>5 DEF Core

(* A walk goes on to the next step, or raises on a value that cannot be    *)
(* shown, or is done.                                                      *)
LEMMA ProceedIs ==
  ASSUME NEW w \in WalkShape, NEW next \in Steps \cup {Nil}, Proceed(w, next)
  PROVE  /\ Core(w, walk')
         /\ \/ next # Nil /\ walk'.at = "step" /\ walk'.node = next
            \/ walk'.at = "raised" /\ w.value = "live"
            \/ walk'.at = "ended" /\ walk'.result = Result("done", Nil, Nil)
<1>1. CASE next # Nil
  <2>1. walk' = [w EXCEPT !.at = "step", !.node = next]
    BY <1>1 DEF Proceed
  <2> QED
    BY <1>1, <2>1 DEF Core, WalkShape
<1>2. CASE next = Nil /\ CoerceRaises(w.value)
  <2>1. walk' = [w EXCEPT !.at = "raised"] /\ w.value = "live"
    BY <1>2 DEF Proceed, CoerceRaises
  <2> QED
    BY <2>1 DEF Core, WalkShape
<1>3. CASE next = Nil /\ ~CoerceRaises(w.value)
  <2>1. Result("done", Nil, Nil) \in ResultShape
    BY DEF Result, ResultShape, Texts
  <2>2. End(w, Result("done", Nil, Nil))
    BY <1>3 DEF Proceed
  <2> QED
    BY <2>1, <2>2, EndIs
<1> QED
  BY <1>1, <1>2, <1>3

(* A function on the first n numbers is a sequence.                        *)
LEMMA SequenceIs ==
  ASSUME NEW S, NEW n \in Nat, NEW s, s = [i \in 1..n |-> s[i]], \A i \in 1..n : s[i] \in S
  PROVE  s \in Seq(S)
<1>1. s \in [1..n -> S]
  OBVIOUS
<1> QED
  BY <1>1, SeqDef

(* Renaming a step takes every arrow along.                                *)
LEMMA RenameWhole ==
  ASSUME NEW m \in ManifestShape, Whole(m), NEW old \in Steps, NEW new \in Steps,
         ~RenameRefused(m, old, new), old # new
  PROVE  RenameNode(m, old, new) \in ManifestShape /\ Whole(RenameNode(m, old, new))
<1> DEFINE r == RenameNode(m, old, new)
           N == Len(m.nodes)
           K == Len(m.starts)
<1>1. /\ m.nodes \in Seq(StepShape) /\ N \in Nat /\ DOMAIN m.nodes = 1..N
      /\ m.starts \in Seq(Steps \cup {Nil}) /\ K \in Nat /\ DOMAIN m.starts = 1..K
  BY DEF ManifestShape
<1>2. old \in Names(m) /\ new \notin Names(m) /\ Nil \notin Names(m) /\ Nil # new
  BY NamesAre, NamesAssumption DEF RenameRefused
<1>3. \A i \in 1..N : m.nodes[i] \in StepShape
  BY <1>1
<1>4. DOMAIN r.starts = 1..K /\ DOMAIN r.nodes = 1..N
  BY <1>1 DEF RenameNode
<1>5. \A i \in 1..K : r.starts[i] = Swap(m.starts[i], old, new)
  BY <1>1 DEF RenameNode
<1>6. \A i \in 1..N : r.nodes[i] = [m.nodes[i] EXCEPT !.name = Swap(@, old, new), !.next = Swap(@, old, new),
                                                      !.ports = {Swap(p, old, new) : p \in @}]
  BY <1>1 DEF RenameNode
<1>7. \A i \in 1..N :
        /\ r.nodes[i] \in StepShape
        /\ r.nodes[i].name = Swap(m.nodes[i].name, old, new)
        /\ r.nodes[i].next = Swap(m.nodes[i].next, old, new)
        /\ r.nodes[i].ports = {Swap(p, old, new) : p \in m.nodes[i].ports}
  <2> TAKE i \in 1..N
  <2>1. PICK n \in StepShape : n = m.nodes[i]
    BY <1>3
  <2>2. r.nodes[i] = [n EXCEPT !.name = Swap(@, old, new), !.next = Swap(@, old, new),
                               !.ports = {Swap(p, old, new) : p \in @}]
    BY <1>6, <2>1
  <2>3. PICK name \in Steps, next \in Steps \cup {Nil}, ports \in SUBSET Steps :
          /\ name = Swap(n.name, old, new) /\ next = Swap(n.next, old, new)
          /\ ports = {Swap(p, old, new) : p \in n.ports}
    BY <2>1 DEF Swap, StepShape
  <2> HIDE DEF r
  <2>4. PICK s : s = r.nodes[i]
    OBVIOUS
  <2>5. s = [n EXCEPT !.name = name, !.next = next, !.ports = ports]
    BY <2>2, <2>3, <2>4
  <2>6. s \in StepShape /\ s.name = name /\ s.next = next /\ s.ports = ports
    BY <2>1, <2>3, <2>5 DEF StepShape
  <2> QED
    BY <2>1, <2>3, <2>4, <2>6
<1>8. \A i \in 1..K : r.starts[i] \in Steps \cup {Nil}
  BY <1>1, <1>5 DEF Swap
<1>9. r \in ManifestShape
  <2>1. r.starts \in Seq(Steps \cup {Nil}) /\ r.nodes \in Seq(StepShape)
    <3>1. r.starts = [i \in 1..K |-> Swap(m.starts[i], old, new)]
      BY <1>1 DEF RenameNode
    <3>2. r.nodes = [i \in 1..N |-> r.nodes[i]]
      BY <1>1 DEF RenameNode
    <3> HIDE DEF r, N, K
    <3>3. r.starts = [i \in 1..K |-> r.starts[i]]
      BY <3>1, <1>5
    <3>4. r.starts \in Seq(Steps \cup {Nil})
      BY <3>3, <1>8, <1>1, IsASeq
    <3>5. r.nodes \in Seq(StepShape)
      BY <3>2, <1>7, <1>1, IsASeq
    <3> QED
      BY <3>4, <3>5
  <2>2. r = [starts |-> r.starts, nodes |-> r.nodes]
    BY DEF RenameNode
  <2> HIDE DEF r
  <2> QED
    BY <2>1, <2>2 DEF ManifestShape
<1> HIDE DEF r, N, K
<1>10. \A x \in Names(m) : Swap(x, old, new) \in Names(r)
  BY <1>1, <1>4, <1>7 DEF Names
<1>11. ~Duplicate(r)
  <2> SUFFICES ASSUME NEW i \in 1..N, NEW j \in 1..N, i # j, r.nodes[i].name = r.nodes[j].name
               PROVE  FALSE
    BY <1>4 DEF Duplicate
  <2>1. m.nodes[i].name # m.nodes[j].name
    BY <1>1 DEF Whole, Duplicate
  <2>2. m.nodes[i].name \in Names(m) /\ m.nodes[j].name \in Names(m)
    BY <1>1 DEF Names
  <2> QED
    BY <1>2, <1>7, <2>1, <2>2 DEF Swap
<1>12. \A i \in 1..N : Arrows(r, i) \subseteq Names(r)
  <2> TAKE i \in 1..N
  <2>1. ({m.nodes[i].next} \ {Nil}) \cup m.nodes[i].ports \subseteq Names(m)
    BY <1>1 DEF Whole, Arrows
  <2>2. r.nodes[i].ports \subseteq Names(r)
    BY <1>7, <1>10, <2>1
  <2>3. r.nodes[i].next # Nil => r.nodes[i].next \in Names(r)
    BY <1>2, <1>7, <1>10, <2>1 DEF Swap
  <2> QED
    BY <2>2, <2>3 DEF Arrows
<1>13. (\A i \in 1..K : r.starts[i] \in Names(r)) \/ (\A i \in 1..K : r.starts[i] = Nil)
  <2>1. (\A i \in 1..K : m.starts[i] \in Names(m)) \/ (\A i \in 1..K : m.starts[i] = Nil)
    BY <1>1 DEF Whole
  <2>2. CASE \A i \in 1..K : m.starts[i] \in Names(m)
    BY <1>5, <1>10, <2>2
  <2>3. CASE \A i \in 1..K : m.starts[i] = Nil
    BY <1>2, <1>5, <2>3 DEF Swap
  <2> QED
    BY <2>1, <2>2, <2>3
<1> QED
  BY <1>4, <1>9, <1>11, <1>12, <1>13 DEF Whole, r

(* A new step has a name of its own and no arrow.                          *)
LEMMA AddWhole ==
  ASSUME NEW m \in ManifestShape, Whole(m), NEW kind \in {"ask", "wait"}, NEW fresh \in Steps \ Names(m)
  PROVE  AddNode(m, kind, fresh) \in ManifestShape /\ Whole(AddNode(m, kind, fresh))
<1> DEFINE a == AddNode(m, kind, fresh)
           n == Node(fresh, kind, Nil, FALSE, Nil, {})
           N == Len(m.nodes)
<1>1. n \in StepShape /\ n.name = fresh /\ n.next = Nil /\ n.ports = {}
  BY DEF Node, StepShape, NodeKinds
<1>2. m.nodes \in Seq(StepShape) /\ N \in Nat /\ DOMAIN m.nodes = 1..N
  BY DEF ManifestShape
<1>3. a = [m EXCEPT !.nodes = Append(m.nodes, n)]
  BY DEF AddNode
<1> HIDE DEF a, n, N
<1>4. a.nodes = Append(m.nodes, n) /\ a.starts = m.starts /\ a = [starts |-> a.starts, nodes |-> a.nodes]
  BY <1>3 DEF ManifestShape
<1>5. /\ a.nodes \in Seq(StepShape) /\ DOMAIN a.nodes = 1..(N + 1)
      /\ \A i \in 1..N : a.nodes[i] = m.nodes[i]
      /\ a.nodes[N + 1] = n
  BY <1>1, <1>2, <1>4 DEF N
<1>6. a \in ManifestShape
  BY <1>4, <1>5 DEF ManifestShape
<1>7. Names(m) \subseteq Names(a)
  BY <1>2, <1>5 DEF Names
<1>8. \A i \in 1..N : m.nodes[i].name \in Names(m)
  BY <1>2 DEF Names
<1>9. ~Duplicate(a)
  <2> SUFFICES ASSUME NEW i \in 1..(N + 1), NEW j \in 1..(N + 1), i # j, a.nodes[i].name = a.nodes[j].name
               PROVE  FALSE
    BY <1>5 DEF Duplicate
  <2>1. CASE i \in 1..N /\ j \in 1..N
    BY <1>2, <1>5, <2>1 DEF Whole, Duplicate
  <2>2. CASE i = N + 1 /\ j \in 1..N
    BY <1>1, <1>5, <1>8, <2>2
  <2>3. CASE j = N + 1 /\ i \in 1..N
    BY <1>1, <1>5, <1>8, <2>3
  <2> QED
    BY <1>2, <2>1, <2>2, <2>3
<1>10. \A i \in 1..(N + 1) : Arrows(a, i) \subseteq Names(a)
  <2> TAKE i \in 1..(N + 1)
  <2>1. CASE i \in 1..N
    BY <1>2, <1>5, <1>7, <2>1 DEF Whole, Arrows
  <2>2. CASE i = N + 1
    BY <1>1, <1>5, <2>2 DEF Arrows
  <2> QED
    BY <1>2, <2>1, <2>2
<1> QED
  BY <1>4, <1>5, <1>6, <1>7, <1>9, <1>10 DEF Whole, a

(* Removing a step takes the arrows to it away, and moves an entry that    *)
(* started there to the first step that is left.                           *)
LEMMA RemoveWhole ==
  ASSUME NEW m \in ManifestShape, Whole(m), NEW name \in Names(m)
  PROVE  RemoveNode(m, name) \in ManifestShape /\ Whole(RemoveNode(m, name))
<1> DEFINE r == RemoveNode(m, name)
           N == Len(m.nodes)
           K == Len(m.starts)
           at == CHOOSE i \in DOMAIN m.nodes : m.nodes[i].name = name
           kept == RemoveAt(m.nodes, at)
           fallback == IF kept = << >> THEN Nil ELSE kept[1].name
           Was(i) == IF i < at THEN i ELSE i + 1
           Cut(n) == [n EXCEPT !.next = IF @ = name THEN Nil ELSE @, !.ports = @ \ {name}]
<1>1. /\ m.nodes \in Seq(StepShape) /\ N \in Nat /\ DOMAIN m.nodes = 1..N
      /\ m.starts \in Seq(Steps \cup {Nil}) /\ K \in Nat /\ DOMAIN m.starts = 1..K
  BY DEF ManifestShape
<1>2. at \in 1..N /\ m.nodes[at].name = name /\ N > 0
  <2>1. \E i \in 1..N : m.nodes[i].name = name
    BY <1>1 DEF Names
  <2> HIDE DEF N
  <2>2. at \in DOMAIN m.nodes /\ m.nodes[at].name = name
    BY <1>1, <2>1
  <2> HIDE DEF at
  <2> QED
    BY <1>1, <2>2
<1>3. /\ r.starts = [i \in 1..K |-> Swap(m.starts[i], name, fallback)]
      /\ r.nodes = [i \in DOMAIN kept |-> Cut(kept[i])]
      /\ r = [starts |-> r.starts, nodes |-> r.nodes]
  BY <1>1 DEF RemoveNode
<1> HIDE DEF at, r, K, Cut
<1>4. /\ kept \in Seq(StepShape) /\ Len(kept) = N - 1 /\ DOMAIN kept = 1..(N - 1)
      /\ \A i \in 1..(N - 1) : kept[i] = m.nodes[Was(i)]
  <2> DEFINE before == SubSeq(m.nodes, 1, at - 1)
             after == SubSeq(m.nodes, at + 1, N)
  <2>1. /\ before \in Seq(StepShape) /\ Len(before) = at - 1
        /\ \A i \in 1..(at - 1) : before[i] = m.nodes[i]
    BY <1>1, <1>2, SubSeqProperties
  <2>2. /\ after \in Seq(StepShape) /\ Len(after) = N - at
        /\ \A i \in 1..(N - at) : after[i] = m.nodes[at + i]
    BY <1>1, <1>2, SubSeqProperties
  <2>3. kept = before \o after
    BY DEF RemoveAt
  <2> HIDE DEF before, after, kept, N
  <2>4. kept \in Seq(StepShape) /\ Len(kept) = (at - 1) + (N - at)
    <3>1. before \o after \in Seq(StepShape) /\ Len(before \o after) = Len(before) + Len(after)
      BY <2>1, <2>2
    <3>2. Len(before) + Len(after) = (at - 1) + (N - at)
      BY <2>1, <2>2
    <3> QED
      BY <2>3, <3>1, <3>2
  <2>5. \A i \in 1..(N - 1) : kept[i] = IF i < at THEN before[i] ELSE after[i - (at - 1)]
    BY <1>1, <1>2, <2>1, <2>2, <2>3
  <2>6. \A i \in 1..(N - 1) : kept[i] = m.nodes[Was(i)]
    <3> TAKE i \in 1..(N - 1)
    <3>1. CASE i < at
      BY <1>1, <1>2, <2>1, <2>5, <3>1
    <3>2. CASE ~(i < at)
      <4>1. i - (at - 1) \in 1..(N - at) /\ at + (i - (at - 1)) = i + 1
        BY <1>1, <1>2, <3>2
      <4> QED
        BY <2>2, <2>5, <3>2, <4>1
    <3> QED
      BY <3>1, <3>2
  <2> QED
    BY <1>1, <1>2, <2>4, <2>6
<1> HIDE DEF N, kept
<1>5. /\ \A i \in 1..(N - 1) : Was(i) \in 1..N /\ Was(i) # at
      /\ \A i, j \in 1..(N - 1) : Was(i) = Was(j) => i = j
      /\ \A k \in 1..N : k # at => \E i \in 1..(N - 1) : Was(i) = k
  <2>1. \A i \in 1..(N - 1) : Was(i) \in 1..N /\ Was(i) # at
    BY <1>1, <1>2
  <2>2. \A i, j \in 1..(N - 1) : Was(i) = Was(j) => i = j
    BY <1>1, <1>2
  <2>3. ASSUME NEW k \in 1..N, k # at
        PROVE  \E i \in 1..(N - 1) : Was(i) = k
    <3>1. CASE k < at
      BY <1>1, <1>2, <3>1
    <3>2. CASE k > at
      <4>1. k - 1 \in 1..(N - 1) /\ Was(k - 1) = k
        BY <1>1, <1>2, <3>2
      <4> QED
        BY <4>1
    <3> QED
      BY <1>1, <1>2, <2>3, <3>1, <3>2
  <2> QED
    BY <2>1, <2>2, <2>3
<1> HIDE DEF Was
<1>6. \A i \in 1..(N - 1) :
        /\ r.nodes[i] \in StepShape /\ r.nodes[i].name = m.nodes[Was(i)].name
        /\ r.nodes[i].next = IF m.nodes[Was(i)].next = name THEN Nil ELSE m.nodes[Was(i)].next
        /\ r.nodes[i].ports = m.nodes[Was(i)].ports \ {name}
  <2> TAKE i \in 1..(N - 1)
  <2>1. PICK n \in StepShape : n = m.nodes[Was(i)]
    BY <1>1, <1>5
  <2>2. r.nodes[i] = Cut(n)
    BY <1>3, <1>4, <2>1
  <2>3. PICK next \in Steps \cup {Nil}, ports \in SUBSET Steps :
          next = (IF n.next = name THEN Nil ELSE n.next) /\ ports = n.ports \ {name}
    BY <2>1 DEF StepShape
  <2>4. PICK s : s = r.nodes[i]
    OBVIOUS
  <2>5. s = [n EXCEPT !.next = next, !.ports = ports]
    BY <2>2, <2>3, <2>4 DEF Cut
  <2>6. s \in StepShape /\ s.name = n.name /\ s.next = next /\ s.ports = ports
    BY <2>1, <2>3, <2>5 DEF StepShape
  <2> QED
    BY <2>1, <2>3, <2>4, <2>6
<1>7. DOMAIN r.nodes = 1..(N - 1) /\ r.nodes = [i \in 1..(N - 1) |-> r.nodes[i]] /\ N - 1 \in Nat
  BY <1>1, <1>2, <1>3, <1>4
<1>8. r.nodes \in Seq(StepShape)
  BY <1>6, <1>7, SequenceIs
<1>9. \A k \in 1..N : m.nodes[k].name \in Names(m) /\ (k # at => m.nodes[k].name # name)
  BY <1>1, <1>2 DEF Names, Whole, Duplicate
<1>10. Names(r) = Names(m) \ {name}
  <2>1. Names(r) \subseteq Names(m) \ {name}
    BY <1>5, <1>6, <1>7, <1>9 DEF Names
  <2>2. ASSUME NEW x \in Names(m), x # name
        PROVE  x \in Names(r)
    <3>1. PICK k \in 1..N : m.nodes[k].name = x
      BY <1>1 DEF Names
    <3>2. PICK i \in 1..(N - 1) : Was(i) = k
      BY <1>2, <1>5, <2>2, <3>1
    <3> QED
      BY <1>6, <1>7, <3>1, <3>2 DEF Names
  <2> QED
    BY <2>1, <2>2
<1>11. IF N = 1 THEN fallback = Nil /\ Names(m) = {name} ELSE fallback \in Names(r)
  <2>1. CASE N = 1
    <3>1. kept = << >>
      BY <1>4, <2>1
    <3>2. Names(m) = {name}
      BY <1>1, <1>2, <2>1 DEF Names
    <3> QED
      BY <2>1, <3>1, <3>2
  <2>2. CASE N # 1
    <3>1. 1 \in 1..(N - 1) /\ kept # << >>
      BY <1>1, <1>2, <1>4, <2>2
    <3>2. fallback = r.nodes[1].name
      BY <1>4, <1>6, <3>1
    <3> QED
      BY <1>7, <2>2, <3>1, <3>2 DEF Names
  <2> QED
    BY <2>1, <2>2
<1> HIDE DEF fallback
<1>12. DOMAIN r.starts = 1..K /\ \A i \in 1..K : r.starts[i] = Swap(m.starts[i], name, fallback)
  BY <1>3
<1>13. name \in Names(m) /\ Names(m) \subseteq Steps /\ Nil \notin Names(m)
  BY NamesAre
<1>14. fallback \in Steps \cup {Nil}
  BY <1>10, <1>11, <1>13
<1>15. r.starts \in Seq(Steps \cup {Nil})
  <2>1. \A i \in 1..K : r.starts[i] \in Steps \cup {Nil}
    BY <1>1, <1>12, <1>14 DEF Swap
  <2>2. r.starts = [i \in 1..K |-> r.starts[i]]
    BY <1>3
  <2> QED
    BY <1>1, <2>1, <2>2, SequenceIs
<1>16. r \in ManifestShape
  BY <1>3, <1>8, <1>15 DEF ManifestShape
<1>17. ~Duplicate(r)
  <2> SUFFICES ASSUME NEW i \in 1..(N - 1), NEW j \in 1..(N - 1), i # j, r.nodes[i].name = r.nodes[j].name
               PROVE  FALSE
    BY <1>7 DEF Duplicate
  <2>1. Was(i) # Was(j) /\ Was(i) \in 1..N /\ Was(j) \in 1..N
    BY <1>5
  <2> QED
    BY <1>1, <1>6, <2>1 DEF Whole, Duplicate
<1>18. \A i \in 1..(N - 1) : Arrows(r, i) \subseteq Names(r)
  <2> TAKE i \in 1..(N - 1)
  <2>1. ({m.nodes[Was(i)].next} \ {Nil}) \cup m.nodes[Was(i)].ports \subseteq Names(m)
    BY <1>1, <1>5 DEF Whole, Arrows
  <2> QED
    BY <1>6, <1>10, <2>1 DEF Arrows
<1>19. (\A i \in 1..K : r.starts[i] \in Names(r)) \/ (\A i \in 1..K : r.starts[i] = Nil)
  <2>1. (\A i \in 1..K : m.starts[i] \in Names(m)) \/ (\A i \in 1..K : m.starts[i] = Nil)
    BY <1>1 DEF Whole
  <2>2. CASE \A i \in 1..K : m.starts[i] \in Names(m)
    BY <1>10, <1>11, <1>12, <2>2 DEF Swap
  <2>3. CASE \A i \in 1..K : m.starts[i] = Nil
    BY <1>12, <1>13, <2>3 DEF Swap
  <2> QED
    BY <2>1, <2>2, <2>3
<1> QED
  BY <1>7, <1>12, <1>16, <1>17, <1>18, <1>19 DEF Whole, r

(* Where a step of the walk w may lead.                                    *)
Moved(w) ==
  /\ walk' \in WalkShape
  /\ walk'.run = w.run /\ walk'.resumed = w.resumed /\ walk'.value \in {"text", w.value}
  /\ walk'.at \in {"step", "ended", "raised"} /\ (walk'.at = "raised" => w.value = "live")
  /\ walk'.at = "ended" => walk'.result.text # "unset"
  /\ Stepping' /\ Outcome'

Counted(w) ==
  \/ walk'.made = w.made /\ runs' = runs
  \/ walk'.made = w.made + 1 /\ runs' = [runs EXCEPT ![w.run].made = @ + 1]

(* A walk that fails has moved, and has made no conversation.              *)
LEMMA FailMoves ==
  ASSUME NEW w \in WalkShape, NEW node \in Steps, Fail(w, node)
  PROVE  Moved(w) /\ walk'.made = w.made /\ walk'.at = "ended"
<1>1. Core(w, walk') /\ walk'.at = "ended" /\ walk'.result = Result("failed", node, Nil)
  BY FailIs
<1>2. walk'.result.text = "failed" /\ walk'.result.failed = node /\ walk'.result.paused = Nil /\ node # Nil
  BY <1>1, NamesAssumption DEF Result
<1>3. Outcome'
  BY <1>1, <1>2 DEF Outcome
<1>4. Stepping'
  BY <1>1 DEF Stepping
<1> QED
  BY <1>1, <1>2, <1>3, <1>4 DEF Core, Moved

(* A walk that proceeds has moved, and has made no conversation.           *)
LEMMA ProceedMoves ==
  ASSUME NEW w \in WalkShape, w.m \in ManifestShape, Whole(w.m),
         NEW next \in Names(w.m) \cup {Nil}, Proceed(w, next)
  PROVE  Moved(w) /\ walk'.made = w.made
<1>1. next \in Steps \cup {Nil}
  BY NamesAre
<1>2. /\ Core(w, walk')
      /\ \/ next # Nil /\ walk'.at = "step" /\ walk'.node = next
         \/ walk'.at = "raised" /\ w.value = "live"
         \/ walk'.at = "ended" /\ walk'.result = Result("done", Nil, Nil)
  BY <1>1, ProceedIs
<1>3. CASE next # Nil /\ walk'.at = "step" /\ walk'.node = next
  <2>1. Stepping'
    BY <1>2, <1>3 DEF Stepping, Core
  <2>2. Outcome'
    BY <1>3 DEF Outcome
  <2> QED
    BY <1>2, <1>3, <2>1, <2>2 DEF Core, Moved
<1>4. CASE walk'.at = "raised" /\ w.value = "live"
  <2>1. Stepping' /\ Outcome'
    BY <1>4 DEF Outcome, Stepping
  <2> QED
    BY <1>2, <1>4, <2>1 DEF Core, Moved
<1>5. CASE walk'.at = "ended" /\ walk'.result = Result("done", Nil, Nil)
  <2>1. walk'.result.text = "done" /\ walk'.result.failed = Nil /\ walk'.result.paused = Nil
    BY <1>5 DEF Result
  <2>2. Stepping' /\ Outcome'
    BY <1>5, <2>1 DEF Outcome, Stepping
  <2> QED
    BY <1>2, <1>5, <2>1, <2>2 DEF Core, Moved
<1> QED
  BY <1>2, <1>3, <1>4, <1>5

(* Done with a step, with a new value or with the old.                     *)
LEMMA PassMoves ==
  ASSUME NEW w \in WalkShape, w.m \in ManifestShape, Whole(w.m), NEW v \in {"text", w.value},
         NEW n \in Nat, NEW node \in Steps, NEW next \in Names(w.m) \cup {Nil},
         Proceed(Traced([w EXCEPT !.value = v, !.made = n], node, TRUE), next)
  PROVE  Moved(w) /\ walk'.made = n
<1> DEFINE u == [w EXCEPT !.value = v, !.made = n]
<1>1. /\ u \in WalkShape /\ u.run = w.run /\ u.resumed = w.resumed /\ u.m = w.m
      /\ u.value = v /\ u.made = n
  BY DEF WalkShape, Values
<1> HIDE DEF u
<1>2. Core(u, Traced(u, node, TRUE))
  BY <1>1, TracedIs
<1>3. Proceed(Traced(u, node, TRUE), next)
  BY DEF u
<1>4. /\ Traced(u, node, TRUE) \in WalkShape /\ Traced(u, node, TRUE).m = w.m
      /\ Traced(u, node, TRUE).run = w.run /\ Traced(u, node, TRUE).resumed = w.resumed
      /\ Traced(u, node, TRUE).value = v /\ Traced(u, node, TRUE).made = n
  BY <1>1, <1>2 DEF Core
<1>5. Moved(Traced(u, node, TRUE)) /\ walk'.made = Traced(u, node, TRUE).made
  BY <1>3, <1>4, ProceedMoves
<1> QED
  BY <1>4, <1>5 DEF Moved

(* What follows a call to another plugin moves the walk and counts the     *)
(* child it opened.                                                        *)
LEMMA CallMoves ==
  ASSUME NEW w \in WalkShape, w.m \in ManifestShape, Whole(w.m), w.node \in Steps,
         NEW next \in Names(w.m) \cup {Nil}, FinishCallBody(w, next)
  PROVE  Moved(w) /\ Counted(w)
<1> USE DEF FinishCallBody
<1>1. CASE Proceed(Traced([w EXCEPT !.value = "text"], w.node, TRUE), next) /\ UNCHANGED runs
  <2>1. [w EXCEPT !.value = "text"] = [w EXCEPT !.value = "text", !.made = w.made] /\ w.made \in Nat
    BY DEF WalkShape
  <2>2. Moved(w) /\ walk'.made = w.made
    BY <1>1, <2>1, PassMoves
  <2> QED
    BY <1>1, <2>2 DEF Counted
<1>2. CASE /\ Proceed(Traced([w EXCEPT !.value = "text", !.made = @ + 1], w.node, TRUE), next)
           /\ runs' = [runs EXCEPT ![w.run].made = @ + 1]
  <2>1. w.made + 1 \in Nat
    BY DEF WalkShape
  <2>2. Moved(w) /\ walk'.made = w.made + 1
    BY <1>2, <2>1, PassMoves
  <2> QED
    BY <1>2, <2>2 DEF Counted
<1>3. CASE Fail(w, w.node) /\ UNCHANGED runs
  BY <1>3, FailMoves DEF Counted
<1> QED
  BY <1>1, <1>2, <1>3

(* Every step of a walk that is under way.                                 *)
Stepped ==
  /\ walk.at \in {"step", "ask", "decide"}
  /\ walk' \in WalkShape
  /\ walk'.run = walk.run /\ walk'.resumed = walk.resumed /\ walk'.value \in {"text", "data", walk.value}
  /\ walk'.at \in {"step", "ask", "decide", "ended", "raised"}
  /\ walk'.at = "raised" => walk.value = "live"
  /\ walk'.at = "ask" => ~walk.resumed /\ StartAsk
  /\ walk'.at = "ended" => walk'.result.text # "unset"
  /\ Stepping' /\ Outcome'
  /\ Counted(walk)

(* A move of the walk, from where it entered its step, is a step.          *)
LEMMA MovedStepped ==
  ASSUME NEW w \in WalkShape, w.run = walk.run, w.resumed = walk.resumed, w.value \in {"text", walk.value},
         w.made = walk.made, walk.at \in {"step", "ask", "decide"}, Moved(w), Counted(w)
  PROVE  Stepped
BY DEF Moved, Counted, Stepped

(* The step the walk is at is a step of a manifest that is whole, and      *)
(* entering it changes only the visits.                                    *)
LEMMA HereIs ==
  ASSUME walk \in WalkShape, Stepping, walk.at \in {"step", "ask", "decide"}
  PROVE  /\ walk.m \in ManifestShape /\ Whole(walk.m) /\ walk.node \in Names(walk.m) /\ walk.node \in Steps
         /\ Here \in StepShape /\ Here.next \in Names(walk.m) \cup {Nil} /\ Here.ports \subseteq Names(walk.m)
         /\ Core(walk, Entered) /\ Entered.node = walk.node /\ Entered.at = walk.at
<1>1. walk.m \in ManifestShape /\ Whole(walk.m) /\ walk.node \in Names(walk.m)
  BY DEF Stepping
<1>2. walk.node \in Steps
  BY <1>1, NamesAre
<1>3. Core(walk, Entered) /\ Entered.node = walk.node /\ Entered.at = walk.at
  BY <1>2 DEF Core, Entered, WalkShape
<1> QED
  BY <1>1, <1>2, <1>3, NodeOfIs DEF Here

(* A walk that parks keeps its step and a value that can be written down.  *)
LEMMA ParkMoves ==
  ASSUME NEW w \in WalkShape, w.node \in Steps, NEW v \in {"data", "text"}, NEW kind \in Kinds,
         End([w EXCEPT !.value = v], Result("waiting", Nil, kind))
  PROVE  /\ walk' \in WalkShape /\ walk'.run = w.run /\ walk'.resumed = w.resumed /\ walk'.made = w.made
         /\ walk'.at = "ended" /\ walk'.value = v /\ walk'.result.text = "waiting"
         /\ Stepping' /\ Outcome'
<1> DEFINE u == [w EXCEPT !.value = v]
           r == Result("waiting", Nil, kind)
<1>1. /\ u \in WalkShape /\ u.run = w.run /\ u.resumed = w.resumed /\ u.made = w.made
      /\ u.value = v /\ u.node = w.node
  BY DEF WalkShape, Values
<1>2. r \in ResultShape /\ r.text = "waiting" /\ r.failed = Nil /\ r.paused = kind
  BY DEF Result, ResultShape, Texts
<1> HIDE DEF u, r
<1>3. End(u, r)
  BY DEF u, r
<1>4. Core(u, walk') /\ walk'.at = "ended" /\ walk'.result = r /\ walk'.node = u.node
  BY <1>1, <1>2, <1>3, EndIs
<1>5. kind # Nil
  BY NamesAssumption DEF Kinds
<1>6. Stepping'
  BY <1>4 DEF Stepping
<1>7. Outcome'
  BY <1>1, <1>2, <1>4, <1>5 DEF Outcome, Core
<1> QED
  BY <1>1, <1>2, <1>4, <1>6, <1>7 DEF Core

(* A step that fails is a step.                                            *)
LEMMA StepFails ==
  ASSUME NEW w \in WalkShape, Core(walk, w), walk.node \in Steps,
         walk.at \in {"step", "ask", "decide"}, Fail(w, walk.node), UNCHANGED runs
  PROVE  Stepped
<1>1. Moved(w) /\ walk'.made = w.made
  BY FailMoves
<1>2. Counted(w)
  BY <1>1 DEF Counted
<1> QED
  BY <1>1, <1>2, MovedStepped DEF Core

(* A step that refuses what it was given is a step.                        *)
LEMMA RefuseSteps == ASSUME walk \in WalkShape, Stepping, Refuse PROVE Stepped
<1>1. walk.at = "step" /\ Fail(Entered, walk.node) /\ UNCHANGED runs
  BY DEF Refuse, Ghosts
<1>2. Core(walk, Entered) /\ Entered \in WalkShape /\ walk.node \in Steps
  BY <1>1, HereIs DEF Core
<1> QED
  BY <1>1, <1>2, StepFails

(* A wait that parks the walk is a step.                                   *)
LEMMA ReachWaitSteps == ASSUME walk \in WalkShape, Stepping, ReachWait PROVE Stepped
<1>1. walk.at = "step" /\ End([Entered EXCEPT !.value = "text"], Result("waiting", Nil, "wait")) /\ UNCHANGED runs
  BY DEF ReachWait, Ghosts
<1>2. Core(walk, Entered) /\ Entered \in WalkShape /\ Entered.node \in Steps /\ "wait" \in Kinds
  BY <1>1, HereIs DEF Core, Kinds
<1>3. /\ walk' \in WalkShape /\ walk'.run = Entered.run /\ walk'.resumed = Entered.resumed /\ walk'.made = Entered.made
      /\ walk'.at = "ended" /\ walk'.value = "text" /\ walk'.result.text = "waiting"
      /\ Stepping' /\ Outcome'
  BY <1>1, <1>2, ParkMoves
<1> QED
  BY <1>1, <1>2, <1>3 DEF Stepped, Core, Counted

(* A call that parks or goes out is a step.                                *)
LEMMA ReachCallSteps == ASSUME walk \in WalkShape, Stepping, ReachCall PROVE Stepped
<1>1. walk.at = "step" /\ UNCHANGED runs
  BY DEF ReachCall, Ghosts
<1>2. Core(walk, Entered) /\ Entered \in WalkShape /\ Entered.node \in Steps /\ Entered.node = walk.node /\ "call" \in Kinds
  BY <1>1, HereIs DEF Core, Kinds
<1>3. CASE walk.parks
  <2>1. Persistable(Entered.value) \in {"data", "text"}
    BY <1>2 DEF Persistable, WalkShape, Values
  <2>2. End([Entered EXCEPT !.value = Persistable(Entered.value)], Result("waiting", Nil, "call"))
    BY <1>3 DEF ReachCall
  <2>3. /\ walk' \in WalkShape /\ walk'.run = Entered.run /\ walk'.resumed = Entered.resumed /\ walk'.made = Entered.made
        /\ walk'.at = "ended" /\ walk'.value \in {"data", "text"} /\ walk'.result.text = "waiting"
        /\ Stepping' /\ Outcome'
    BY <1>2, <2>1, <2>2, ParkMoves
  <2> QED
    BY <1>1, <1>2, <2>3 DEF Stepped, Core, Counted
<1>4. CASE ~walk.parks
  <2>1. walk' = [Entered EXCEPT !.at = "decide"]
    BY <1>4 DEF ReachCall
  <2>2. /\ walk' \in WalkShape /\ walk'.at = "decide" /\ walk'.run = Entered.run /\ walk'.resumed = Entered.resumed
        /\ walk'.made = Entered.made /\ walk'.value = Entered.value /\ walk'.m = Entered.m /\ walk'.node = Entered.node
    BY <1>2, <2>1 DEF WalkShape
  <2>3. Stepping' /\ Outcome'
    BY <1>1, <1>2, <2>2, HereIs DEF Stepping, Outcome, Core
  <2> QED
    BY <1>1, <1>2, <2>2, <2>3 DEF Stepped, Core, Counted
<1> QED
  BY <1>3, <1>4

(* A step that passes a value on is a step.                                *)
LEMMA PassSteps ==
  ASSUME walk \in WalkShape, Stepping, walk.at \in {"step", "ask", "decide"}, UNCHANGED runs,
         NEW w \in WalkShape, Core(walk, w), NEW v \in {"text", walk.value}, NEW next \in Names(walk.m) \cup {Nil},
         Proceed(Traced([w EXCEPT !.value = v], walk.node, TRUE), next)
  PROVE  Stepped
<1>1. /\ w.m = walk.m /\ walk.m \in ManifestShape /\ Whole(walk.m) /\ walk.node \in Steps
      /\ w.made \in Nat /\ w.value = walk.value
  BY HereIs DEF Core, WalkShape
<1>2. [w EXCEPT !.value = v] = [w EXCEPT !.value = v, !.made = w.made]
  BY DEF WalkShape
<1>3. Moved(w) /\ walk'.made = w.made
  BY <1>1, <1>2, PassMoves
<1> QED
  BY <1>3, MovedStepped DEF Core, Counted

(* A code step is a step.                                                  *)
LEMMA ComputeSteps == ASSUME walk \in WalkShape, Stepping, Compute PROVE Stepped
<1>1. walk.at = "step" /\ UNCHANGED runs
  BY DEF Compute, Ghosts
<1>2. /\ Core(walk, Entered) /\ Entered \in WalkShape /\ walk.node \in Steps
      /\ Here.next \in Names(walk.m) \cup {Nil}
  BY <1>1, HereIs DEF Core
<1>3. CASE Fail(Entered, walk.node)
  BY <1>1, <1>2, <1>3, StepFails
<1>4. CASE \E v \in {"text", walk.value} : Proceed(Traced([Entered EXCEPT !.value = v], walk.node, TRUE), Here.next)
  BY <1>1, <1>2, <1>4, PassSteps
<1> QED
  BY <1>3, <1>4 DEF Compute

(* Without a new value.                                                    *)
LEMMA PlainSteps ==
  ASSUME walk \in WalkShape, Stepping, walk.at = "step", UNCHANGED runs, NEW next \in Names(walk.m) \cup {Nil},
         Proceed(Traced(Entered, walk.node, TRUE), next)
  PROVE  Stepped
<1>1. Core(walk, Entered) /\ Entered \in WalkShape
  BY HereIs DEF Core
<1>2. [Entered EXCEPT !.value = walk.value] = Entered
  BY <1>1 DEF WalkShape, Core
<1> QED
  BY <1>1, <1>2, PassSteps

(* A route is a step.                                                      *)
LEMMA RouteSteps == ASSUME walk \in WalkShape, Stepping, Route PROVE Stepped
<1>1. walk.at = "step" /\ UNCHANGED runs
  BY DEF Route, Ghosts
<1>2. /\ Core(walk, Entered) /\ Entered \in WalkShape /\ walk.node \in Steps
      /\ Here.ports \subseteq Names(walk.m)
  BY <1>1, HereIs DEF Core
<1>3. CASE Fail(Entered, walk.node)
  BY <1>1, <1>2, <1>3, StepFails
<1>4. CASE \E port \in Here.ports : Proceed(Traced(Entered, walk.node, TRUE), port)
  BY <1>1, <1>2, <1>4, PlainSteps
<1> QED
  BY <1>3, <1>4 DEF Route

(* A stop is a step.                                                       *)
LEMMA StopSteps == ASSUME walk \in WalkShape, Stepping, Stop PROVE Stepped
<1>1. walk.at = "step" /\ UNCHANGED runs /\ Proceed(Traced(Entered, walk.node, TRUE), Here.next)
  BY DEF Stop, Ghosts
<1>2. Here.next \in Names(walk.m) \cup {Nil}
  BY <1>1, HereIs
<1> QED
  BY <1>1, <1>2, PlainSteps

(* A question sent to the model is a step.                                 *)
LEMMA StartAskSteps == ASSUME walk \in WalkShape, Stepping, StartAsk PROVE Stepped
<1>1. walk.at = "step" /\ UNCHANGED runs
  BY DEF StartAsk
<1>2. /\ Core(walk, Entered) /\ Entered \in WalkShape /\ walk.node \in Steps /\ Entered.node = walk.node
  BY <1>1, HereIs DEF Core
<1>3. CASE Fail(Entered, walk.node)
  BY <1>1, <1>2, <1>3, StepFails
<1>4. CASE walk' = [Entered EXCEPT !.at = "ask"] /\ ~walk.resumed
  <2>1. /\ walk' \in WalkShape /\ walk'.at = "ask" /\ walk'.run = Entered.run /\ walk'.resumed = Entered.resumed
        /\ walk'.made = Entered.made /\ walk'.value = Entered.value /\ walk'.m = Entered.m /\ walk'.node = Entered.node
    BY <1>2, <1>4 DEF WalkShape
  <2>2. Stepping' /\ Outcome'
    BY <1>1, <1>2, <2>1, HereIs DEF Stepping, Outcome, Core
  <2> QED
    BY <1>1, <1>2, <1>4, <2>1, <2>2 DEF Stepped, Core, Counted
<1> QED
  BY <1>3, <1>4 DEF StartAsk

(* Its answer is a step.                                                   *)
LEMMA FinishAskSteps == ASSUME walk \in WalkShape, Stepping, FinishAsk PROVE Stepped
<1>1. walk.at = "ask" /\ UNCHANGED runs
  BY DEF FinishAsk
<1>2. Core(walk, walk) /\ walk.node \in Steps /\ Here.next \in Names(walk.m) \cup {Nil}
  BY <1>1, HereIs DEF Core
<1>3. CASE Fail(walk, walk.node)
  BY <1>1, <1>2, <1>3, StepFails
<1>4. CASE Proceed(Traced([walk EXCEPT !.value = "text"], walk.node, TRUE), Here.next)
  BY <1>1, <1>2, <1>4, PassSteps
<1> QED
  BY <1>3, <1>4 DEF FinishAsk

(* What the code of a route decides is a step.                             *)
LEMMA DecideSteps == ASSUME walk \in WalkShape, Stepping, Decide PROVE Stepped
<1>1. walk.at = "decide"
  BY DEF Decide
<1>2. /\ Core(walk, walk) /\ walk.node \in Steps /\ Here.next \in Names(walk.m) \cup {Nil}
      /\ walk.m \in ManifestShape /\ Whole(walk.m)
  BY <1>1, HereIs DEF Core
<1>3. CASE FinishCallBody(walk, Here.next)
  <2>1. Moved(walk) /\ Counted(walk)
    BY <1>2, <1>3, CallMoves
  <2> QED
    BY <1>1, <2>1, MovedStepped
<1>4. CASE Fail(walk, walk.node) /\ UNCHANGED runs
  BY <1>1, <1>2, <1>4, StepFails
<1> QED
  BY <1>3, <1>4 DEF Decide

(* What a step of the walk does, and what it leaves alone.                 *)
LEMMA WalkSteps ==
  ASSUME walk \in WalkShape, Stepping, Walk
  PROVE  Stepped /\ UNCHANGED << Plugin, held, conv, pause, Records, left >>
<1>1. Stepped
  BY RefuseSteps, ReachWaitSteps, ComputeSteps, RouteSteps, StopSteps, StartAskSteps, FinishAskSteps,
     ReachCallSteps, DecideSteps DEF Walk
<1>2. UNCHANGED << Plugin, held, conv, pause, Records, left >>
  BY DEF Walk, Refuse, ReachWait, Compute, Route, Stop, StartAsk, FinishAsk, ReachCall, Decide
<1> QED
  BY <1>1, <1>2

-----------------------------------------------------------------------------
(* The walks that start.                                                   *)
Opened ==
  /\ Resumable
  /\ walk' \in WalkShape /\ walk'.resumed /\ walk'.run = pause.run
  /\ walk'.at \in {"step", "ended"} /\ walk'.value # "live"
  /\ Stepping' /\ Outcome' /\ Refused'
  /\ runs' = runs \/ runs' = [runs EXCEPT ![pause.run].made = @ + 1]
  /\ UNCHANGED << Plugin, held, conv, turn, pause, Records, children, left >>

(* The walk a pause is resumed as is at the step that waited.              *)
LEMMA ResumedIs ==
  ASSUME PluginInv, Waits, Resumable
  PROVE  /\ Resumed \in WalkShape /\ Resumed.run = pause.run /\ Resumed.resumed /\ Resumed.m = disk.m
         /\ Resumed.node = pause.node /\ Resumed.value = "text" /\ Resumed.trace = pause.trace
         /\ Resumed.made = pause.made
         /\ disk.m \in ManifestShape /\ pause.node \in Steps /\ pause.kind \in Kinds /\ pause.kind # Nil
         /\ pause.value \in {"data", "text"}
         /\ ~Gone => /\ Whole(disk.m) /\ pause.node \in Names(disk.m)
                     /\ NodeOf(disk.m, pause.node).next \in Names(disk.m) \cup {Nil}
<1>1. disk.m \in ManifestShape
  BY DEF PluginInv
<1>2. /\ pause \in [node : Steps, kind : Kinds, value : {"data", "text"}, trace : TraceShape,
                    made : Nat, run : Nat \ {0}, key : Nat \X Nat]
  BY DEF Waits, Resumable
<1>3. /\ Resumed \in WalkShape /\ Resumed.run = pause.run /\ Resumed.resumed /\ Resumed.m = disk.m
      /\ Resumed.node = pause.node /\ Resumed.value = "text" /\ Resumed.trace = pause.trace
      /\ Resumed.made = pause.made
  BY <1>1, <1>2 DEF Resumed, Resting, WalkShape, NoResult, Result, ResultShape, Values
<1>4. pause.kind # Nil
  BY <1>2, NamesAssumption DEF Kinds
<1>5. ASSUME ~Gone
      PROVE  /\ Whole(disk.m) /\ pause.node \in Names(disk.m)
             /\ NodeOf(disk.m, pause.node).next \in Names(disk.m) \cup {Nil}
  <2>1. Whole(disk.m) /\ pause.node \in Names(disk.m)
    BY <1>1, <1>5, ValidWhole DEF Gone
  <2> QED
    BY <1>1, <2>1, NodeOfIs
<1> QED
  BY <1>1, <1>2, <1>3, <1>4, <1>5

(* A walk that moved on from the resumed one is a resumed walk.            *)
LEMMA MovedOpens ==
  ASSUME Resumable, NEW w \in WalkShape, w.run = pause.run, w.resumed, w.value # "live", Moved(w)
  PROVE  /\ walk' \in WalkShape /\ walk'.resumed /\ walk'.run = pause.run
         /\ walk'.at \in {"step", "ended"} /\ walk'.value # "live"
         /\ Stepping' /\ Outcome' /\ Refused'
BY DEF Moved, Refused

(* A resume that finds its step gone opens a walk that has ended.          *)
LEMMA FailResumeOpens == ASSUME PluginInv, Waits, FailResume PROVE Opened
<1> DEFINE r == Result("gone", pause.node, Nil)
<1>1. /\ Resumable /\ End(Resumed, r)
      /\ UNCHANGED << Plugin, held, conv, turn, pause, Records, children, runs, left >>
  BY DEF FailResume, Ghosts
<1>2. /\ Resumed \in WalkShape /\ Resumed.run = pause.run /\ Resumed.resumed /\ Resumed.value = "text"
      /\ pause.node \in Steps
  BY <1>1, ResumedIs
<1>3. r \in ResultShape /\ r.text = "gone" /\ r.paused = Nil
  BY <1>2 DEF Result, ResultShape, Texts
<1> HIDE DEF r
<1>4. Core(Resumed, walk') /\ walk'.at = "ended" /\ walk'.result = r
  BY <1>1, <1>2, <1>3, EndIs
<1>5. Stepping' /\ Outcome' /\ Refused'
  BY <1>2, <1>3, <1>4 DEF Stepping, Outcome, Refused, Core
<1> QED
  BY <1>1, <1>2, <1>4, <1>5 DEF Opened, Core

(* So does a resume that lacks a setting: it is refused where it waited.   *)
LEMMA RefuseResumeOpens == ASSUME PluginInv, Waits, RefuseResume PROVE Opened
<1> DEFINE r == Result("unset", Nil, pause.kind)
           w == [Resumed EXCEPT !.value = pause.value]
<1>1. /\ Resumable /\ End(w, r)
      /\ UNCHANGED << Plugin, held, conv, turn, pause, Records, children, runs, left >>
  BY DEF RefuseResume, Ghosts, KeepUnset
<1>2. /\ Resumed \in WalkShape /\ Resumed.run = pause.run /\ Resumed.resumed
      /\ Resumed.node = pause.node /\ Resumed.trace = pause.trace /\ Resumed.made = pause.made
      /\ pause.node \in Steps /\ pause.kind \in Kinds /\ pause.kind # Nil /\ pause.value \in {"data", "text"}
  BY <1>1, ResumedIs
<1>3. r \in ResultShape /\ r.text = "unset" /\ r.paused = pause.kind
  BY <1>2 DEF Result, ResultShape, Texts
<1>4. /\ w \in WalkShape /\ w.run = pause.run /\ w.resumed /\ w.value = pause.value
      /\ w.node = pause.node /\ w.trace = pause.trace /\ w.made = pause.made
  BY <1>2 DEF WalkShape, Values
<1> HIDE DEF r, w
<1>5. walk' = [w EXCEPT !.at = "ended", !.result = r]
  BY <1>1 DEF End
<1>6. /\ walk' \in WalkShape /\ walk'.run = pause.run /\ walk'.resumed /\ walk'.value = pause.value
      /\ walk'.node = pause.node /\ walk'.trace = pause.trace /\ walk'.made = pause.made
      /\ walk'.at = "ended" /\ walk'.result = r
  BY <1>3, <1>4, <1>5 DEF WalkShape
<1>7. Stepping' /\ Outcome' /\ Refused'
  BY <1>1, <1>2, <1>3, <1>6 DEF Stepping, Outcome, Refused
<1> QED
  BY <1>1, <1>2, <1>6, <1>7 DEF Opened

(* A declined call opens a walk that failed or passed the refusal on.      *)
LEMMA DeclineOpens == ASSUME PluginInv, Waits, Decline PROVE Opened
<1>1. /\ Resumable /\ Fail(Resumed, pause.node)
      /\ UNCHANGED << Plugin, held, conv, turn, pause, Records, children, runs, left >>
  BY DEF Decline, Ghosts
<1>2. /\ Resumed \in WalkShape /\ Resumed.run = pause.run /\ Resumed.resumed /\ Resumed.value = "text"
      /\ pause.node \in Steps
  BY <1>1, ResumedIs
<1>3. Moved(Resumed)
  BY <1>1, <1>2, FailMoves
<1>4. /\ walk' \in WalkShape /\ walk'.resumed /\ walk'.run = pause.run
      /\ walk'.at \in {"step", "ended"} /\ walk'.value # "live"
      /\ Stepping' /\ Outcome' /\ Refused'
  BY <1>1, <1>2, <1>3, MovedOpens
<1> QED
  BY <1>1, <1>4 DEF Opened

(* An approved call opens a walk that makes it.                            *)
LEMMA ApproveOpens == ASSUME PluginInv, Waits, Approve PROVE Opened
<1>1. /\ Resumable /\ ~Gone
      /\ UNCHANGED << Plugin, held, conv, turn, pause, Records, children, left >>
  BY DEF Approve
<1>2. /\ Resumed \in WalkShape /\ Resumed.run = pause.run /\ Resumed.resumed /\ Resumed.value = "text"
      /\ Resumed.m = disk.m /\ Resumed.node = pause.node /\ pause.node \in Steps
      /\ disk.m \in ManifestShape /\ Whole(disk.m)
      /\ NodeOf(disk.m, pause.node).next \in Names(disk.m) \cup {Nil}
  BY <1>1, ResumedIs
<1>3. PICK parks \in BOOLEAN, v \in {"keyed", "text"} :
        FinishCallBody([Resumed EXCEPT !.parks = parks, !.value = v], NodeOf(disk.m, pause.node).next)
  BY <1>2 DEF Approve
<1> DEFINE w == [Resumed EXCEPT !.parks = parks, !.value = v]
<1>4. /\ w \in WalkShape /\ w.run = pause.run /\ w.resumed /\ w.value # "live" /\ w.m = disk.m /\ w.node = pause.node
  BY <1>2 DEF WalkShape, Values
<1> HIDE DEF w
<1>5. FinishCallBody(w, NodeOf(disk.m, pause.node).next)
  BY <1>3 DEF w
<1>6. Moved(w) /\ Counted(w)
  BY <1>2, <1>4, <1>5, CallMoves
<1>7. /\ walk' \in WalkShape /\ walk'.resumed /\ walk'.run = pause.run
      /\ walk'.at \in {"step", "ended"} /\ walk'.value # "live"
      /\ Stepping' /\ Outcome' /\ Refused'
  BY <1>1, <1>4, <1>6, MovedOpens
<1> QED
  BY <1>1, <1>4, <1>6, <1>7 DEF Opened, Counted

(* An answered wait opens a walk at the step after it.                     *)
LEMMA AnswerOpens == ASSUME PluginInv, Waits, Answer PROVE Opened
<1>1. /\ Resumable /\ ~Gone
      /\ UNCHANGED << Plugin, held, conv, turn, pause, Records, children, runs, left >>
  BY DEF Answer, Ghosts
<1>2. /\ Resumed \in WalkShape /\ Resumed.run = pause.run /\ Resumed.resumed /\ Resumed.value = "text"
      /\ Resumed.m = disk.m /\ Resumed.node = pause.node /\ pause.node \in Steps
      /\ disk.m \in ManifestShape /\ Whole(disk.m)
      /\ NodeOf(disk.m, pause.node).next \in Names(disk.m) \cup {Nil}
  BY <1>1, ResumedIs
<1>3. PICK parks \in BOOLEAN :
        Proceed(Traced([Resumed EXCEPT !.parks = parks], pause.node, TRUE), NodeOf(disk.m, pause.node).next)
  BY DEF Answer
<1> DEFINE w == [Resumed EXCEPT !.parks = parks]
<1>4. /\ w \in WalkShape /\ w.run = pause.run /\ w.resumed /\ w.value = "text" /\ w.m = disk.m
  BY <1>2 DEF WalkShape, Values
<1> HIDE DEF w
<1>5. w = [w EXCEPT !.value = "text", !.made = w.made] /\ w.made \in Nat
  BY <1>4 DEF WalkShape
<1>6. PICK next \in Names(disk.m) \cup {Nil} :
        Proceed(Traced([w EXCEPT !.value = "text", !.made = w.made], pause.node, TRUE), next)
  BY <1>2, <1>3, <1>5 DEF w
<1>7. Moved(w)
  <2>1. /\ w.m \in ManifestShape /\ Whole(w.m) /\ next \in Names(w.m) \cup {Nil}
        /\ "text" \in {"text", w.value} /\ w.made \in Nat /\ pause.node \in Steps /\ w \in WalkShape
    BY <1>2, <1>4, <1>5
  <2> QED
    BY <2>1, <1>6, PassMoves
<1>8. /\ walk' \in WalkShape /\ walk'.resumed /\ walk'.run = pause.run
      /\ walk'.at \in {"step", "ended"} /\ walk'.value # "live"
      /\ Stepping' /\ Outcome' /\ Refused'
  BY <1>1, <1>4, <1>7, MovedOpens
<1> QED
  BY <1>1, <1>8 DEF Opened

(* No walk is a walk at rest.                                              *)
LEMMA RestingIs == Resting \in WalkShape /\ ~Resting.resumed /\ Resting.made = 0 /\ Resting.at = "rest"
<1>1. << >> \in TraceShape
  BY DEF TraceShape
<1> QED
  BY <1>1 DEF Resting, WalkShape, NoResult, Result, ResultShape, Values

Begun ==
  /\ turn.live /\ walk.at = "rest"
  /\ walk' \in WalkShape /\ ~walk'.resumed /\ walk'.run = Len(runs) + 1 /\ walk'.made = 0
  /\ walk'.at \in {"step", "ended"} /\ Stepping' /\ Outcome'
  /\ runs' = Append(runs, [key |-> Key, made |-> 0, life |-> left.crashes, end |-> "none", parked |-> FALSE])
  /\ rows' = IF Key \in DOMAIN rows THEN rows
             ELSE With(Key, [run |-> Len(runs) + 1, state |-> "running", nodes |-> 0, made |-> 0,
                             shows |-> Len(runs) + 1])
  /\ UNCHANGED << Plugin, held, conv, turn, pause, spans, children, left >>

(* A dispatch begins a run under the next key of its turn.                 *)
LEMMA DispatchBegins == ASSUME Shaped, PluginInv, Dispatch PROVE Begun
<1> DEFINE fresh == [Resting EXCEPT !.run = Len(runs) + 1, !.m = held, !.value = "live", !.parks = turn.parks]
           r == Result("unset", "entry", Nil)
<1>1. /\ held \in ManifestShape /\ Whole(held) /\ ~Dangling(held)
      /\ \A i \in DOMAIN held.starts : held.starts[i] \in Names(held)
  BY DEF Dispatch, PluginInv, Dangling
<1>2. Len(runs) \in Nat /\ turn.parks \in BOOLEAN
  BY DEF Shaped
<1>3. /\ turn.live /\ walk.at = "rest"
      /\ runs' = Append(runs, [key |-> Key, made |-> 0, life |-> left.crashes, end |-> "none", parked |-> FALSE])
      /\ rows' = IF Key \in DOMAIN rows THEN rows
                 ELSE With(Key, [run |-> Len(runs) + 1, state |-> "running", nodes |-> 0, made |-> 0,
                                 shows |-> Len(runs) + 1])
      /\ UNCHANGED << Plugin, held, conv, turn, pause, spans, children, left >>
  BY DEF Dispatch
<1>4. fresh \in WalkShape /\ fresh.run = Len(runs) + 1 /\ ~fresh.resumed /\ fresh.made = 0 /\ fresh.m = held
  <2>1. PICK w \in WalkShape : w = Resting /\ w.resumed = FALSE /\ w.made = 0
    BY RestingIs DEF WalkShape
  <2>2. fresh = [w EXCEPT !.run = Len(runs) + 1, !.m = held, !.value = "live", !.parks = turn.parks]
    BY <2>1
  <2> HIDE DEF fresh
  <2>3. Len(runs) + 1 \in Nat /\ held \in ManifestShape \cup {Nil} /\ "live" \in Values
    BY <1>1, <1>2 DEF Values
  <2> QED
    BY <1>2, <2>1, <2>2, <2>3 DEF WalkShape
<1>5. r \in ResultShape /\ r.text = "unset" /\ r.failed = "entry" /\ r.paused = Nil /\ Nil # "entry"
  BY NamesAssumption DEF Result, ResultShape, Texts
<1>6. \E start \in Names(held) : \/ walk' = [fresh EXCEPT !.at = "step", !.node = start]
                                 \/ End(fresh, r)
  BY <1>1 DEF Dispatch
<1> HIDE DEF fresh, r
<1>7. CASE \E start \in Names(held) : walk' = [fresh EXCEPT !.at = "step", !.node = start]
  <2>1. PICK start \in Names(held) : walk' = [fresh EXCEPT !.at = "step", !.node = start]
    BY <1>7
  <2>2. start \in Steps
    BY <1>1, NamesAre
  <2>3. /\ walk' \in WalkShape /\ walk'.at = "step" /\ walk'.node = start /\ walk'.m = held
        /\ walk'.run = Len(runs) + 1 /\ ~walk'.resumed /\ walk'.made = 0
    BY <1>4, <2>1, <2>2 DEF WalkShape
  <2>4. Stepping' /\ Outcome'
    BY <1>1, <2>3 DEF Stepping, Outcome
  <2> QED
    BY <1>3, <2>3, <2>4 DEF Begun
<1>8. CASE End(fresh, r)
  <2>1. Core(fresh, walk') /\ walk'.at = "ended" /\ walk'.result = r
    BY <1>4, <1>5, <1>8, EndIs
  <2>2. Stepping' /\ Outcome'
    BY <1>5, <2>1 DEF Stepping, Outcome
  <2> QED
    BY <1>3, <1>4, <2>1, <2>2 DEF Begun, Core
<1> QED
  BY <1>6, <1>7, <1>8

-----------------------------------------------------------------------------
(* A run keeps its key, its number and its life.                           *)
OnlyRun(k) ==
  /\ runs' \in Seq(RunShape) /\ Len(runs') = Len(runs) /\ DOMAIN runs' = DOMAIN runs
  /\ \A i \in DOMAIN runs : runs'[i].key = runs[i].key /\ runs'[i].life = runs[i].life /\ (i # k => runs'[i] = runs[i])

(* Writing one run with its own key and life changes that run only.        *)
LEMMA RunSet ==
  ASSUME Shaped, NEW k \in DOMAIN runs, NEW r \in RunShape, r.key = runs[k].key, r.life = runs[k].life,
         runs' = [runs EXCEPT ![k] = r]
  PROVE  OnlyRun(k) /\ runs'[k] = r
<1>1. runs \in Seq(RunShape)
  BY DEF Shaped
<1>2. runs'[k] = r /\ \A i \in DOMAIN runs : i # k => runs'[i] = runs[i]
  BY <1>1
<1>3. runs' \in Seq(RunShape) /\ Len(runs') = Len(runs) /\ DOMAIN runs' = DOMAIN runs
  BY <1>1
<1> QED
  BY <1>2, <1>3 DEF OnlyRun

(* Counting a conversation changes one run only.                           *)
LEMMA MadeOnly ==
  ASSUME Shaped, NEW k \in DOMAIN runs,
         runs' = [runs EXCEPT ![k].made = @ + 1]
  PROVE  OnlyRun(k) /\ runs'[k].end = runs[k].end /\ runs'[k].made = runs[k].made + 1 /\ runs'[k].parked = runs[k].parked
<1>1. runs \in Seq(RunShape)
  BY DEF Shaped
<1>2. PICK r \in RunShape : r = runs[k]
  BY <1>1
<1> DEFINE s == [r EXCEPT !.made = @ + 1]
<1>3. /\ s \in RunShape /\ s.key = r.key /\ s.life = r.life /\ s.made = r.made + 1
      /\ s.end = r.end /\ s.parked = r.parked
  BY DEF RunShape
<1>4. runs' = [runs EXCEPT ![k] = s]
  BY <1>1, <1>2
<1> HIDE DEF s
<1> QED
  BY <1>2, <1>3, <1>4, RunSet

(* So does a run that escapes with an exception.                           *)
LEMMA EndOnly ==
  ASSUME Shaped, NEW k \in DOMAIN runs, NEW text \in Texts \cup {"none", "raised"},
         runs' = [runs EXCEPT ![k].end = text]
  PROVE  OnlyRun(k) /\ runs'[k].end = text /\ runs'[k].made = runs[k].made /\ runs'[k].parked = runs[k].parked
<1>1. runs \in Seq(RunShape)
  BY DEF Shaped
<1>2. PICK r \in RunShape : r = runs[k]
  BY <1>1
<1> DEFINE s == [r EXCEPT !.end = text]
<1>3. /\ s \in RunShape /\ s.key = r.key /\ s.life = r.life /\ s.made = r.made
      /\ s.end = text /\ s.parked = r.parked
  BY DEF RunShape
<1>4. runs' = [runs EXCEPT ![k] = s]
  BY <1>1, <1>2
<1> HIDE DEF s
<1> QED
  BY <1>2, <1>3, <1>4, RunSet

(* So does recording how a run ended.                                      *)
LEMMA RecordOnly ==
  ASSUME Shaped, NEW k \in DOMAIN runs, NEW text \in Texts, NEW parked \in BOOLEAN,
         runs' = [runs EXCEPT ![k].end = text, ![k].parked = parked]
  PROVE  OnlyRun(k) /\ runs'[k].end = text /\ runs'[k].made = runs[k].made /\ runs'[k].parked = parked
<1>1. runs \in Seq(RunShape)
  BY DEF Shaped
<1>2. PICK r \in RunShape : r = runs[k]
  BY <1>1
<1> DEFINE s == [r EXCEPT !.end = text, !.parked = parked]
<1>3. /\ s \in RunShape /\ s.key = r.key /\ s.life = r.life /\ s.made = r.made
      /\ s.end = text /\ s.parked = parked
  BY DEF RunShape
<1>4. runs' = [runs EXCEPT ![k] = s]
  BY <1>1, <1>2
<1> HIDE DEF s
<1> QED
  BY <1>2, <1>3, <1>4, RunSet

(* Runs that keep their keys share them with whom they did.                *)
LEMMA AloneStays ==
  ASSUME NEW k, OnlyRun(k)
  PROVE  \A i \in DOMAIN runs : Alone(i)' <=> Alone(i)
BY DEF OnlyRun, Alone

-----------------------------------------------------------------------------
(* What is said of rows and spans is said of the runs and the walk alone.  *)
LEMMA RowsStay ==
  ASSUME RowsKeyed, SpansKeyed, RowFresh, RowsTellRun,
         UNCHANGED << conv, turn, walk, rows, spans, runs >>
  PROVE  RowsKeyed' /\ SpansKeyed' /\ RowFresh' /\ RowsTellRun'
<1>1. RowsKeyed' /\ SpansKeyed'
  BY DEF RowsKeyed, SpansKeyed
<1>2. RowFresh'
  BY DEF RowFresh, Alone, Own, Key
<1>3. RowsTellRun'
  BY DEF RowsTellRun, Alone
<1> QED
  BY <1>1, <1>2, <1>3

(* Every step keeps the invariant.                                         *)
LEMMA EditKeeps == ASSUME IInv, Edit PROVE IInv'
<1>1. /\ UNCHANGED << held, conv, turn, walk, pause, rows, spans, children, runs >>
      /\ left' = [left EXCEPT !.edits = @ - 1] /\ left.edits > 0
  BY DEF Edit, AddStep, RenameStep, DeleteStep, Save, Tamper, Write, Records, Ghosts
<1>2. left' \in [edits : Nat, crashes : Nat] /\ left'.crashes = left.crashes
  <2>1. left \in [edits : Nat, crashes : Nat]
    BY DEF IInv, Shaped
  <2>2. left.edits - 1 \in Nat
    BY <1>1, <2>1
  <2> QED
    BY <1>1, <2>1, <2>2
<1>3. PluginInv'
  <2>1. disk \in [m : ManifestShape, files : SUBSET {"code", "skills", "schema"}] /\ Whole(disk.m)
    BY DEF IInv, PluginInv
  <2>2. ASSUME NEW m \in ManifestShape, Whole(m), disk' = [disk EXCEPT !.m = m]
        PROVE  PluginInv'
    <3>1. disk' \in [m : ManifestShape, files : SUBSET {"code", "skills", "schema"}] /\ disk'.m = m
      BY <2>1, <2>2
    <3> QED
      BY <1>1, <2>2, <3>1 DEF IInv, PluginInv
  <2>3. CASE AddStep
    <3>1. PICK kind \in {"ask", "wait"}, fresh \in Steps \ Names(disk.m) : Write(AddNode(disk.m, kind, fresh))
      BY <2>3 DEF AddStep
    <3> QED
      BY <2>1, <2>2, <3>1, AddWhole DEF Write
  <2>4. CASE RenameStep
    <3>1. PICK old \in Steps, new \in Steps :
            ~RenameRefused(disk.m, old, new) /\ old # new /\ Write(RenameNode(disk.m, old, new))
      BY <2>4 DEF RenameStep
    <3> QED
      BY <2>1, <2>2, <3>1, RenameWhole DEF Write
  <2>5. CASE DeleteStep
    <3>1. PICK name \in Names(disk.m) : Write(RemoveNode(disk.m, name))
      BY <2>5 DEF DeleteStep
    <3> QED
      BY <2>1, <2>2, <3>1, RemoveWhole DEF Write
  <2>6. CASE Save
    <3>1. PICK m \in Pages : Write(m)
      BY <2>6 DEF Save
    <3> QED
      BY <2>2, <3>1, ManifestsAssumption DEF Write
  <2>7. CASE Tamper
    <3>1. disk'.m = disk.m /\ disk' \in [m : ManifestShape, files : SUBSET {"code", "skills", "schema"}]
      BY <2>1, <2>7 DEF Tamper
    <3> QED
      BY <1>1, <3>1 DEF IInv, PluginInv
  <2> QED
    BY <2>3, <2>4, <2>5, <2>6, <2>7 DEF Edit
<1>4. Shaped'
  BY <1>1, <1>2 DEF IInv, Shaped
<1>5. Stepping' /\ Outcome' /\ Waits' /\ Refused'
  BY <1>1 DEF IInv, Stepping, Outcome, Waits, Refused
<1>6. Placed'
  BY <1>1, <1>2 DEF IInv, Placed, Own, Key
<1>7. RunsSpent' /\ RunsApart'
  BY <1>1, <1>2 DEF IInv, RunsSpent, RunsApart, Spent, Own
<1>8. ChildrenSpent' /\ ChildrenApart'
  BY <1>1, <1>2 DEF IInv, ChildrenSpent, ChildrenApart, NextChild
<1>9. RowsKeyed' /\ SpansKeyed' /\ RowFresh' /\ RowsTellRun'
  BY <1>1, RowsStay DEF IInv
<1> QED
  BY <1>3, <1>4, <1>5, <1>6, <1>7, <1>8, <1>9 DEF IInv

(* The plugin set is looked at again, or a turn starts.                    *)
LEMMA OpenRuntimeKeeps == ASSUME IInv, OpenRuntime PROVE IInv'
<1>1. /\ UNCHANGED << disk, conv, turn, walk, pause, rows, spans, children, runs, left >>
      /\ held' = IF Validate(disk.m, disk.files, TRUE) = "Valid" THEN disk.m ELSE Nil
  BY DEF OpenRuntime, Plugin, Records, Ghosts
<1>2. PluginInv'
  <2>1. disk.m \in ManifestShape /\ Whole(disk.m)
    BY DEF IInv, PluginInv
  <2>2. held' = Nil \/ (held' \in ManifestShape /\ Whole(held') /\ ~Dangling(held'))
    BY <1>1, <2>1, ValidWhole
  <2> QED
    BY <1>1, <2>2 DEF IInv, PluginInv
<1>3. Shaped'
  BY <1>1 DEF IInv, Shaped
<1>4. Stepping' /\ Outcome' /\ Waits' /\ Refused'
  BY <1>1 DEF IInv, Stepping, Outcome, Waits, Refused
<1>5. Placed'
  BY <1>1 DEF IInv, Placed, Own, Key
<1>6. RunsSpent' /\ RunsApart'
  BY <1>1 DEF IInv, RunsSpent, RunsApart, Spent, Own
<1>7. ChildrenSpent' /\ ChildrenApart'
  BY <1>1 DEF IInv, ChildrenSpent, ChildrenApart, NextChild
<1>8. RowsKeyed' /\ SpansKeyed' /\ RowFresh' /\ RowsTellRun'
  BY <1>1, RowsStay DEF IInv
<1> QED
  BY <1>2, <1>3, <1>4, <1>5, <1>6, <1>7, <1>8 DEF IInv

(* A turn begins with the numbers that were saved.                         *)
LEMMA StartTurnKeeps == ASSUME IInv, StartTurn PROVE IInv'
<1>1. /\ UNCHANGED << disk, held, conv, walk, pause, rows, spans, children, runs, left >>
      /\ ~turn.live /\ walk.at = "rest" /\ walk = Resting
  BY DEF IInv, Placed, StartTurn, Plugin, Records, Ghosts
<1>2. /\ turn' \in [live : BOOLEAN, parks : BOOLEAN, seq : Nat, child : Nat]
      /\ turn'.live /\ turn'.seq = 0 /\ turn'.child = conv.child
  BY DEF StartTurn, IInv, Shaped
<1>3. ~Own /\ ~Own' /\ ~walk.resumed
  BY <1>1 DEF Own, Resting
<1>4. Shaped'
  BY <1>1, <1>2 DEF IInv, Shaped
<1>5. PluginInv' /\ Stepping' /\ Outcome' /\ Waits' /\ Refused'
  BY <1>1 DEF IInv, PluginInv, Stepping, Outcome, Waits, Refused
<1>6. Placed'
  BY <1>1, <1>3 DEF IInv, Placed
<1>7. RunsSpent' /\ RunsApart'
  BY <1>1, <1>2, <1>3 DEF IInv, RunsSpent, RunsApart, Spent
<1>8. ChildrenSpent' /\ ChildrenApart'
  BY <1>1, <1>2 DEF IInv, ChildrenSpent, ChildrenApart, NextChild
<1>9. RowsKeyed' /\ SpansKeyed' /\ RowFresh' /\ RowsTellRun'
  BY <1>1, <1>3 DEF IInv, RowsKeyed, SpansKeyed, RowFresh, RowsTellRun, Alone
<1> QED
  BY <1>4, <1>5, <1>6, <1>7, <1>8, <1>9 DEF IInv

(* The turn is saved: its keys are all spent.                              *)
LEMMA EndTurnKeeps == ASSUME IInv, EndTurn PROVE IInv'
<1>1. /\ UNCHANGED << disk, held, walk, pause, rows, spans, children, runs, left >>
      /\ turn.live /\ walk.at = "rest" /\ walk = Resting
  BY DEF IInv, Placed, EndTurn, Plugin, Records, Ghosts
<1>2. /\ conv \in [turn : Nat, child : Nat]
      /\ turn \in [live : BOOLEAN, parks : BOOLEAN, seq : Nat, child : Nat]
  BY DEF IInv, Shaped
<1>3. conv' = [turn |-> conv.turn + 1, child |-> turn.child] /\ turn' = NoTurn
  BY DEF EndTurn, Reconciled
<1>4. /\ conv' \in [turn : Nat, child : Nat] /\ conv'.turn = conv.turn + 1 /\ conv'.child = turn.child
      /\ turn' \in [live : BOOLEAN, parks : BOOLEAN, seq : Nat, child : Nat] /\ ~turn'.live
  BY <1>2, <1>3 DEF NoTurn
<1>5. ~Own /\ ~Own' /\ ~walk.resumed
  BY <1>1 DEF Own, Resting
<1>6. Shaped'
  BY <1>1, <1>4 DEF IInv, Shaped
<1>7. PluginInv' /\ Stepping' /\ Outcome' /\ Waits' /\ Refused'
  BY <1>1 DEF IInv, PluginInv, Stepping, Outcome, Waits, Refused
<1>8. Placed'
  BY <1>1, <1>5 DEF IInv, Placed
<1>9. RunsSpent'
  <2>1. \A i \in DOMAIN runs : runs[i].key[1] \in Nat
    <3>1. \A i \in DOMAIN runs : runs[i] \in RunShape
      BY DEF IInv, Shaped
    <3> QED
      BY <3>1 DEF RunShape
  <2>2. \A i \in DOMAIN runs : Spent(i) => Spent(i)'
    BY <1>1, <1>2, <1>4, <1>5, <2>1 DEF Spent
  <2> QED
    BY <1>1, <2>2 DEF IInv, RunsSpent
<1>10. RunsApart'
  BY <1>1 DEF IInv, RunsApart
<1>11. ChildrenSpent' /\ ChildrenApart'
  <2>1. NextChild' = NextChild /\ conv'.child = turn.child
    BY <1>1, <1>4 DEF NextChild
  <2>2. walk'.at # "ask"
    BY <1>1
  <2> QED
    BY <1>1, <1>2, <1>4, <2>1, <2>2 DEF IInv, ChildrenSpent, ChildrenApart, NextChild
<1>12. RowsKeyed' /\ SpansKeyed' /\ RowFresh' /\ RowsTellRun'
  BY <1>1, <1>5 DEF IInv, RowsKeyed, SpansKeyed, RowFresh, RowsTellRun, Alone
<1> QED
  BY <1>6, <1>7, <1>8, <1>9, <1>10, <1>11, <1>12 DEF IInv

(* What the rows tell of a run is told for good when its fields, its key's *)
(* row and its key's spans stay.                                           *)
Tells(i) ==
  runs[i].end \notin {"none", "raised"} /\ Alone(i) =>
    LET row == rows[runs[i].key] IN
    /\ row.state # "running" /\ row.shows = i
    /\ {s.seq : s \in {x \in spans : x.key = runs[i].key}} = 1..row.nodes
    /\ ~runs[i].parked => row.made = runs[i].made /\ (row.state = "failed" <=> runs[i].end \in {"failed", "unset"})

(* RowsTellRun, run by run.                                                *)
LEMMA TellsAll == RowsTellRun <=> \A i \in DOMAIN runs : Tells(i)
BY DEF RowsTellRun, Tells

(* A run whose key keeps its row and its spans is told as it was.          *)
LEMMA TellsStay ==
  ASSUME NEW i \in DOMAIN runs, Tells(i), Alone(i)' => Alone(i),
         runs'[i].key = runs[i].key, runs'[i].parked = runs[i].parked,
         runs'[i].end = runs[i].end \/ (runs[i].parked /\ runs[i].end \notin {"none", "raised"}),
         runs'[i].made = runs[i].made \/ runs[i].parked \/ runs[i].end = "none",
         Alone(i) => rows'[runs[i].key] = rows[runs[i].key],
         Alone(i) => {x \in spans' : x.key = runs[i].key} = {x \in spans : x.key = runs[i].key}
  PROVE  Tells(i)'
<1> SUFFICES ASSUME runs'[i].end \notin {"none", "raised"}, Alone(i)'
             PROVE  LET row == rows'[runs'[i].key] IN
                    /\ row.state # "running" /\ row.shows = i
                    /\ {s.seq : s \in {x \in spans' : x.key = runs'[i].key}} = 1..row.nodes
                    /\ ~runs'[i].parked => /\ row.made = runs'[i].made
                                           /\ row.state = "failed" <=> runs'[i].end \in {"failed", "unset"}
  BY DEF Tells
<1>1. /\ rows[runs[i].key].state # "running" /\ rows[runs[i].key].shows = i
      /\ {s.seq : s \in {x \in spans : x.key = runs[i].key}} = 1..rows[runs[i].key].nodes
      /\ ~runs[i].parked => /\ rows[runs[i].key].made = runs[i].made
                            /\ rows[runs[i].key].state = "failed" <=> runs[i].end \in {"failed", "unset"}
  BY DEF Tells
<1>2. rows'[runs'[i].key] = rows[runs[i].key]
  OBVIOUS
<1>3. {x \in spans' : x.key = runs'[i].key} = {x \in spans : x.key = runs[i].key}
  OBVIOUS
<1>4. {s.seq : s \in {x \in spans' : x.key = runs'[i].key}} = 1..rows[runs[i].key].nodes
  BY <1>1, <1>3
<1> QED
  BY <1>1, <1>2, <1>4

(* The walk's run, and what a step of the walk changes of it.              *)
LEMMA WalkRun ==
  ASSUME IInv, walk.at # "rest"
  PROVE  /\ walk.run \in DOMAIN runs /\ DOMAIN runs = 1..Len(runs) /\ Len(runs) \in Nat
         /\ walk.resumed \in BOOLEAN
         /\ walk.resumed => /\ runs[walk.run].parked /\ runs[walk.run].end \notin {"none", "raised"}
                            /\ walk.run = pause.run /\ pause # NoPause
         /\ ~walk.resumed => /\ Own /\ walk.run = Len(runs) /\ turn.live
                             /\ walk.at # "recorded" => runs[walk.run].end = "none"
<1>1. runs \in Seq(RunShape) /\ walk.resumed \in BOOLEAN
  BY DEF IInv, Shaped, WalkShape
<1>2. DOMAIN runs = 1..Len(runs) /\ Len(runs) \in Nat
  BY <1>1
<1> QED
  BY <1>1, <1>2 DEF IInv, Placed, Own, Waits

(* A step of the walk changes the walk's run only.                         *)
LEMMA SteppedRuns ==
  ASSUME IInv, Stepped
  PROVE  /\ OnlyRun(walk.run)
         /\ \A i \in DOMAIN runs : runs'[i].end = runs[i].end /\ runs'[i].parked = runs[i].parked
         /\ \A i \in DOMAIN runs : runs'[i].made = runs[i].made \/ runs[i].parked \/ runs[i].end = "none"
         /\ ~walk.resumed => runs'[Len(runs)].made = walk'.made
<1>1. walk.at # "rest" /\ walk.at # "recorded"
  BY DEF Stepped
<1>2. /\ walk.run \in DOMAIN runs
      /\ walk.resumed => runs[walk.run].parked
      /\ ~walk.resumed => walk.run = Len(runs) /\ runs[walk.run].end = "none" /\ runs[walk.run].made = walk.made
  BY <1>1, WalkRun DEF IInv, Placed
<1>3. CASE walk'.made = walk.made /\ runs' = runs
  BY <1>2, <1>3 DEF OnlyRun, IInv, Shaped
<1>4. CASE walk'.made = walk.made + 1 /\ runs' = [runs EXCEPT ![walk.run].made = @ + 1]
  <2>1. /\ OnlyRun(walk.run) /\ runs'[walk.run].made = runs[walk.run].made + 1
        /\ runs'[walk.run].end = runs[walk.run].end /\ runs'[walk.run].parked = runs[walk.run].parked
    BY <1>2, <1>4, MadeOnly DEF IInv
  <2> QED
    BY <1>2, <1>4, <2>1 DEF OnlyRun
<1> QED
  BY <1>3, <1>4 DEF Stepped, Counted

(* The walk moves.                                                         *)
LEMMA WalkKeeps == ASSUME IInv, Walk PROVE IInv'
<1>1. Stepped /\ UNCHANGED << disk, held, conv, pause, rows, spans, left >>
  BY WalkSteps DEF IInv, Shaped, Plugin, Records
<1>2. /\ OnlyRun(walk.run)
      /\ \A i \in DOMAIN runs : runs'[i].end = runs[i].end /\ runs'[i].parked = runs[i].parked
      /\ \A i \in DOMAIN runs : runs'[i].made = runs[i].made \/ runs[i].parked \/ runs[i].end = "none"
      /\ ~walk.resumed => runs'[Len(runs)].made = walk'.made
      /\ Len(runs') = Len(runs) /\ DOMAIN runs' = DOMAIN runs
  BY <1>1, SteppedRuns DEF OnlyRun
<1>3. walk.at # "rest" /\ walk'.at \notin {"rest", "recorded"} /\ walk'.run = walk.run /\ walk'.resumed = walk.resumed
  BY <1>1 DEF Stepped
<1>4. \/ UNCHANGED << turn, children >>
      \/ StartAsk /\ UNCHANGED turn
      \/ FinishAsk /\ turn' = [turn EXCEPT !.child = @ + 1]
  BY DEF Walk, Refuse, ReachWait, Compute, Route, Stop, ReachCall, Decide, Ghosts, StartAsk, FinishAsk
<1>5. /\ turn' \in [live : BOOLEAN, parks : BOOLEAN, seq : Nat, child : Nat]
      /\ turn'.live = turn.live /\ turn'.seq = turn.seq
  <2>1. turn \in [live : BOOLEAN, parks : BOOLEAN, seq : Nat, child : Nat]
    BY DEF IInv, Shaped
  <2>2. turn' = turn \/ turn' = [turn EXCEPT !.child = @ + 1]
    BY <1>4
  <2> QED
    BY <2>1, <2>2
<1>6. Own' <=> Own
  BY <1>3 DEF Own
<1>7. Key' = Key
  BY <1>1, <1>5 DEF Key
<1>8. /\ walk.run \in DOMAIN runs /\ DOMAIN runs = 1..Len(runs) /\ Len(runs) \in Nat /\ walk.resumed \in BOOLEAN
      /\ walk.resumed => runs[walk.run].parked
      /\ ~walk.resumed => Own /\ walk.run = Len(runs) /\ turn.live
  BY <1>3, WalkRun
<1>9. PluginInv' /\ Stepping' /\ Outcome'
  BY <1>1 DEF IInv, PluginInv, Stepped
<1>10. Placed'
  <2>1. ASSUME Own'
        PROVE  /\ turn'.live /\ Len(runs') > 0 /\ walk'.run = Len(runs')
               /\ runs'[Len(runs')].key = Key' /\ runs'[Len(runs')].life = left'.crashes
               /\ runs'[Len(runs')].made = walk'.made
               /\ runs'[Len(runs')].end = "none"
    <3>1. /\ turn.live /\ Len(runs) > 0 /\ walk.run = Len(runs)
          /\ runs[Len(runs)].key = Key /\ runs[Len(runs)].life = left.crashes
          /\ runs[Len(runs)].end = "none"
      BY <1>1, <1>6, <2>1 DEF IInv, Placed, Stepped
    <3> QED
      BY <1>1, <1>2, <1>3, <1>5, <1>7, <1>8, <2>1, <3>1 DEF OnlyRun, Own
  <2>2. ASSUME walk'.resumed
        PROVE  /\ walk'.at \in {"step", "decide", "ended"}
               /\ ~turn'.live /\ pause' # NoPause /\ walk'.run = pause'.run /\ walk'.value # "live"
    <3>1. ~turn.live /\ pause # NoPause /\ walk.run = pause.run /\ walk.value # "live"
      BY <1>3, <2>2 DEF IInv, Placed
    <3> QED
      BY <1>1, <1>3, <1>5, <2>2, <3>1 DEF Stepped
  <2> QED
    BY <1>3, <2>1, <2>2 DEF Placed
<1>11. Waits'
  BY <1>1, <1>2 DEF IInv, Waits, OnlyRun
<1>12. Refused'
  BY <1>1 DEF Refused, Stepped
<1>13. RunsSpent'
  <2>1. \A i \in DOMAIN runs : runs'[i].key = runs[i].key /\ runs'[i].life = runs[i].life
    BY <1>2 DEF OnlyRun
  <2>2. \A i \in DOMAIN runs : Spent(i) => Spent(i)'
    BY <1>1, <1>2, <1>5, <1>6, <2>1 DEF Spent
  <2> QED
    BY <1>1, <1>2, <2>1, <2>2 DEF IInv, RunsSpent
<1>14. RunsApart'
  BY <1>2 DEF IInv, RunsApart, OnlyRun
<1>15. children' \in Seq(ChildShape) /\ ChildrenSpent' /\ ChildrenApart'
  <2> DEFINE N == Len(children)
  <2>1. children \in Seq(ChildShape) /\ N \in Nat /\ DOMAIN children = 1..N
    BY DEF IInv, Shaped
  <2>2. /\ conv \in [turn : Nat, child : Nat]
        /\ turn \in [live : BOOLEAN, parks : BOOLEAN, seq : Nat, child : Nat] /\ left.crashes \in Nat
    BY DEF IInv, Shaped
  <2>3. \A i \in 1..N : children[i].seq \in Nat
    <3>1. \A i \in 1..N : children[i] \in ChildShape
      BY <2>1
    <3> QED
      BY <3>1 DEF ChildShape
  <2>4. CASE StartAsk /\ children' = Append(children, [seq |-> turn.child, state |-> "running", life |-> left.crashes])
    <3>1. UNCHANGED << conv, turn, left >> /\ NextChild' = NextChild
      BY <1>1, <2>4 DEF StartAsk, NextChild
    <3> DEFINE c == [seq |-> turn.child, state |-> "running", life |-> left.crashes]
    <3>2. c \in ChildShape /\ c.seq = turn.child /\ c.state = "running" /\ c.life = left.crashes
      BY <2>2 DEF ChildShape
    <3> HIDE DEF c, N
    <3>3. /\ children' \in Seq(ChildShape) /\ Len(children') = N + 1 /\ DOMAIN children' = 1..(N + 1)
          /\ children'[N + 1] = c /\ \A i \in 1..N : children'[i] = children[i]
      BY <2>1, <2>4, <3>2 DEF c, N
    <3>4. turn.live /\ NextChild = turn.child
      <4>1. children' # children
        BY <2>1, <3>3
      <4>2. ~walk.resumed
        BY <2>4, <4>1 DEF StartAsk
      <4> QED
        BY <1>8, <4>2 DEF NextChild
    <3>5. ChildrenSpent'
      BY <1>5, <2>1, <2>2, <3>1, <3>4, <3>2, <3>3 DEF IInv, ChildrenSpent
    <3>6. ChildrenApart'
      <4> SUFFICES ASSUME NEW i \in 1..(N + 1), NEW j \in 1..(N + 1), i < j, children'[i].seq = children'[j].seq
                   PROVE  children'[i].state = "running" \/ children'[i].life # children'[j].life
        BY <3>3 DEF ChildrenApart
      <4>1. CASE j \in 1..N
        <5>1. i \in 1..N
          BY <2>1, <4>1
        <5> QED
          BY <2>1, <3>3, <4>1, <5>1 DEF IInv, ChildrenApart
      <4>2. CASE j = N + 1
        <5>1. i \in 1..N /\ children'[i] = children[i] /\ children[i].seq = turn.child
          BY <2>1, <3>2, <3>3, <4>2
        <5> QED
          BY <2>1, <2>3, <3>4, <3>2, <3>3, <4>2, <5>1 DEF IInv, ChildrenSpent
      <4> QED
        BY <2>1, <4>1, <4>2
    <3> QED
      BY <3>3, <3>5, <3>6
  <2>5. CASE UNCHANGED << turn, children >>
    <3>1. NextChild' = NextChild /\ conv' = conv /\ left' = left
      BY <1>1, <2>5 DEF NextChild
    <3>2. walk'.at # "ask"
      <4> SUFFICES ASSUME walk'.at = "ask" PROVE FALSE
        OBVIOUS
      <4>1. StartAsk
        BY <1>1 DEF Stepped
      <4>2. CASE children' = Append(children, [seq |-> turn.child, state |-> "running", life |-> left.crashes])
        BY <2>1, <2>5, <4>2
      <4>3. CASE Fail(Entered, walk.node)
        BY <1>1, <4>3, FailIs, HereIs DEF IInv, Shaped, Stepped, Core
      <4> QED
        BY <4>1, <4>2, <4>3 DEF StartAsk
    <3> QED
      BY <2>1, <2>5, <3>1, <3>2 DEF IInv, ChildrenSpent, ChildrenApart
  <2>6. CASE FinishAsk /\ turn' = [turn EXCEPT !.child = @ + 1]
    <3>1. N > 0 /\ turn.live /\ NextChild = turn.child
      BY <2>6 DEF FinishAsk, IInv, ChildrenSpent, NextChild
    <3>2. turn'.live /\ turn'.child = turn.child + 1 /\ NextChild' = turn.child + 1 /\ conv' = conv /\ left' = left
      BY <1>1, <2>2, <2>6, <3>1 DEF NextChild
    <3>3. children' = [children EXCEPT ![N].state = "done"]
      BY <2>6 DEF FinishAsk
    <3>4. PICK c \in ChildShape : c = children[N]
      BY <2>1, <3>1
    <3> DEFINE d == [c EXCEPT !.state = "done"]
    <3>5. d \in ChildShape /\ d.seq = c.seq /\ d.life = c.life
      BY DEF ChildShape
    <3>6. children' = [children EXCEPT ![N] = d]
      BY <2>1, <3>1, <3>3, <3>4
    <3> HIDE DEF d, N
    <3>7. /\ children' \in Seq(ChildShape) /\ DOMAIN children' = 1..N /\ Len(children') = N
          /\ children'[N] = d /\ \A i \in 1..N : i # N => children'[i] = children[i]
      <4>1. children' \in Seq(ChildShape)
        BY <2>1, <3>1, <3>5, <3>6
      <4>2. DOMAIN children' = 1..N
        BY <2>1, <3>6
      <4> QED
        BY <2>1, <3>1, <3>6, <4>1, <4>2
    <3>8. walk'.at # "ask"
      <4> SUFFICES ASSUME walk'.at = "ask" PROVE FALSE
        OBVIOUS
      <4>1. StartAsk
        BY <1>1 DEF Stepped
      <4> QED
        BY <2>6, <4>1 DEF StartAsk, FinishAsk
    <3>9. ChildrenSpent'
      <4>1. conv'.child <= NextChild'
        BY <2>2, <3>1, <3>2 DEF IInv, ChildrenSpent
      <4>2. ASSUME NEW i \in 1..N
            PROVE  /\ children'[i].life >= left'.crashes
                   /\ children'[i].life = left'.crashes => children'[i].seq < NextChild'
        <5>1. children'[i].life = children[i].life /\ children'[i].seq = children[i].seq
          BY <3>4, <3>5, <3>7
        <5>2. /\ children[i].life >= left.crashes
              /\ children[i].life = left.crashes => children[i].seq <= turn.child
          BY <2>1, <2>2, <2>3, <3>1 DEF IInv, ChildrenSpent
        <5> QED
          BY <2>2, <2>3, <3>2, <5>1, <5>2
      <4> QED
        BY <3>7, <3>8, <4>1, <4>2 DEF ChildrenSpent
    <3>10. ChildrenApart'
      <4> SUFFICES ASSUME NEW i \in 1..N, NEW j \in 1..N, i < j, children'[i].seq = children'[j].seq
                   PROVE  children'[i].state = "running" \/ children'[i].life # children'[j].life
        BY <3>7 DEF ChildrenApart
      <4>1. i # N /\ children'[i] = children[i] /\ children'[j].seq = children[j].seq /\ children'[j].life = children[j].life
        BY <2>1, <3>4, <3>5, <3>7
      <4> QED
        BY <2>1, <4>1 DEF IInv, ChildrenApart
    <3> QED
      BY <3>7, <3>9, <3>10
  <2>7. \/ UNCHANGED << turn, children >>
        \/ StartAsk /\ children' = Append(children, [seq |-> turn.child, state |-> "running", life |-> left.crashes])
        \/ FinishAsk /\ turn' = [turn EXCEPT !.child = @ + 1]
    BY <1>4 DEF StartAsk
  <2> QED
    BY <2>4, <2>5, <2>6, <2>7
<1>16. Shaped'
  BY <1>1, <1>2, <1>5, <1>15 DEF IInv, Shaped, Stepped, OnlyRun
<1>17. \A i \in DOMAIN runs : Alone(i)' <=> Alone(i)
  BY <1>2, AloneStays
<1>18. RowsKeyed' /\ SpansKeyed'
  <2>1. \A i \in DOMAIN runs : runs'[i].key = runs[i].key
    BY <1>2 DEF OnlyRun
  <2> QED
    BY <1>1, <1>2, <2>1 DEF IInv, RowsKeyed, SpansKeyed
<1>19. RowFresh'
  <2>1. walk.at # "recorded"
    BY <1>1 DEF Stepped
  <2>2. DOMAIN runs' = DOMAIN runs /\ Len(runs') = Len(runs) /\ rows' = rows
    BY <1>1, <1>2
  <2>3. ASSUME NEW i \in DOMAIN runs, Own', i = Len(runs), Alone(i)'
        PROVE  rows[Key].made = 0
    BY <1>6, <1>17, <2>1, <2>3 DEF IInv, RowFresh
  <2> QED
    BY <1>7, <2>2, <2>3 DEF RowFresh
<1>20. RowsTellRun'
  <2>1. ASSUME NEW i \in DOMAIN runs
        PROVE  Tells(i)'
    <3>1. Tells(i) /\ runs'[i].key = runs[i].key
      BY <1>2, TellsAll DEF IInv, OnlyRun
    <3> QED
      BY <1>1, <1>2, <1>17, <3>1, TellsStay
  <2> QED
    BY <1>2, <2>1 DEF RowsTellRun, Tells
<1> QED
  BY <1>9, <1>10, <1>11, <1>12, <1>13, <1>14, <1>15, <1>16, <1>18, <1>19, <1>20 DEF IInv

(* A conversation without a walk.                                          *)
LEMMA RestFits ==
  ASSUME walk' = Resting
  PROVE  walk' \in WalkShape /\ walk'.at = "rest" /\ ~Own' /\ Stepping' /\ Outcome' /\ Refused' /\ Placed' /\ RowFresh'
<1>1. walk' \in WalkShape /\ walk'.at = "rest" /\ ~walk'.resumed
  BY RestingIs
<1> QED
  BY <1>1 DEF Own, Stepping, Outcome, Refused, Placed, RowFresh

(* A run begins, and its row with it unless the key had one.               *)
LEMMA DispatchKeeps == ASSUME IInv, Dispatch PROVE IInv'
<1>1. PICK N \in Nat : N = Len(runs)
  BY DEF IInv, Shaped
<1> DEFINE r == [key |-> Key, made |-> 0, life |-> left.crashes, end |-> "none", parked |-> FALSE]
           row == [run |-> N + 1, state |-> "running", nodes |-> 0, made |-> 0, shows |-> N + 1]
<1>2. Begun
  BY DispatchBegins DEF IInv
<1>3. UNCHANGED << disk, held, conv, turn, pause, spans, children, left >> /\ Key' = Key /\ turn.live
  BY <1>2 DEF Begun, Plugin, Key
<1>4. runs \in Seq(RunShape) /\ N \in Nat /\ DOMAIN runs = 1..N /\ left.crashes \in Nat
  BY <1>1 DEF IInv, Shaped
<1>5. Key \in Nat \X Nat /\ Key[1] = conv.turn /\ Key[2] = turn.seq
  BY DEF IInv, Shaped, Key
<1>6. r \in RunShape /\ r.key = Key /\ r.made = 0 /\ r.life = left.crashes /\ r.end = "none"
  BY <1>4, <1>5 DEF RunShape
<1>7. row \in RowShape /\ row.made = 0
  BY <1>4 DEF RowShape
<1>8. rows' = IF Key \in DOMAIN rows THEN rows ELSE With(Key, row)
  BY <1>1, <1>2 DEF Begun
<1>9. runs' = Append(runs, r)
  BY <1>2 DEF Begun
<1>10. /\ walk' \in WalkShape /\ ~walk'.resumed /\ walk'.run = N + 1 /\ walk'.made = 0
       /\ walk'.at \in {"step", "ended"} /\ Stepping' /\ Outcome'
  BY <1>1, <1>2 DEF Begun
<1> HIDE DEF r, row
<1>11. /\ runs' \in Seq(RunShape) /\ Len(runs') = N + 1 /\ DOMAIN runs' = 1..(N + 1)
       /\ runs'[N + 1] = r /\ \A i \in 1..N : runs'[i] = runs[i]
  BY <1>1, <1>4, <1>6, <1>9
<1>12. walk = Resting /\ ~Own /\ Own'
  <2>1. walk.at = "rest"
    BY <1>2 DEF Begun
  <2> QED
    BY <1>10, <2>1 DEF IInv, Placed, Own
<1>13. /\ DOMAIN rows' = DOMAIN rows \cup {Key}
       /\ \A key \in DOMAIN rows : rows'[key] = rows[key]
       /\ Key \notin DOMAIN rows => rows'[Key] = row
  BY <1>8 DEF With
<1>14. Shaped'
  <2>1. \A key \in DOMAIN rows' : rows'[key] \in RowShape
    BY <1>7, <1>13 DEF IInv, Shaped
  <2> QED
    BY <1>3, <1>5, <1>10, <1>11, <1>13, <2>1 DEF IInv, Shaped
<1>15. PluginInv'
  BY <1>3 DEF IInv, PluginInv
<1>16. Placed'
  BY <1>3, <1>4, <1>6, <1>10, <1>11 DEF Placed, Own
<1>17. Waits'
  BY <1>3, <1>4, <1>11 DEF IInv, Waits
<1>18. Refused'
  BY <1>10 DEF Refused
<1>19. RunsSpent'
  <2>1. \A i \in 1..N : Spent(i) => Spent(i)'
    BY <1>3, <1>11, <1>12 DEF Spent
  <2>2. Spent(N + 1)'
    BY <1>3, <1>5, <1>6, <1>11, <1>12 DEF Spent
  <2>3. \A i \in 1..N : runs'[i].life >= left'.crashes /\ (runs'[i].life = left'.crashes => Spent(i)')
    BY <1>3, <1>4, <1>11, <2>1 DEF IInv, RunsSpent
  <2>4. runs'[N + 1].life >= left'.crashes
    BY <1>3, <1>4, <1>6, <1>11
  <2>5. \A i \in 1..(N + 1) : i \in 1..N \/ i = N + 1
    BY <1>4
  <2> QED
    BY <1>11, <2>2, <2>3, <2>4, <2>5 DEF RunsSpent
<1>20. RunsApart'
  <2> SUFFICES ASSUME NEW i \in 1..(N + 1), NEW j \in 1..(N + 1), i < j, runs'[i].key = runs'[j].key
               PROVE  runs'[i].end = "raised" \/ runs'[i].life # runs'[j].life
    BY <1>11 DEF RunsApart
  <2>1. CASE j \in 1..N
    <3>1. i \in 1..N
      BY <1>4, <2>1
    <3> QED
      BY <1>4, <1>11, <2>1, <3>1 DEF IInv, RunsApart
  <2>2. CASE j = N + 1
    <3>1. i \in 1..N /\ runs'[i] = runs[i] /\ runs[i].key = Key
      BY <1>4, <1>6, <1>11, <2>2
    <3>2. conv.turn \in Nat /\ turn.seq \in Nat
      BY DEF IInv, Shaped
    <3>3. Spent(i) => runs[i].end = "raised"
      BY <1>5, <1>12, <3>1, <3>2 DEF Spent
    <3>4. runs[i].life = left.crashes => Spent(i)
      BY <1>4, <3>1 DEF IInv, RunsSpent
    <3> QED
      BY <1>6, <1>11, <2>2, <3>1, <3>3, <3>4
  <2> QED
    BY <1>4, <2>1, <2>2
<1>21. ChildrenSpent' /\ ChildrenApart'
  BY <1>3, <1>10 DEF IInv, ChildrenSpent, ChildrenApart, NextChild
<1>22. RowsKeyed'
  BY <1>4, <1>6, <1>11, <1>13 DEF IInv, RowsKeyed
<1>23. SpansKeyed'
  BY <1>3, <1>4, <1>11 DEF IInv, SpansKeyed
<1>24. RowFresh'
  <2> SUFFICES ASSUME Alone(N + 1)'
               PROVE  rows'[Key'].made = 0
    BY <1>11 DEF RowFresh
  <2>1. \A j \in 1..N : runs[j].key # Key
    BY <1>4, <1>6, <1>11 DEF Alone
  <2>2. Key \notin DOMAIN rows
    BY <1>4, <2>1 DEF IInv, RowsKeyed
  <2> QED
    BY <1>3, <1>7, <1>13, <2>2
<1>25. RowsTellRun'
  <2>1. ASSUME NEW i \in 1..N
        PROVE  Tells(i)'
    <3>1. Tells(i) /\ runs'[i] = runs[i]
      BY <1>4, <1>11, TellsAll DEF IInv
    <3>2. Alone(i)' => Alone(i)
      BY <1>4, <1>11 DEF Alone
    <3>3. rows'[runs[i].key] = rows[runs[i].key]
      BY <1>4, <1>13 DEF IInv, RowsKeyed
    <3> QED
      BY <1>3, <1>4, <3>1, <3>2, <3>3, TellsStay
  <2>2. Tells(N + 1)'
    BY <1>6, <1>11 DEF Tells
  <2>3. \A i \in 1..(N + 1) : i \in 1..N \/ i = N + 1
    BY <1>4
  <2> QED
    BY <1>11, <2>1, <2>2, <2>3 DEF RowsTellRun, Tells
<1> QED
  BY <1>10, <1>14, <1>15, <1>16, <1>17, <1>18, <1>19, <1>20, <1>21, <1>22, <1>23, <1>24, <1>25 DEF IInv

(* The spans of a walk carry its run's key, one for each step it finished. *)
LEMMA SpannedIs ==
  ASSUME IInv, walk.at # "rest"
  PROVE  /\ Spanned(walk) \subseteq SpanShape
         /\ \A s \in Spanned(walk) : s.key = runs[walk.run].key /\ s.run = walk.run
         /\ {s.seq : s \in Spanned(walk)} = 1..Len(walk.trace)
<1> DEFINE key == runs[walk.run].key
           span(i) == [key |-> key, run |-> walk.run, seq |-> i, node |-> walk.trace[i].node]
<1>1. walk.run \in DOMAIN runs /\ walk.run \in Nat
  BY WalkRun
<1>2. key \in Nat \X Nat
  <2>1. runs[walk.run] \in RunShape
    BY <1>1 DEF IInv, Shaped
  <2> QED
    BY <2>1 DEF RunShape
<1>3. walk.trace \in TraceShape
  BY DEF IInv, Shaped, WalkShape
<1>4. DOMAIN walk.trace = 1..Len(walk.trace) /\ Len(walk.trace) \in Nat
  BY <1>3 DEF TraceShape
<1>5. \A i \in 1..Len(walk.trace) : walk.trace[i].node \in Steps
  <2>1. PICK t \in TraceShape : t = walk.trace
    BY <1>3
  <2>2. \A i \in 1..Len(t) : t[i] \in TracePart
    BY DEF TraceShape
  <2>3. \A i \in 1..Len(t) : t[i].node \in Steps
    BY <2>2 DEF TracePart
  <2> QED
    BY <2>1, <2>3
<1>6. Spanned(walk) = {span(i) : i \in 1..Len(walk.trace)}
  BY <1>4 DEF Spanned
<1> HIDE DEF key
<1>7. \A i \in 1..Len(walk.trace) : /\ span(i) \in SpanShape
                                     /\ span(i).key = key /\ span(i).run = walk.run /\ span(i).seq = i
  BY <1>1, <1>2, <1>4, <1>5 DEF SpanShape
<1> HIDE DEF span
<1>8. {s.seq : s \in Spanned(walk)} = 1..Len(walk.trace)
  BY <1>6, <1>7
<1> QED
  BY <1>6, <1>7, <1>8 DEF key

(* The run is recorded: its row and its spans say what it did.             *)
LEMMA RecordKeeps == ASSUME IInv, Record PROVE IInv'
<1> DEFINE row == rows[runs[walk.run].key]
           after == [row EXCEPT !.state = StateOf(walk.result), !.nodes = Len(walk.trace),
                                !.made = @ + walk.made, !.shows = walk.run]
<1>1. /\ walk.at = "ended" /\ ~walk.resumed
      /\ rows' = With(runs[walk.run].key, after)
      /\ spans' = spans \cup Spanned(walk)
      /\ runs' = [runs EXCEPT ![walk.run].end = walk.result.text, ![walk.run].parked = walk.result.paused # Nil]
      /\ walk' = [walk EXCEPT !.at = "recorded"]
      /\ UNCHANGED << disk, held, conv, turn, pause, children, left >>
  BY DEF Record, Recorded, Plugin
<1>2. /\ walk.run \in DOMAIN runs /\ DOMAIN runs = 1..Len(runs) /\ Len(runs) \in Nat /\ Own
      /\ walk.run = Len(runs) /\ turn.live /\ runs[walk.run].end = "none" /\ Len(runs) > 0
      /\ runs[walk.run].key = Key /\ runs[walk.run].made = walk.made /\ runs[walk.run].life = left.crashes
  BY <1>1, WalkRun DEF IInv, Placed
<1>3. PICK k \in Nat : k = walk.run
  BY <1>2
<1>4. walk \in WalkShape /\ walk.result \in ResultShape /\ walk.result.text \in Texts /\ walk.made \in Nat
      /\ Len(walk.trace) \in Nat
  <2>1. walk \in WalkShape
    BY DEF IInv, Shaped
  <2>2. walk.result \in ResultShape /\ walk.made \in Nat /\ walk.trace \in TraceShape
    BY <2>1 DEF WalkShape
  <2>3. walk.result.text \in Texts
    BY <1>1, <2>2 DEF IInv, Outcome, ResultShape
  <2> QED
    BY <2>1, <2>2, <2>3 DEF TraceShape
<1>5. /\ OnlyRun(k) /\ runs'[k].end = walk.result.text /\ runs'[k].made = runs[k].made
      /\ runs'[k].parked = (walk.result.paused # Nil)
      /\ runs' \in Seq(RunShape) /\ Len(runs') = Len(runs) /\ DOMAIN runs' = DOMAIN runs
      /\ \A i \in DOMAIN runs : runs'[i].key = runs[i].key /\ runs'[i].life = runs[i].life
      /\ \A i \in DOMAIN runs : i # k => runs'[i] = runs[i]
  <2>1. /\ OnlyRun(k) /\ runs'[k].end = walk.result.text /\ runs'[k].made = runs[k].made
        /\ runs'[k].parked = (walk.result.paused # Nil)
    <3>1. Shaped
      BY DEF IInv
    <3>2. k \in DOMAIN runs /\ walk.result.text \in Texts /\ (walk.result.paused # Nil) \in BOOLEAN
      BY <1>2, <1>3, <1>4
    <3>3. runs' = [runs EXCEPT ![k].end = walk.result.text, ![k].parked = (walk.result.paused # Nil)]
      BY <1>1, <1>3
    <3> QED
      BY <3>1, <3>2, <3>3, RecordOnly
  <2> QED
    BY <2>1 DEF OnlyRun
<1>6. /\ walk' \in WalkShape /\ walk'.at = "recorded" /\ walk'.resumed = walk.resumed /\ walk'.run = walk.run
      /\ walk'.result = walk.result /\ walk'.made = walk.made /\ walk'.node = walk.node /\ walk'.value = walk.value
  BY <1>1, <1>4 DEF WalkShape
<1>7. Key \in DOMAIN rows /\ row \in RowShape
  <2>1. runs[walk.run].key \in DOMAIN rows
    BY <1>2 DEF IInv, RowsKeyed
  <2> QED
    BY <1>2, <2>1 DEF IInv, Shaped
<1>8. /\ after \in RowShape /\ after.state = StateOf(walk.result) /\ after.nodes = Len(walk.trace)
      /\ after.made = row.made + walk.made /\ after.shows = k
  <2>1. PICK r \in RowShape : r = row
    BY <1>7
  <2>2. after = [r EXCEPT !.state = StateOf(walk.result), !.nodes = Len(walk.trace),
                          !.made = @ + walk.made, !.shows = walk.run]
    BY <2>1
  <2>3. StateOf(walk.result) \in {"failed", "closed"}
    BY DEF StateOf
  <2> HIDE DEF after, row
  <2>4. r.made \in Nat /\ r.made + walk.made \in Nat /\ walk.run \in Nat /\ walk.run = k
    BY <1>3, <1>4, <2>1 DEF RowShape
  <2> HIDE DEF StateOf
  <2>5. /\ after.state = StateOf(walk.result) /\ after.nodes = Len(walk.trace)
        /\ after.made = r.made + walk.made /\ after.shows = walk.run /\ after.run = r.run
        /\ after = [run |-> after.run, state |-> after.state, nodes |-> after.nodes, made |-> after.made,
                    shows |-> after.shows]
    BY <2>2 DEF RowShape
  <2>6. after \in RowShape
    BY <1>4, <2>3, <2>4, <2>5 DEF RowShape
  <2> QED
    BY <2>1, <2>4, <2>5, <2>6
<1> HIDE DEF after
<1>9. /\ DOMAIN rows' = DOMAIN rows /\ rows'[Key] = after
      /\ \A key \in DOMAIN rows : key # Key => rows'[key] = rows[key]
  BY <1>1, <1>2, <1>7 DEF With
<1>10. /\ Spanned(walk) \subseteq SpanShape
       /\ \A s \in Spanned(walk) : s.key = Key /\ s.run = walk.run
       /\ {s.seq : s \in Spanned(walk)} = 1..Len(walk.trace)
  BY <1>1, <1>2, SpannedIs
<1>11. Key' = Key /\ Own'
  BY <1>1, <1>2, <1>6 DEF Key, Own
<1>12. Shaped'
  <2>1. \A key \in DOMAIN rows' : rows'[key] \in RowShape
    BY <1>8, <1>9 DEF IInv, Shaped
  <2>2. spans' \subseteq SpanShape
    BY <1>1, <1>10 DEF IInv, Shaped
  <2> QED
    BY <1>1, <1>5, <1>6, <1>9, <2>1, <2>2 DEF IInv, Shaped
<1>13. PluginInv'
  BY <1>1 DEF IInv, PluginInv
<1>14. Stepping' /\ Refused'
  BY <1>6 DEF Stepping, Refused
<1>15. Outcome'
  BY <1>1, <1>6 DEF IInv, Outcome
<1>16. Placed'
  <2>1. Len(runs') = k /\ k \in DOMAIN runs /\ runs[k].key = Key /\ runs[k].life = left.crashes /\ runs[k].made = walk.made
    BY <1>3, <1>2, <1>5
  <2>2. runs'[k].key = Key' /\ runs'[k].life = left'.crashes
    BY <1>1, <1>5, <1>11, <2>1
  <2>3. /\ runs'[k].made = walk'.made /\ runs'[k].end = walk'.result.text
        /\ runs'[k].parked <=> walk'.result.paused # Nil
    BY <1>5, <1>6, <2>1
  <2> QED
    BY <1>1, <1>2, <1>5, <1>6, <2>1, <2>2, <2>3 DEF Placed
<1>17. Waits'
  <2>1. pause # NoPause => pause.run \in DOMAIN runs /\ pause.run # k
    BY <1>3, <1>2 DEF IInv, Waits
  <2> QED
    BY <1>1, <1>5, <2>1 DEF IInv, Waits
<1>18. RunsSpent'
  <2>1. \A i \in DOMAIN runs : Spent(i) => Spent(i)'
    BY <1>3, <1>1, <1>2, <1>5, <1>11 DEF Spent
  <2> QED
    BY <1>1, <1>5, <2>1 DEF IInv, RunsSpent
<1>19. RunsApart'
  BY <1>3, <1>2, <1>5 DEF IInv, RunsApart
<1>20. ChildrenSpent' /\ ChildrenApart'
  BY <1>1, <1>6 DEF IInv, ChildrenSpent, ChildrenApart, NextChild
<1>21. RowsKeyed'
  BY <1>5, <1>9 DEF IInv, RowsKeyed
<1>22. SpansKeyed'
  <2>1. runs'[k].end # "none"
    BY <1>4, <1>5 DEF Texts
  <2>2. \A i \in DOMAIN runs : runs[i].end # "none" => runs'[i].end # "none"
    BY <1>5, <2>1
  <2> QED
    BY <1>3, <1>1, <1>2, <1>5, <1>10, <2>1, <2>2 DEF IInv, SpansKeyed
<1>23. RowFresh'
  BY <1>6 DEF RowFresh
<1>24. \A i \in DOMAIN runs : Alone(i)' <=> Alone(i)
  BY <1>5, AloneStays
<1>25. ASSUME NEW i \in DOMAIN runs, i # k
       PROVE  Tells(i)'
  <2>1. Tells(i) /\ runs'[i] = runs[i]
    BY <1>5, <1>25, TellsAll DEF IInv
  <2>2. ASSUME Alone(i)
        PROVE  runs[i].key # Key /\ runs[i].key \in DOMAIN rows
    BY <1>3, <1>2, <1>25, <2>2 DEF Alone, IInv, RowsKeyed
  <2>3. Alone(i) => rows'[runs[i].key] = rows[runs[i].key]
    BY <1>9, <2>2
  <2>4. Alone(i) => {x \in spans' : x.key = runs[i].key} = {x \in spans : x.key = runs[i].key}
    BY <1>1, <1>10, <2>2
  <2> QED
    BY <1>24, <1>25, <2>1, <2>3, <2>4, TellsStay
<1>26. Tells(k)'
  <2> SUFFICES ASSUME Alone(k)'
               PROVE  /\ rows'[Key].state # "running" /\ rows'[Key].shows = k
                      /\ {s.seq : s \in {x \in spans' : x.key = Key}} = 1..rows'[Key].nodes
                      /\ ~runs'[k].parked => /\ rows'[Key].made = runs'[k].made
                                             /\ rows'[Key].state = "failed" <=> runs'[k].end \in {"failed", "unset"}
    BY <1>3, <1>2, <1>5 DEF Tells
  <2>1. Alone(k) /\ k \in DOMAIN runs
    BY <1>3, <1>2, <1>24
  <2>2. row.made = 0
    BY <1>3, <1>1, <1>2, <2>1 DEF IInv, RowFresh
  <2>3. {x \in spans' : x.key = Key} = Spanned(walk)
    <3>1. ASSUME NEW x \in spans
          PROVE  x.key # Key
      <4>1. x.run \in DOMAIN runs /\ x.key = runs[x.run].key /\ runs[x.run].end # "none"
        BY DEF IInv, SpansKeyed
      <4> QED
        BY <1>3, <1>2, <2>1, <4>1 DEF Alone
    <3> QED
      BY <1>1, <1>10, <3>1
  <2>4. {s.seq : s \in {x \in spans' : x.key = Key}} = 1..rows'[Key].nodes
    BY <1>8, <1>9, <1>10, <2>3
  <2>5. rows'[Key].state # "running" /\ rows'[Key].shows = k
    BY <1>8, <1>9 DEF StateOf
  <2>6. rows'[Key].made = runs'[k].made
    BY <1>3, <1>2, <1>4, <1>5, <1>8, <1>9, <2>2
  <2>7. walk.result.paused = Nil => (rows'[Key].state = "failed" <=> runs'[k].end \in {"failed", "unset"})
    BY <1>1, <1>5, <1>8, <1>9 DEF IInv, Outcome, StateOf
  <2> QED
    BY <1>5, <2>4, <2>5, <2>6, <2>7
<1>27. RowsTellRun'
  BY <1>5, <1>25, <1>26 DEF RowsTellRun, Tells
<1> QED
  BY <1>12, <1>13, <1>14, <1>15, <1>16, <1>17, <1>18, <1>19, <1>20, <1>21, <1>22, <1>23, <1>27 DEF IInv

(* What a walk parks can be written down and found again.                  *)
LEMMA ParkedIs ==
  ASSUME IInv, walk.at \in {"ended", "recorded"}, walk.result.paused # Nil
  PROVE  /\ Parked(walk) \in [node : Steps, kind : Kinds, value : {"data", "text"}, trace : TraceShape,
                              made : Nat, run : Nat \ {0}, key : Nat \X Nat]
         /\ Parked(walk).run = walk.run /\ Parked(walk).key = runs[walk.run].key
<1>1. walk.run \in DOMAIN runs /\ DOMAIN runs = 1..Len(runs) /\ Len(runs) \in Nat
  BY WalkRun
<1>2. runs[walk.run].key \in Nat \X Nat
  <2>1. runs[walk.run] \in RunShape
    BY <1>1 DEF IInv, Shaped
  <2> QED
    BY <2>1 DEF RunShape
<1>3. walk \in WalkShape
  BY DEF IInv, Shaped
<1>4. walk.result.paused \in Kinds /\ walk.trace \in TraceShape /\ walk.made \in Nat
  BY <1>3 DEF WalkShape, ResultShape
<1>5. walk.node \in Steps /\ walk.value \in {"data", "text"}
  BY DEF IInv, Outcome
<1> QED
  BY <1>1, <1>2, <1>4, <1>5 DEF Parked

(* The call is over: its place in the turn is taken.                       *)
LEMMA ReturnKeeps == ASSUME IInv, Return PROVE IInv'
<1>1. /\ walk.at = "recorded" /\ walk' = Resting
      /\ pause' = IF walk.result.paused = Nil THEN pause ELSE Parked(walk)
      /\ turn' = [turn EXCEPT !.seq = @ + 1]
      /\ UNCHANGED << disk, held, conv, rows, spans, children, runs, left >>
  BY DEF Return, Plugin, Records, Ghosts
<1>2. /\ Own /\ walk.run = Len(runs) /\ turn.live /\ walk.run \in DOMAIN runs
      /\ runs[Len(runs)].end = walk.result.text
      /\ runs[Len(runs)].parked <=> walk.result.paused # Nil
  <2>1. ~walk.resumed
    BY <1>1 DEF IInv, Placed
  <2> QED
    BY <1>1, <2>1, WalkRun DEF IInv, Placed, Own
<1>3. /\ walk' \in WalkShape /\ walk'.at = "rest" /\ ~Own' /\ Stepping' /\ Outcome' /\ Refused' /\ Placed' /\ RowFresh'
  BY <1>1, RestFits
<1>4. /\ turn \in [live : BOOLEAN, parks : BOOLEAN, seq : Nat, child : Nat]
      /\ turn' \in [live : BOOLEAN, parks : BOOLEAN, seq : Nat, child : Nat]
      /\ turn'.live /\ turn'.seq = turn.seq + 1 /\ turn'.child = turn.child
  <2>1. turn \in [live : BOOLEAN, parks : BOOLEAN, seq : Nat, child : Nat]
    BY DEF IInv, Shaped
  <2> QED
    BY <1>1, <1>2, <2>1
<1>5. Shaped'
  BY <1>1, <1>3, <1>4 DEF IInv, Shaped
<1>6. PluginInv'
  BY <1>1 DEF IInv, PluginInv
<1>7. Waits'
  <2>1. CASE walk.result.paused = Nil
    BY <1>1, <2>1 DEF IInv, Waits
  <2>2. CASE walk.result.paused # Nil
    <3>1. pause' = Parked(walk)
      BY <1>1, <2>2
    <3>2. walk.result.text \in Texts
      <4>1. walk.result \in ResultShape
        BY DEF IInv, Shaped, WalkShape
      <4> QED
        BY <1>1, <4>1 DEF IInv, Outcome, ResultShape
    <3>3. runs[walk.run].end \notin {"none", "raised"} /\ runs[walk.run].parked
      BY <1>2, <2>2, <3>2 DEF Texts
    <3> QED
      BY <1>1, <1>2, <2>2, <3>1, <3>3, ParkedIs DEF Waits
  <2> QED
    BY <2>1, <2>2
<1>8. RunsSpent'
  <2>1. \A i \in DOMAIN runs : runs[i].key[2] \in Nat
    <3>1. \A i \in DOMAIN runs : runs[i] \in RunShape
      BY DEF IInv, Shaped
    <3> QED
      BY <3>1 DEF RunShape
  <2>2. \A i \in DOMAIN runs : Spent(i) => Spent(i)'
    BY <1>1, <1>4, <2>1 DEF Spent
  <2> QED
    BY <1>1, <2>2 DEF IInv, RunsSpent
<1>9. RunsApart'
  BY <1>1 DEF IInv, RunsApart
<1>10. ChildrenSpent' /\ ChildrenApart'
  BY <1>1, <1>2, <1>3, <1>4 DEF IInv, ChildrenSpent, ChildrenApart, NextChild
<1>11. RowsKeyed' /\ SpansKeyed' /\ RowsTellRun'
  BY <1>1 DEF IInv, RowsKeyed, SpansKeyed, RowsTellRun, Alone
<1> QED
  BY <1>3, <1>5, <1>6, <1>7, <1>8, <1>9, <1>10, <1>11 DEF IInv

(* An exception leaves the place in the turn free.                         *)
LEMMA EscapeKeeps == ASSUME IInv, Escape PROVE IInv'
<1>1. /\ walk.at = "raised" /\ ~walk.resumed /\ walk' = Resting
      /\ spans' = spans \cup Spanned(walk)
      /\ runs' = [runs EXCEPT ![walk.run].end = "raised"]
      /\ UNCHANGED << disk, held, conv, turn, pause, rows, children, left >>
  BY DEF Escape, Recorded, Plugin
<1>2. /\ Own /\ walk.run = Len(runs) /\ turn.live /\ walk.run \in DOMAIN runs /\ Len(runs) \in Nat
      /\ runs[walk.run].end = "none" /\ DOMAIN runs = 1..Len(runs)
  BY <1>1, WalkRun
<1>3. PICK k \in Nat : k = walk.run
  BY <1>2
<1>4. /\ walk' \in WalkShape /\ walk'.at = "rest" /\ ~Own' /\ Stepping' /\ Outcome' /\ Refused' /\ Placed' /\ RowFresh'
  BY <1>1, RestFits
<1>5. /\ OnlyRun(k) /\ runs'[k].end = "raised"
      /\ runs' \in Seq(RunShape) /\ Len(runs') = Len(runs) /\ DOMAIN runs' = DOMAIN runs
      /\ \A i \in DOMAIN runs : runs'[i].key = runs[i].key /\ runs'[i].life = runs[i].life
      /\ \A i \in DOMAIN runs : i # k => runs'[i] = runs[i]
  <2>1. OnlyRun(k) /\ runs'[k].end = "raised"
    BY <1>3, <1>1, <1>2, EndOnly DEF IInv
  <2> QED
    BY <2>1 DEF OnlyRun
<1>6. /\ Spanned(walk) \subseteq SpanShape
      /\ \A s \in Spanned(walk) : s.key = runs[walk.run].key /\ s.run = walk.run
  BY <1>1, SpannedIs
<1>7. Shaped'
  BY <1>1, <1>4, <1>5, <1>6 DEF IInv, Shaped
<1>8. PluginInv'
  BY <1>1 DEF IInv, PluginInv
<1>9. Waits'
  <2>1. pause # NoPause => pause.run \in DOMAIN runs /\ pause.run # k
    BY <1>3, <1>2 DEF IInv, Waits
  <2> QED
    BY <1>1, <1>5, <2>1 DEF IInv, Waits
<1>10. RunsSpent'
  <2>1. \A i \in DOMAIN runs : Spent(i) => Spent(i)'
    BY <1>3, <1>1, <1>2, <1>5 DEF Spent
  <2> QED
    BY <1>1, <1>5, <2>1 DEF IInv, RunsSpent
<1>11. RunsApart'
  BY <1>5 DEF IInv, RunsApart
<1>12. ChildrenSpent' /\ ChildrenApart'
  BY <1>1, <1>4 DEF IInv, ChildrenSpent, ChildrenApart, NextChild
<1>13. RowsKeyed'
  BY <1>1, <1>5 DEF IInv, RowsKeyed
<1>14. SpansKeyed'
  <2>1. \A i \in DOMAIN runs : runs[i].end # "none" => runs'[i].end # "none"
    BY <1>5
  <2> QED
    BY <1>3, <1>1, <1>2, <1>5, <1>6, <2>1 DEF IInv, SpansKeyed
<1>15. \A i \in DOMAIN runs : Alone(i)' <=> Alone(i)
  BY <1>5, AloneStays
<1>16. ASSUME NEW i \in DOMAIN runs
       PROVE  Tells(i)'
  <2>1. CASE i = k
    BY <1>5, <2>1 DEF Tells
  <2>2. CASE i # k
    <3>1. Tells(i) /\ runs'[i] = runs[i]
      BY <1>5, <2>2, TellsAll DEF IInv
    <3>2. Alone(i) => runs[i].key # runs[walk.run].key
      BY <1>3, <1>2, <2>2 DEF Alone
    <3>3. Alone(i) => {x \in spans' : x.key = runs[i].key} = {x \in spans : x.key = runs[i].key}
      BY <1>1, <1>6, <3>2
    <3> QED
      BY <1>1, <1>15, <3>1, <3>3, TellsStay
  <2> QED
    BY <2>1, <2>2
<1>17. RowsTellRun'
  BY <1>5, <1>16 DEF RowsTellRun, Tells
<1> QED
  BY <1>4, <1>7, <1>8, <1>9, <1>10, <1>11, <1>12, <1>13, <1>14, <1>17 DEF IInv

(* A paused run goes on.                                                   *)
LEMMA OpenedKeeps == ASSUME IInv, Opened PROVE IInv'
<1>1. /\ ~turn.live /\ walk.at = "rest" /\ walk = Resting /\ pause # NoPause
      /\ walk' \in WalkShape /\ walk'.resumed /\ walk'.run = pause.run
      /\ walk'.at \in {"step", "ended"} /\ walk'.value # "live"
      /\ Stepping' /\ Outcome' /\ Refused'
      /\ UNCHANGED << disk, held, conv, turn, pause, rows, spans, children, left >>
  BY DEF Opened, Resumable, IInv, Placed, Plugin, Records
<1>2. pause.run \in DOMAIN runs /\ runs[pause.run].parked
  BY <1>1 DEF IInv, Waits
<1>3. PICK k \in DOMAIN runs : k = pause.run
  BY <1>2
<1>4. /\ OnlyRun(k) /\ DOMAIN runs' = DOMAIN runs /\ runs' \in Seq(RunShape)
      /\ \A i \in DOMAIN runs : /\ runs'[i].key = runs[i].key /\ runs'[i].life = runs[i].life
                                /\ runs'[i].end = runs[i].end /\ runs'[i].parked = runs[i].parked
                                /\ runs'[i].made = runs[i].made \/ runs[i].parked
  <2>1. CASE runs' = runs
    BY <2>1 DEF OnlyRun, IInv, Shaped
  <2>2. CASE runs' = [runs EXCEPT ![k].made = @ + 1]
    <3>1. OnlyRun(k) /\ runs'[k].end = runs[k].end /\ runs'[k].parked = runs[k].parked
      BY <2>2, MadeOnly DEF IInv
    <3> QED
      BY <1>3, <1>2, <3>1 DEF OnlyRun
  <2> QED
    BY <1>3, <2>1, <2>2 DEF Opened
<1>5. ~Own /\ ~Own'
  BY <1>1 DEF Own
<1>6. Shaped'
  BY <1>1, <1>4 DEF IInv, Shaped
<1>7. PluginInv'
  BY <1>1 DEF IInv, PluginInv
<1>8. Placed'
  BY <1>1, <1>5 DEF Placed
<1>9. Waits'
  BY <1>1, <1>4 DEF IInv, Waits
<1>10. RunsSpent'
  <2>1. \A i \in DOMAIN runs : Spent(i) => Spent(i)'
    BY <1>1, <1>4, <1>5 DEF Spent
  <2> QED
    BY <1>1, <1>4, <2>1 DEF IInv, RunsSpent
<1>11. RunsApart'
  BY <1>4 DEF IInv, RunsApart
<1>12. ChildrenSpent' /\ ChildrenApart'
  BY <1>1 DEF IInv, ChildrenSpent, ChildrenApart, NextChild
<1>13. RowsKeyed' /\ SpansKeyed' /\ RowFresh'
  <2>1. RowsKeyed'
    BY <1>1, <1>4 DEF IInv, RowsKeyed
  <2>2. SpansKeyed'
    BY <1>1, <1>4 DEF IInv, SpansKeyed
  <2>3. RowFresh'
    BY <1>5 DEF RowFresh
  <2> QED
    BY <2>1, <2>2, <2>3
<1>14. \A i \in DOMAIN runs : Alone(i)' <=> Alone(i)
  BY <1>4, AloneStays
<1>15. ASSUME NEW i \in DOMAIN runs
       PROVE  Tells(i)'
  <2>1. Tells(i)
    BY TellsAll DEF IInv
  <2> QED
    BY <1>1, <1>4, <1>14, <2>1, TellsStay
<1>16. RowsTellRun'
  BY <1>4, <1>15 DEF RowsTellRun, Tells
<1> QED
  BY <1>1, <1>6, <1>7, <1>8, <1>9, <1>10, <1>11, <1>12, <1>13, <1>16 DEF IInv

(* The pause is over, or stands for the step the run parked at.            *)
LEMMA ResolveKeeps == ASSUME IInv, Resolve PROVE IInv'
<1>1. /\ walk.at = "ended" /\ walk.resumed /\ walk' = Resting
      /\ pause' = IF walk.result.paused = Nil THEN NoPause ELSE Parked(walk)
      /\ runs' = [runs EXCEPT ![walk.run].end = walk.result.text]
      /\ UNCHANGED << disk, held, conv, turn, rows, spans, children, left >>
  BY DEF Resolve, Plugin, Records
<1>2. /\ walk.run \in DOMAIN runs /\ runs[walk.run].parked /\ runs[walk.run].end \notin {"none", "raised"}
      /\ ~turn.live /\ ~Own
  BY <1>1, WalkRun DEF IInv, Placed, Own
<1>3. PICK k \in DOMAIN runs : k = walk.run
  BY <1>2
<1>4. /\ walk' \in WalkShape /\ walk'.at = "rest" /\ ~Own' /\ Stepping' /\ Outcome' /\ Refused' /\ Placed' /\ RowFresh'
  BY <1>1, RestFits
<1>5. walk.result.text \in Texts
  <2>1. walk.result \in ResultShape
    BY DEF IInv, Shaped, WalkShape
  <2> QED
    BY <1>1, <2>1 DEF IInv, Outcome, ResultShape
<1>6. /\ OnlyRun(k) /\ runs'[k].end = walk.result.text /\ runs'[k].parked = runs[k].parked /\ runs'[k].made = runs[k].made
      /\ runs[k].parked /\ runs' \in Seq(RunShape) /\ Len(runs') = Len(runs) /\ DOMAIN runs' = DOMAIN runs
      /\ \A i \in DOMAIN runs : runs'[i].key = runs[i].key /\ runs'[i].life = runs[i].life
      /\ \A i \in DOMAIN runs : i # k => runs'[i] = runs[i]
  <2>1. OnlyRun(k) /\ runs'[k].end = walk.result.text /\ runs'[k].parked = runs[k].parked /\ runs'[k].made = runs[k].made
    BY <1>3, <1>1, <1>5, EndOnly DEF IInv
  <2> QED
    BY <1>3, <1>2, <2>1 DEF OnlyRun
<1>7. runs'[k].end \notin {"none", "raised"}
  BY <1>5, <1>6 DEF Texts
<1>8. Shaped'
  BY <1>1, <1>4, <1>6 DEF IInv, Shaped
<1>9. PluginInv'
  BY <1>1 DEF IInv, PluginInv
<1>10. Waits'
  <2>1. CASE walk.result.paused = Nil
    BY <1>1, <2>1 DEF Waits
  <2>2. CASE walk.result.paused # Nil
    <3>1. pause' = Parked(walk)
      BY <1>1, <2>2
    <3>2. /\ pause' \in [node : Steps, kind : Kinds, value : {"data", "text"}, trace : TraceShape,
                         made : Nat, run : Nat \ {0}, key : Nat \X Nat]
          /\ pause'.run = k /\ pause'.key = runs[k].key
      BY <1>3, <1>1, <2>2, <3>1, ParkedIs
    <3> QED
      BY <1>6, <1>7, <3>2 DEF Waits
  <2> QED
    BY <2>1, <2>2
<1>11. RunsSpent'
  <2>1. \A i \in DOMAIN runs : Spent(i) => Spent(i)'
    BY <1>1, <1>2, <1>6 DEF Spent
  <2> QED
    BY <1>1, <1>6, <2>1 DEF IInv, RunsSpent
<1>12. RunsApart'
  BY <1>3, <1>2, <1>6 DEF IInv, RunsApart
<1>13. ChildrenSpent' /\ ChildrenApart'
  BY <1>1, <1>4 DEF IInv, ChildrenSpent, ChildrenApart, NextChild
<1>14. RowsKeyed'
  BY <1>1, <1>6 DEF IInv, RowsKeyed
<1>15. SpansKeyed'
  <2>1. \A i \in DOMAIN runs : runs[i].end # "none" => runs'[i].end # "none"
    BY <1>6, <1>7
  <2> QED
    BY <1>1, <1>6, <2>1 DEF IInv, SpansKeyed
<1>16. \A i \in DOMAIN runs : Alone(i)' <=> Alone(i)
  BY <1>6, AloneStays
<1>17. ASSUME NEW i \in DOMAIN runs
       PROVE  Tells(i)'
  <2>1. Tells(i)
    BY TellsAll DEF IInv
  <2>2. /\ runs'[i].key = runs[i].key /\ runs'[i].parked = runs[i].parked /\ runs'[i].made = runs[i].made
        /\ runs'[i].end = runs[i].end \/ (runs[i].parked /\ runs[i].end \notin {"none", "raised"})
    BY <1>3, <1>2, <1>6
  <2> QED
    BY <1>1, <1>16, <2>1, <2>2, TellsStay
<1>18. RowsTellRun'
  BY <1>6, <1>17 DEF RowsTellRun, Tells
<1> QED
  BY <1>4, <1>8, <1>9, <1>10, <1>11, <1>12, <1>13, <1>14, <1>15, <1>18 DEF IInv

(* The runs and the children of the lives before are not this life's.      *)
LEMMA CrashKeeps == ASSUME IInv, Crash PROVE IInv'
<1>1. /\ left.crashes > 0 /\ left' = [left EXCEPT !.crashes = @ - 1]
      /\ turn' = NoTurn /\ walk' = Resting
      /\ held' = IF Validate(disk.m, disk.files, TRUE) = "Valid" THEN disk.m ELSE Nil
      /\ UNCHANGED << disk, conv, pause, rows, spans, children, runs >>
  BY DEF Crash, Plugin, Records, Ghosts
<1>2. left \in [edits : Nat, crashes : Nat] /\ left' \in [edits : Nat, crashes : Nat] /\ left'.crashes = left.crashes - 1
  <2>1. left \in [edits : Nat, crashes : Nat]
    BY DEF IInv, Shaped
  <2> QED
    BY <1>1, <2>1
<1>3. /\ walk' \in WalkShape /\ walk'.at = "rest" /\ ~Own' /\ Stepping' /\ Outcome' /\ Refused' /\ Placed' /\ RowFresh'
  BY <1>1, RestFits
<1>4. turn' \in [live : BOOLEAN, parks : BOOLEAN, seq : Nat, child : Nat] /\ ~turn'.live
  BY <1>1 DEF NoTurn
<1>5. Shaped'
  BY <1>1, <1>2, <1>3, <1>4 DEF IInv, Shaped
<1>6. PluginInv'
  <2>1. disk.m \in ManifestShape /\ Whole(disk.m)
    BY DEF IInv, PluginInv
  <2>2. held' = Nil \/ (held' \in ManifestShape /\ Whole(held') /\ ~Dangling(held'))
    BY <1>1, <2>1, ValidWhole
  <2> QED
    BY <1>1, <2>2 DEF IInv, PluginInv
<1>7. Waits'
  BY <1>1 DEF IInv, Waits
<1>8. \A i \in DOMAIN runs : runs[i].life \in Nat
  <2>1. \A i \in DOMAIN runs : runs[i] \in RunShape
    BY DEF IInv, Shaped
  <2> QED
    BY <2>1 DEF RunShape
<1>9. RunsSpent'
  <2>1. ASSUME NEW i \in DOMAIN runs
        PROVE  runs[i].life > left'.crashes
    BY <1>2, <1>8 DEF IInv, RunsSpent
  <2> QED
    BY <1>1, <1>2, <1>8, <2>1 DEF RunsSpent
<1>10. \A i \in DOMAIN children : children[i].life \in Nat
  <2>1. \A i \in DOMAIN children : children[i] \in ChildShape
    BY DEF IInv, Shaped
  <2> QED
    BY <2>1 DEF ChildShape
<1>11. ChildrenSpent'
  <2>1. NextChild' = conv.child /\ conv' = conv /\ conv.child \in Nat
    BY <1>1, <1>4 DEF NextChild, IInv, Shaped
  <2>2. ASSUME NEW i \in DOMAIN children
        PROVE  children[i].life > left'.crashes
    BY <1>2, <1>10 DEF IInv, ChildrenSpent
  <2> QED
    BY <1>1, <1>2, <1>3, <1>10, <2>1, <2>2 DEF ChildrenSpent
<1>12. RunsApart' /\ ChildrenApart'
  BY <1>1 DEF IInv, RunsApart, ChildrenApart
<1>13. RowsKeyed' /\ SpansKeyed' /\ RowsTellRun'
  BY <1>1 DEF IInv, RowsKeyed, SpansKeyed, RowsTellRun, Alone
<1> QED
  BY <1>3, <1>5, <1>6, <1>7, <1>9, <1>11, <1>12, <1>13 DEF IInv

(* A conversation begins with a plugin that was installed.                 *)
LEMMA InitHolds == ASSUME Init PROVE IInv
<1>1. /\ walk = Resting /\ turn = NoTurn /\ pause = NoPause /\ conv = [turn |-> 0, child |-> 0]
      /\ rows = << >> /\ spans = {} /\ children = << >> /\ runs = << >>
      /\ left = [edits |-> MaxEdits, crashes |-> MaxCrashes]
  BY DEF Init
<1>2. /\ walk \in WalkShape /\ walk.at = "rest" /\ walk.resumed = FALSE
  BY <1>1, RestingIs DEF WalkShape
<1>3. DOMAIN rows = {} /\ DOMAIN runs = {} /\ DOMAIN children = {}
      /\ runs \in Seq(RunShape) /\ children \in Seq(ChildShape)
  BY <1>1
<1>4. Shaped
  BY <1>1, <1>2, <1>3, BoundsAssumption DEF Shaped, NoTurn
<1>5. PluginInv
  <2>1. PICK m \in Authored : disk = [m |-> m, files |-> {"code", "skills", "schema"}] /\ held = m
    BY DEF Init
  <2>2. m \in ManifestShape /\ Validate(m, {"code", "skills", "schema"}, TRUE) = "Valid"
    BY ManifestsAssumption
  <2>3. Whole(m) /\ ~Dangling(m)
    BY <2>2, ValidWhole
  <2> QED
    BY <2>1, <2>2, <2>3 DEF PluginInv
<1>6. Stepping /\ Outcome /\ Placed /\ Refused
  BY <1>1, <1>2 DEF Stepping, Outcome, Placed, Refused, Own
<1>7. Waits
  BY <1>1 DEF Waits
<1>8. RunsSpent /\ RunsApart /\ ChildrenApart
  BY <1>3 DEF RunsSpent, RunsApart, ChildrenApart
<1>9. ChildrenSpent
  BY <1>1, <1>2, <1>3 DEF ChildrenSpent, NextChild, NoTurn
<1>10. RowsKeyed /\ SpansKeyed /\ RowFresh /\ RowsTellRun
  BY <1>1, <1>3 DEF RowsKeyed, SpansKeyed, RowFresh, RowsTellRun
<1> QED
  BY <1>4, <1>5, <1>6, <1>7, <1>8, <1>9, <1>10 DEF IInv

-----------------------------------------------------------------------------
(* The theorems.                                                           *)
LEMMA NextKeeps == ASSUME IInv, Next PROVE IInv'
<1>1. ASSUME Turn PROVE IInv'
  BY <1>1, OpenRuntimeKeeps, StartTurnKeeps, DispatchKeeps, EndTurnKeeps DEF Turn
<1>2. ASSUME Settle PROVE IInv'
  BY <1>2, RecordKeeps, ReturnKeeps, EscapeKeeps DEF Settle
<1>3. ASSUME Resume PROVE IInv'
  <2>1. PluginInv /\ Waits
    BY DEF IInv
  <2>2. Opened \/ Resolve
    BY <1>3, <2>1, FailResumeOpens, RefuseResumeOpens, DeclineOpens, ApproveOpens, AnswerOpens DEF Resume
  <2> QED
    BY <2>2, OpenedKeeps, ResolveKeeps
<1> QED
  BY <1>1, <1>2, <1>3, EditKeeps, WalkKeeps, CrashKeeps DEF Next

(* So does a step that changes nothing.                                    *)
LEMMA StutterKeeps == ASSUME IInv, UNCHANGED vars PROVE IInv'
<1>1. UNCHANGED << disk, held, conv, turn, walk, pause, rows, spans, children, runs, left >>
  BY DEF vars, Plugin, Records, Ghosts
<1>2. Shaped' /\ PluginInv' /\ Stepping' /\ Outcome' /\ Waits' /\ Refused'
  BY <1>1 DEF IInv, Shaped, PluginInv, Stepping, Outcome, Waits, Refused
<1>3. Placed'
  BY <1>1 DEF IInv, Placed, Own, Key
<1>4. RunsSpent' /\ RunsApart' /\ ChildrenSpent' /\ ChildrenApart'
  BY <1>1 DEF IInv, RunsSpent, RunsApart, Spent, Own, ChildrenSpent, ChildrenApart, NextChild
<1>5. RowsKeyed' /\ SpansKeyed' /\ RowFresh' /\ RowsTellRun'
  BY <1>1, RowsStay DEF IInv
<1> QED
  BY <1>2, <1>3, <1>4, <1>5 DEF IInv

(* The invariant holds of every behaviour.                                 *)
THEOREM Invariant == Spec => []IInv
<1>1. Init => IInv
  BY InitHolds
<1>2. IInv /\ [Next]_vars => IInv'
  BY NextKeeps, StutterKeeps
<1> QED
  BY <1>1, <1>2, PTL DEF Spec

(* No two runs of a conversation have one key, and no two of its children  *)
(* one number, unless the run raised, the child never returned or a crash  *)
(* cut the turn off: build_dispatch numbers runs within the turn, the      *)
(* tracker numbers children, and both are saved with the turn.             *)
THEOREM KeysStayApart == Spec => []KeysApart
<1>1. IInv => KeysApart
  BY DEF IInv, KeysApart
<1> QED
  BY <1>1, Invariant, PTL

(* What plugin_runs and spans say of a run that came back and that shares  *)
(* its key with no other is what the run did.                              *)
THEOREM RowsTellEveryRun == Spec => []RowsTellRun
<1>1. IInv => RowsTellRun
  BY DEF IInv
<1> QED
  BY <1>1, Invariant, PTL

(* No sequence of edits through editor_server.py leaves a manifest broken  *)
(* in a way the editor does not show.                                      *)
THEOREM EditorStaysHonest == Spec => []EditorHonest
<1>1. IInv => NoDangling
  BY DEF IInv, PluginInv, NoDangling
<1>2. ReadyValidates
  <2> SUFFICES ASSUME StatusWord(disk.m, disk.files) = "ready",
                      \A i \in DOMAIN disk.m.nodes : disk.m.nodes[i].kind = "ask" => disk.m.nodes[i].skill
               PROVE  Validate(disk.m, disk.files, TRUE) = "Valid"
    BY DEF ReadyValidates
  <2>1. /\ Validate(disk.m, disk.files, FALSE) \in {"Valid", "UnresolvedSkill"}
        /\ BodiesResolve(disk.m, disk.files)
        /\ \/ "skills" \in disk.files
           \/ ~\E i \in DOMAIN disk.m.nodes : disk.m.nodes[i].kind = "ask" /\ disk.m.nodes[i].skill
    BY DEF StatusWord, Waiting
  <2>2. SkillsResolve(disk.m, disk.files)
    BY <2>1 DEF SkillsResolve
  <2> QED
    BY <2>1, <2>2 DEF Validate
<1> QED
  BY <1>1, <1>2, Invariant, PTL DEF EditorHonest

(* A resume that is refused because a setting has no value leaves the      *)
(* pause as it was: resolve_pause writes the same row again.               *)
THEOREM PauseStays == Spec => PauseSurvives
<1>1. ASSUME IInv, [Next]_vars,
             walk.at = "ended", walk.resumed, walk.result.text = "unset"
      PROVE  pause' = pause
  <2>1. CASE Resolve
    <3>1. /\ walk.node = pause.node /\ walk.value = pause.value /\ walk.trace = pause.trace
          /\ walk.made = pause.made /\ walk.result.paused = pause.kind
      BY <1>1 DEF IInv, Refused
    <3>2. /\ pause # NoPause /\ walk.run = pause.run
      BY <1>1 DEF IInv, Placed
    <3>3. /\ pause \in [node : Steps, kind : Kinds, value : {"data", "text"}, trace : TraceShape,
                        made : Nat, run : Nat \ {0}, key : Nat \X Nat]
          /\ pause.key = runs[pause.run].key
      BY <1>1, <3>2 DEF IInv, Waits
    <3>4. pause.kind # Nil
      BY <3>3, NamesAssumption DEF Kinds
    <3>5. pause' = Parked(walk)
      BY <2>1, <3>1, <3>4 DEF Resolve
    <3> QED
      BY <3>1, <3>2, <3>3, <3>5 DEF Parked
  <2>2. CASE Edit \/ Walk \/ Crash
    BY <1>1, <2>2, WalkSteps
       DEF IInv, Shaped, Edit, AddStep, RenameStep, DeleteStep, Save, Tamper, Write, Crash
  <2>3. CASE Turn \/ Settle
    BY <1>1, <2>3 DEF Turn, OpenRuntime, StartTurn, Dispatch, EndTurn, Settle, Record, Return, Escape
  <2>4. CASE FailResume \/ RefuseResume \/ Decline \/ Approve \/ Answer
    BY <2>4 DEF FailResume, RefuseResume, Decline, Approve, Answer
  <2>5. CASE UNCHANGED vars
    BY <2>5 DEF vars
  <2> QED
    BY <1>1, <2>1, <2>2, <2>3, <2>4, <2>5 DEF Next, Resume
<1>2. IInv /\ [Next]_vars => (walk.at = "ended" /\ walk.resumed /\ walk.result.text = "unset" => pause' = pause)
  BY <1>1
<1>3. IInv /\ [Next]_vars => [walk.at = "ended" /\ walk.resumed /\ walk.result.text = "unset" => pause' = pause]_vars
  BY <1>2
<1> QED
  BY <1>3, Invariant, PTL DEF Spec, PauseSurvives


-----------------------------------------------------------------------------
(* Moves taken one after the other: what walks of a graph need of the      *)
(* naturals.                                                               *)

(* Every non-empty set of naturals has a least element: the sets 0..k that *)
(* end in it are finite, and one of them contains no other.                *)
LEMMA LeastNatural ==
  ASSUME NEW A \in SUBSET Nat, A # {}
  PROVE  \E least \in A : \A n \in A : least <= n
<1> DEFINE Starts == {0..k : k \in A}
           R == StrictSubsetOrdering(Nat)
<1>1. Starts \subseteq FiniteSubsetsOf(Nat) /\ Starts # {}
  <2>1. ASSUME NEW k \in A PROVE 0..k \in FiniteSubsetsOf(Nat)
    BY FS_Interval DEF FiniteSubsetsOf
  <2> QED BY <2>1
<1>2. IsWellFoundedOn(R, FiniteSubsetsOf(Nat))
  BY FS_StrictSubsetOrderingWellFounded
<1>3. PICK start \in Starts : \A y \in Starts : ~ (<<y, start>> \in R)
  <2> HIDE DEF Starts, R
  <2> QED BY <1>1, <1>2, WFMin
<1>4. PICK k \in A : start = 0..k
  BY <1>3
<1>5. ASSUME NEW n \in A, n < k PROVE FALSE
  <2>1. 0..n \subseteq 0..k /\ 0..n # 0..k
    <3>1. k \in 0..k /\ k \notin 0..n
      BY <1>5
    <3> QED BY <3>1, <1>5
  <2>2. 0..n \in SUBSET Nat /\ 0..k \in SUBSET Nat
    OBVIOUS
  <2>3. <<0..n, 0..k>> \in R
    BY <2>1, <2>2 DEF StrictSubsetOrdering
  <2> QED BY <2>3, <1>3, <1>4
<1> QED BY <1>5

(* A set that holds 0 and, with a number, the next one holds them all.     *)
LEMMA Upwards ==
  ASSUME NEW P \in SUBSET Nat, 0 \in P, \A k \in P : k + 1 \in P
  PROVE  P = Nat
<1> SUFFICES ASSUME Nat \ P # {} PROVE FALSE
  OBVIOUS
<1>1. PICK n \in Nat \ P : \A k \in Nat \ P : n <= k
  BY LeastNatural
<1>2. n # 0 /\ n - 1 \in Nat /\ ~ (n <= n - 1)
  OBVIOUS
<1>3. n - 1 \in P
  BY <1>1, <1>2
<1>4. n - 1 + 1 = n
  OBVIOUS
<1> QED
  BY <1>3, <1>4

(* A step taken over and over from a first state.                          *)
Upto(W, a, F, n) == {h \in [0..n -> W] : h[0] = a /\ \A k \in 0..n : k # 0 => h[k] = F[h[k - 1]]}

(* Two runs of them agree as far as both go.                               *)
LEMMA UptoAgree ==
  ASSUME NEW W, NEW a \in W, NEW F \in [W -> W],
         NEW n \in Nat, NEW o \in Nat, n <= o, NEW h \in Upto(W, a, F, n), NEW j \in Upto(W, a, F, o)
  PROVE  h[n] = j[n]
<1> DEFINE P == {k \in Nat : k <= n => h[k] = j[k]}
<1>1. 0 \in P
  BY DEF Upto
<1>2. ASSUME NEW k \in P PROVE k + 1 \in P
  <2> SUFFICES ASSUME k + 1 <= n PROVE h[k + 1] = j[k + 1]
    OBVIOUS
  <2>1. k + 1 \in 0..n /\ k + 1 \in 0..o /\ k + 1 # 0 /\ k + 1 - 1 = k /\ h[k] = j[k]
    OBVIOUS
  <2> QED
    BY <2>1 DEF Upto
<1>3. P = Nat
  <2> HIDE DEF P
  <2>1. P \in SUBSET Nat
    BY DEF P
  <2> QED
    BY <1>1, <1>2, <2>1, Upwards
<1> QED
  BY <1>3

(* They can be taken as often as one likes.                                *)
LEMMA UptoAny ==
  ASSUME NEW W, NEW a \in W, NEW F \in [W -> W], NEW n \in Nat
  PROVE  Upto(W, a, F, n) # {}
<1> DEFINE P == {k \in Nat : Upto(W, a, F, k) # {}}
<1>1. 0 \in P
  <2>1. [k \in 0..0 |-> a] \in Upto(W, a, F, 0)
    BY DEF Upto
  <2> QED
    BY <2>1
<1>2. ASSUME NEW k \in P PROVE k + 1 \in P
  <2>1. PICK h \in Upto(W, a, F, k) : TRUE
    OBVIOUS
  <2> DEFINE j == [i \in 0..(k + 1) |-> IF i = k + 1 THEN F[h[k]] ELSE h[i]]
  <2>2. h \in [0..k -> W] /\ h[0] = a /\ \A i \in 0..k : i # 0 => h[i] = F[h[i - 1]]
    BY <2>1 DEF Upto
  <2>3. j \in [0..(k + 1) -> W] /\ j[0] = a
    BY <2>2
  <2>4. ASSUME NEW i \in 0..(k + 1), i # 0 PROVE j[i] = F[j[i - 1]]
    <3>1. i - 1 \in 0..k /\ j[i - 1] = h[i - 1]
      BY <2>4
    <3>2. CASE i = k + 1
      <4>1. i - 1 = k /\ j[i] = F[h[k]]
        BY <3>2
      <4> QED
        BY <3>1, <4>1
    <3>3. CASE i # k + 1
      <4>1. i \in 0..k /\ j[i] = h[i]
        BY <3>3
      <4> QED
        BY <3>1, <4>1, <2>2, <2>4
    <3> QED
      BY <3>2, <3>3
  <2>5. j \in Upto(W, a, F, k + 1)
    <3> HIDE DEF j
    <3> QED
      BY <2>3, <2>4 DEF Upto
  <2> QED
    BY <2>5
<1>3. P = Nat
  <2> HIDE DEF P
  <2>1. P \in SUBSET Nat
    BY DEF P
  <2> QED
    BY <1>1, <1>2, <2>1, Upwards
<1> QED
  BY <1>3

(* So there is a function that gives the state after any number of them.   *)
LEMMA Iterates ==
  ASSUME NEW W, NEW a \in W, NEW F \in [W -> W]
  PROVE  \E g \in [Nat -> W] : g = [k \in Nat |-> IF k = 0 THEN a ELSE F[g[k - 1]]]
<1> DEFINE some(n) == CHOOSE h \in Upto(W, a, F, n) : TRUE
           g == [n \in Nat |-> some(n)[n]]
<1>1. ASSUME NEW n \in Nat PROVE some(n) \in Upto(W, a, F, n)
  BY UptoAny
<1> HIDE DEF some
<1>2. ASSUME NEW n \in Nat PROVE g[n] \in W /\ g[n] = some(n)[n]
  <2>1. some(n) \in [0..n -> W] /\ n \in 0..n
    BY <1>1 DEF Upto
  <2> QED
    BY <2>1
<1>3. ASSUME NEW n \in Nat PROVE g[n] = IF n = 0 THEN a ELSE F[g[n - 1]]
  <2>1. CASE n = 0
    BY <2>1, <1>1, <1>2 DEF Upto
  <2>2. CASE n # 0
    <3>1. n - 1 \in Nat /\ n - 1 <= n /\ n \in 0..n
      BY <2>2
    <3>2. some(n)[n] = F[some(n)[n - 1]]
      BY <2>2, <3>1, <1>1 DEF Upto
    <3>3. some(n - 1)[n - 1] = some(n)[n - 1]
      BY <3>1, <1>1, UptoAgree
    <3> QED
      BY <2>2, <3>1, <3>2, <3>3, <1>2
  <2> QED
    BY <2>1, <2>2
<1>4. g \in [Nat -> W]
  BY <1>2
<1>5. g = [k \in Nat |-> IF k = 0 THEN a ELSE F[g[k - 1]]]
  BY <1>3
<1> QED
  BY <1>4, <1>5


-----------------------------------------------------------------------------
(* What there is to walk: a manifest the earlier checks have let through.  *)
Checked(m) == m \in ManifestShape /\ ~Duplicate(m) /\ ~Dangling(m)

(* The members of a finite set in some order.                              *)
LEMMA InOrder ==
  ASSUME NEW S, IsFiniteSet(S)
  PROVE  SetToSeq(S) \in Seq(S) /\ Range(SetToSeq(S)) = S
<1> DEFINE C == Cardinality(S)
           f == SetToSeq(S)
<1>1. C \in Nat /\ ExistsBijection(1..C, S)
  BY FS_CardinalityType
<1>2. \E h \in [1..C -> S] : IsInjective(h)
  BY <1>1 DEF ExistsBijection, Bijection, Injection
<1>3. f \in [1..C -> S] /\ IsInjective(f)
  BY <1>2 DEF SetToSeq
<1>4. f \in Injection(1..C, S)
  BY <1>3 DEF Injection
<1>5. Cardinality(1..C) = C
  BY <1>1, FS_Interval
<1> HIDE DEF f
<1>6. f \in Surjection(1..C, S)
  BY <1>4, <1>5, FS_Injection
<1>7. f \in Seq(S) /\ DOMAIN f = 1..C
  BY <1>1, <1>3
<1>8. Range(f) = S
  BY <1>3, <1>6, <1>7 DEF Surjection, Range
<1> QED
  BY <1>7, <1>8 DEF f

(* A manifest has finitely many names.                                     *)
LEMMA NamesFinite ==
  ASSUME NEW m \in ManifestShape
  PROVE  IsFiniteSet(Names(m))
<1>1. m.nodes \in Seq(StepShape)
  BY DEF ManifestShape
<1> DEFINE f == [i \in 1..Len(m.nodes) |-> m.nodes[i].name]
<1>2. f \in Surjection(1..Len(m.nodes), Names(m))
  <2>1. DOMAIN m.nodes = 1..Len(m.nodes)
    BY <1>1
  <2> QED
    BY <2>1 DEF Surjection, Names
<1>3. IsFiniteSet(1..Len(m.nodes))
  BY <1>1, FS_Interval
<1> HIDE DEF f
<1> QED
  BY <1>2, <1>3, FS_Surjection

(* What a walk looks at are steps: those the entries start at, and those a *)
(* step leads to.                                                          *)
LEMMA AheadIs ==
  ASSUME NEW m, Checked(m)
  PROVE  /\ Ahead(m, Nil) = m.starts /\ m.starts \in Seq(Names(m))
         /\ \A n \in Names(m) : Ahead(m, n) \in Seq(Names(m)) /\ Range(Ahead(m, n)) = Out(m, n)
         /\ \A n \in Names(m) : Out(m, n) \subseteq Names(m)
         /\ Nil \notin Names(m)
<1>1. m \in ManifestShape /\ Whole(m)
  BY DEF Checked, Whole, Dangling, Arrows
<1>2. m.starts \in Seq(Names(m))
  <2>1. m.starts \in Seq(Steps \cup {Nil})
    BY <1>1 DEF ManifestShape
  <2>2. \A i \in DOMAIN m.starts : m.starts[i] \in Names(m)
    BY DEF Checked, Dangling
  <2> QED
    BY <2>1, <2>2
<1>3. Nil \notin Names(m)
  BY <1>1, NamesAre
<1>4. ASSUME NEW n \in Names(m)
      PROVE  Ahead(m, n) \in Seq(Names(m)) /\ Range(Ahead(m, n)) = Out(m, n) /\ Out(m, n) \subseteq Names(m)
  <2> DEFINE node == NodeOf(m, n)
             first == IF node.next = Nil THEN << >> ELSE << node.next >>
  <2>1. node.next \in Names(m) \cup {Nil} /\ node.ports \subseteq Names(m)
    BY <1>1, NodeOfIs
  <2>2. IsFiniteSet(node.ports)
    BY <1>1, <2>1, NamesFinite, FS_Subset
  <2> HIDE DEF node
  <2>3. SetToSeq(node.ports) \in Seq(Names(m)) /\ Range(SetToSeq(node.ports)) = node.ports
    BY <2>1, <2>2, InOrder
  <2>4. first \in Seq(Names(m)) /\ Range(first) = {node.next} \ {Nil}
    BY <2>1 DEF Range
  <2>5. Ahead(m, n) = first \o SetToSeq(node.ports)
    BY <1>3 DEF Ahead, Successors, node
  <2> HIDE DEF first
  <2>6. Range(first \o SetToSeq(node.ports)) = Range(first) \cup Range(SetToSeq(node.ports))
    BY <2>3, <2>4, RangeConcatenation
  <2>7. Out(m, n) = ({node.next} \ {Nil}) \cup node.ports
    BY DEF Out, node
  <2> QED
    BY <2>1, <2>3, <2>4, <2>5, <2>6, <2>7, ConcatProperties
<1> QED
  BY <1>2, <1>3, <1>4 DEF Ahead

(* There are only so many places for a walk to stand.                      *)
LEMMA PlacesFinite ==
  ASSUME NEW m, Checked(m)
  PROVE  IsFiniteSet(Places(m)) /\ Cardinality(Places(m)) \in Nat
<1> DEFINE N == Names(m) \cup {Nil}
           At(n) == {n} \X (0..Len(Ahead(m, n)))
           T == {At(n) : n \in N}
           f == [n \in N |-> At(n)]
<1>1. IsFiniteSet(N)
  BY NamesFinite, FS_AddElement DEF Checked
<1>2. ASSUME NEW n \in N PROVE IsFiniteSet(At(n))
  <2>1. Ahead(m, n) \in Seq(Names(m))
    BY AheadIs
  <2>2. IsFiniteSet(0..Len(Ahead(m, n)))
    BY <2>1, FS_Interval
  <2> QED
    BY <2>2, FS_Singleton, FS_Product
<1>3. f \in Surjection(N, T)
  <2> HIDE DEF At
  <2> QED
    BY DEF Surjection
<1>4. IsFiniteSet(T) /\ \A t \in T : IsFiniteSet(t)
  <2>1. \A t \in T : IsFiniteSet(t)
    <3> HIDE DEF At
    <3> QED
      BY <1>2
  <2> HIDE DEF f, T
  <2> QED
    BY <1>1, <1>3, <2>1, FS_Surjection
<1>5. IsFiniteSet(UNION T)
  <2> HIDE DEF T
  <2> QED
    BY <1>4, FS_UNION
<1> QED
  BY <1>5, FS_CardinalityType DEF Places

(* A sequence is its first member and the rest.                            *)
LEMMA HeadRange ==
  ASSUME NEW S, NEW s \in Seq(S), s # << >>
  PROVE  /\ Head(s) \in S /\ Tail(s) \in Seq(S)
         /\ Range(s) = {Head(s)} \cup Range(Tail(s)) /\ Len(s) = Len(Tail(s)) + 1
<1> DEFINE one == << Head(s) >>
           rest == Tail(s)
<1>1. Head(s) \in S /\ rest \in Seq(S) /\ Len(s) = Len(rest) + 1
  BY HeadTailProperties
<1>2. s = one \o rest
  OBVIOUS
<1>3. one \in Seq(S) /\ Range(one) = {Head(s)}
  BY <1>1 DEF Range
<1>4. Range(one \o rest) = Range(one) \cup Range(rest)
  <2> HIDE DEF one, rest
  <2> QED
    BY <1>1, <1>3, RangeConcatenation
<1>5. Range(s) = {Head(s)} \cup Range(rest)
  <2> HIDE DEF one, rest
  <2> QED
    BY <1>2, <1>3, <1>4
<1> QED
  BY <1>1, <1>5

-----------------------------------------------------------------------------
(* The breadth-first walk.                                                 *)
Queues(m) == [queue : Seq(Names(m)), visited : SUBSET Names(m)]

(* A move takes the first step off the queue, and what it leads to is put  *)
(* there the first time.                                                   *)
LEMMA LookIs ==
  ASSUME NEW m, Checked(m), NEW w \in Queues(m), w.queue # << >>
  PROVE  LET n == Head(w.queue) IN
         /\ n \in Names(m) /\ Tail(w.queue) \in Seq(Names(m))
         /\ Range(w.queue) = {n} \cup Range(Tail(w.queue)) /\ Len(w.queue) = Len(Tail(w.queue)) + 1
         /\ Look(m, w) \in Queues(m)
         /\ \/ n \in w.visited /\ Look(m, w).queue = Tail(w.queue) /\ Look(m, w).visited = w.visited
            \/ /\ n \notin w.visited /\ Look(m, w).visited = w.visited \cup {n}
               /\ Len(Look(m, w).queue) = Len(Tail(w.queue)) + Len(Ahead(m, n))
               /\ Range(Look(m, w).queue) = Range(Tail(w.queue)) \cup Out(m, n)
<1> DEFINE n == Head(w.queue)
           after == Tail(w.queue)
<1>1. w.queue \in Seq(Names(m)) /\ w.visited \in SUBSET Names(m)
  BY DEF Queues
<1>2. n \in Names(m) /\ after \in Seq(Names(m)) /\ Len(w.queue) = Len(after) + 1
  BY <1>1, HeadRange
<1>3. Range(w.queue) = {n} \cup Range(after)
  BY <1>1, HeadRange
<1>4. Ahead(m, n) \in Seq(Names(m)) /\ Range(Ahead(m, n)) = Out(m, n)
  BY <1>2, AheadIs
<1> HIDE DEF n, after
<1>5. CASE n \in w.visited
  <2>1. Look(m, w) = [w EXCEPT !.queue = after]
    BY <1>5 DEF Look, n, after
  <2> QED
    BY <2>1, <1>1, <1>2, <1>3, <1>5 DEF Queues, n, after
<1>6. CASE n \notin w.visited
  <2>1. Look(m, w) = [queue |-> after \o Ahead(m, n), visited |-> w.visited \cup {n}]
    BY <1>6 DEF Look, n, after
  <2>2. after \o Ahead(m, n) \in Seq(Names(m)) /\ Len(after \o Ahead(m, n)) = Len(after) + Len(Ahead(m, n))
    BY <1>2, <1>4, ConcatProperties
  <2>3. Range(after \o Ahead(m, n)) = Range(after) \cup Out(m, n)
    BY <1>2, <1>4, RangeConcatenation
  <2>4. Look(m, w) \in Queues(m) /\ Look(m, w).visited = w.visited \cup {n} /\ Look(m, w).queue = after \o Ahead(m, n)
    BY <2>1, <2>2, <1>1, <1>2 DEF Queues
  <2> QED
    BY <2>2, <2>3, <2>4, <1>2, <1>3, <1>6 DEF n, after
<1> QED
  BY <1>5, <1>6

(* The walk is its first state and the moves from there.                   *)
LEMMA BroadIs ==
  ASSUME NEW m, Checked(m)
  PROVE  /\ Broad(m) \in [Nat -> Queues(m)]
         /\ Broad(m)[0] = [queue |-> m.starts, visited |-> {}]
         /\ \A k \in Nat : Broad(m)[k + 1] = Look(m, Broad(m)[k])
<1> DEFINE first == [queue |-> m.starts, visited |-> {}]
           F == [w \in Queues(m) |-> Look(m, w)]
           Is(h) == h = [k \in Nat |-> IF k = 0 THEN first ELSE Look(m, h[k - 1])]
<1>1. first \in Queues(m)
  BY AheadIs DEF Queues
<1>2. F \in [Queues(m) -> Queues(m)]
  <2>1. ASSUME NEW w \in Queues(m) PROVE Look(m, w) \in Queues(m)
    <3>1. CASE w.queue = << >>
      BY <3>1 DEF Look
    <3>2. CASE w.queue # << >>
      BY <3>2, LookIs
    <3> QED
      BY <3>1, <3>2
  <2> QED
    BY <2>1
<1>3. PICK g \in [Nat -> Queues(m)] : g = [k \in Nat |-> IF k = 0 THEN first ELSE F[g[k - 1]]]
  <2> HIDE DEF first, F
  <2> QED
    BY <1>1, <1>2, Iterates
<1>4. Is(g)
  <2>1. ASSUME NEW k \in Nat PROVE g[k] = IF k = 0 THEN first ELSE Look(m, g[k - 1])
    <3>1. CASE k = 0
      BY <3>1, <1>3
    <3>2. CASE k # 0
      <4>1. k - 1 \in Nat
        BY <3>2
      <4>2. g[k] = F[g[k - 1]] /\ g[k - 1] \in Queues(m)
        BY <4>1, <3>2, <1>3
      <4> QED
        BY <4>2, <3>2
    <3> QED
      BY <3>1, <3>2
  <2> HIDE DEF first
  <2> QED
    BY <2>1
<1>5. Broad(m) = CHOOSE h : Is(h)
  BY DEF Broad
<1>6. Is(Broad(m))
  <2> HIDE DEF Is
  <2> QED
    BY <1>4, <1>5
<1> HIDE DEF first
<1>7. Broad(m)[0] = first /\ \A k \in Nat : Broad(m)[k + 1] = Look(m, Broad(m)[k])
  <2>1. ASSUME NEW k \in Nat PROVE Broad(m)[k + 1] = Look(m, Broad(m)[k])
    <3>1. k + 1 \in Nat /\ k + 1 # 0 /\ k + 1 - 1 = k
      OBVIOUS
    <3> QED
      BY <3>1, <1>6
  <2> QED
    BY <2>1, <1>6
<1>8. Broad(m) \in [Nat -> Queues(m)]
  <2> DEFINE P == {k \in Nat : Broad(m)[k] \in Queues(m)}
  <2>1. 0 \in P
    BY <1>1, <1>7
  <2>2. ASSUME NEW k \in P PROVE k + 1 \in P
    BY <1>2, <1>7
  <2>3. P = Nat
    <3> HIDE DEF P
    <3>1. P \in SUBSET Nat
      BY DEF P
    <3> QED
      BY <2>1, <2>2, <3>1, Upwards
  <2>4. Broad(m) = [k \in Nat |-> Broad(m)[k]]
    BY <1>6
  <2> QED
    BY <2>3, <2>4
<1> QED
  BY <1>7, <1>8 DEF first

(* The places from which the walk has put steps on its queue.              *)
Seen(m, names) == UNION {{n} \X (1..Len(Ahead(m, n))) : n \in names \cup {Nil}}

(* They are places, and no more than there are.                            *)
LEMMA SeenIs ==
  ASSUME NEW m, Checked(m), NEW names \in SUBSET Names(m)
  PROVE  /\ Seen(m, names) \subseteq Places(m)
         /\ IsFiniteSet(Seen(m, names)) /\ Cardinality(Seen(m, names)) \in Nat
         /\ Cardinality(Seen(m, names)) <= Cardinality(Places(m))
<1>1. Seen(m, names) \subseteq Places(m)
  BY DEF Seen, Places
<1> QED
  BY <1>1, PlacesFinite, FS_Subset, FS_CardinalityType

(* A step and the first n numbers make n places.                           *)
LEMMA LineSize ==
  ASSUME NEW x, NEW n \in Nat
  PROVE  IsFiniteSet({x} \X (1..n)) /\ Cardinality({x} \X (1..n)) = n
<1> DEFINE line == 1..n
<1>1. IsFiniteSet(line) /\ Cardinality(line) = n
  BY FS_Interval
<1>2. IsFiniteSet({x}) /\ Cardinality({x}) = 1
  BY FS_Singleton
<1> HIDE DEF line
<1>3. IsFiniteSet({x} \X line) /\ Cardinality({x} \X line) = Cardinality({x}) * Cardinality(line)
  BY <1>1, <1>2, FS_Product
<1>4. Cardinality({x} \X line) = n
  BY <1>1, <1>2, <1>3
<1> QED
  BY <1>3, <1>4 DEF line

(* Before any step is visited they are the entries.                        *)
LEMMA SeenFirst ==
  ASSUME NEW m, Checked(m)
  PROVE  Cardinality(Seen(m, {})) = Len(m.starts)
<1> DEFINE all == {Nil} \X (1..Len(m.starts))
<1>1. Ahead(m, Nil) = m.starts /\ Len(m.starts) \in Nat
  BY AheadIs
<1>2. Seen(m, {}) = all
  BY <1>1 DEF Seen
<1>3. Cardinality(all) = Len(m.starts)
  BY <1>1, LineSize
<1> HIDE DEF all
<1> QED
  BY <1>2, <1>3

(* A step visited for the first time adds what it leads to.                *)
LEMMA SeenMore ==
  ASSUME NEW m, Checked(m), NEW names \in SUBSET Names(m), NEW n \in Names(m) \ names
  PROVE  Cardinality(Seen(m, names \cup {n})) = Cardinality(Seen(m, names)) + Len(Ahead(m, n))
<1> DEFINE more == {n} \X (1..Len(Ahead(m, n)))
<1>1. Len(Ahead(m, n)) \in Nat /\ n # Nil
  BY AheadIs
<1>2. Seen(m, names \cup {n}) = Seen(m, names) \cup more
  BY DEF Seen
<1>3. Seen(m, names) \cap more = {}
  BY <1>1 DEF Seen
<1>6. IsFiniteSet(more) /\ Cardinality(more) = Len(Ahead(m, n))
  BY <1>1, LineSize
<1> HIDE DEF more
<1>7. IsFiniteSet(Seen(m, names)) /\ Cardinality(Seen(m, names)) \in Nat
  BY SeenIs
<1>8. Cardinality(Seen(m, names) \cup more) = Cardinality(Seen(m, names)) + Cardinality(more) - Cardinality({})
  BY <1>3, <1>6, <1>7, FS_Union
<1>9. Cardinality({}) = 0
  BY FS_EmptySet
<1>10. Cardinality(Seen(m, names) \cup more) = Cardinality(Seen(m, names)) + Len(Ahead(m, n))
  BY <1>1, <1>6, <1>7, <1>8, <1>9
<1> QED
  BY <1>2, <1>10

(* What holds after k moves: what has been visited and what is queued are  *)
(* within reach, nothing that they lead to is missing, and every move has  *)
(* taken one step off the queue.                                           *)
Closed(m, S) == Range(m.starts) \subseteq S /\ \A n \in S : Out(m, n) \subseteq S

BroadInv(m, k, w) ==
  /\ Range(m.starts) \subseteq w.visited \cup Range(w.queue)
  /\ \A n \in w.visited : Out(m, n) \subseteq w.visited \cup Range(w.queue)
  /\ \A S \in SUBSET Names(m) : Closed(m, S) => w.visited \cup Range(w.queue) \subseteq S
  /\ w.queue # << >> => k + Len(w.queue) = Cardinality(Seen(m, w.visited))

(* It holds before the first move.                                         *)
LEMMA BroadStarts ==
  ASSUME NEW m, Checked(m)
  PROVE  BroadInv(m, 0, Broad(m)[0])
<1>1. Broad(m)[0].queue = m.starts /\ Broad(m)[0].visited = {}
  <2>1. Broad(m)[0] = [queue |-> m.starts, visited |-> {}]
    BY BroadIs
  <2> QED
    BY <2>1
<1>2. Len(m.starts) \in Nat
  BY AheadIs
<1> QED
  BY <1>1, <1>2, SeenFirst DEF BroadInv, Closed

(* A move keeps it.                                                        *)
LEMMA BroadMoves ==
  ASSUME NEW m, Checked(m), NEW k \in Nat, NEW w \in Queues(m), BroadInv(m, k, w)
  PROVE  BroadInv(m, k + 1, Look(m, w))
<1>1. CASE w.queue = << >>
  <2>1. Look(m, w) = w
    BY <1>1 DEF Look
  <2> QED
    BY <2>1, <1>1 DEF BroadInv
<1>2. CASE w.queue # << >>
  <2> DEFINE n == Head(w.queue)
             after == Tail(w.queue)
             v == Look(m, w)
  <2>1. n \in Names(m) /\ after \in Seq(Names(m))
        /\ Range(w.queue) = {n} \cup Range(after) /\ Len(w.queue) = Len(after) + 1
    BY <1>2, LookIs
  <2>2. \/ n \in w.visited /\ v.queue = after /\ v.visited = w.visited
        \/ /\ n \notin w.visited /\ v.visited = w.visited \cup {n}
           /\ Len(v.queue) = Len(after) + Len(Ahead(m, n))
           /\ Range(v.queue) = Range(after) \cup Out(m, n)
    BY <1>2, LookIs
  <2>3. w.visited \in SUBSET Names(m) /\ Len(after) \in Nat /\ Len(Ahead(m, n)) \in Nat
    BY <2>1, AheadIs DEF Queues
  <2>4. Cardinality(Seen(m, w.visited)) \in Nat /\ k + Len(w.queue) = Cardinality(Seen(m, w.visited))
    BY <1>2, <2>3, SeenIs DEF BroadInv
  <2> HIDE DEF n, after, v
  <2>5. CASE n \in w.visited
    <3>1. v.queue = after /\ v.visited = w.visited
      BY <2>2, <2>5
    <3>2. v.visited \cup Range(v.queue) = w.visited \cup Range(w.queue)
      BY <3>1, <2>1, <2>5
    <3>3. k + 1 + Len(v.queue) = Cardinality(Seen(m, v.visited))
      BY <3>1, <2>1, <2>3, <2>4
    <3> QED
      BY <3>1, <3>2, <3>3 DEF BroadInv, v
  <2>6. CASE n \notin w.visited
    <3>1. /\ v.visited = w.visited \cup {n} /\ Len(v.queue) = Len(after) + Len(Ahead(m, n))
          /\ Range(v.queue) = Range(after) \cup Out(m, n)
      BY <2>2, <2>6
    <3>2. v.visited \cup Range(v.queue) = w.visited \cup Range(w.queue) \cup Out(m, n)
      BY <3>1, <2>1
    <3>3. Cardinality(Seen(m, v.visited)) = Cardinality(Seen(m, w.visited)) + Len(Ahead(m, n))
      BY <3>1, <2>1, <2>3, <2>6, SeenMore
    <3>4. k + 1 + Len(v.queue) = Cardinality(Seen(m, v.visited))
      BY <3>1, <3>3, <2>1, <2>3, <2>4
    <3>5. ASSUME NEW S \in SUBSET Names(m), Closed(m, S) PROVE v.visited \cup Range(v.queue) \subseteq S
      <4>1. w.visited \cup Range(w.queue) \subseteq S
        BY <3>5 DEF BroadInv
      <4>2. n \in S
        BY <4>1, <2>1
      <4> QED
        BY <4>1, <4>2, <3>2, <3>5 DEF Closed
    <3>6. \A o \in v.visited : Out(m, o) \subseteq v.visited \cup Range(v.queue)
      BY <3>1, <3>2 DEF BroadInv
    <3>7. Range(m.starts) \subseteq v.visited \cup Range(v.queue)
      BY <3>2 DEF BroadInv
    <3> QED
      BY <3>4, <3>5, <3>6, <3>7 DEF BroadInv, v
  <2> QED
    BY <2>5, <2>6
<1> QED
  BY <1>1, <1>2

(* It holds after any number of moves.                                     *)
LEMMA BroadHolds ==
  ASSUME NEW m, Checked(m)
  PROVE  \A k \in Nat : BroadInv(m, k, Broad(m)[k])
<1> DEFINE P == {k \in Nat : BroadInv(m, k, Broad(m)[k])}
<1>1. 0 \in P
  BY BroadStarts
<1>2. ASSUME NEW k \in P PROVE k + 1 \in P
  <2>1. Broad(m)[k] \in Queues(m) /\ Broad(m)[k + 1] = Look(m, Broad(m)[k])
    BY BroadIs
  <2> QED
    BY <2>1, BroadMoves
<1>3. P = Nat
  <2> HIDE DEF P
  <2>1. P \in SUBSET Nat
    BY DEF P
  <2> QED
    BY <1>1, <1>2, <2>1, Upwards
<1> QED
  BY <1>3

(* The walk is over by then, and it has visited what can be reached:       *)
(* _first_unreachable answers as it should, whatever the graph.            *)
LEMMA UnreachableIs ==
  ASSUME NEW m, Checked(m)
  PROVE  Unreachable(m) <=> ~Reached(m)
<1> DEFINE end == Cardinality(Places(m))
           w == Broad(m)[end]
<1>1. end \in Nat
  BY PlacesFinite
<1> HIDE DEF end
<1>2. w \in Queues(m) /\ BroadInv(m, end, w)
  BY <1>1, BroadIs, BroadHolds
<1> HIDE DEF w
<1>3. w.visited \in SUBSET Names(m) /\ w.queue \in Seq(Names(m))
  BY <1>2 DEF Queues
<1>4. w.queue = << >>
  <2> SUFFICES ASSUME w.queue # << >> PROVE FALSE
    OBVIOUS
  <2>1. Len(w.queue) \in Nat \ {0}
    BY <1>3
  <2>2. end + Len(w.queue) = Cardinality(Seen(m, w.visited))
    BY <1>2 DEF BroadInv
  <2>3. Cardinality(Seen(m, w.visited)) \in Nat /\ Cardinality(Seen(m, w.visited)) <= end
    BY <1>3, SeenIs DEF end
  <2> QED
    BY <1>1, <2>1, <2>2, <2>3
<1>5. Range(w.queue) = {}
  BY <1>4 DEF Range
<1>6. Closed(m, w.visited)
  BY <1>2, <1>5 DEF BroadInv, Closed
<1>7. \A S \in SUBSET Names(m) : Closed(m, S) => w.visited \subseteq S
  BY <1>2 DEF BroadInv
<1>8. Unreachable(m) <=> ~ (Names(m) \subseteq w.visited)
  BY DEF Unreachable, w, end
<1>9. Reached(m) <=> \A S \in SUBSET Names(m) : Closed(m, S) => S = Names(m)
  BY DEF Reached, Closed
<1> QED
  BY <1>3, <1>6, <1>7, <1>8, <1>9

-----------------------------------------------------------------------------
(* The depth-first walk.                                                   *)
Frames(m) == [name : Names(m) \cup {Nil}, rest : Seq(Names(m))]
Searches(m) == [stack : Seq(Frames(m)), visited : SUBSET Names(m), path : SUBSET Names(m), found : BOOLEAN]

(* The four moves.  The visit of the highest frame is over; the next step  *)
(* it leads to is on the path, has been visited, or is entered.            *)
Same(w, v, n) == \A i \in 1..n : v.stack[i] = w.stack[i]

Pops(w, v) ==
  LET high == Len(w.stack) IN
  /\ Len(w.stack[high].rest) = 0 /\ Range(w.stack[high].rest) = {}
  /\ Len(v.stack) = high - 1 /\ Same(w, v, high - 1)
  /\ v.visited = w.visited /\ v.path = w.path \ {w.stack[high].name} /\ ~v.found

Takes(w, v, n) ==
  LET high == Len(w.stack) IN
  /\ Range(w.stack[high].rest) = {n} \cup Range(v.stack[high].rest)
  /\ Len(w.stack[high].rest) = Len(v.stack[high].rest) + 1
  /\ Same(w, v, high - 1) /\ v.stack[high].name = w.stack[high].name
  /\ ~v.found

Passes(w, v, n) ==
  /\ Takes(w, v, n) /\ n \in w.visited \ w.path
  /\ Len(v.stack) = Len(w.stack)
  /\ v.visited = w.visited /\ v.path = w.path

Enters(m, w, v, n) ==
  /\ Takes(w, v, n) /\ n \notin w.visited \cup w.path
  /\ Len(v.stack) = Len(w.stack) + 1
  /\ v.stack[Len(v.stack)].name = n /\ v.stack[Len(v.stack)].rest = Ahead(m, n)
  /\ v.visited = w.visited \cup {n} /\ v.path = w.path \cup {n}

Finds(w, v) ==
  LET high == Len(w.stack) IN v.found /\ \E n \in w.path : n \in Range(w.stack[high].rest)

(* A frame is a step, or the loop over the entries, and what it has left.  *)
LEMMA FramesIs ==
  ASSUME NEW m, NEW f \in Frames(m)
  PROVE  f.name \in Names(m) \cup {Nil} /\ f.rest \in Seq(Names(m))
BY DEF Frames

(* Every move is one of the four.                                          *)
LEMMA VisitIs ==
  ASSUME NEW m, Checked(m), NEW w \in Searches(m), ~w.found, w.stack # << >>
  PROVE  /\ Visit(m, w) \in Searches(m)
         /\ \/ Pops(w, Visit(m, w))
            \/ Finds(w, Visit(m, w))
            \/ \E n \in Names(m) : Passes(w, Visit(m, w), n) \/ Enters(m, w, Visit(m, w), n)
<1> DEFINE high == Len(w.stack)
           top == Last(w.stack)
           under == Front(w.stack)
           n == Head(top.rest)
           lower == [top EXCEPT !.rest = Tail(@)]
           after == Append(under, lower)
           v == Visit(m, w)
<1>1. /\ w.stack \in Seq(Frames(m)) /\ w.visited \in SUBSET Names(m) /\ w.path \in SUBSET Names(m)
      /\ high \in Nat \ {0}
  BY DEF Searches
<1>2. top = w.stack[high] /\ top \in Frames(m)
  BY <1>1 DEF Last
<1>3. under \in Seq(Frames(m)) /\ Len(under) = high - 1 /\ \A i \in 1..(high - 1) : under[i] = w.stack[i]
  BY <1>1 DEF Front
<1>4. top.name \in Names(m) \cup {Nil} /\ top.rest \in Seq(Names(m))
  BY <1>2, FramesIs
<1> HIDE DEF high, top, under, n, after
<1>5. CASE top.rest = << >>
  <2>1. v = [w EXCEPT !.stack = under, !.path = @ \ {top.name}]
    BY <1>5 DEF Visit, top, under
  <2>2. v \in Searches(m) /\ v.stack = under /\ v.visited = w.visited /\ v.path = w.path \ {top.name} /\ ~v.found
    BY <2>1, <1>1, <1>3 DEF Searches
  <2>3. Len(top.rest) = 0 /\ Range(top.rest) = {}
    BY <1>5 DEF Range
  <2>4. Pops(w, v)
    <3> HIDE DEF v
    <3> QED
      BY <2>2, <2>3, <1>2, <1>3 DEF Pops, Same, high
  <2> QED
    BY <2>2, <2>4
<1>6. CASE top.rest # << >>
  <2>1. n \in Names(m) /\ Tail(top.rest) \in Seq(Names(m)) /\ Range(top.rest) = {n} \cup Range(Tail(top.rest))
        /\ Len(top.rest) = Len(Tail(top.rest)) + 1
    BY <1>4, <1>6, HeadRange DEF n
  <2>2. lower \in Frames(m) /\ lower.name = top.name /\ lower.rest = Tail(top.rest)
    BY <1>2, <2>1 DEF Frames
  <2> HIDE DEF lower
  <2>3. /\ after \in Seq(Frames(m)) /\ Len(after) = high /\ after[high] = lower
        /\ \A i \in 1..(high - 1) : after[i] = w.stack[i]
    <3>1. after \in Seq(Frames(m)) /\ Len(after) = Len(under) + 1
      BY <2>2, <1>3, AppendProperties DEF after
    <3>2. Len(under) + 1 = high
      BY <1>1, <1>3
    <3>3. after[Len(under) + 1] = lower
      BY <2>2, <1>3, AppendProperties DEF after
    <3>4. \A i \in 1..Len(under) : after[i] = under[i]
      BY <2>2, <1>3, AppendProperties DEF after
    <3> QED
      BY <3>1, <3>2, <3>3, <3>4, <1>3
  <2>4. CASE n \in w.path
    <3>1. v = [w EXCEPT !.found = TRUE]
      BY <1>6, <2>4 DEF Visit, top, n
    <3>2. v \in Searches(m) /\ v.found
      BY <3>1, <1>1 DEF Searches
    <3>3. Finds(w, v)
      BY <3>2, <2>1, <2>4, <1>2 DEF Finds, high
    <3> QED
      BY <3>2, <3>3
  <2>5. CASE n \notin w.path /\ n \in w.visited
    <3>1. v = [w EXCEPT !.stack = after]
      BY <1>6, <2>5 DEF Visit, top, under, n, after, lower
    <3>2. v \in Searches(m) /\ v.stack = after /\ v.visited = w.visited /\ v.path = w.path /\ ~v.found
      BY <3>1, <2>3, <1>1 DEF Searches
    <3>3. Takes(w, v, n)
      <4> HIDE DEF v
      <4> QED
        BY <3>2, <2>1, <2>2, <2>3, <1>2 DEF Takes, Same, high
    <3>4. Passes(w, v, n)
      <4> HIDE DEF v
      <4> QED
        BY <3>2, <3>3, <2>3, <2>5 DEF Passes, high
    <3> QED
      BY <3>2, <3>4, <2>1
  <2>6. CASE n \notin w.path /\ n \notin w.visited
    <3> DEFINE new == Frame(n, Ahead(m, n))
               more == Append(after, new)
    <3>1. new \in Frames(m) /\ new.name = n /\ new.rest = Ahead(m, n)
      BY <2>1, AheadIs DEF Frame, Frames
    <3>2. v = [w EXCEPT !.stack = more, !.visited = @ \cup {n}, !.path = @ \cup {n}]
      BY <1>6, <2>6 DEF Visit, top, under, n, after, lower
    <3> HIDE DEF new
    <3>3. more \in Seq(Frames(m)) /\ Len(more) = high + 1 /\ more[high + 1] = new
          /\ \A i \in 1..high : more[i] = after[i]
      BY <3>1, <2>3, AppendProperties
    <3> HIDE DEF more
    <3>4. v \in Searches(m) /\ v.stack = more /\ v.visited = w.visited \cup {n} /\ v.path = w.path \cup {n} /\ ~v.found
      <4> DEFINE visited == w.visited \cup {n}
                 path == w.path \cup {n}
      <4>1. v = [w EXCEPT !.stack = more, !.visited = visited, !.path = path]
        BY <3>2
      <4>2. visited \in SUBSET Names(m) /\ path \in SUBSET Names(m)
        BY <2>1, <1>1
      <4> HIDE DEF visited, path, v
      <4>3. v \in Searches(m) /\ v.stack = more /\ v.visited = visited /\ v.path = path /\ ~v.found
        BY <4>1, <4>2, <3>3 DEF Searches
      <4> QED
        BY <4>3 DEF visited, path
    <3>5. high \in 1..high /\ \A i \in 1..(high - 1) : i \in 1..high
      BY <1>1
    <3>6. Takes(w, v, n)
      <4> HIDE DEF v
      <4> QED
        BY <3>3, <3>4, <3>5, <2>1, <2>2, <2>3, <1>2 DEF Takes, Same, high
    <3>7. Enters(m, w, v, n)
      <4> HIDE DEF v
      <4> QED
        BY <3>1, <3>3, <3>4, <3>6, <2>6 DEF Enters, high
    <3> QED
      BY <3>4, <3>7, <2>1
  <2> QED
    BY <2>4, <2>5, <2>6
<1> QED
  BY <1>5, <1>6

(* The walk is its first state and the moves from there.                   *)
LEMMA DeepIs ==
  ASSUME NEW m, Checked(m)
  PROVE  /\ Entering(m) \in Searches(m)
         /\ Deep(m) \in [Nat -> Searches(m)]
         /\ Deep(m)[0] = Entering(m)
         /\ \A k \in Nat : Deep(m)[k + 1] = Visit(m, Deep(m)[k])
<1> DEFINE F == [w \in Searches(m) |-> Visit(m, w)]
           Is(h) == h = [k \in Nat |-> IF k = 0 THEN Entering(m) ELSE Visit(m, h[k - 1])]
<1>1. Entering(m) \in Searches(m)
  <2> DEFINE root == Frame(Nil, m.starts)
             first == << root >>
  <2>1. root \in Frames(m)
    BY AheadIs DEF Frame, Frames
  <2> HIDE DEF root
  <2>2. first \in Seq(Frames(m))
    BY <2>1
  <2> HIDE DEF first
  <2>3. Entering(m) = [stack |-> first, visited |-> {}, path |-> {}, found |-> FALSE]
    BY DEF Entering, first, root
  <2> QED
    BY <2>2, <2>3 DEF Searches
<1>2. F \in [Searches(m) -> Searches(m)]
  <2>1. ASSUME NEW w \in Searches(m) PROVE Visit(m, w) \in Searches(m)
    <3>1. CASE w.found \/ w.stack = << >>
      <4>1. Visit(m, w) = w
        BY <3>1 DEF Visit
      <4> QED
        BY <4>1
    <3>2. CASE ~w.found /\ w.stack # << >>
      BY <3>2, VisitIs
    <3> QED
      BY <3>1, <3>2
  <2> QED
    BY <2>1
<1>3. PICK g \in [Nat -> Searches(m)] : g = [k \in Nat |-> IF k = 0 THEN Entering(m) ELSE F[g[k - 1]]]
  <2> HIDE DEF F
  <2> QED
    BY <1>1, <1>2, Iterates
<1>4. Is(g)
  <2>1. ASSUME NEW k \in Nat PROVE g[k] = IF k = 0 THEN Entering(m) ELSE Visit(m, g[k - 1])
    <3>1. CASE k = 0
      BY <3>1, <1>3
    <3>2. CASE k # 0
      <4>1. k - 1 \in Nat
        BY <3>2
      <4>2. g[k] = F[g[k - 1]] /\ g[k - 1] \in Searches(m)
        BY <4>1, <3>2, <1>3
      <4> QED
        BY <4>2, <3>2
    <3> QED
      BY <3>1, <3>2
  <2> QED
    BY <2>1
<1>5. Deep(m) = CHOOSE h : Is(h)
  BY DEF Deep
<1>6. Is(Deep(m))
  <2> HIDE DEF Is
  <2> QED
    BY <1>4, <1>5
<1>7. Deep(m)[0] = Entering(m) /\ \A k \in Nat : Deep(m)[k + 1] = Visit(m, Deep(m)[k])
  <2>1. ASSUME NEW k \in Nat PROVE Deep(m)[k + 1] = Visit(m, Deep(m)[k])
    <3>1. k + 1 \in Nat /\ k + 1 # 0 /\ k + 1 - 1 = k
      OBVIOUS
    <3> QED
      BY <3>1, <1>6
  <2> QED
    BY <2>1, <1>6
<1>8. Deep(m) \in [Nat -> Searches(m)]
  <2> DEFINE P == {k \in Nat : Deep(m)[k] \in Searches(m)}
  <2>1. 0 \in P
    BY <1>1, <1>7
  <2>2. ASSUME NEW k \in P PROVE k + 1 \in P
    BY <1>2, <1>7
  <2>3. P = Nat
    <3> HIDE DEF P
    <3>1. P \in SUBSET Nat
      BY DEF P
    <3> QED
      BY <2>1, <2>2, <3>1, Upwards
  <2>4. Deep(m) = [k \in Nat |-> Deep(m)[k]]
    BY <1>6
  <2> QED
    BY <2>3, <2>4
<1> QED
  BY <1>1, <1>7, <1>8

(* What holds of the frames: the lowest is the loop over the entries, the  *)
(* others are the steps of the path, once each, and each leads to the next *)
(* and to what it has left.                                                *)
Ends(m, name) == Range(Ahead(m, name))
Done(w) == w.visited \ w.path

Stacked(m, w) ==
  /\ w.path \subseteq w.visited
  /\ \A i \in 1..Len(w.stack) : IF i = 1 THEN w.stack[i].name = Nil ELSE w.stack[i].name \in w.path
  /\ \A n \in w.path : \E i \in 2..Len(w.stack) : w.stack[i].name = n
  /\ \A i, j \in 1..Len(w.stack) : w.stack[i].name = w.stack[j].name => i = j

Linked(m, w) ==
  \A i \in 1..Len(w.stack) :
    /\ Range(w.stack[i].rest) \subseteq Ends(m, w.stack[i].name)
    /\ Len(w.stack[i].rest) <= Len(Ahead(m, w.stack[i].name))
    /\ i + 1 \in 1..Len(w.stack) => w.stack[i + 1].name \in Ends(m, w.stack[i].name)

(* What a step leads to is done, or left, or being visited; what is done   *)
(* leads to what is done, and no part of it leads into itself for ever.    *)
Covered(m, w) ==
  /\ \A i \in 1..Len(w.stack) : \A n \in Ends(m, w.stack[i].name) :
       \/ n \in Done(w) \cup Range(w.stack[i].rest)
       \/ i + 1 \in 1..Len(w.stack) /\ n = w.stack[i + 1].name
  /\ Len(w.stack) = 0 => Ends(m, Nil) \subseteq Done(w)
  /\ \A n \in Done(w) : Out(m, n) \subseteq Done(w)
  /\ \A S \in SUBSET Done(w) : S # {} => \E n \in S : Out(m, n) \cap S = {}

(* The places where the walk has not stood yet.                            *)
Unstood(m, w) ==
  {p \in Places(m) :
     \/ p[1] \notin w.visited \cup {Nil}
     \/ \E i \in 1..Len(w.stack) : w.stack[i].name = p[1] /\ p[2] <= Len(w.stack[i].rest)}

DeepInv(m, k, w) ==
  IF w.found THEN ~Acyclic(m)
  ELSE /\ Stacked(m, w) /\ Linked(m, w) /\ Covered(m, w)
       /\ Len(w.stack) # 0 => k + Cardinality(Unstood(m, w)) <= Cardinality(Places(m))

(* What a frame leads to, by its step.                                     *)
LEMMA EndsIs ==
  ASSUME NEW m, Checked(m)
  PROVE  /\ \A n \in Names(m) : Ends(m, n) = Out(m, n) /\ Out(m, n) \subseteq Names(m)
         /\ Ends(m, Nil) = Range(m.starts)
         /\ \A n \in Names(m) \cup {Nil} : Len(Ahead(m, n)) \in Nat
         /\ Nil \notin Names(m)
BY AheadIs DEF Ends

(* What the shape of a walk gives about its frames.                        *)
LEMMA StackIs ==
  ASSUME NEW m, Checked(m), NEW w \in Searches(m)
  PROVE  /\ Len(w.stack) \in Nat /\ (w.stack = << >> <=> Len(w.stack) = 0)
         /\ w.visited \subseteq Names(m) /\ w.path \subseteq Names(m)
         /\ \A i \in 1..Len(w.stack) :
              /\ w.stack[i].name \in Names(m) \cup {Nil} /\ Len(w.stack[i].rest) \in Nat
              /\ Len(Ahead(m, w.stack[i].name)) \in Nat
<1>1. w.stack \in Seq(Frames(m)) /\ w.visited \subseteq Names(m) /\ w.path \subseteq Names(m)
  BY DEF Searches
<1>2. \A i \in 1..Len(w.stack) : w.stack[i] \in Frames(m)
  BY <1>1
<1>3. \A i \in 1..Len(w.stack) : w.stack[i].name \in Names(m) \cup {Nil} /\ Len(w.stack[i].rest) \in Nat
  BY <1>2, FramesIs
<1> QED
  BY <1>1, <1>3, EndsIs

(* There are no more of those than places.                                 *)
LEMMA UnstoodIs ==
  ASSUME NEW m, Checked(m), NEW w
  PROVE  /\ IsFiniteSet(Unstood(m, w)) /\ Cardinality(Unstood(m, w)) \in Nat
         /\ Cardinality(Unstood(m, w)) <= Cardinality(Places(m))
<1>1. Unstood(m, w) \subseteq Places(m)
  BY DEF Unstood
<1> QED
  BY <1>1, PlacesFinite, FS_Subset, FS_CardinalityType

(* It holds before the first move.                                         *)
LEMMA DeepStarts ==
  ASSUME NEW m, Checked(m)
  PROVE  DeepInv(m, 0, Entering(m))
<1> DEFINE w == Entering(m)
<1>1. Len(w.stack) = 1 /\ w.stack[1].name = Nil /\ w.stack[1].rest = m.starts
      /\ w.visited = {} /\ w.path = {} /\ ~w.found
  BY DEF Entering, Frame
<1> HIDE DEF w
<1>2. Ends(m, Nil) = Range(m.starts) /\ Len(Ahead(m, Nil)) = Len(m.starts) /\ Len(m.starts) \in Nat
  BY EndsIs, AheadIs
<1>3. Stacked(m, w)
  BY <1>1 DEF Stacked
<1>4. Linked(m, w)
  BY <1>1, <1>2 DEF Linked
<1>5. Covered(m, w)
  BY <1>1, <1>2 DEF Covered, Done
<1>6. 0 + Cardinality(Unstood(m, w)) <= Cardinality(Places(m))
  BY UnstoodIs
<1> QED
  BY <1>1, <1>3, <1>4, <1>5, <1>6 DEF DeepInv, w

(* Found: a step that leads to a step of the path closes a way round.      *)
LEMMA FindsCycle ==
  ASSUME NEW m, Checked(m), NEW w \in Searches(m), Stacked(m, w), Linked(m, w), Len(w.stack) # 0,
         NEW n \in w.path, n \in Range(w.stack[Len(w.stack)].rest)
  PROVE  ~Acyclic(m)
<1>1. Len(w.stack) \in Nat /\ w.path \subseteq Names(m)
  BY StackIs
<1>2. PICK low \in 2..Len(w.stack) : w.stack[low].name = n
  BY DEF Stacked
<1> DEFINE S == {w.stack[i].name : i \in low..Len(w.stack)}
<1>3. \A i \in low..Len(w.stack) : i \in 1..Len(w.stack) /\ i # 1
  BY <1>1, <1>2
<1>4. S \in SUBSET Names(m)
  BY <1>1, <1>3 DEF Stacked
<1>5. n \in S
  BY <1>1, <1>2
<1>6. ASSUME NEW i \in low..Len(w.stack) PROVE Out(m, w.stack[i].name) \cap S # {}
  <2>1. Ends(m, w.stack[i].name) = Out(m, w.stack[i].name)
    BY <1>4, EndsIs
  <2>2. CASE i = Len(w.stack)
    BY <2>1, <2>2, <1>3, <1>5 DEF Linked
  <2>3. CASE i # Len(w.stack)
    <3>1. i + 1 \in low..Len(w.stack) /\ i + 1 \in 1..Len(w.stack) /\ i \in 1..Len(w.stack)
      BY <1>1, <1>2, <2>3
    <3>2. w.stack[i + 1].name \in Ends(m, w.stack[i].name)
      BY <3>1 DEF Linked
    <3> QED
      BY <2>1, <3>1, <3>2
  <2> QED
    BY <2>2, <2>3
<1> HIDE DEF S
<1>7. \A o \in S : Out(m, o) \cap S # {}
  BY <1>6 DEF S
<1> QED
  BY <1>4, <1>5, <1>7 DEF Acyclic

(* A place the walk has left for good.                                     *)
LEMMA UnstoodLess ==
  ASSUME NEW m, Checked(m), NEW w, NEW v, NEW k \in Nat, NEW p \in Unstood(m, w),
         Unstood(m, v) \subseteq Unstood(m, w) \ {p},
         k + Cardinality(Unstood(m, w)) <= Cardinality(Places(m))
  PROVE  k + 1 + Cardinality(Unstood(m, v)) <= Cardinality(Places(m))
<1>1. /\ IsFiniteSet(Unstood(m, w)) /\ Cardinality(Unstood(m, w)) \in Nat /\ Cardinality(Unstood(m, v)) \in Nat
      /\ Cardinality(Places(m)) \in Nat
  BY UnstoodIs, PlacesFinite
<1>2. IsFiniteSet(Unstood(m, w) \ {p}) /\ Cardinality(Unstood(m, w) \ {p}) = Cardinality(Unstood(m, w)) - 1
  BY <1>1, FS_RemoveElement
<1>3. Cardinality(Unstood(m, v)) <= Cardinality(Unstood(m, w) \ {p})
  BY <1>2, FS_Subset
<1> QED
  BY <1>1, <1>2, <1>3

(* The place where the walk stands.                                        *)
Standing(w) == << w.stack[Len(w.stack)].name, Len(w.stack[Len(w.stack)].rest) >>

(* The walk has not stood where it stands, before it moves on.             *)
LEMMA StandsHere ==
  ASSUME NEW m, Checked(m), NEW w \in Searches(m), Linked(m, w), Len(w.stack) # 0
  PROVE  Standing(w) \in Unstood(m, w)
<1> DEFINE high == Len(w.stack)
           frame == w.stack[high]
<1>1. high \in 1..Len(w.stack) /\ high \in Nat
  BY StackIs
<1>2. frame.name \in Names(m) \cup {Nil} /\ Len(frame.rest) \in Nat /\ Len(Ahead(m, frame.name)) \in Nat
  BY <1>1, StackIs
<1>3. Len(frame.rest) <= Len(Ahead(m, frame.name))
  BY <1>1 DEF Linked
<1> HIDE DEF frame
<1>4. << frame.name, Len(frame.rest) >> \in Places(m)
  <2>1. Len(frame.rest) \in 0..Len(Ahead(m, frame.name))
    BY <1>2, <1>3
  <2>2. << frame.name, Len(frame.rest) >> \in {frame.name} \X (0..Len(Ahead(m, frame.name)))
    BY <2>1
  <2> QED
    BY <1>2, <2>2 DEF Places
<1>5. Standing(w) = << frame.name, Len(frame.rest) >>
  BY DEF Standing, frame
<1>6. Standing(w)[1] = w.stack[high].name /\ Standing(w)[2] <= Len(w.stack[high].rest)
  BY <1>2, <1>5 DEF frame
<1> QED
  BY <1>1, <1>4, <1>5, <1>6 DEF Unstood

(* A visit that is over adds its step to what is done.                     *)
LEMMA PopsKeeps ==
  ASSUME NEW m, Checked(m), NEW w \in Searches(m), NEW v \in Searches(m), Len(w.stack) # 0, Pops(w, v),
         Stacked(m, w), Linked(m, w), Covered(m, w)
  PROVE  Stacked(m, v) /\ Linked(m, v) /\ Covered(m, v) /\ Unstood(m, v) \subseteq Unstood(m, w) \ {Standing(w)}
<1> DEFINE high == Len(w.stack)
           name == w.stack[high].name
<1>1. /\ high \in Nat \ {0} /\ Len(v.stack) = high - 1 /\ Same(w, v, high - 1)
      /\ v.visited = w.visited /\ v.path = w.path \ {name}
      /\ Len(w.stack[high].rest) = 0 /\ Range(w.stack[high].rest) = {}
  BY StackIs DEF Pops
<1>2. \A i \in 1..Len(v.stack) : i \in 1..Len(w.stack) /\ i # high /\ v.stack[i] = w.stack[i]
  BY <1>1 DEF Same
<1>3. high \in 1..Len(w.stack) /\ name \in Names(m) \cup {Nil} /\ w.visited \subseteq Names(m)
  <2>1. high \in 1..Len(w.stack)
    BY <1>1
  <2> QED
    BY <2>1, StackIs
<1>4. \A i \in 1..Len(v.stack) : w.stack[i].name # name
  BY <1>2, <1>3 DEF Stacked
<1>5. Stacked(m, v)
  <2>1. v.path \subseteq v.visited
    BY <1>1 DEF Stacked
  <2>2. ASSUME NEW i \in 1..Len(v.stack)
        PROVE  IF i = 1 THEN v.stack[i].name = Nil ELSE v.stack[i].name \in v.path
    <3>1. IF i = 1 THEN w.stack[i].name = Nil ELSE w.stack[i].name \in w.path
      BY <1>2 DEF Stacked
    <3>2. v.stack[i].name = w.stack[i].name /\ w.stack[i].name # name
      BY <1>2, <1>4
    <3> HIDE DEF name
    <3> QED
      BY <3>1, <3>2, <1>1
  <2>3. ASSUME NEW n \in v.path PROVE \E i \in 2..Len(v.stack) : v.stack[i].name = n
    <3>1. n \in w.path /\ n # name
      BY <1>1
    <3>2. PICK i \in 2..Len(w.stack) : w.stack[i].name = n
      BY <3>1 DEF Stacked
    <3>3. i \in 2..Len(v.stack)
      <4>1. i # high
        BY <3>1, <3>2
      <4>2. Len(v.stack) = Len(w.stack) - 1 /\ Len(w.stack) \in Nat
        BY <1>1
      <4> QED
        BY <4>1, <4>2
    <3>4. i \in 1..Len(v.stack)
      BY <3>3, <1>1
    <3>5. v.stack[i].name = n
      BY <3>2, <3>4, <1>2
    <3> QED
      BY <3>3, <3>5
  <2>4. \A i, j \in 1..Len(v.stack) : v.stack[i].name = v.stack[j].name => i = j
    BY <1>2 DEF Stacked
  <2> QED
    BY <2>1, <2>2, <2>3, <2>4 DEF Stacked
<1>6. Linked(m, v)
  BY <1>1, <1>2 DEF Linked
<1>7. Done(v) = Done(w) \cup ({name} \ {Nil}) /\ name \notin Done(w)
  <2>1. CASE high = 1
    <3>1. name = Nil
      BY <1>3, <2>1 DEF Stacked
    <3> QED
      BY <3>1, <1>1, <1>3, EndsIs DEF Done
  <2>2. CASE high # 1
    <3>1. name \in w.path /\ name \in w.visited
      BY <1>3, <2>2 DEF Stacked
    <3> QED
      BY <3>1, <1>1, <1>3, EndsIs DEF Done
  <2> QED
    BY <2>1, <2>2
<1>8. Ends(m, name) \subseteq Done(w)
  <2>1. \A n \in Ends(m, name) :
          \/ n \in Done(w) \cup Range(w.stack[high].rest)
          \/ high + 1 \in 1..Len(w.stack) /\ n = w.stack[high + 1].name
    BY <1>3 DEF Covered
  <2>2. high + 1 \notin 1..Len(w.stack)
    BY <1>1
  <2> QED
    BY <2>1, <2>2, <1>1
<1>9. name # Nil => name \in Names(m) /\ Out(m, name) \subseteq Done(w)
  BY <1>3, <1>8, EndsIs
<1>10. Covered(m, v)
  <2>1. ASSUME NEW i \in 1..Len(v.stack), NEW n \in Ends(m, v.stack[i].name)
        PROVE  \/ n \in Done(v) \cup Range(v.stack[i].rest)
               \/ i + 1 \in 1..Len(v.stack) /\ n = v.stack[i + 1].name
    <3>1. i \in 1..Len(w.stack) /\ v.stack[i] = w.stack[i]
      BY <1>2
    <3>2. CASE n \in Done(w) \cup Range(w.stack[i].rest)
      BY <3>1, <3>2, <1>7
    <3>3. CASE i + 1 \in 1..Len(w.stack) /\ n = w.stack[i + 1].name
      <4>1. CASE i + 1 = high
        <5>1. n = name /\ high # 1
          BY <4>1, <3>3, <1>1
        <5>2. n # Nil
          BY <5>1, <1>3, EndsIs DEF Stacked
        <5> QED
          BY <5>1, <5>2, <1>7
      <4>2. CASE i + 1 # high
        <5>1. i + 1 \in 1..Len(v.stack)
          BY <4>2, <3>3, <1>1
        <5> QED
          BY <5>1, <3>3, <1>2
      <4> QED
        BY <4>1, <4>2
    <3> QED
      BY <3>1, <3>2, <3>3 DEF Covered
  <2>2. Len(v.stack) = 0 => Ends(m, Nil) \subseteq Done(v)
    <3> SUFFICES ASSUME Len(v.stack) = 0 PROVE Ends(m, Nil) \subseteq Done(v)
      OBVIOUS
    <3>1. high = 1
      <4>1. 0 = high - 1 /\ high \in Nat
        BY <1>1
      <4> HIDE DEF high, name
      <4> QED
        BY <4>1
    <3>2. name = Nil
      BY <3>1, <1>3 DEF Stacked
    <3> QED
      BY <3>2, <1>7, <1>8
  <2>3. \A n \in Done(v) : Out(m, n) \subseteq Done(v)
    BY <1>7, <1>9 DEF Covered
  <2>4. ASSUME NEW S \in SUBSET Done(v), S # {} PROVE \E n \in S : Out(m, n) \cap S = {}
    <3>1. S \ {name} \in SUBSET Done(w)
      BY <1>7
    <3>2. CASE S \ {name} = {}
      <4>1. S = {name} /\ name # Nil
        BY <3>2, <2>4, <1>7
      <4> QED
        BY <4>1, <1>7, <1>9
    <3>3. CASE S \ {name} # {}
      <4>1. PICK n \in S \ {name} : Out(m, n) \cap (S \ {name}) = {}
        BY <3>1, <3>3 DEF Covered
      <4>2. n \in Done(w)
        BY <3>1, <4>1
      <4>3. name \notin Out(m, n)
        BY <4>2, <1>7 DEF Covered
      <4> QED
        BY <4>1, <4>3
    <3> QED
      BY <3>2, <3>3
  <2> HIDE DEF high, name
  <2> QED
    BY <2>1, <2>2, <2>3, <2>4 DEF Covered
<1>11. Unstood(m, v) \subseteq Unstood(m, w) \ {Standing(w)}
  <2> SUFFICES ASSUME NEW p \in Unstood(m, v) PROVE p \in Unstood(m, w) /\ p # Standing(w)
    OBVIOUS
  <2>1. Standing(w)[1] = name
    BY DEF Standing
  <2>2. CASE p[1] \notin v.visited \cup {Nil}
    <3>1. name \in w.visited \cup {Nil}
      BY <1>3 DEF Stacked
    <3> QED
      BY <3>1, <2>1, <2>2, <1>1 DEF Unstood
  <2>3. CASE \E i \in 1..Len(v.stack) : v.stack[i].name = p[1] /\ p[2] <= Len(v.stack[i].rest)
    <3>1. PICK i \in 1..Len(v.stack) : v.stack[i].name = p[1] /\ p[2] <= Len(v.stack[i].rest)
      BY <2>3
    <3> QED
      BY <3>1, <2>1, <1>2, <1>4 DEF Unstood
  <2> QED
    BY <2>2, <2>3 DEF Unstood
<1> QED
  BY <1>5, <1>6, <1>10, <1>11

(* The frames that were there before a move that takes a step from the     *)
(* highest.                                                                *)
Taken(m, w, v, n, high) ==
  /\ high \in Nat \ {0} /\ high \in 1..Len(w.stack)
  /\ \A i \in 1..high :
       /\ v.stack[i].name = w.stack[i].name
       /\ i # high => v.stack[i] = w.stack[i]
       /\ Len(v.stack[i].rest) \in Nat /\ Len(w.stack[i].rest) \in Nat /\ Len(Ahead(m, w.stack[i].name)) \in Nat
       /\ Range(v.stack[i].rest) \subseteq Range(w.stack[i].rest) /\ Len(v.stack[i].rest) <= Len(w.stack[i].rest)
  /\ Range(w.stack[high].rest) = {n} \cup Range(v.stack[high].rest)
  /\ Len(w.stack[high].rest) = Len(v.stack[high].rest) + 1
  /\ n \in Ends(m, w.stack[high].name)

(* A move that takes a step changes the highest of them only.              *)
LEMMA TakesIs ==
  ASSUME NEW m, Checked(m), NEW w \in Searches(m), NEW v \in Searches(m), Len(w.stack) # 0,
         Len(v.stack) \in {Len(w.stack), Len(w.stack) + 1},
         NEW n \in Names(m), Takes(w, v, n), Linked(m, w)
  PROVE  Taken(m, w, v, n, Len(w.stack))
<1>1. PICK high : high = Len(w.stack)
  OBVIOUS
<1>2. high \in Nat \ {0} /\ high \in 1..Len(w.stack)
  <2>1. high \in Nat \ {0}
    BY <1>1, StackIs
  <2> QED
    BY <1>1, <2>1
<1>3. Same(w, v, high - 1) /\ v.stack[high].name = w.stack[high].name
  BY <1>1 DEF Takes
<1>4. Range(w.stack[high].rest) = {n} \cup Range(v.stack[high].rest)
      /\ Len(w.stack[high].rest) = Len(v.stack[high].rest) + 1
  BY <1>1 DEF Takes
<1>5. ASSUME NEW i \in 1..high
      PROVE  /\ v.stack[i].name = w.stack[i].name
             /\ i # high => v.stack[i] = w.stack[i]
             /\ Len(v.stack[i].rest) \in Nat /\ Len(w.stack[i].rest) \in Nat /\ Len(Ahead(m, w.stack[i].name)) \in Nat
             /\ Range(v.stack[i].rest) \subseteq Range(w.stack[i].rest)
             /\ Len(v.stack[i].rest) <= Len(w.stack[i].rest)
  <2>1. i \in 1..Len(w.stack) /\ i \in 1..Len(v.stack)
    BY <1>1, <1>2
  <2>2. Len(v.stack[i].rest) \in Nat /\ Len(w.stack[i].rest) \in Nat /\ Len(Ahead(m, w.stack[i].name)) \in Nat
    BY <2>1, StackIs
  <2>3. CASE i = high
    <3>1. v.stack[i].name = w.stack[i].name
      BY <2>3, <1>3
    <3>2. Len(w.stack[i].rest) = Len(v.stack[i].rest) + 1
      BY <2>3, <1>4
    <3>3. Len(v.stack[i].rest) <= Len(w.stack[i].rest)
      BY <3>2, <2>2
    <3>4. Range(v.stack[i].rest) \subseteq Range(w.stack[i].rest)
      BY <2>3, <1>4
    <3> QED
      BY <3>1, <3>3, <3>4, <2>2, <2>3
  <2>4. CASE i # high
    <3>1. i \in 1..(high - 1)
      BY <2>4, <1>2
    <3>2. v.stack[i] = w.stack[i]
      BY <3>1, <1>3 DEF Same
    <3> QED
      BY <3>2, <2>2, <2>4
  <2> QED
    BY <2>3, <2>4
<1>6. n \in Ends(m, w.stack[high].name)
  BY <1>2, <1>4 DEF Linked
<1> QED
  BY <1>1, <1>2, <1>4, <1>5, <1>6 DEF Taken

(* A step that has been visited is passed over.                            *)
LEMMA PassesKeeps ==
  ASSUME NEW m, Checked(m), NEW w \in Searches(m), NEW v \in Searches(m), Len(w.stack) # 0,
         NEW n \in Names(m), Passes(w, v, n),
         Stacked(m, w), Linked(m, w), Covered(m, w)
  PROVE  Stacked(m, v) /\ Linked(m, v) /\ Covered(m, v) /\ Unstood(m, v) \subseteq Unstood(m, w) \ {Standing(w)}
<1>1. PICK high : high = Len(w.stack)
  OBVIOUS
<1>2. /\ Takes(w, v, n) /\ Len(v.stack) = high /\ v.visited = w.visited /\ v.path = w.path
      /\ n \in Done(w) /\ Done(v) = Done(w)
  BY <1>1 DEF Passes, Done
<1>3. /\ high \in Nat \ {0} /\ high \in 1..Len(w.stack)
      /\ \A i \in 1..high :
           /\ v.stack[i].name = w.stack[i].name
           /\ i # high => v.stack[i] = w.stack[i]
           /\ Len(v.stack[i].rest) \in Nat /\ Len(w.stack[i].rest) \in Nat /\ Len(Ahead(m, w.stack[i].name)) \in Nat
           /\ Range(v.stack[i].rest) \subseteq Range(w.stack[i].rest)
           /\ Len(v.stack[i].rest) <= Len(w.stack[i].rest)
      /\ Range(w.stack[high].rest) = {n} \cup Range(v.stack[high].rest)
      /\ Len(w.stack[high].rest) = Len(v.stack[high].rest) + 1
      /\ n \in Ends(m, w.stack[high].name)
  <2>1. Taken(m, w, v, n, high)
    BY <1>1, <1>2, TakesIs
  <2> QED
    BY <2>1 DEF Taken
<1>4. \A i \in 1..high : i \in 1..Len(w.stack) /\ i \in 1..Len(v.stack)
  BY <1>1, <1>2
<1>6. Stacked(m, v)
  <2>1. v.path \subseteq v.visited
    BY <1>2 DEF Stacked
  <2>2. \A i \in 1..Len(v.stack) : IF i = 1 THEN v.stack[i].name = Nil ELSE v.stack[i].name \in v.path
    BY <1>1, <1>2, <1>3 DEF Stacked
  <2>3. ASSUME NEW o \in v.path PROVE \E i \in 2..Len(v.stack) : v.stack[i].name = o
    <3>1. PICK i \in 2..Len(w.stack) : w.stack[i].name = o
      BY <1>2 DEF Stacked
    <3>2. i \in 2..Len(v.stack) /\ i \in 1..high
      BY <1>1, <1>2, <1>3
    <3> QED
      BY <3>1, <3>2, <1>3
  <2>4. \A i, j \in 1..Len(v.stack) : v.stack[i].name = v.stack[j].name => i = j
    BY <1>1, <1>2, <1>3 DEF Stacked
  <2> QED
    BY <2>1, <2>2, <2>3, <2>4 DEF Stacked
<1>7. Linked(m, v)
  <2> SUFFICES ASSUME NEW i \in 1..high
               PROVE  /\ Range(v.stack[i].rest) \subseteq Ends(m, v.stack[i].name)
                      /\ Len(v.stack[i].rest) <= Len(Ahead(m, v.stack[i].name))
                      /\ i + 1 \in 1..high => v.stack[i + 1].name \in Ends(m, v.stack[i].name)
    BY <1>2 DEF Linked
  <2>1. Range(v.stack[i].rest) \subseteq Range(w.stack[i].rest) /\ Len(v.stack[i].rest) <= Len(w.stack[i].rest)
    BY <1>3
  <2>2. /\ Range(w.stack[i].rest) \subseteq Ends(m, w.stack[i].name)
        /\ Len(w.stack[i].rest) <= Len(Ahead(m, w.stack[i].name))
        /\ i + 1 \in 1..high => w.stack[i + 1].name \in Ends(m, w.stack[i].name)
    BY <1>1, <1>4 DEF Linked
  <2>3. Len(v.stack[i].rest) <= Len(Ahead(m, v.stack[i].name))
    <3>1. v.stack[i].name = w.stack[i].name
      BY <1>3
    <3>2. Len(v.stack[i].rest) <= Len(Ahead(m, w.stack[i].name))
      <4>1. Len(v.stack[i].rest) \in Nat /\ Len(w.stack[i].rest) \in Nat /\ Len(Ahead(m, w.stack[i].name)) \in Nat
        BY <1>3
      <4> QED
        BY <4>1, <2>1, <2>2
    <3> QED
      BY <3>1, <3>2
  <2> QED
    BY <2>1, <2>2, <2>3, <1>3
<1>8. Covered(m, v)
  <2>1. ASSUME NEW i \in 1..high, NEW o \in Ends(m, v.stack[i].name)
        PROVE  \/ o \in Done(v) \cup Range(v.stack[i].rest)
               \/ i + 1 \in 1..high /\ o = v.stack[i + 1].name
    <3>1. \/ o \in Done(w) \cup Range(w.stack[i].rest)
          \/ i + 1 \in 1..high /\ o = w.stack[i + 1].name
      BY <1>1, <1>3, <1>4 DEF Covered
    <3> QED
      BY <3>1, <1>2, <1>3
  <2> QED
    BY <2>1, <1>2, <1>3 DEF Covered
<1>9. Unstood(m, v) \subseteq Unstood(m, w) \ {Standing(w)}
  <2> SUFFICES ASSUME NEW p \in Unstood(m, v) PROVE p \in Unstood(m, w) /\ p # Standing(w)
    OBVIOUS
  <2>1. Standing(w)[1] = w.stack[high].name /\ Standing(w)[2] = Len(w.stack[high].rest)
    BY <1>1 DEF Standing
  <2>2. CASE p[1] \notin v.visited \cup {Nil}
    <3>1. w.stack[high].name \in w.visited \cup {Nil}
      BY <1>3 DEF Stacked
    <3> QED
      BY <3>1, <2>1, <2>2, <1>2 DEF Unstood
  <2>3. CASE \E i \in 1..Len(v.stack) : v.stack[i].name = p[1] /\ p[2] <= Len(v.stack[i].rest)
    <3>1. PICK i \in 1..high : v.stack[i].name = p[1] /\ p[2] <= Len(v.stack[i].rest)
      BY <2>3, <1>2
    <3>2. p \in Places(m)
      BY DEF Unstood
    <3>3. p[2] \in Nat
      <4>1. PICK name \in Names(m) \cup {Nil} : p \in {name} \X (0..Len(Ahead(m, name)))
        BY <3>2 DEF Places
      <4> QED
        BY <4>1
    <3>4. p[2] <= Len(w.stack[i].rest) /\ w.stack[i].name = p[1]
      <4>1. Len(v.stack[i].rest) \in Nat /\ Len(w.stack[i].rest) \in Nat /\ Len(v.stack[i].rest) <= Len(w.stack[i].rest)
        BY <1>3
      <4>2. PICK at \in Nat, now \in Nat, was \in Nat :
              at = p[2] /\ now = Len(v.stack[i].rest) /\ was = Len(w.stack[i].rest)
        BY <4>1, <3>3
      <4>3. at <= now /\ now <= was
        BY <4>1, <4>2, <3>1
      <4>4. at <= was
        BY <4>3
      <4> QED
        BY <4>2, <4>4, <3>1, <1>3
    <3>5. p # Standing(w)
      <4> SUFFICES ASSUME p = Standing(w) PROVE FALSE
        OBVIOUS
      <4>1. i = high
        BY <2>1, <3>4, <1>3, <1>4 DEF Stacked
      <4>2. Len(w.stack[high].rest) <= Len(v.stack[high].rest)
        BY <4>1, <2>1, <3>1
      <4>3. Len(w.stack[high].rest) = Len(v.stack[high].rest) + 1 /\ Len(v.stack[high].rest) \in Nat
        BY <1>3
      <4> QED
        BY <4>2, <4>3
    <3> QED
      BY <3>2, <3>4, <3>5, <1>1, <1>4 DEF Unstood
  <2> QED
    BY <2>2, <2>3 DEF Unstood
<1> QED
  BY <1>6, <1>7, <1>8, <1>9

(* A step that has not been visited joins the path, at the top.            *)
LEMMA EntersKeeps ==
  ASSUME NEW m, Checked(m), NEW w \in Searches(m), NEW v \in Searches(m), Len(w.stack) # 0,
         NEW n \in Names(m), Enters(m, w, v, n),
         Stacked(m, w), Linked(m, w), Covered(m, w)
  PROVE  Stacked(m, v) /\ Linked(m, v) /\ Covered(m, v) /\ Unstood(m, v) \subseteq Unstood(m, w) \ {Standing(w)}
<1>1. PICK high : high = Len(w.stack)
  OBVIOUS
<1>2. /\ Takes(w, v, n) /\ Len(v.stack) = high + 1
      /\ v.visited = w.visited \cup {n} /\ v.path = w.path \cup {n}
      /\ n \notin w.visited \cup w.path /\ Done(v) = Done(w) /\ n \notin Done(w)
      /\ v.stack[high + 1].name = n /\ v.stack[high + 1].rest = Ahead(m, n)
  BY <1>1 DEF Enters, Done
<1>3. /\ high \in Nat \ {0} /\ high \in 1..Len(w.stack)
      /\ \A i \in 1..high :
           /\ v.stack[i].name = w.stack[i].name
           /\ i # high => v.stack[i] = w.stack[i]
           /\ Len(v.stack[i].rest) \in Nat /\ Len(w.stack[i].rest) \in Nat /\ Len(Ahead(m, w.stack[i].name)) \in Nat
           /\ Range(v.stack[i].rest) \subseteq Range(w.stack[i].rest)
           /\ Len(v.stack[i].rest) <= Len(w.stack[i].rest)
      /\ Range(w.stack[high].rest) = {n} \cup Range(v.stack[high].rest)
      /\ Len(w.stack[high].rest) = Len(v.stack[high].rest) + 1
      /\ n \in Ends(m, w.stack[high].name)
  <2>1. Taken(m, w, v, n, high)
    BY <1>1, <1>2, TakesIs
  <2> QED
    BY <2>1 DEF Taken
<1>4. /\ 1..Len(v.stack) = 1..high \cup {high + 1} /\ high + 1 # 1 /\ high + 1 \in 2..Len(v.stack)
      /\ \A i \in 1..high : i \in 1..Len(w.stack) /\ i # high + 1
      /\ \A i \in 2..Len(w.stack) : i \in 1..high /\ i \in 2..Len(v.stack)
  BY <1>1, <1>2, <1>3
<1>6. \A i \in 1..high : w.stack[i].name # n
  <2>1. n # Nil
    BY EndsIs
  <2> QED
    BY <2>1, <1>2, <1>4 DEF Stacked
<1>7. Stacked(m, v)
  <2>1. v.path \subseteq v.visited
    BY <1>2 DEF Stacked
  <2>2. ASSUME NEW i \in 1..Len(v.stack)
        PROVE  IF i = 1 THEN v.stack[i].name = Nil ELSE v.stack[i].name \in v.path
    <3>1. CASE i = high + 1
      BY <3>1, <1>2, <1>4
    <3>2. CASE i \in 1..high
      <4>1. IF i = 1 THEN w.stack[i].name = Nil ELSE w.stack[i].name \in w.path
        BY <3>2, <1>4 DEF Stacked
      <4> QED
        BY <3>2, <4>1, <1>2, <1>3
    <3> QED
      BY <3>1, <3>2, <1>4
  <2>3. ASSUME NEW o \in v.path PROVE \E i \in 2..Len(v.stack) : v.stack[i].name = o
    <3>1. CASE o = n
      BY <3>1, <1>2, <1>4
    <3>2. CASE o # n
      <4>1. PICK i \in 2..Len(w.stack) : w.stack[i].name = o
        BY <3>2, <1>2 DEF Stacked
      <4> QED
        BY <4>1, <1>3, <1>4
    <3> QED
      BY <3>1, <3>2
  <2>4. ASSUME NEW i \in 1..Len(v.stack), NEW j \in 1..Len(v.stack), v.stack[i].name = v.stack[j].name PROVE i = j
    <3>1. CASE i \in 1..high /\ j \in 1..high
      BY <3>1, <2>4, <1>3, <1>4 DEF Stacked
    <3>2. CASE i = high + 1 /\ j \in 1..high
      BY <3>2, <2>4, <1>2, <1>3, <1>6
    <3>3. CASE i \in 1..high /\ j = high + 1
      BY <3>3, <2>4, <1>2, <1>3, <1>6
    <3> QED
      BY <3>1, <3>2, <3>3, <1>4
  <2> QED
    BY <2>1, <2>2, <2>3, <2>4 DEF Stacked
<1>8. Linked(m, v)
  <2>1. ASSUME NEW i \in 1..high
        PROVE  /\ Range(v.stack[i].rest) \subseteq Ends(m, v.stack[i].name)
               /\ Len(v.stack[i].rest) <= Len(Ahead(m, v.stack[i].name))
               /\ v.stack[i + 1].name \in Ends(m, v.stack[i].name)
    <3>1. Range(v.stack[i].rest) \subseteq Range(w.stack[i].rest) /\ Len(v.stack[i].rest) <= Len(w.stack[i].rest)
      BY <1>3
    <3>2. /\ Range(w.stack[i].rest) \subseteq Ends(m, w.stack[i].name)
          /\ Len(w.stack[i].rest) <= Len(Ahead(m, w.stack[i].name))
      BY <1>4 DEF Linked
    <3>3. Len(v.stack[i].rest) <= Len(Ahead(m, v.stack[i].name))
      <4>1. v.stack[i].name = w.stack[i].name
        BY <1>3
      <4>2. Len(v.stack[i].rest) <= Len(Ahead(m, w.stack[i].name))
        <5>1. Len(v.stack[i].rest) \in Nat /\ Len(w.stack[i].rest) \in Nat /\ Len(Ahead(m, w.stack[i].name)) \in Nat
          BY <1>3
        <5> QED
          BY <5>1, <3>1, <3>2
      <4> QED
        BY <4>1, <4>2
    <3>4. v.stack[i + 1].name \in Ends(m, v.stack[i].name)
      <4>1. CASE i = high
        BY <4>1, <1>2, <1>3
      <4>2. CASE i # high
        <5>1. i + 1 \in 1..high
          BY <4>2, <1>3
        <5>2. w.stack[i + 1].name \in Ends(m, w.stack[i].name)
          BY <5>1, <1>4 DEF Linked
        <5> QED
          BY <5>1, <5>2, <1>3
      <4> QED
        BY <4>1, <4>2
    <3> QED
      BY <3>1, <3>2, <3>3, <3>4, <1>3
  <2>2. /\ Range(v.stack[high + 1].rest) \subseteq Ends(m, v.stack[high + 1].name)
        /\ Len(v.stack[high + 1].rest) <= Len(Ahead(m, v.stack[high + 1].name))
        /\ high + 1 + 1 \notin 1..Len(v.stack)
    <3>1. Len(Ahead(m, n)) \in Nat
      BY EndsIs
    <3> QED
      BY <3>1, <1>2, <1>3 DEF Ends
  <2> QED
    BY <2>1, <2>2, <1>4 DEF Linked
<1>9. Covered(m, v)
  <2>1. ASSUME NEW i \in 1..Len(v.stack), NEW o \in Ends(m, v.stack[i].name)
        PROVE  \/ o \in Done(v) \cup Range(v.stack[i].rest)
               \/ i + 1 \in 1..Len(v.stack) /\ o = v.stack[i + 1].name
    <3>1. CASE i = high + 1
      BY <3>1, <2>1, <1>2 DEF Ends
    <3>2. CASE i = high
      <4>1. o \in Done(w) \cup Range(w.stack[high].rest)
        <5>1. ~ (high + 1 \in 1..Len(w.stack))
          BY <1>1, <1>3
        <5> QED
          BY <5>1, <3>2, <2>1, <1>3 DEF Covered
      <4>2. i + 1 \in 1..Len(v.stack) /\ v.stack[i + 1].name = n
        BY <3>2, <1>2, <1>3
      <4> QED
        BY <4>1, <4>2, <3>2, <1>2, <1>3
    <3>3. CASE i \in 1..high /\ i # high
      <4>1. i + 1 \in 1..high /\ i + 1 \in 1..Len(v.stack)
        BY <3>3, <1>3, <1>2
      <4>2. \/ o \in Done(w) \cup Range(w.stack[i].rest)
            \/ o = w.stack[i + 1].name
        BY <3>3, <2>1, <1>3, <1>4 DEF Covered
      <4> QED
        BY <4>1, <4>2, <3>3, <1>2, <1>3
    <3> QED
      BY <3>1, <3>2, <3>3, <1>4
  <2>2. Len(v.stack) # 0
    BY <1>2, <1>3
  <2> QED
    BY <2>1, <2>2, <1>2 DEF Covered
<1>10. Unstood(m, v) \subseteq Unstood(m, w) \ {Standing(w)}
  <2> SUFFICES ASSUME NEW p \in Unstood(m, v) PROVE p \in Unstood(m, w) /\ p # Standing(w)
    OBVIOUS
  <2>1. Standing(w)[1] = w.stack[high].name /\ Standing(w)[2] = Len(w.stack[high].rest)
    BY <1>1 DEF Standing
  <2>2. w.stack[high].name \in w.visited \cup {Nil} /\ w.stack[high].name # n /\ n \notin w.visited \cup {Nil}
    <3>1. w.stack[high].name \in w.visited \cup {Nil}
      BY <1>3 DEF Stacked
    <3>2. w.stack[high].name # n
      BY <1>3, <1>6
    <3>3. n \notin w.visited \cup {Nil}
      BY <1>2, EndsIs
    <3> QED
      BY <3>1, <3>2, <3>3
  <2>3. p \in Places(m)
    BY DEF Unstood
  <2>4. CASE p[1] \notin v.visited \cup {Nil} \/ p[1] = n
    BY <2>1, <2>2, <2>3, <2>4, <1>2 DEF Unstood
  <2>5. CASE p[1] # n /\ \E i \in 1..Len(v.stack) : v.stack[i].name = p[1] /\ p[2] <= Len(v.stack[i].rest)
    <3>1. PICK i \in 1..high : v.stack[i].name = p[1] /\ p[2] <= Len(v.stack[i].rest)
      BY <2>5, <1>2, <1>4
    <3>2. p[2] \in Nat
      <4>1. PICK name \in Names(m) \cup {Nil} : p \in {name} \X (0..Len(Ahead(m, name)))
        BY <2>3 DEF Places
      <4> QED
        BY <4>1
    <3>3. p[2] <= Len(w.stack[i].rest) /\ w.stack[i].name = p[1]
      <4>1. Len(v.stack[i].rest) \in Nat /\ Len(w.stack[i].rest) \in Nat /\ Len(v.stack[i].rest) <= Len(w.stack[i].rest)
        BY <1>3
      <4>2. \A a, b, c \in Nat : a <= b /\ b <= c => a <= c
        OBVIOUS
      <4>3. p[2] <= Len(w.stack[i].rest)
        BY <4>1, <4>2, <3>1, <3>2
      <4> QED
        BY <4>3, <3>1, <1>3
    <3>4. p # Standing(w)
      <4> SUFFICES ASSUME p = Standing(w) PROVE FALSE
        OBVIOUS
      <4>1. i = high
        BY <2>1, <3>3, <1>3, <1>4 DEF Stacked
      <4>2. Len(w.stack[high].rest) <= Len(v.stack[high].rest)
        BY <4>1, <2>1, <3>1
      <4>3. Len(w.stack[high].rest) = Len(v.stack[high].rest) + 1 /\ Len(v.stack[high].rest) \in Nat
        BY <1>3
      <4> QED
        BY <4>2, <4>3
    <3> QED
      BY <2>3, <3>3, <3>4, <1>1, <1>4 DEF Unstood
  <2> QED
    BY <2>4, <2>5 DEF Unstood
<1> QED
  BY <1>7, <1>8, <1>9, <1>10

(* Every move keeps what holds of the walk.                                *)
LEMMA DeepMoves ==
  ASSUME NEW m, Checked(m), NEW k \in Nat, NEW w \in Searches(m), DeepInv(m, k, w)
  PROVE  DeepInv(m, k + 1, Visit(m, w))
<1>1. CASE w.found \/ w.stack = << >>
  <2>1. Visit(m, w) = w
    BY <1>1 DEF Visit
  <2>2. w.found \/ Len(w.stack) = 0
    BY <1>1, StackIs
  <2> QED
    BY <2>1, <2>2 DEF DeepInv
<1>2. CASE ~w.found /\ w.stack # << >>
  <2>1. Len(w.stack) # 0
    BY <1>2, StackIs
  <2>2. /\ Stacked(m, w) /\ Linked(m, w) /\ Covered(m, w)
        /\ k + Cardinality(Unstood(m, w)) <= Cardinality(Places(m))
    BY <1>2, <2>1 DEF DeepInv
  <2>3. Standing(w) \in Unstood(m, w)
    BY <2>1, <2>2, StandsHere
  <2>4. PICK v : v = Visit(m, w)
    OBVIOUS
  <2>5. v \in Searches(m)
    BY <1>2, <2>4, VisitIs
  <2>6. ASSUME Stacked(m, v), Linked(m, v), Covered(m, v), Unstood(m, v) \subseteq Unstood(m, w) \ {Standing(w)}, ~v.found
        PROVE  DeepInv(m, k + 1, v)
    <3>1. k + 1 + Cardinality(Unstood(m, v)) <= Cardinality(Places(m))
      BY <2>2, <2>3, <2>6, UnstoodLess
    <3> QED
      BY <3>1, <2>6 DEF DeepInv
  <2>7. CASE Pops(w, v)
    <3>1. ~v.found
      BY <2>7 DEF Pops
    <3> QED
      BY <3>1, <2>1, <2>2, <2>4, <2>5, <2>6, <2>7, PopsKeeps
  <2>8. CASE Finds(w, v)
    <3>1. v.found /\ \E n \in w.path : n \in Range(w.stack[Len(w.stack)].rest)
      BY <2>8 DEF Finds
    <3>2. ~Acyclic(m)
      BY <3>1, <2>1, <2>2, FindsCycle
    <3> QED
      BY <3>1, <3>2, <2>4 DEF DeepInv
  <2>9. ASSUME NEW n \in Names(m), Passes(w, v, n) PROVE DeepInv(m, k + 1, v)
    <3>1. ~v.found
      BY <2>9 DEF Passes, Takes
    <3> QED
      BY <3>1, <2>1, <2>2, <2>5, <2>6, <2>9, PassesKeeps
  <2>10. ASSUME NEW n \in Names(m), Enters(m, w, v, n) PROVE DeepInv(m, k + 1, v)
    <3>1. ~v.found
      BY <2>10 DEF Enters, Takes
    <3> QED
      BY <3>1, <2>1, <2>2, <2>5, <2>6, <2>10, EntersKeeps
  <2>11. Pops(w, v) \/ Finds(w, v) \/ \E n \in Names(m) : Passes(w, v, n) \/ Enters(m, w, v, n)
    BY <1>2, <2>4, VisitIs
  <2> QED
    BY <2>4, <2>7, <2>8, <2>9, <2>10, <2>11
<1> QED
  BY <1>1, <1>2

(* It holds after any number of moves.                                     *)
LEMMA DeepHolds ==
  ASSUME NEW m, Checked(m)
  PROVE  \A k \in Nat : DeepInv(m, k, Deep(m)[k])
<1> DEFINE P == {k \in Nat : DeepInv(m, k, Deep(m)[k])}
<1>1. 0 \in P
  BY DeepStarts, DeepIs
<1>2. ASSUME NEW k \in P PROVE k + 1 \in P
  <2>1. Deep(m)[k] \in Searches(m) /\ Deep(m)[k + 1] = Visit(m, Deep(m)[k])
    BY DeepIs
  <2>2. DeepInv(m, k + 1, Visit(m, Deep(m)[k]))
    BY <2>1, DeepMoves
  <2> QED
    BY <2>1, <2>2
<1>3. P = Nat
  <2> HIDE DEF P
  <2>1. P \in SUBSET Nat
    BY DEF P
  <2> QED
    BY <1>1, <1>2, <2>1, Upwards
<1> QED
  BY <1>3

(* The walk is over by then.  It has found a step of its path again only   *)
(* where there is a way round, and has otherwise done every step in reach: *)
(* _first_cycle answers as it should, whatever the graph.                  *)
LEMMA CyclicIs ==
  ASSUME NEW m, Checked(m), Reached(m)
  PROVE  Cyclic(m) <=> ~Acyclic(m)
<1>1. PICK end : end = Cardinality(Places(m))
  OBVIOUS
<1>2. PICK w : w = Deep(m)[end]
  OBVIOUS
<1>3. end \in Nat
  BY <1>1, PlacesFinite
<1>4. w \in Searches(m) /\ DeepInv(m, end, w)
  BY <1>2, <1>3, DeepIs, DeepHolds
<1>5. Cyclic(m) <=> w.found
  BY <1>1, <1>2 DEF Cyclic
<1>6. CASE w.found
  BY <1>4, <1>5, <1>6 DEF DeepInv
<1>7. CASE ~w.found
  <2>1. Stacked(m, w) /\ Linked(m, w) /\ Covered(m, w)
    BY <1>4, <1>7 DEF DeepInv
  <2>2. Len(w.stack) = 0
    <3> SUFFICES ASSUME Len(w.stack) # 0 PROVE FALSE
      OBVIOUS
    <3>1. Standing(w) \in Unstood(m, w)
      BY <1>4, <2>1, StandsHere
    <3>2. end + Cardinality(Unstood(m, w)) <= end
      BY <1>1, <1>4, <1>7 DEF DeepInv
    <3>3. IsFiniteSet(Unstood(m, w)) /\ Cardinality(Unstood(m, w)) \in Nat
      BY UnstoodIs
    <3>4. Cardinality(Unstood(m, w)) = 0
      BY <3>2, <3>3, <1>3
    <3>5. Unstood(m, w) = {}
      BY <3>3, <3>4, FS_EmptySet
    <3> QED
      BY <3>1, <3>5
  <2>3. Done(w) \in SUBSET Names(m)
    BY <1>4, StackIs DEF Done
  <2>4. Range(m.starts) \subseteq Done(w) /\ \A n \in Done(w) : Out(m, n) \subseteq Done(w)
    BY <2>1, <2>2, EndsIs DEF Covered
  <2>5. Done(w) = Names(m)
    BY <2>3, <2>4 DEF Reached
  <2>6. Acyclic(m)
    BY <2>1, <2>5 DEF Covered, Acyclic
  <2> QED
    BY <2>6, <1>5, <1>7
<1> QED
  BY <1>6, <1>7

(* The two checks mean what they say of every manifest.                    *)
LEMMA ChecksMeanIt ==
  ASSUME NEW m \in ManifestShape
  PROVE  /\ Means(m)
         /\ \A files : Validate(m, files, TRUE) = "Valid" => Reached(m) /\ Acyclic(m)
<1>1. ASSUME ~Duplicate(m), ~Dangling(m)
      PROVE  (Unreachable(m) <=> ~Reached(m)) /\ (Reached(m) => (Cyclic(m) <=> ~Acyclic(m)))
  BY <1>1, UnreachableIs, CyclicIs DEF Checked
<1>2. ASSUME NEW files, Validate(m, files, TRUE) = "Valid" PROVE Reached(m) /\ Acyclic(m)
  <2>1. ~Duplicate(m) /\ ~Dangling(m) /\ ~Unreachable(m) /\ ~Cyclic(m)
    BY <1>2 DEF Validate
  <2> QED
    BY <1>1, <2>1
<1>3. ASSUME Says(m, "UnreachableNode") PROVE ~Reached(m)
  <2>1. ~Duplicate(m) /\ ~Dangling(m) /\ Unreachable(m)
    BY <1>3 DEF Says, Validate
  <2> QED
    BY <1>1, <2>1
<1>4. ASSUME Says(m, "CyclicGraph") PROVE Reached(m) /\ ~Acyclic(m)
  <2>1. ~Duplicate(m) /\ ~Dangling(m) /\ ~Unreachable(m) /\ Cyclic(m)
    BY <1>4 DEF Says, Validate
  <2> QED
    BY <1>1, <2>1
<1>5. Says(m, "Valid") => Reached(m) /\ Acyclic(m)
  BY <1>2 DEF Says
<1> QED
  BY <1>2, <1>3, <1>4, <1>5 DEF Means

-----------------------------------------------------------------------------
(* No step twice.  The steps a walk has been at each lead to another of    *)
(* them, or to the step it is at.  Coming back to one would close a set of *)
(* steps that all lead into it, and what validate() accepts has none.      *)
OnTheWay(at) == at \in {"step", "ask", "decide"}

Trail ==
  /\ OnTheWay(walk.at) =>
       /\ Acyclic(walk.m) /\ walk.visited \subseteq Names(walk.m)
       /\ \A n \in walk.visited \ {walk.node} : Out(walk.m, n) \cap (walk.visited \cup {walk.node}) # {}
  /\ walk.at \in {"ask", "decide"} => walk.node \in walk.visited
  /\ StepsApart

SoundHeld == held # Nil => Acyclic(held)

(* What reads a valid plugin from disk reads one without a way back.       *)
LEMMA ReadSound ==
  ASSUME PluginInv, Validate(disk.m, disk.files, TRUE) = "Valid"
  PROVE  Acyclic(disk.m)
<1>1. disk.m \in ManifestShape
  BY DEF PluginInv
<1> QED
  BY <1>1, ChecksMeanIt

(* A walk that is over, or that has been nowhere yet, has come to no step  *)
(* twice.                                                                  *)
LEMMA OverTrails ==
  ASSUME ~OnTheWay(walk'.at)
  PROVE  Trail'
BY DEF Trail, OnTheWay, StepsApart

(* So has one that has only been placed on a graph without a way back.     *)
LEMMA FreshTrails ==
  ASSUME walk'.at \in {"step", "ended", "raised"}, walk'.visited = {},
         walk'.at = "step" => Acyclic(walk'.m)
  PROVE  Trail'
BY DEF Trail, OnTheWay, StepsApart

(* Where a walk has been once it has entered the step it is at.            *)
LEMMA EnteredTrails ==
  ASSUME walk \in WalkShape, Stepping, Trail, OnTheWay(walk.at)
  PROVE  /\ Acyclic(walk.m) /\ Here = NodeOf(walk.m, walk.node)
         /\ Entered.m = walk.m /\ Entered.node = walk.node
         /\ Entered.visited = walk.visited \cup {walk.node} /\ Entered.visited \subseteq Names(walk.m)
         /\ \A n \in walk.visited \ {walk.node} : Out(walk.m, n) \cap Entered.visited # {}
         /\ walk.at \in {"ask", "decide"} => Entered.visited = walk.visited
<1>1. Entered.m = walk.m /\ Entered.node = walk.node /\ Entered.visited = walk.visited \cup {walk.node}
  BY DEF Entered, WalkShape
<1>2. walk.node \in Names(walk.m)
  BY DEF OnTheWay, Stepping
<1> QED
  BY <1>1, <1>2 DEF Trail, Here

(* The step a walk goes on to is none it has been at.                      *)
LEMMA ProceedTrails ==
  ASSUME walk \in WalkShape, Stepping, Trail, OnTheWay(walk.at),
         NEW w \in WalkShape, w.m = walk.m, w.visited = Entered.visited,
         NEW next \in Out(walk.m, walk.node) \cup {Nil}, Proceed(w, next)
  PROVE  Trail'
<1>1. CASE next # Nil
  <2>1. walk' = [w EXCEPT !.at = "step", !.node = next]
    BY <1>1 DEF Proceed
  <2>2. walk'.at = "step" /\ walk'.node = next /\ walk'.m = walk.m /\ walk'.visited = Entered.visited
    BY <2>1 DEF WalkShape
  <2>3. next \in Out(walk.m, walk.node)
    BY <1>1
  <2>4. \A n \in Entered.visited : Out(walk.m, n) \cap (Entered.visited \cup {next}) # {}
    BY <2>3, EnteredTrails
  <2>5. next \notin Entered.visited
    <3> SUFFICES ASSUME next \in Entered.visited PROVE FALSE
      OBVIOUS
    <3>1. \A n \in Entered.visited : Out(walk.m, n) \cap Entered.visited # {}
      BY <2>4
    <3> QED
      BY <3>1, EnteredTrails DEF Acyclic
  <2>6. Acyclic(walk'.m) /\ walk'.visited \subseteq Names(walk'.m)
    BY <2>2, EnteredTrails
  <2> QED
    BY <2>2, <2>4, <2>5, <2>6 DEF Trail, OnTheWay, StepsApart
<1>2. CASE next = Nil
  <2>1. walk'.at \in {"raised", "ended"}
    BY <1>2 DEF Proceed, End, WalkShape
  <2> QED
    BY <2>1, OverTrails DEF OnTheWay
<1> QED
  BY <1>1, <1>2

(* A walk that halts inside its step has been at that step.                *)
LEMMA HaltTrails ==
  ASSUME walk \in WalkShape, Stepping, Trail, walk.at = "step",
         NEW at \in {"ask", "decide"}, walk' = [Entered EXCEPT !.at = at]
  PROVE  Trail'
<1>1. walk'.at = at /\ walk'.node = walk.node /\ walk'.m = walk.m /\ walk'.visited = Entered.visited
  BY DEF Entered, WalkShape
<1>2. OnTheWay(walk.at)
  BY DEF OnTheWay
<1> QED
  BY <1>1, <1>2, EnteredTrails DEF Trail, OnTheWay, StepsApart

(* A failure, and any other end, is the end of the trail.                  *)
LEMMA EndTrails ==
  ASSUME NEW w \in WalkShape, NEW result, End(w, result)
  PROVE  Trail'
<1>1. walk'.at = "ended"
  BY DEF End, WalkShape
<1> QED
  BY <1>1, OverTrails DEF OnTheWay

(* So is a failure.                                                        *)
LEMMA FailTrails ==
  ASSUME NEW w \in WalkShape, NEW node \in Steps, Fail(w, node)
  PROVE  Trail'
<1>1. Core(w, Traced(w, node, FALSE))
  BY TracedIs
<1> QED
  BY <1>1, EndTrails DEF Fail, Core

(* Going on from a step with another value, another count, one more trace. *)
LEMMA PassTrails ==
  ASSUME walk \in WalkShape, Stepping, Trail, OnTheWay(walk.at),
         NEW w \in WalkShape, w.m = walk.m, w.visited = Entered.visited,
         NEW v \in {"text", w.value}, NEW n \in Nat, NEW next \in Out(walk.m, walk.node) \cup {Nil},
         Proceed(Traced([w EXCEPT !.value = v, !.made = n], walk.node, TRUE), next)
  PROVE  Trail'
<1> DEFINE u == [w EXCEPT !.value = v, !.made = n]
<1>1. u \in WalkShape /\ u.m = walk.m /\ u.visited = Entered.visited
  BY DEF WalkShape, Values
<1>2. walk.node \in Steps
  BY HereIs DEF OnTheWay
<1> HIDE DEF u
<1>3. Core(u, Traced(u, walk.node, TRUE)) 
  BY <1>1, <1>2, TracedIs
<1>4. Traced(u, walk.node, TRUE).visited = u.visited
  BY <1>1 DEF Traced, WalkShape
<1>5. Proceed(Traced(u, walk.node, TRUE), next)
  BY DEF u
<1> QED
  BY <1>1, <1>3, <1>4, <1>5, ProceedTrails DEF Core

(* The step the walk is at leads where the manifest says it does.          *)
LEMMA HereLeads ==
  ASSUME walk \in WalkShape, Stepping, Trail, OnTheWay(walk.at)
  PROVE  /\ Entered \in WalkShape /\ walk.node \in Steps /\ Entered.made \in Nat
         /\ Entered.m = walk.m /\ Entered.value = walk.value /\ Entered.made = walk.made
         /\ Here.next \in Out(walk.m, walk.node) \cup {Nil}
         /\ Here.ports \subseteq Out(walk.m, walk.node)
         /\ walk.at \in {"ask", "decide"} => walk.visited = Entered.visited
<1>1. Core(walk, Entered) /\ walk.node \in Steps
  BY HereIs DEF OnTheWay
<1>2. Here = NodeOf(walk.m, walk.node)
  BY DEF Here
<1>3. Here.next \in Out(walk.m, walk.node) \cup {Nil} /\ Here.ports \subseteq Out(walk.m, walk.node)
  BY <1>2 DEF Out
<1> QED
  BY <1>1, <1>3, EnteredTrails DEF Core, WalkShape

(* No step of the walk leaves the trail.                                   *)
LEMMA WalkTrails ==
  ASSUME walk \in WalkShape, Stepping, Trail, Walk
  PROVE  Trail'
<1>1. OnTheWay(walk.at)
  BY DEF Walk, Refuse, ReachWait, Compute, Route, Stop, StartAsk, FinishAsk, ReachCall, Decide, OnTheWay
<1>2. /\ Entered \in WalkShape /\ walk.node \in Steps /\ Entered.made \in Nat
      /\ Entered.m = walk.m /\ Entered.value = walk.value /\ Entered.made = walk.made
      /\ Here.next \in Out(walk.m, walk.node) \cup {Nil}
      /\ Here.ports \subseteq Out(walk.m, walk.node)
      /\ walk.at \in {"ask", "decide"} => walk.visited = Entered.visited
  BY <1>1, HereLeads
<1>3. ASSUME NEW w \in {Entered, walk}, walk.at # "step" \/ w = Entered
      PROVE  w \in WalkShape /\ w.m = walk.m /\ w.visited = Entered.visited /\ w.value = walk.value /\ w.made \in Nat
  BY <1>1, <1>2, <1>3 DEF OnTheWay, WalkShape
<1>4. ASSUME NEW w \in {Entered, walk}, Fail(w, walk.node)
      PROVE  Trail'
  BY <1>2, <1>4, FailTrails
<1>5. ASSUME NEW w \in {Entered, walk}, walk.at # "step" \/ w = Entered, NEW v \in {"text", walk.value},
             NEW next \in Out(walk.m, walk.node) \cup {Nil},
             Proceed(Traced([w EXCEPT !.value = v], walk.node, TRUE), next)
      PROVE  Trail'
  <2>1. w \in WalkShape /\ w.m = walk.m /\ w.visited = Entered.visited /\ w.value = walk.value /\ w.made \in Nat
    BY <1>3, <1>5
  <2>2. [w EXCEPT !.value = v] = [w EXCEPT !.value = v, !.made = w.made]
    BY <2>1 DEF WalkShape
  <2> QED
    BY <1>1, <1>5, <2>1, <2>2, PassTrails
<1>6. ASSUME NEW next \in Out(walk.m, walk.node) \cup {Nil}, Proceed(Traced(Entered, walk.node, TRUE), next)
      PROVE  Trail'
  <2>1. Entered = [Entered EXCEPT !.value = walk.value]
    BY <1>2 DEF WalkShape
  <2> QED
    BY <1>5, <1>6, <2>1
<1>7. ASSUME walk.at = "step", NEW at \in {"ask", "decide"}, walk' = [Entered EXCEPT !.at = at]
      PROVE  Trail'
  BY <1>7, HaltTrails
<1>8. ASSUME NEW v \in Values, NEW result, End([Entered EXCEPT !.value = v], result)
      PROVE  Trail'
  <2>1. [Entered EXCEPT !.value = v] \in WalkShape
    BY <1>2 DEF WalkShape
  <2> QED
    BY <1>8, <2>1, EndTrails
<1>9. ASSUME Refuse PROVE Trail'
  BY <1>4, <1>9 DEF Refuse
<1>10. ASSUME ReachWait PROVE Trail'
  BY <1>8, <1>10 DEF ReachWait, Values
<1>11. ASSUME Compute PROVE Trail'
  BY <1>2, <1>4, <1>5, <1>11 DEF Compute
<1>12. ASSUME Route PROVE Trail'
  BY <1>2, <1>4, <1>6, <1>12 DEF Route
<1>13. ASSUME Stop PROVE Trail'
  BY <1>2, <1>6, <1>13 DEF Stop
<1>14. ASSUME StartAsk PROVE Trail'
  BY <1>4, <1>7, <1>14 DEF StartAsk
<1>15. ASSUME FinishAsk PROVE Trail'
  BY <1>2, <1>4, <1>5, <1>15 DEF FinishAsk
<1>16. ASSUME ReachCall PROVE Trail'
  <2>1. Persistable(Entered.value) \in Values
    BY <1>2 DEF Persistable, Values, WalkShape
  <2>2. [Entered EXCEPT !.value = Persistable(@)] = [Entered EXCEPT !.value = Persistable(Entered.value)]
    OBVIOUS
  <2> QED
    BY <1>7, <1>8, <1>16, <2>1, <2>2 DEF ReachCall
<1>17. ASSUME Decide PROVE Trail'
  <2>1. CASE Fail(walk, walk.node)
    BY <1>4, <2>1
  <2>2. CASE FinishCallBody(walk, Here.next)
    <3>1. CASE Proceed(Traced([walk EXCEPT !.value = "text"], walk.node, TRUE), Here.next)
      BY <1>2, <1>5, <1>17, <3>1 DEF Decide
    <3>2. CASE Proceed(Traced([walk EXCEPT !.value = "text", !.made = @ + 1], walk.node, TRUE), Here.next)
      <4>1. walk.made + 1 \in Nat /\ walk.m = walk.m /\ walk.visited = Entered.visited
        BY <1>2, <1>17 DEF Decide, WalkShape
      <4> QED
        BY <1>1, <1>2, <3>2, <4>1, PassTrails
    <3> QED
      BY <1>4, <2>2, <3>1, <3>2 DEF FinishCallBody
  <2> QED
    BY <1>17, <2>1, <2>2 DEF Decide
<1> QED
  BY <1>9, <1>10, <1>11, <1>12, <1>13, <1>14, <1>15, <1>16, <1>17 DEF Walk

(* A walk that is resumed has been nowhere yet.                            *)
LEMMA GoneOnTrails ==
  ASSUME PluginInv, ~Gone, NEW w \in WalkShape, w.m = disk.m, w.visited = {},
         NEW next, Proceed(w, next)
  PROVE  Trail'
<1>1. Acyclic(disk.m)
  BY ReadSound DEF Gone
<1>2. walk'.m = w.m /\ walk'.visited = {} /\ walk'.at \in {"step", "raised", "ended"}
  <2>1. CASE walk' = [w EXCEPT !.at = "step", !.node = next]
    BY <2>1 DEF WalkShape
  <2>2. CASE walk' = [w EXCEPT !.at = "raised"]
    BY <2>2 DEF WalkShape
  <2>3. CASE walk' = [w EXCEPT !.at = "ended", !.result = Result("done", Nil, Nil)]
    BY <2>3 DEF WalkShape
  <2> QED
    BY <2>1, <2>2, <2>3 DEF Proceed, End
<1> QED
  BY <1>1, <1>2, FreshTrails

(* So it is, whatever the answer.                                          *)
LEMMA ResumeTrails ==
  ASSUME PluginInv, Waits, Resumable,
         FailResume \/ RefuseResume \/ Decline \/ Approve \/ Answer
  PROVE  Trail'
<1>1. /\ Resumed \in WalkShape /\ Resumed.m = disk.m /\ Resumed.value = "text" /\ Resumed.made \in Nat
      /\ Resumed.visited = {} /\ pause.node \in Steps
  BY ResumedIs DEF Resumed, Resting, WalkShape
<1>2. ASSUME NEW w \in WalkShape, w.m = disk.m, w.visited = {}, w.node = pause.node, NEW v \in Values,
             NEW n \in Nat, NEW next, ~Gone,
             Proceed(Traced([w EXCEPT !.value = v, !.made = n], pause.node, TRUE), next)
      PROVE  Trail'
  <2> DEFINE u == [w EXCEPT !.value = v, !.made = n]
  <2>1. u \in WalkShape /\ u.m = disk.m /\ u.visited = {}
    BY <1>2 DEF WalkShape
  <2> HIDE DEF u
  <2>2. Core(u, Traced(u, pause.node, TRUE)) /\ Traced(u, pause.node, TRUE).visited = u.visited
    BY <1>1, <2>1, TracedIs DEF Traced, WalkShape
  <2>3. Proceed(Traced(u, pause.node, TRUE), next)
    BY <1>2 DEF u
  <2> QED
    BY <1>2, <2>1, <2>2, <2>3, GoneOnTrails DEF Core
<1>3. ASSUME FailResume PROVE Trail'
  BY <1>1, <1>3, EndTrails DEF FailResume
<1>4. ASSUME RefuseResume PROVE Trail'
  <2>1. walk'.at = "ended"
    BY <1>4 DEF RefuseResume, KeepUnset, End, Resumed, Resting
  <2> QED
    BY <2>1, OverTrails DEF OnTheWay
<1>5. ASSUME Decline PROVE Trail'
  BY <1>1, <1>5, FailTrails DEF Decline
<1>6. ASSUME Answer PROVE Trail'
  <2>1. PICK parks \in BOOLEAN :
          Proceed(Traced([Resumed EXCEPT !.parks = parks], pause.node, TRUE), NodeOf(disk.m, pause.node).next)
    BY <1>6 DEF Answer
  <2> DEFINE w == [Resumed EXCEPT !.parks = parks]
  <2>2. w \in WalkShape /\ w.m = disk.m /\ w.visited = {} /\ w.node = pause.node /\ w.made \in Nat
        /\ w.value \in Values /\ w = [w EXCEPT !.value = w.value, !.made = w.made]
    BY <1>1, ResumedIs, <1>6 DEF Answer, WalkShape
  <2>3. ~Gone
    BY <1>6 DEF Answer
  <2>4. Proceed(Traced(w, pause.node, TRUE), NodeOf(disk.m, pause.node).next)
    BY <2>1
  <2> HIDE DEF w
  <2> QED
    BY <1>2, <2>2, <2>3, <2>4
<1>7. ASSUME Approve PROVE Trail'
  <2>1. PICK parks \in BOOLEAN :
          FinishCallBody([Resumed EXCEPT !.parks = parks, !.value = IF pause.value = "data" THEN "keyed" ELSE @],
                         NodeOf(disk.m, pause.node).next)
    BY <1>7 DEF Approve
  <2> DEFINE w == [Resumed EXCEPT !.parks = parks, !.value = IF pause.value = "data" THEN "keyed" ELSE @]
  <2>2. w \in WalkShape /\ w.m = disk.m /\ w.visited = {} /\ w.node = pause.node /\ w.made \in Nat
    BY <1>1, ResumedIs, <1>7 DEF Approve, WalkShape, Values
  <2>3. ~Gone
    BY <1>7 DEF Approve
  <2>4. FinishCallBody(w, NodeOf(disk.m, pause.node).next)
    BY <2>1
  <2> HIDE DEF w
  <2> DEFINE next == NodeOf(disk.m, pause.node).next
  <2>5. CASE Fail(w, w.node)
    BY <1>1, <2>2, <2>5, FailTrails
  <2>6. CASE Proceed(Traced([w EXCEPT !.value = "text"], w.node, TRUE), next)
    <3>1. [w EXCEPT !.value = "text"] = [w EXCEPT !.value = "text", !.made = w.made]
      BY <2>2 DEF WalkShape
    <3> QED
      BY <1>2, <2>2, <2>3, <2>6, <3>1 DEF Values
  <2>7. CASE Proceed(Traced([w EXCEPT !.value = "text", !.made = @ + 1], w.node, TRUE), next)
    <3>1. w.made + 1 \in Nat
      BY <2>2
    <3> QED
      BY <1>2, <2>2, <2>3, <2>7, <3>1 DEF Values
  <2> QED
    BY <2>4, <2>5, <2>6, <2>7 DEF FinishCallBody
<1> QED
  BY <1>3, <1>4, <1>5, <1>6, <1>7

(* Every step keeps the trail, and what the runtime holds without a way    *)
(* back.                                                                   *)
LEMMA TrailHolds ==
  ASSUME IInv, Trail, SoundHeld, [Next]_vars
  PROVE  Trail' /\ SoundHeld'
<1>1. PluginInv /\ Waits /\ Stepping /\ walk \in WalkShape /\ (walk.at = "rest" => walk = Resting)
  BY DEF IInv, Shaped, Placed
<1>2. ASSUME UNCHANGED << held, walk >> PROVE Trail' /\ SoundHeld'
  BY <1>2 DEF Trail, SoundHeld, OnTheWay, StepsApart
<1>3. ASSUME held' = IF Validate(disk.m, disk.files, TRUE) = "Valid" THEN disk.m ELSE Nil
      PROVE  SoundHeld'
  BY <1>1, <1>3, ReadSound DEF SoundHeld
<1>4. ASSUME walk' = Resting PROVE Trail'
  BY <1>4, OverTrails DEF Resting, OnTheWay
<1>5. CASE Edit
  BY <1>2, <1>5 DEF Edit, AddStep, RenameStep, DeleteStep, Save, Tamper, Write
<1>6. CASE OpenRuntime
  BY <1>3, <1>6 DEF OpenRuntime, Trail, OnTheWay, StepsApart
<1>7. CASE StartTurn \/ EndTurn
  BY <1>2, <1>7 DEF StartTurn, EndTurn
<1>8. CASE Dispatch
  <2> DEFINE fresh == [Resting EXCEPT !.run = Len(runs) + 1, !.m = held, !.value = "live", !.parks = turn.parks]
  <2>1. held # Nil /\ UNCHANGED held
    BY <1>8 DEF Dispatch
  <2>2. \/ \E start \in {held.starts[i] : i \in DOMAIN held.starts} : walk' = [fresh EXCEPT !.at = "step", !.node = start]
        \/ End(fresh, Result("unset", "entry", Nil))
    BY <1>8 DEF Dispatch
  <2>3. walk'.at \in {"step", "ended"} /\ walk'.visited = {} /\ walk'.m = held
    BY <2>2 DEF End, Resting
  <2> QED
    BY <2>1, <2>3, FreshTrails DEF SoundHeld
<1>9. CASE Walk
  BY <1>1, <1>9, WalkTrails, WalkSteps DEF SoundHeld
<1>10. CASE Record
  <2>1. walk'.at = "recorded" /\ UNCHANGED held
    BY <1>1, <1>10 DEF Record, WalkShape
  <2> QED
    BY <2>1, OverTrails DEF OnTheWay, SoundHeld
<1>11. CASE Return \/ Escape \/ Resolve
  BY <1>4, <1>11 DEF Return, Escape, Resolve, SoundHeld
<1>12. CASE FailResume \/ RefuseResume \/ Decline \/ Approve \/ Answer
  <2>1. Resumable /\ UNCHANGED held
    BY <1>12 DEF FailResume, RefuseResume, Decline, Approve, Answer
  <2> QED
    BY <1>1, <1>12, <2>1, ResumeTrails DEF SoundHeld
<1>13. CASE Crash
  BY <1>3, <1>4, <1>13 DEF Crash
<1>14. CASE UNCHANGED vars
  BY <1>2, <1>14 DEF vars
<1> QED
  BY <1>5, <1>6, <1>7, <1>8, <1>9, <1>10, <1>11, <1>12, <1>13, <1>14 DEF Next, Turn, Settle, Resume

(* A walk comes to no step twice, live or resumed, whatever is edited      *)
(* under it: run_graph has no bound of its own on the steps it takes, and  *)
(* owes its end to _first_cycle.                                           *)
THEOREM NoStepTwice == Spec => []StepsApart
<1>1. Init => Trail /\ SoundHeld
  <2> SUFFICES ASSUME Init PROVE Trail /\ SoundHeld
    OBVIOUS
  <2>1. PICK m \in Authored : held = m
    BY DEF Init
  <2>2. m \in ManifestShape /\ Validate(m, {"code", "skills", "schema"}, TRUE) = "Valid"
    BY ManifestsAssumption
  <2>3. Acyclic(m)
    BY <2>2, ChecksMeanIt
  <2> QED
    BY <2>1, <2>3 DEF Init, Trail, SoundHeld, OnTheWay, StepsApart, Resting
<1>2. IInv /\ Trail /\ SoundHeld /\ [Next]_vars => Trail' /\ SoundHeld'
  BY TrailHolds
<1>3. Trail => StepsApart
  BY DEF Trail
<1> QED
  BY <1>1, <1>2, <1>3, Invariant, PTL DEF Spec

(* The checks of a manifest are worth what the walk takes them for: a      *)
(* plugin on disk is valid when every step can be reached and none can     *)
(* reach itself (plugins._first_unreachable, plugins._first_cycle), for a  *)
(* graph of any size, and no walk comes to a step twice.                   *)
THEOREM ChecksStayRight == Spec => []ChecksRight
<1>1. IInv => ChecksMean
  <2> SUFFICES ASSUME IInv PROVE ChecksMean
    OBVIOUS
  <2>1. disk.m \in ManifestShape
    BY DEF IInv, PluginInv
  <2> QED
    BY <2>1, ChecksMeanIt DEF ChecksMean
<1>2. ChecksMean /\ StepsApart => ChecksRight
  BY DEF ChecksRight
<1> QED
  BY <1>1, <1>2, Invariant, NoStepTwice, PTL

=============================================================================
