-------------------------------- MODULE Wire --------------------------------
(***************************************************************************)
(* What goes to a model and what comes back, as values: the marks of the   *)
(* cache boundary (model_access.py), the assembly of streamed tool calls   *)
(* (openrouter/provider.py) and the ids and arguments they are given       *)
(* (conversation.py).                                                      *)
(***************************************************************************)
EXTENDS Integers, SequencesExt, FiniteSetsExt

(* A message carries text, parts of which the last is a dict, parts of     *)
(* which it is not, or nothing; a mark is honoured on the first two.       *)
Contents == {"text", "parts", "opaque", "none"}
CanCarry(m) == m.content \in {"text", "parts"}
Mark(m, how) == [m EXCEPT !.marked = how]

Systems(ms)  == {i \in DOMAIN ms : ms[i].role = "system"}
SystemIndex(ms) == IF Systems(ms) = {} THEN 0 ELSE Min(Systems(ms))

(* The walk of _eligible_trailing_indexes(), from the end.                 *)
Trailing(ms, count) ==
  FoldRight(LAMBDA i, found :
              IF i = SystemIndex(ms) \/ ~CanCarry(ms[i]) \/ Cardinality(found) = count THEN found ELSE found \cup {i},
            [i \in 1 .. Len(ms) |-> i], {})

MarkSystem(ms, prefix) ==
  LET s == SystemIndex(ms) IN
  IF s = 0 \/ ms[s].content # "text" \/ prefix = 0 \/ prefix > ms[s].length THEN ms
  ELSE [ms EXCEPT ![s] = Mark(@, IF prefix = @.length THEN "whole" ELSE "prefix")]

(* mark_cache_boundary()                                                   *)
MarkBoundary(ms, hint) ==
  LET marked == MarkSystem(ms, hint.prefix) IN
  IF hint.trailing = 0 THEN marked
  ELSE [i \in DOMAIN ms |-> IF i \in Trailing(ms, hint.trailing) THEN Mark(marked[i], "last part") ELSE marked[i]]

-----------------------------------------------------------------------------
(* A fragment of a streamed call: a name, empty or not, is assigned,       *)
(* arguments are concatenated, an id once sent stays                       *)
(* (_accumulate_tool_call).                                                *)
NoId   == << >>
Slot   == [id |-> NoId, name |-> "", arguments |-> << >>]

Accumulate(slots, f) ==
  LET old == IF f.index \in DOMAIN slots THEN slots[f.index] ELSE Slot IN
  (f.index :> [id        |-> IF f.id # NoId THEN f.id ELSE old.id,
               name      |-> IF f.name = {} THEN old.name ELSE CHOOSE n \in f.name : TRUE,
               arguments |-> old.arguments \o f.arguments]) @@ slots

Slots(fragments) == FoldLeft(Accumulate, << >>, fragments)
Assembled(fragments) ==
  LET slots == Slots(fragments)  order == SetToSortSeq(DOMAIN slots, LAMBDA i, j : i < j) IN
  [k \in DOMAIN order |-> slots[order[k]]]

(* repair_tool_call_arguments(): pieces that make an object, or that can   *)
(* be repaired into one, are that object; anything else is the empty one.  *)
Repaired(pieces) == IF pieces = << >> \/ "broken" \in Range(pieces) THEN << >> ELSE pieces

(* deterministic_call_id()                                                 *)
NameOf(call) == IF call.name = "" THEN "?" ELSE call.name
MadeId(call, index) == << "call", NameOf(call), call.arguments, index >>

\* Mutant of Apart: the second of two suffixes may be taken already.
ApartOnce(id, seen) == IF id \notin seen THEN id ELSE Append(id, 2)

(* uniquify_tool_call_ids(): `_d2', `_d3', ... until nobody has it.        *)
Apart(id, seen) ==
  IF id \notin seen THEN id
  ELSE Append(id, Min({n \in 2 .. Cardinality(seen) + 2 : Append(id, n) \notin seen}))

Named(done, call) ==
  LET id == IF call.id # NoId THEN call.id ELSE MadeId(call, done.missing) IN
  [missing |-> IF call.id # NoId THEN done.missing ELSE done.missing + 1,
   calls   |-> Append(done.calls, [id |-> id, name |-> NameOf(call), arguments |-> Repaired(call.arguments)])]

Uniquified(calls) ==
  FoldLeft(LAMBDA done, c : Append(done, [c EXCEPT !.id = Apart(c.id, {done[i].id : i \in DOMAIN done})]), << >>, calls)

(* _resolve_tool_calls()                                                   *)
ResolveToolCalls(calls) == Uniquified(FoldLeft(Named, [missing |-> 0, calls |-> << >>], calls).calls)

(* _deduplicate_tool_calls()                                               *)
Same(c, d) == c.name = d.name /\ c.arguments = d.arguments
Deduplicated(calls) ==
  FoldLeft(LAMBDA done, c : IF \E i \in DOMAIN done : Same(done[i], c) THEN done ELSE Append(done, c), << >>, calls)
=============================================================================
