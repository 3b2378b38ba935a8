------------------------------ MODULE TurnLoop ------------------------------
(***************************************************************************)
(* One conversation's turns, one after another: run_turn and take_turn     *)
(* (src/sadana/conversation.py, CONV-05), with the persistence calls of    *)
(* conversation_store.py and the load/save that client_surface.take_turn   *)
(* puts around a turn.  Steps are the stretches of code between two        *)
(* awaits.  A stop request, a cancellation or the death of the process may *)
(* come between any two.                                                   *)
(***************************************************************************)
EXTENDS Transcript

CONSTANTS
  Batches,        \* tool-call batches a model may answer with, ids distinct
  MaxIterations,  \* IterationBudget.max_total
  MaxTurns        \* bound of the model: turns started, crashed ones included

ASSUME BatchesAssumption ==
  \A b \in Batches : b \in Seq(Calls) /\ b # << >>
ASSUME BudgetAssumption == MaxIterations \in Nat /\ MaxTurns \in Nat

VARIABLES
  pc,          \* where the turn stands
  messages,    \* the history in memory
  saved,       \* the message rows in the store, in msg_seq order
  used,        \* IterationBudget.used in memory
  savedUsed,   \* conversations.iteration_used
  turnStart,   \* turn_start_seq
  valid,       \* calls of this round still to be carried out
  invalid,     \* calls of this round naming no known tool, still to be answered
  running,     \* the call whose dispatch has begun and has not been answered
  exit,        \* exit_reason, "none" while the turn runs
  stop,        \* what observer.should_stop() answers
  late,        \* whether the caller's `now` is past the deadline
  turn,        \* turns started so far
  compacted    \* ghost: the turn in which history was first compacted, 0 for none

vars == << pc, messages, saved, used, savedUsed, turnStart, valid, invalid,
           running, exit, stop, late, turn, compacted >>

\* "stopped" and "cancelled" are both ExitReason.INTERRUPTED; detail tells them apart.
Exits == {"none", "completed", "budget_exhausted", "wall_clock_exhausted",
          "persistence_failed", "provider_failed", "context_overflow_unhandled",
          "stopped", "cancelled", "invalid_tool_calls"}

\* Where the code is suspended at an await, so that a cancellation can land.
Awaiting == {"calling", "compacting", "persisting", "answering", "dispatching",
             "summarising"}

Points == Awaiting \cup {"idle", "loop", "finishing", "raised"}

Init ==
  /\ pc = "idle"
  /\ messages = << >> /\ saved = << >>
  /\ used = 0 /\ savedUsed = 0
  /\ turnStart = 0
  /\ valid = {} /\ invalid = {} /\ running = NoCall
  /\ exit = "none" /\ stop = FALSE /\ late = FALSE
  /\ turn = 0 /\ compacted = 0

-----------------------------------------------------------------------------
(* _insert_messages: a row already in the store is never overwritten, so   *)
(* only the part of the history beyond the stored rows is written.         *)
\* Mutant of Durable: the newest row is not flushed.
FlushedLate(rows, m) == rows \o SubSeq(m, Len(rows) + 1, Len(m) - 1)

Durable(rows, m) == rows \o SubSeq(m, Len(rows) + 1, Len(m))

(* append, and where the turn goes next; a refused append raises.          *)
Append1(row, next) ==
  /\ messages' = IF CanAppend(messages, row) THEN Append(messages, row) ELSE messages
  /\ pc' = IF CanAppend(messages, row) THEN next ELSE "raised"

Earliest(calls, c) ==
  c \in calls /\ \A d \in calls \ {c} : Declared(messages, c, d)

End(reason) == pc' = "finishing" /\ exit' = reason

Round == << valid, invalid, running >>
Store == << saved, savedUsed >>
Given == << late, turn >>

-----------------------------------------------------------------------------
(* take_turn: load, REPAIR, PROLOGUE.                                      *)
StartTurn ==
  /\ pc = "idle" /\ turn < MaxTurns
  /\ \E repaired \in Repaired(saved) :
       IF CanAppend(repaired, UserRow("input"))
         THEN messages' = Append(repaired, UserRow("input")) /\ pc' = "loop"
         ELSE messages' = repaired /\ pc' = "raised"
  /\ turnStart' = Len(messages') - 1
  /\ used' = savedUsed
  /\ late' \in BOOLEAN
  /\ turn' = turn + 1
  /\ exit' = "none" /\ stop' = FALSE
  /\ UNCHANGED << Store, Round, compacted >>

(* The head of the loop: budget, wall clock, stop, in this order.          *)
ExhaustBudget ==
  /\ pc = "loop" /\ used >= MaxIterations
  /\ pc' = IF CanAppend(messages, UserRow("summary_request"))
            THEN "summarising"
            ELSE "raised"
  /\ exit' = "budget_exhausted"
  /\ UNCHANGED << messages, used, turnStart, stop, compacted, Store, Round, Given >>

ConsumeIteration == pc = "loop" /\ used < MaxIterations /\ used' = used + 1

ExpireWallClock ==
  /\ ConsumeIteration /\ late
  /\ End("wall_clock_exhausted")
  /\ UNCHANGED << messages, turnStart, stop, compacted, Store, Round, Given >>

StopBeforeCall ==
  /\ ConsumeIteration /\ ~late /\ stop
  /\ End("stopped")
  /\ UNCHANGED << messages, turnStart, stop, compacted, Store, Round, Given >>

CallModel ==
  /\ ConsumeIteration /\ ~late /\ ~stop
  /\ pc' = "calling"
  /\ UNCHANGED << messages, turnStart, exit, stop, compacted, Store, Round, Given >>

-----------------------------------------------------------------------------
(* MODEL_CALL and what may come back from complete().                      *)
Answer ==
  /\ pc = "calling"
  /\ Append1(AssistantRow(<< >>), "finishing")
  /\ exit' = "completed"
  /\ UNCHANGED << used, turnStart, stop, compacted, Store, Round, Given >>

FailProvider ==
  /\ pc = "calling"
  /\ End("provider_failed")
  /\ UNCHANGED << messages, used, turnStart, stop, compacted, Store, Round, Given >>

Overflow ==
  /\ pc = "calling"
  /\ pc' = "compacting"
  /\ UNCHANGED << messages, used, turnStart, exit, stop, compacted, Store, Round, Given >>

\* Mutant of CompactHistory: the retry after a compaction costs no iteration.
CompactAndRetry ==
  /\ pc = "compacting"
  /\ \E b \in 1..Len(messages) :
       IsBoundary(messages, b) /\ messages' = Compact(messages, b)
  /\ turnStart' = IF turnStart < Len(messages') THEN turnStart ELSE Len(messages')
  /\ compacted' = IF compacted = 0 THEN turn ELSE compacted
  /\ pc' = "calling"
  /\ UNCHANGED << used, exit, stop, Store, Round, Given >>

(* turn_complete returned a summary of the rows before the boundary.       *)
CompactHistory ==
  /\ pc = "compacting"
  /\ \E b \in 1..Len(messages) :
       IsBoundary(messages, b) /\ messages' = Compact(messages, b)
  /\ turnStart' = IF turnStart < Len(messages') THEN turnStart ELSE Len(messages')
  /\ compacted' = IF compacted = 0 THEN turn ELSE compacted
  /\ pc' = "loop"
  /\ UNCHANGED << used, exit, stop, Store, Round, Given >>

(* Nothing to summarise, or the summarising call failed.                   *)
FailCompaction ==
  /\ pc = "compacting"
  /\ End("context_overflow_unhandled")
  /\ UNCHANGED << messages, used, turnStart, stop, compacted, Store, Round, Given >>

(* TOOL_ROUND: the assistant row first; with no valid call in the batch    *)
(* nothing is persisted and the turn ends once the calls are answered.     *)
AskForTools ==
  /\ pc = "calling"
  /\ \E calls \in Batches, unknown \in SUBSET Calls :
       /\ unknown \subseteq Ids(AssistantRow(calls))
       /\ Append1(AssistantRow(calls),
                  IF unknown = Ids(AssistantRow(calls)) THEN "answering" ELSE "persisting")
       /\ invalid' = unknown
       /\ valid' = Ids(AssistantRow(calls)) \ unknown
  /\ UNCHANGED << used, turnStart, running, exit, stop, compacted, Store, Given >>

(* persist(messages): the write-ahead of the round's assistant row.        *)
Persist ==
  /\ pc = "persisting"
  /\ saved' = Durable(saved, messages)
  /\ pc' = IF invalid = {} THEN "dispatching" ELSE "answering"
  /\ UNCHANGED << messages, used, savedUsed, turnStart, exit, stop, compacted, Round, Given >>

FailPersist ==
  /\ pc = "persisting"
  /\ End("persistence_failed")
  /\ valid' = {} /\ invalid' = {}
  /\ UNCHANGED << messages, used, turnStart, running, stop, compacted, Store, Given >>

(* _append_invalid_results, one call at a time.                            *)
AnswerInvalid ==
  /\ pc = "answering"
  /\ \E c \in invalid :
       /\ Earliest(invalid, c)
       /\ Append1(ToolRow(c, "unknown_tool"),
                  IF invalid # {c} THEN "answering"
                  ELSE IF valid # {} THEN "dispatching" ELSE "finishing")
       /\ invalid' = invalid \ {c}
       /\ exit' = IF invalid = {c} /\ valid = {} THEN "invalid_tool_calls" ELSE exit
  /\ UNCHANGED << used, turnStart, valid, running, stop, compacted, Store, Given >>

(* dispatch(name, arguments) begins: its effects happen from here on.      *)
Dispatch ==
  /\ pc = "dispatching" /\ running = NoCall
  /\ \E c \in valid : Earliest(valid, c) /\ running' = c
  /\ UNCHANGED << pc, messages, used, turnStart, valid, invalid, exit, stop, compacted,
                  Store, Given >>

\* Mutant of Return: asks whether to stop after every result.
ReturnOrStop ==
  /\ pc = "dispatching" /\ running # NoCall
  /\ Append1(ToolRow(running, "result"),
             IF stop THEN "finishing" ELSE IF valid # {running} THEN "dispatching" ELSE "loop")
  /\ exit' = IF stop THEN "stopped" ELSE exit
  /\ valid' = valid \ {running}
  /\ running' = NoCall
  /\ UNCHANGED << used, turnStart, invalid, stop, compacted, Store, Given >>

(* It returns, or raises and is reported as a tool_error: either way one   *)
(* tool row.  After the round's last row the loop asks whether to stop.    *)
Return ==
  /\ pc = "dispatching" /\ running # NoCall
  /\ Append1(ToolRow(running, "result"),
             IF valid # {running} THEN "dispatching"
             ELSE IF stop THEN "finishing" ELSE "loop")
  /\ exit' = IF valid = {running} /\ stop THEN "stopped" ELSE exit
  /\ valid' = valid \ {running}
  /\ running' = NoCall
  /\ UNCHANGED << used, turnStart, invalid, stop, compacted, Store, Given >>

-----------------------------------------------------------------------------
(* EPILOGUE: one last call without tools; its request row is kept only     *)
(* together with an answer.                                                *)
Summarise ==
  /\ pc = "summarising"
  /\ messages' = messages \o << UserRow("summary_request"), AssistantRow(<< >>) >>
  /\ pc' = "finishing"
  /\ UNCHANGED << used, turnStart, exit, stop, compacted, Store, Round, Given >>

FailSummary ==
  /\ pc = "summarising"
  /\ pc' = "finishing"
  /\ UNCHANGED << messages, used, turnStart, exit, stop, compacted, Store, Round, Given >>

(* asyncio.CancelledError at an await.  A persist already handed to its    *)
(* thread may still commit.                                                *)
Cancel ==
  /\ pc \in Awaiting
  /\ End("cancelled")
  /\ valid' = {} /\ invalid' = {} /\ running' = NoCall
  /\ \/ UNCHANGED saved
     \/ pc = "persisting" /\ saved' = Durable(saved, messages)
  /\ UNCHANGED << messages, used, savedUsed, turnStart, stop, compacted, Given >>

(* The caller saves what run_turn returned.                                *)
Save ==
  /\ pc = "finishing"
  /\ saved' = Durable(saved, messages)
  /\ savedUsed' = used
  /\ pc' = "idle" /\ messages' = << >> /\ turnStart' = 0
  /\ UNCHANGED << used, exit, stop, compacted, Round, Given >>

(* The process dies, or the final save raises: only the store is left.     *)
Crash ==
  /\ pc \notin {"idle", "raised"}
  /\ pc' = "idle" /\ messages' = << >> /\ turnStart' = 0 /\ exit' = "none"
  /\ valid' = {} /\ invalid' = {} /\ running' = NoCall
  /\ UNCHANGED << used, stop, compacted, Store, Given >>

(* run_control.request_stop, from another thread.                          *)
RequestStop ==
  /\ pc \notin {"idle", "raised"} /\ ~stop
  /\ stop' = TRUE
  /\ UNCHANGED << pc, messages, used, turnStart, exit, compacted, Store, Round, Given >>

-----------------------------------------------------------------------------
Progress ==
  \/ ExhaustBudget \/ ExpireWallClock \/ StopBeforeCall \/ CallModel
  \/ Answer \/ FailProvider \/ Overflow \/ CompactHistory \/ FailCompaction
  \/ AskForTools \/ Persist \/ FailPersist \/ AnswerInvalid
  \/ Dispatch \/ Return \/ Summarise \/ FailSummary \/ Save

Next == StartTurn \/ Progress \/ Cancel \/ Crash \/ RequestStop

(* Every await of a turn ends: complete() retries a bounded number of      *)
(* times, and persist, spill and save are local writes.                    *)
Spec == Init /\ [][Next]_vars /\ WF_vars(Progress)

-----------------------------------------------------------------------------
TypeOK ==
  /\ pc \in Points
  /\ messages \in Seq(Row) /\ saved \in Seq(Row)
  /\ used \in 0..MaxIterations /\ savedUsed \in 0..MaxIterations
  /\ turnStart \in Nat
  /\ valid \subseteq Calls /\ invalid \subseteq Calls
  /\ running \in Calls \cup {NoCall}
  /\ exit \in Exits
  /\ stop \in BOOLEAN /\ late \in BOOLEAN
  /\ turn \in 0..MaxTurns /\ compacted \in 0..turn

(* The history was not compacted in an earlier turn and then loaded back   *)
(* from rows that do not show it: they may have lost their shape.          *)
LoadedWhole == compacted \in {0, turn}

(* Whenever a request goes to a provider, every call in it has its answer, *)
(* in an unbroken run of tool rows after the assistant row that asked for  *)
(* it: after interruptions, crashes, repairs and compactions of this turn. *)
ProviderContract ==
  pc \in {"calling", "summarising"} =>
    /\ Pending(messages) = {}
    /\ LoadedWhole => Shape(messages)

(* append never raises TranscriptInvariantError out of run_turn: every row *)
(* the loop adds is one the history admits at that point.                  *)
AppendAccepted == pc # "raised"

(* While a tool call is carried out, what a restart would load already     *)
(* shows that it was asked for and not answered, so the next turn closes   *)
(* it with a marker.  (Not after a compaction, whose rows are skipped.)    *)
WriteAhead ==
  running # NoCall /\ compacted = 0 => running \in Pending(saved)

(* Only a cancellation and a failed persist end a turn with calls that     *)
(* have no answer; every other exit, a requested stop too, leaves the      *)
(* history closed.                                                         *)
OpenOnlyWhenCut ==
  pc = "finishing" /\ Pending(messages) # {} =>
    exit \in {"cancelled", "persistence_failed"}

(* Every turn ends, whatever the model answers and however often it asks   *)
(* for tools or overflows.                                                 *)
TurnEnds == pc # "idle" ~> pc = "idle"

=============================================================================
