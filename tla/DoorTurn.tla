------------------------------ MODULE DoorTurn ------------------------------
(***************************************************************************)
(* A turn taken through the door, as its watching client sees it (H21):    *)
(* door/nouns/messages.py's _DoorTurnObserver writes the user's row and a  *)
(* provisional assistant row before the model answers, the turn's own      *)
(* persist and final save write the same rows again by position, and the   *)
(* observer settles its placeholder in between.  Every write is announced  *)
(* to the change ledger.  Turns of other channels, which nobody watches,   *)
(* run on the same conversation, and so do messages that answer a parked   *)
(* run (Approvals has when there is one).  A step is the stretch between   *)
(* two transactions; the process may die at any of them.                   *)
(* TurnLoop has the turn's own control in full; here a round is an answer, *)
(* a batch of calls, an overflow or a failure.                             *)
(***************************************************************************)
EXTENDS Transcript

CONSTANTS
  Batches,      \* tool-call batches a model may answer with
  MaxRounds,    \* IterationBudget.max_total
  MaxTurns,     \* bound of the model: turns started
  MaxCrashes    \* bound of the model: deaths of the process

ASSUME DoorBatchesAssumption == \A b \in Batches : b \in Seq(Calls) /\ b # << >>
ASSUME DoorBoundsAssumption ==
  MaxRounds \in Nat /\ MaxTurns \in Nat /\ MaxCrashes \in Nat

VARIABLES
  pc,        \* where the turn stands
  messages,  \* the history in memory
  store,     \* the messages table: msg_seq (from 1) to row, state and holder
  runs,      \* turn_runs: turn_seq to "running" or "ended"
  nextSeq,   \* conversations.next_turn_seq
  watched,   \* whether the turn came through the door
  start,     \* the user row's msg_seq as turn_started reports it
  from,      \* turn_start_seq, which a compaction lowers
  final,     \* whether final_text is set
  rounds,    \* IterationBudget.used in memory
  spent,     \* conversations.iteration_used
  turn,      \* turns started
  marks,     \* ghost: what the ledger last said of each turn's placeholder id
  returned,  \* ghost: the history the last completed turn returned
  settled,   \* ghost: the last turn ran to its final save
  blame,     \* create() has yet to mark the last assistant row from here on; 0 if not
  blamed,    \* ghost: create() marked a row its own message did not write
  astray,    \* ghost: positions in memory and in the store have come apart
  crashes

vars == << pc, messages, store, runs, nextSeq, watched, start, from, final, rounds,
           spent, turn, marks, returned, settled, blame, blamed, astray, crashes >>

States == {"sent", "streaming", "failed"}
Marks  == {"none", "streaming", "sent", "failed", "deleted"}
Points == {"idle", "placing", "calling", "compacting", "persisting", "answering",
           "dispatching", "finishing", "recording", "saving"}

\* holder: the turn whose placeholder id the row carries, 0 for any other id.
Stored == [row : Row, state : States, holder : 0..MaxTurns]

Placeholder == [AssistantRow(<< >>) EXCEPT !.body = "empty"]

Init ==
  /\ pc = "idle"
  /\ messages = << >> /\ store = << >> /\ runs = << >> /\ nextSeq = 1
  /\ watched = FALSE /\ start = 0 /\ from = 0 /\ final = FALSE /\ rounds = 0 /\ spent = 0
  /\ turn = 0 /\ marks = [t \in 1..MaxTurns |-> "none"]
  /\ returned = << >> /\ settled = TRUE /\ astray = FALSE /\ crashes = 0
  /\ blame = 0 /\ blamed = FALSE

-----------------------------------------------------------------------------
Rank(s) == Cardinality({t \in DOMAIN store : t <= s})

(* load: the rows in msg_seq order, numbered anew, whatever their state.   *)
Load ==
  [k \in 1..Cardinality(DOMAIN store) |->
     store[CHOOSE s \in DOMAIN store : Rank(s) = k].row]

Gapped == DOMAIN store # 1..Cardinality(DOMAIN store)

Sent(row) == [row |-> row, state |-> "sent", holder |-> 0]

(* The ON CONFLICT branch: a streaming row takes the new content and keeps *)
(* its role and its id.                                                    *)
Promote(old, row) ==
  [row |-> [row EXCEPT !.role = old.row.role], state |-> "sent", holder |-> old.holder]

Streaming(s) == s \in DOMAIN store /\ store[s].state = "streaming"

(* _insert_messages: every row of the history that is absent or streaming. *)
Written(history) ==
  [s \in DOMAIN store \cup DOMAIN history |->
     IF s \notin DOMAIN store THEN Sent(history[s])
     ELSE IF Streaming(s) /\ s \in DOMAIN history THEN Promote(store[s], history[s])
     ELSE store[s]]

\* Mutant of Recorded: the id minted for the insert is announced, not the surviving one.
RecordedAsNew(history) == marks

(* _record_messages: a promoted row is announced under its surviving id.   *)
Recorded(history) ==
  [t \in DOMAIN marks |->
     IF \E s \in DOMAIN history : Streaming(s) /\ store[s].holder = t
       THEN "sent" ELSE marks[t]]

Given == << watched, start, turn, spent >>
Ledger == << store, marks >>
Outcome == << returned, settled, blame, blamed >>

-----------------------------------------------------------------------------
(* take_turn loads and repairs the history and appends the user's row;     *)
(* turn_started first inserts the turn's run.  turn_runs has one row per   *)
(* turn_seq, so the insert fails when an earlier try at this turn died     *)
(* after making one, and then no message row is placed either.             *)
StartTurn ==
  /\ pc = "idle" /\ turn < MaxTurns
  /\ \E repaired \in Repaired(Load) : messages' = Append(repaired, UserRow("input"))
  /\ start' = Len(messages') /\ from' = Len(messages')
  /\ watched' \in BOOLEAN
  /\ turn' = turn + 1
  /\ IF watched' /\ nextSeq \notin DOMAIN runs
       THEN /\ runs' = [n \in DOMAIN runs \cup {nextSeq} |->
                          IF n = nextSeq THEN "running" ELSE runs[n]]
            /\ pc' = "placing"
       ELSE pc' = "calling" /\ UNCHANGED runs
  /\ final' = FALSE /\ rounds' = spent
  /\ UNCHANGED << nextSeq, spent, Ledger, Outcome, astray, crashes >>

(* turn_started's second transaction: both rows or, when either position   *)
(* is taken, neither.                                                      *)
PlaceRows ==
  /\ pc = "placing"
  /\ IF {start, start + 1} \cap DOMAIN store = {}
       THEN /\ store' = [s \in DOMAIN store \cup {start, start + 1} |->
                           IF s = start THEN Sent(messages[start])
                           ELSE IF s = start + 1
                             THEN [row |-> Placeholder, state |-> "streaming", holder |-> turn]
                             ELSE store[s]]
            /\ marks' = [marks EXCEPT ![turn] = "streaming"]
       ELSE UNCHANGED Ledger
  /\ pc' = "calling"
  /\ UNCHANGED << messages, runs, nextSeq, Given, from, final, rounds, Outcome,
                  astray, crashes >>

-----------------------------------------------------------------------------
(* What a round brings.  Every call of the model costs an iteration.       *)
Called == pc = "calling" /\ rounds < MaxRounds /\ rounds' = rounds + 1

Kept == << Ledger, Given, runs, nextSeq, Outcome, crashes >>

Reply ==
  /\ Called
  /\ messages' = Append(messages, AssistantRow(<< >>))
  /\ final' = TRUE /\ pc' = "finishing"
  /\ UNCHANGED << from, astray, Kept >>

(* A provider failure, the wall clock or a requested stop.                 *)
Fail ==
  /\ Called
  /\ pc' = "finishing"
  /\ UNCHANGED << messages, from, final, astray, Kept >>

(* A batch with no valid call is answered without a persist and ends the   *)
(* turn.                                                                   *)
AskForTools ==
  /\ Called
  /\ \E calls \in Batches : messages' = Append(messages, AssistantRow(calls))
  /\ pc' \in {"persisting", "answering"}
  /\ UNCHANGED << from, final, astray, Kept >>

Overflow ==
  /\ Called
  /\ pc' = "compacting"
  /\ UNCHANGED << messages, from, final, astray, Kept >>

CompactHistory ==
  /\ pc = "compacting"
  /\ \E b \in 1..Len(messages) :
       IsBoundary(messages, b) /\ messages' = Compact(messages, b)
  /\ from' = IF from > Len(messages') + 1 THEN Len(messages') + 1 ELSE from
  /\ astray' = TRUE
  /\ pc' = "calling"
  /\ UNCHANGED << final, rounds, Kept >>

FailCompaction ==
  /\ pc = "compacting"
  /\ pc' = "finishing"
  /\ UNCHANGED << messages, from, final, rounds, astray, Kept >>

(* The epilogue after the last iteration: a request and its answer, or     *)
(* neither.                                                                *)
Summarise ==
  /\ pc = "calling" /\ rounds = MaxRounds
  /\ \/ /\ messages' = messages \o << UserRow("summary_request"), AssistantRow(<< >>) >>
        /\ final' = TRUE
     \/ UNCHANGED << messages, final >>
  /\ pc' = "finishing"
  /\ UNCHANGED << from, rounds, astray, Kept >>

(* persist, the write-ahead: save without the turn's own count.            *)
Persist ==
  /\ pc = "persisting"
  /\ store' = Written(messages) /\ marks' = Recorded(messages)
  /\ pc' = "dispatching"
  /\ UNCHANGED << messages, runs, nextSeq, Given, from, final, rounds, Outcome,
                  astray, crashes >>

FailPersist ==
  /\ pc = "persisting"
  /\ pc' = "finishing"
  /\ UNCHANGED << messages, from, final, rounds, astray, Kept >>

(* A tool row for each call in turn; after the last one the loop goes on,  *)
(* or ends for a stop or for want of a valid call.                         *)
AnswerCall ==
  /\ pc \in {"dispatching", "answering"}
  /\ \E c \in Pending(messages) :
       /\ \A d \in Pending(messages) \ {c} : Declared(messages, c, d)
       /\ messages' = Append(messages,
                             ToolRow(c, IF pc = "answering" THEN "unknown_tool" ELSE "result"))
       /\ pc' \in IF Pending(messages) # {c} THEN {pc}
                  ELSE IF pc = "answering" THEN {"finishing"}
                  ELSE {"calling", "finishing"}
  /\ UNCHANGED << from, final, rounds, astray, Kept >>

(* CancelledError reaches the turns of other channels only: the door runs  *)
(* its turn to the end with asyncio.run.  A persist already handed to its  *)
(* thread may still commit.                                                *)
Cancel ==
  /\ ~watched
  /\ pc \in {"calling", "compacting", "persisting", "answering", "dispatching"}
  /\ pc' = "finishing"
  /\ \/ UNCHANGED Ledger
     \/ pc = "persisting" /\ store' = Written(messages) /\ marks' = Recorded(messages)
  /\ UNCHANGED << messages, runs, nextSeq, Given, from, final, rounds, Outcome,
                  astray, crashes >>

-----------------------------------------------------------------------------
\* Mutant of Settle: what happens to the placeholder's position whatever is there now.
SettleAnyRow ==
  LET s == start + 1 IN
  IF s \notin DOMAIN store THEN UNCHANGED store
  ELSE IF final /\ Len(messages) = s
    THEN store' = [store EXCEPT ![s].row = messages[s], ![s].state = "sent"]
  ELSE IF Len(messages) = from
    THEN store' = [store EXCEPT ![s].state = "failed"]
  ELSE store' = [t \in DOMAIN store \ {s} |-> store[t]]

\* Mutant of Settle: the reply is put on the placeholder wherever it landed.
SettleAnyReply ==
  LET s == start + 1 IN
  IF ~Streaming(s) THEN UNCHANGED store
  ELSE IF final
    THEN store' = [store EXCEPT ![s].row.body = "text", ![s].state = "sent"]
  ELSE IF Len(messages) = from
    THEN store' = [store EXCEPT ![s].state = "failed"]
  ELSE store' = [t \in DOMAIN store \ {s} |-> store[t]]

(* turn_finished: the reply landed on the placeholder; or nothing was      *)
(* appended but the user's row; or the placeholder stands for nothing.     *)
(* Only a row still streaming is touched.                                  *)
Settle ==
  LET s == start + 1 IN
  IF ~Streaming(s) THEN UNCHANGED store
  ELSE IF final /\ Len(messages) = s
    THEN store' = [store EXCEPT ![s].row.body = "text", ![s].state = "sent"]
  ELSE IF Len(messages) = from
    THEN store' = [store EXCEPT ![s].state = "failed"]
  ELSE store' = [t \in DOMAIN store \ {s} |-> store[t]]

(* Each of the three is announced, whether a row was touched or not.       *)
Verdict ==
  IF final /\ Len(messages) = start + 1 THEN "sent"
  ELSE IF Len(messages) = from THEN "failed" ELSE "deleted"

FinishTurn ==
  /\ pc = "finishing"
  /\ IF watched
       THEN Settle /\ marks' = [marks EXCEPT ![turn] = Verdict]
       ELSE UNCHANGED Ledger
  /\ pc' = "recording"
  /\ UNCHANGED << messages, runs, nextSeq, Given, from, final, rounds, Outcome,
                  astray, crashes >>

(* insert_turn_run, by the observer and once more by record_turn: an       *)
(* upsert by turn_seq.                                                     *)
RecordTurn ==
  /\ pc = "recording"
  /\ runs' = [n \in DOMAIN runs \cup {nextSeq} |-> IF n = nextSeq THEN "ended" ELSE runs[n]]
  /\ pc' = "saving"
  /\ UNCHANGED << messages, nextSeq, Given, from, final, rounds, Ledger, Outcome,
                  astray, crashes >>

(* client_surface.take_turn's own save, of every row and of the count.     *)
SaveTurn ==
  /\ pc = "saving"
  /\ store' = Written(messages) /\ marks' = Recorded(messages)
  /\ nextSeq' = nextSeq + 1
  /\ returned' = messages /\ settled' = TRUE /\ UNCHANGED << blame, blamed >>
  /\ pc' = "idle" /\ messages' = << >> /\ from' = 0 /\ final' = FALSE /\ rounds' = 0
  /\ spent' = rounds
  /\ UNCHANGED << runs, watched, start, turn, astray, crashes >>

(* A message that answers a parked wait: no turn and no observer, only the *)
(* resumed run's text appended to the history as loaded and saved.  (With  *)
(* a call still open the append raises and nothing is written.)  When the  *)
(* run failed, create() goes on to mark a row.                             *)
AnswerParked ==
  /\ pc = "idle" /\ turn < MaxTurns /\ blame = 0
  /\ \E s \in DOMAIN store : store[s].row.body = "result"
  /\ CanAppend(Load, AssistantRow(<< >>))
  /\ returned' = Append(Load, AssistantRow(<< >>)) /\ settled' = TRUE
  /\ store' = Written(returned') /\ marks' = Recorded(returned')
  /\ blame' \in {0, Len(returned')}
  /\ turn' = turn + 1
  /\ UNCHANGED << pc, messages, runs, nextSeq, watched, start, from, final, rounds, spent,
                  blamed, astray, crashes >>

(* It holds no lock by then, and looks for the last assistant row, of any  *)
(* state; no change is announced.                                          *)
BlameLast ==
  /\ blame # 0
  /\ blame' = 0
  /\ LET since == {s \in DOMAIN store : s >= blame /\ store[s].row.role = "assistant"} IN
       \/ since = {} /\ UNCHANGED << store, blamed >>
       \/ \E s \in since :
            /\ \A t \in since : t <= s
            /\ store' = [store EXCEPT ![s].state = "failed"]
            /\ blamed' = (blamed \/ s # blame)
  /\ UNCHANGED << pc, messages, runs, nextSeq, Given, from, final, rounds, marks, returned,
                  settled, astray, crashes >>

(* The process dies, or the save raises; what is in memory is gone.        *)
Crash ==
  /\ pc # "idle" /\ crashes < MaxCrashes
  /\ crashes' = crashes + 1
  /\ astray' = (astray \/ Gapped)
  /\ settled' = FALSE /\ blame' = 0 /\ UNCHANGED blamed
  /\ pc' = "idle" /\ messages' = << >> /\ from' = 0 /\ final' = FALSE /\ rounds' = 0
  /\ UNCHANGED << runs, nextSeq, Given, Ledger, returned >>

Next ==
  \/ StartTurn \/ PlaceRows \/ Reply \/ Fail \/ AskForTools \/ Overflow
  \/ CompactHistory \/ FailCompaction \/ Summarise \/ Persist \/ FailPersist
  \/ AnswerCall \/ Cancel \/ FinishTurn \/ RecordTurn \/ SaveTurn \/ AnswerParked \/ BlameLast
  \/ Crash

Spec == Init /\ [][Next]_vars

-----------------------------------------------------------------------------
TypeOK ==
  /\ pc \in Points
  /\ messages \in Seq(Row) /\ returned \in Seq(Row)
  /\ DOMAIN store \subseteq Nat \ {0} /\ \A s \in DOMAIN store : store[s] \in Stored
  /\ DOMAIN runs \subseteq 1..nextSeq /\ \A n \in DOMAIN runs : runs[n] \in {"running", "ended"}
  /\ nextSeq \in 1..(turn + 1)
  /\ watched \in BOOLEAN /\ final \in BOOLEAN /\ settled \in BOOLEAN /\ astray \in BOOLEAN
  /\ blame \in Nat /\ blamed \in BOOLEAN
  /\ start \in Nat /\ from \in 0..(start + 1)
  /\ rounds \in 0..MaxRounds /\ spent \in 0..MaxRounds /\ turn \in 0..MaxTurns /\ crashes \in 0..MaxCrashes
  /\ marks \in [1..MaxTurns -> Marks]

(* "Never overwrites a finished row" (the docstring of _insert_messages):  *)
(* what a row says, its id and its place stand once its state has settled, *)
(* though the observer, the write-ahead, the final save and create() all   *)
(* write by position; it never streams again, and a failed row stays so.   *)
Stands(s) ==
  /\ s \in DOMAIN store'
  /\ store'[s].row = store[s].row /\ store'[s].holder = store[s].holder
  /\ store'[s].state \in {store[s].state, "failed"}

SettledStands ==
  [][\A s \in DOMAIN store : store[s].state # "streaming" => Stands(s)]_vars

(* docs/console/nouns/message.md: the row is finalized "sent with the      *)
(* turn's own final text, or failed (empty content) if the turn never      *)
(* produced one": after a turn that ran to its end the next load gives the *)
(* history it returned, save for a placeholder marked failed at its end.   *)
ReplyKept ==
  pc = "idle" /\ settled /\ ~astray => Load \in {returned, Append(returned, Placeholder)}

(* A turn that ran to its end leaves no row streaming, neither its own nor *)
(* one that an earlier, dead turn left behind.                             *)
NoStreamingLeft ==
  pc = "idle" /\ settled /\ ~astray => \A s \in DOMAIN store : ~Streaming(s)

(* The history a provider gets is well formed, whatever rows dead and      *)
(* failed turns left in the store, until a gap or a compaction.            *)
RequestInShape ==
  pc = "calling" /\ ~astray => Pending(messages) = {} /\ Shape(messages)

(* The rows the three writers leave are the history, and nothing of a turn *)
(* is lost between them.  That holds until create() marks a row that is    *)
(* not its own.                                                            *)
KeptWhole == blamed \/ (ReplyKept /\ NoStreamingLeft /\ RequestInShape)

(* Between turns only the run of the turn to be tried next may still be    *)
(* shown as running: the next turn to finish ends it.                      *)
RunsEnd ==
  pc = "idle" => \A n \in DOMAIN runs : runs[n] = "running" => n = nextSeq

(* A client that follows the ledger never goes on believing that a reply   *)
(* is streaming when its row has settled or is gone.  That holds until     *)
(* create() marks a row by mistake, or positions come apart: then          *)
(* turn_finished may settle the placeholder of a dead turn under the id of *)
(* its own, and nothing is announced of the one it changed.                *)
LedgerCatchesUp ==
  \A t \in DOMAIN marks : marks[t] = "streaming" /\ ~blamed /\ ~astray =>
    \E s \in DOMAIN store : Streaming(s) /\ store[s].holder = t

=============================================================================
