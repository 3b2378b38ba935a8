--------------------------- MODULE DoorTurnProofs ---------------------------
(***************************************************************************)
(* Theorems about DoorTurn that hold for any calls, batches and bounds.    *)
(***************************************************************************)
EXTENDS DoorTurn, TranscriptProofs, SequenceTheorems

-----------------------------------------------------------------------------
(* Rows whose state has settled.                                           *)

Steady == \A s \in DOMAIN store : store[s].state # "streaming" => Stands(s)

(* Every entry of the table is a record of a row, a state and a holder.    *)
Entry(row, state, holder) == [row |-> row, state |-> state, holder |-> holder]

RowsInv == \A s \in DOMAIN store :
             store[s] = Entry(store[s].row, store[s].state, store[s].holder)

(* _insert_messages writes absent and streaming positions only.            *)
LEMMA WrittenKeepsSettled ==
  ASSUME NEW history, store' = Written(history) PROVE Steady
BY DEF Written, Steady, Streaming, Stands

(* turn_finished touches its position only while it is streaming.          *)
LEMMA SettleKeepsSettled ==
  ASSUME Settle PROVE Steady
<1> DEFINE p == start + 1
<1>1. CASE ~Streaming(p)
  BY <1>1 DEF Settle, Steady, Stands
<1>2. CASE Streaming(p)
  <2>1. p \in DOMAIN store /\ store[p].state = "streaming"
    BY <1>2 DEF Streaming
  <2>2. \/ store' = [store EXCEPT ![p].row.body = "text", ![p].state = "sent"]
        \/ store' = [store EXCEPT ![p].state = "failed"]
        \/ store' = [t \in DOMAIN store \ {p} |-> store[t]]
    BY <1>2 DEF Settle
  <2>3. CASE store' = [store EXCEPT ![p].row.body = "text", ![p].state = "sent"]
    BY <2>1, <2>3 DEF Steady, Stands
  <2>4. CASE store' = [store EXCEPT ![p].state = "failed"]
    BY <2>1, <2>4 DEF Steady, Stands
  <2>5. CASE store' = [t \in DOMAIN store \ {p} |-> store[t]]
    BY <2>1, <2>5 DEF Steady, Stands
  <2> QED BY <2>2, <2>3, <2>4, <2>5
<1> QED BY <1>1, <1>2

(* turn_started places its rows at free positions.                         *)
LEMMA PlaceKeepsSettled ==
  ASSUME PlaceRows PROVE Steady
<1>1. CASE {start, start + 1} \cap DOMAIN store = {}
  <2>1. DOMAIN store' = DOMAIN store \cup {start, start + 1}
    BY <1>1 DEF PlaceRows
  <2>2. \A s \in DOMAIN store : s # start /\ s # start + 1
    BY <1>1
  <2>3. \A s \in DOMAIN store : store'[s] = store[s]
    BY <1>1, <2>2 DEF PlaceRows
  <2> QED BY <2>1, <2>3 DEF Steady, Stands
<1>2. CASE {start, start + 1} \cap DOMAIN store # {}
  BY <1>2 DEF PlaceRows, Ledger, Steady, Stands
<1> QED BY <1>1, <1>2

(* create() changes a state, and to failed only.                           *)
LEMMA BlameKeepsSettled ==
  ASSUME RowsInv, BlameLast PROVE Steady
<1>1. CASE store' = store
  BY <1>1 DEF Steady, Stands
<1>2. CASE \E s \in DOMAIN store : store' = [store EXCEPT ![s].state = "failed"]
  <2>1. PICK s \in DOMAIN store : store' = [store EXCEPT ![s].state = "failed"]
    BY <1>2
  <2>2. SUFFICES ASSUME NEW t \in DOMAIN store PROVE Stands(t)
    BY DEF Steady
  <2>3. CASE t = s
    <3>1. store[s] = Entry(store[s].row, store[s].state, store[s].holder)
      BY DEF RowsInv
    <3>2. store'[s] = Entry(store[s].row, "failed", store[s].holder)
      BY <2>1, <3>1 DEF Entry
    <3> QED BY <2>1, <2>3, <3>2 DEF Stands, Entry
  <2>4. CASE t # s
    BY <2>1, <2>4 DEF Stands
  <2> QED BY <2>3, <2>4
<1> QED BY <1>1, <1>2 DEF BlameLast

LEMMA RowsInit == Init => RowsInv
BY DEF Init, RowsInv

LEMMA RowsStep == RowsInv /\ [Next]_vars => RowsInv'
<1> SUFFICES ASSUME RowsInv, [Next]_vars PROVE RowsInv'
  OBVIOUS
<1>1. CASE store' = store
  BY <1>1 DEF RowsInv
<1>2. ASSUME NEW history, store' = Written(history) PROVE RowsInv'
  BY <1>2 DEF RowsInv, Written, Sent, Promote, Entry
<1>3. CASE PlaceRows
  BY <1>3, <1>1 DEF PlaceRows, Ledger, RowsInv, Sent, Entry
<1>4. CASE Settle
  <2> DEFINE p == start + 1
  <2>1. CASE ~Streaming(p)
    BY <2>1, <1>4, <1>1 DEF Settle
  <2>2. CASE Streaming(p)
    <3>1. p \in DOMAIN store
      BY <2>2 DEF Streaming
    <3>2. store[p] = Entry(store[p].row, store[p].state, store[p].holder)
      BY <3>1 DEF RowsInv
    <3>3. CASE store' = [store EXCEPT ![p].row.body = "text", ![p].state = "sent"]
      BY <3>1, <3>2, <3>3 DEF RowsInv, Entry
    <3>4. CASE store' = [store EXCEPT ![p].state = "failed"]
      BY <3>1, <3>2, <3>4 DEF RowsInv, Entry
    <3>5. CASE store' = [t \in DOMAIN store \ {p} |-> store[t]]
      BY <3>5 DEF RowsInv
    <3> QED BY <2>2, <1>4, <3>3, <3>4, <3>5 DEF Settle
  <2> QED BY <2>1, <2>2
<1>5. CASE BlameLast
  <2>1. CASE \E s \in DOMAIN store : store' = [store EXCEPT ![s].state = "failed"]
    <3>1. PICK s \in DOMAIN store : store' = [store EXCEPT ![s].state = "failed"]
      BY <2>1
    <3>2. store[s] = Entry(store[s].row, store[s].state, store[s].holder)
      BY DEF RowsInv
    <3> QED BY <3>1, <3>2 DEF RowsInv, Entry
  <2> QED BY <1>5, <1>1, <2>1 DEF BlameLast
<1>6. CASE Persist \/ SaveTurn \/ AnswerParked
  BY <1>6, <1>2 DEF Persist, SaveTurn, AnswerParked
<1>7. CASE Cancel
  BY <1>7, <1>1, <1>2 DEF Cancel, Ledger
<1>8. CASE FinishTurn
  BY <1>8, <1>1, <1>4 DEF FinishTurn, Ledger
<1>9. CASE StartTurn \/ Reply \/ Fail \/ AskForTools \/ Overflow \/ CompactHistory
           \/ FailCompaction \/ Summarise \/ FailPersist \/ AnswerCall \/ RecordTurn
           \/ Crash \/ UNCHANGED vars
  <2>1. store' = store
    BY <1>9 DEF StartTurn, Reply, Fail, AskForTools, Overflow, CompactHistory,
                FailCompaction, Summarise, FailPersist, AnswerCall, RecordTurn, Crash,
                Kept, Ledger, vars
  <2> QED BY <2>1, <1>1
<1> QED BY <1>3, <1>5, <1>6, <1>7, <1>8, <1>9 DEF Next

LEMMA NextSteady ==
  ASSUME RowsInv, [Next]_vars PROVE Steady
<1>1. CASE store' = store
  BY <1>1 DEF Steady, Stands
<1>2. CASE PlaceRows
  BY <1>2, PlaceKeepsSettled
<1>3. CASE Persist \/ SaveTurn
  BY <1>3, WrittenKeepsSettled DEF Persist, SaveTurn
<1>4. CASE AnswerParked
  BY <1>4, WrittenKeepsSettled DEF AnswerParked
<1>5. CASE BlameLast
  BY <1>5, BlameKeepsSettled
<1>6. CASE Cancel
  BY <1>6, <1>1, WrittenKeepsSettled DEF Cancel, Ledger
<1>7. CASE FinishTurn
  BY <1>7, <1>1, SettleKeepsSettled DEF FinishTurn, Ledger
<1>8. CASE StartTurn \/ Reply \/ Fail \/ AskForTools \/ Overflow \/ CompactHistory
           \/ FailCompaction \/ Summarise \/ FailPersist \/ AnswerCall \/ RecordTurn
           \/ Crash \/ UNCHANGED vars
  <2>1. store' = store
    BY <1>8 DEF StartTurn, Reply, Fail, AskForTools, Overflow, CompactHistory,
                FailCompaction, Summarise, FailPersist, AnswerCall, RecordTurn, Crash,
                Kept, Ledger, vars
  <2> QED BY <2>1, <1>1
<1> QED BY <1>2, <1>3, <1>6, <1>7, <1>8, <1>4, <1>5 DEF Next

(* What a settled row says, its id and its place stand, by whichever of    *)
(* the writers, and whatever came before.                                  *)
THEOREM SettledRowsStand == Spec => SettledStands
<1>1. RowsInv /\ [Next]_vars => [Steady]_vars
  BY NextSteady
<1> QED BY <1>1, RowsInit, RowsStep, PTL DEF Spec, SettledStands, Steady

-----------------------------------------------------------------------------
(* The runs table.  turn_runs never gets ahead of the conversation's own   *)
(* count, every earlier turn has ended, and the current one has by the     *)
(* time the count moves on.                                                *)

RunsInv ==
  /\ nextSeq \in Nat \ {0}
  /\ \A n \in DOMAIN runs : n \in 1..nextSeq
  /\ \A n \in DOMAIN runs : runs[n] = "running" => n = nextSeq
  /\ pc = "saving" => nextSeq \in DOMAIN runs /\ runs[nextSeq] = "ended"

LEMMA RunsInit == Init => RunsInv
BY DEF Init, RunsInv

LEMMA RunsStep == RunsInv /\ [Next]_vars => RunsInv'
<1> SUFFICES ASSUME RunsInv, [Next]_vars PROVE RunsInv'
  OBVIOUS
<1> USE DEF RunsInv
<1>1. CASE UNCHANGED << runs, nextSeq >> /\ pc' # "saving"
  BY <1>1
<1>2. CASE StartTurn
  <2>1. nextSeq' = nextSeq /\ pc' # "saving"
    BY <1>2 DEF StartTurn
  <2>2. CASE runs' = runs
    BY <2>1, <2>2
  <2>3. CASE runs' = [n \in DOMAIN runs \cup {nextSeq} |->
                        IF n = nextSeq THEN "running" ELSE runs[n]]
    BY <2>1, <2>3
  <2> QED BY <1>2, <2>2, <2>3 DEF StartTurn
<1>3. CASE RecordTurn
  <2>1. nextSeq' = nextSeq /\ pc' = "saving"
    BY <1>3 DEF RecordTurn
  <2>2. runs' = [n \in DOMAIN runs \cup {nextSeq} |->
                   IF n = nextSeq THEN "ended" ELSE runs[n]]
    BY <1>3 DEF RecordTurn
  <2> QED BY <2>1, <2>2
<1>4. CASE SaveTurn
  <2>1. nextSeq' = nextSeq + 1 /\ runs' = runs /\ pc = "saving" /\ pc' = "idle"
    BY <1>4 DEF SaveTurn
  <2>2. \A n \in DOMAIN runs : runs[n] # "running"
    BY <2>1
  <2> QED BY <2>1, <2>2
<1>5. CASE PlaceRows \/ Reply \/ Fail \/ AskForTools \/ Overflow \/ CompactHistory
           \/ FailCompaction \/ Summarise \/ Persist \/ FailPersist \/ AnswerCall
           \/ Cancel \/ FinishTurn \/ Crash
  <2>1. UNCHANGED << runs, nextSeq >>
    BY <1>5 DEF PlaceRows, Reply, Fail, AskForTools, Overflow, CompactHistory,
                FailCompaction, Summarise, Persist, FailPersist, AnswerCall, Cancel,
                FinishTurn, Crash, Kept
  <2>2. pc' # "saving"
    BY <1>5 DEF PlaceRows, Reply, Fail, AskForTools, Overflow, CompactHistory,
                FailCompaction, Summarise, Persist, FailPersist, AnswerCall, Cancel,
                FinishTurn, Crash
  <2> QED BY <2>1, <2>2, <1>1
<1>6. CASE AnswerParked \/ BlameLast \/ UNCHANGED vars
  <2>1. UNCHANGED << runs, nextSeq, pc >>
    BY <1>6 DEF AnswerParked, BlameLast, vars
  <2> QED BY <2>1
<1> QED BY <1>2, <1>3, <1>4, <1>5, <1>6 DEF Next

(* Between turns only the turn to be tried next can still be shown as      *)
(* running, however often the process died.                                *)
THEOREM OnlyNextRuns == Spec => []RunsEnd
<1>1. RunsInv => RunsEnd
  BY DEF RunsInv, RunsEnd
<1> QED BY <1>1, RunsInit, RunsStep, PTL DEF Spec

-----------------------------------------------------------------------------
(* The history and the ledger, while positions in memory and in the store  *)
(* are the same and every mark of create() hit its own row.                *)

Sound == ~astray /\ ~blamed

HistoryOK ==
  /\ pc \in Points /\ messages \in Seq(Row) /\ start \in Nat /\ turn \in 0..MaxTurns
  /\ watched \in BOOLEAN /\ marks \in [1..MaxTurns -> Marks]

(* Between turns the rows are numbered without a gap and in shape; after a *)
(* turn that ran to its end they are what it returned, and none streams.   *)
IdleInv ==
  /\ ~Gapped /\ Cardinality(DOMAIN store) \in Nat
  /\ Load \in Seq(Row) /\ Shape(Load)
  /\ settled =>
       /\ Load \in {returned, Append(returned, Placeholder)}
       /\ \A s \in DOMAIN store : ~Streaming(s)

(* A turn's user row is new to the table, and so is the place after it     *)
(* until the observer puts its placeholder there.                          *)
PlacedInv ==
  /\ start \in 1..Len(messages) /\ from = start /\ turn \in 1..MaxTurns
  /\ DOMAIN store \subseteq (1..Len(messages)) \cup {start + 1}
  /\ pc = "placing" =>
       watched /\ Len(messages) = start /\ {start, start + 1} \cap DOMAIN store = {}

(* Every stored row but the turn's placeholder is the row in memory.       *)
FaithfulInv ==
  \A s \in DOMAIN store :
    s <= Len(messages) /\ ~(s = start + 1 /\ Streaming(s)) => store[s].row = messages[s]

(* The placeholder is the last row, the watched turn's own, and is settled *)
(* before the turn is saved.                                               *)
PlaceholderInv ==
  /\ Streaming(start + 1) =>
       /\ store[start + 1].holder = turn
       /\ watched /\ pc \notin {"recording", "saving"}
       /\ \A s \in DOMAIN store : s <= start + 1
  /\ Streaming(start + 1) \/ (start + 1 \in DOMAIN store /\ Len(messages) = start) =>
       store[start + 1].row = Placeholder
  /\ pc \notin {"recording", "saving"} /\ start + 1 \in DOMAIN store /\ Len(messages) = start =>
       Streaming(start + 1)

Midway == {"persisting", "answering", "dispatching"}

(* What the turn adds to the history, whose first new row is the model's   *)
(* whenever the table may still take it for the placeholder.               *)
RoundInv ==
  /\ Shape(messages) /\ Shape(Append(Upto(messages, start), Placeholder))
  /\ pc \in {"placing", "calling", "compacting"} => Pending(messages) = {}
  /\ pc \in Midway => Len(messages) > start
  /\ pc \in Midway \cup {"calling", "compacting"} /\ Len(messages) > start =>
       messages[start + 1].role = "assistant"
  /\ final =>
       /\ pc \in {"finishing", "recording", "saving"}
       /\ Len(messages) > start /\ messages[Len(messages)] = AssistantRow(<< >>)

(* A row that create() has yet to mark has settled.                        *)
BlameInv == blame # 0 => blame \in DOMAIN store /\ ~Streaming(blame)

LedgerInv ==
  \A t \in 1..MaxTurns :
    marks[t] = "streaming" => \E s \in DOMAIN store : Streaming(s) /\ store[s].holder = t

TurnInv == PlacedInv /\ FaithfulInv /\ PlaceholderInv /\ RoundInv

Held ==
  /\ HistoryOK /\ BlameInv /\ LedgerInv
  /\ IF pc = "idle" THEN IdleInv ELSE TurnInv

IInv == RowsInv /\ (Sound => Held)

-----------------------------------------------------------------------------
(* What a store without a gap loads as.                                    *)

LoadOf(table) ==
  [k \in 1..Cardinality(DOMAIN table) |->
     table[CHOOSE s \in DOMAIN table : Cardinality({t \in DOMAIN table : t <= s}) = k].row]

LEMMA LoadIs ==
  ASSUME NEW table, NEW k \in Nat, DOMAIN table = 1..k
  PROVE  /\ Cardinality(DOMAIN table) = k
         /\ LoadOf(table) = [i \in 1..k |-> table[i].row]
<1>1. \A n \in Nat : Cardinality(1..n) = n
  BY FS_Interval
<1>2. \A s \in 1..k : {t \in 1..k : t <= s} = 1..s
  OBVIOUS
<1>3. \A s \in 1..k : Cardinality({t \in 1..k : t <= s}) = s
  <2>1. SUFFICES ASSUME NEW s \in 1..k PROVE Cardinality({t \in 1..k : t <= s}) = s
    OBVIOUS
  <2>2. {t \in 1..k : t <= s} = 1..s /\ s \in Nat
    BY <1>2
  <2>3. Cardinality(1..s) = s
    BY <1>1, <2>2
  <2> QED BY <2>2, <2>3
<1>4. \A i \in 1..k : (CHOOSE s \in 1..k : Cardinality({t \in 1..k : t <= s}) = i) = i
  <2>1. SUFFICES ASSUME NEW i \in 1..k
                 PROVE  (CHOOSE s \in 1..k : Cardinality({t \in 1..k : t <= s}) = i) = i
    OBVIOUS
  <2>2. \A s \in 1..k : Cardinality({t \in 1..k : t <= s}) = i <=> s = i
    BY <1>3
  <2> QED BY <2>2
<1>5. Cardinality(DOMAIN table) = k
  BY <1>1
<1>6. LoadOf(table) =
        [i \in 1..k |-> table[CHOOSE s \in 1..k : Cardinality({t \in 1..k : t <= s}) = i].row]
  BY <1>5 DEF LoadOf
<1> QED BY <1>4, <1>5, <1>6

LEMMA LoadDef == Load = LoadOf(store)
BY DEF Load, LoadOf, Rank

(* The rows of a gapless store, which are also some history's.             *)
LEMMA LoadWhole ==
  ASSUME NEW table, NEW h \in Seq(Row), DOMAIN table = 1..Len(h),
         \A i \in 1..Len(h) : table[i].row = h[i]
  PROVE  LoadOf(table) = h /\ Cardinality(DOMAIN table) = Len(h)
<1>1. Len(h) \in Nat /\ DOMAIN h = 1..Len(h) /\ h = [i \in 1..Len(h) |-> h[i]]
  OBVIOUS
<1>2. Cardinality(DOMAIN table) = Len(h) /\ LoadOf(table) = [i \in 1..Len(h) |-> table[i].row]
  BY <1>1, LoadIs
<1> QED BY <1>1, <1>2

LEMMA AtRest ==
  ASSUME NEW h \in Seq(Row), DOMAIN store' = 1..Len(h), Shape(h),
         \A i \in 1..Len(h) : store'[i].row = h[i]
  PROVE  /\ ~Gapped' /\ Cardinality(DOMAIN store') \in Nat
         /\ Load' = h /\ Load' \in Seq(Row) /\ Shape(Load')
<1>1. LoadOf(store') = h /\ Cardinality(DOMAIN store') = Len(h)
  BY LoadWhole
<1>2. Load' = LoadOf(store')
  BY DEF Load, LoadOf, Rank
<1> QED BY <1>1, <1>2 DEF Gapped

(* At rest, the stored rows by position.                                   *)
LEMMA RestRows ==
  ASSUME IdleInv
  PROVE  /\ Len(Load) = Cardinality(DOMAIN store) /\ DOMAIN store = 1..Len(Load)
         /\ \A s \in DOMAIN store : store[s].row = Load[s]
<1> DEFINE k == Cardinality(DOMAIN store)
<1>1. k \in Nat /\ DOMAIN store = 1..k
  BY DEF IdleInv, Gapped
<1>2. Load = [i \in 1..k |-> store[i].row]
  BY <1>1, LoadIs, LoadDef
<1>3. Load \in Seq(Row)
  BY DEF IdleInv
<1> HIDE DEF k
<1>4. DOMAIN Load = 1..k /\ Len(Load) = k
  <2>1. Len(Load) \in Nat /\ DOMAIN Load = 1..Len(Load)
    BY <1>3, LenProperties
  <2>2. DOMAIN Load = 1..k
    BY <1>2
  <2>3. \A n \in Nat : Cardinality(1..n) = n
    BY FS_Interval
  <2>4. Cardinality(1..k) = k /\ Cardinality(1..Len(Load)) = Len(Load)
    BY <1>1, <2>1, <2>3
  <2> QED BY <2>1, <2>2, <2>4
<1> QED BY <1>1, <1>2, <1>4 DEF k

LEMMA PlaceholderRow ==
  /\ Placeholder \in Row /\ ~IsTool(Placeholder) /\ ~Opens(Placeholder)
  /\ Placeholder.role = "assistant"
  /\ [Placeholder EXCEPT !.body = "text"] = AssistantRow(<< >>)
<1>1. << >> \in Seq(Calls)
  OBVIOUS
<1>2. Placeholder = [role |-> "assistant", calls |-> << >>, answers |-> NoCall, body |-> "empty"]
  BY DEF Placeholder, AssistantRow
<1> QED BY <1>1, <1>2 DEF AssistantRow, Row, Bodies, IsTool, Opens

LEMMA ReplyRow ==
  /\ AssistantRow(<< >>) \in Row /\ ~IsTool(AssistantRow(<< >>)) /\ ~Opens(AssistantRow(<< >>))
  /\ AssistantRow(<< >>).role = "assistant"
<1>1. << >> \in Seq(Calls)
  OBVIOUS
<1> QED BY <1>1, RowTypes, AssistantRowPlain DEF AssistantRow

-----------------------------------------------------------------------------
(* The three writers.                                                      *)

LEMMA RecordSame ==
  ASSUME NEW r \in Row, NEW role, role = r.role
  PROVE  [r EXCEPT !.role = role] = r
BY DEF Row

LEMMA Rows1 ==
  ASSUME NEW m \in Seq(Row)
  PROVE  /\ Len(m) \in Nat /\ DOMAIN m = 1..Len(m)
         /\ \A i \in 1..Len(m) : m[i] \in Row
OBVIOUS

(* _insert_messages, of a turn whose placeholder stands for the model's    *)
(* own row: the head of the table becomes the history.                     *)
LEMMA WriteTurn ==
  ASSUME HistoryOK, TurnInv, pc \in {"persisting", "saving"}, store' = Written(messages)
  PROVE  /\ DOMAIN store' = DOMAIN store \cup 1..Len(messages)
         /\ \A s \in 1..Len(messages) : store'[s].row = messages[s] /\ store'[s].state # "streaming"
         /\ \A s \in DOMAIN store : s > Len(messages) => store'[s] = store[s]
         /\ \A s \in DOMAIN store' \ DOMAIN store : s <= Len(messages)
<1>1. /\ messages \in Seq(Row) /\ Len(messages) \in Nat /\ DOMAIN messages = 1..Len(messages)
      /\ \A i \in 1..Len(messages) : messages[i] \in Row
  BY Rows1 DEF HistoryOK
<1>2. DOMAIN store' = DOMAIN store \cup 1..Len(messages)
  BY <1>1 DEF Written
<1>3. ASSUME NEW s \in 1..Len(messages)
      PROVE  store'[s].row = messages[s] /\ store'[s].state # "streaming"
  <2>1. CASE s \notin DOMAIN store
    BY <1>1, <2>1 DEF Written, Sent
  <2>2. CASE Streaming(s)
    <3>1. store'[s] = Promote(store[s], messages[s])
      BY <1>1, <2>2 DEF Written, Streaming
    <3>2. store[s].row.role = messages[s].role
      <4>1. CASE s = start + 1
        <5>1. store[s].row.role = "assistant" /\ pc = "persisting" /\ Len(messages) > start
          BY <2>2, <4>1, PlaceholderRow DEF TurnInv, PlaceholderInv, RoundInv, Midway
        <5>2. messages[s].role = "assistant"
          BY <4>1, <5>1 DEF TurnInv, RoundInv, Midway
        <5> QED BY <5>1, <5>2
      <4>2. CASE s # start + 1
        BY <2>2, <4>2 DEF TurnInv, FaithfulInv, Streaming
      <4> QED BY <4>1, <4>2
    <3>3. [messages[s] EXCEPT !.role = store[s].row.role] = messages[s]
      BY <1>1, <3>2, RecordSame
    <3> QED BY <3>1, <3>3 DEF Promote
  <2>3. CASE s \in DOMAIN store /\ ~Streaming(s)
    <3>1. store'[s] = store[s]
      BY <1>1, <2>3 DEF Written
    <3>2. store[s].row = messages[s]
      BY <2>3 DEF TurnInv, FaithfulInv
    <3> QED BY <2>3, <3>1, <3>2 DEF Streaming
  <2> QED BY <2>1, <2>2, <2>3
<1>4. ASSUME NEW s \in DOMAIN store, s > Len(messages) PROVE store'[s] = store[s]
  <2>1. s \notin DOMAIN messages
    BY <1>1, <1>4
  <2> QED BY <1>1, <2>1 DEF Written
<1>5. \A s \in DOMAIN store' \ DOMAIN store : s <= Len(messages)
  BY <1>1, <1>2
<1> QED BY <1>2, <1>3, <1>4, <1>5

(* What _record_messages leaves streaming is still streaming.              *)
LEMMA RecordKeeps ==
  ASSUME LedgerInv, marks \in [1..MaxTurns -> Marks],
         NEW h, store' = Written(h), marks' = Recorded(h)
  PROVE  LedgerInv' /\ marks' \in [1..MaxTurns -> Marks]
<1>1. ASSUME NEW t \in 1..MaxTurns, marks'[t] = "streaming"
      PROVE  \E s \in DOMAIN store' : Streaming(s)' /\ store'[s].holder = t
  <2>1. marks[t] = "streaming" /\ ~ \E s \in DOMAIN h : Streaming(s) /\ store[s].holder = t
    BY <1>1 DEF Recorded
  <2>2. PICK s \in DOMAIN store : Streaming(s) /\ store[s].holder = t
    BY <2>1 DEF LedgerInv
  <2>3. s \in DOMAIN store' /\ store'[s] = store[s]
    BY <2>1, <2>2 DEF Written
  <2> QED BY <2>2, <2>3 DEF Streaming
<1>2. marks' \in [1..MaxTurns -> Marks]
  BY DEF Recorded, Marks
<1> QED BY <1>1, <1>2 DEF LedgerInv

LEMMA BlameKeeps ==
  ASSUME BlameInv, Steady, blame' \in {0, blame}
  PROVE  BlameInv'
<1>1. CASE blame' = 0
  BY <1>1 DEF BlameInv
<1>2. CASE blame' = blame /\ blame # 0
  <2>1. blame \in DOMAIN store /\ store[blame].state # "streaming"
    BY <1>2 DEF BlameInv, Streaming
  <2>2. blame \in DOMAIN store' /\ store'[blame].state # "streaming"
    BY <2>1 DEF Steady, Stands
  <2> QED BY <1>2, <2>2 DEF BlameInv, Streaming
<1> QED BY <1>1, <1>2

(* A step within a turn that leaves the table alone.                       *)
LEMMA StepGrows ==
  ASSUME HistoryOK, PlacedInv, FaithfulInv, PlaceholderInv,
         pc \notin {"idle", "placing", "recording", "saving"},
         pc' \notin {"idle", "placing", "recording", "saving"},
         UNCHANGED << store, start, from, turn, watched >>,
         messages' \in Seq(Row), Extends(messages', messages)
  PROVE  /\ PlacedInv' /\ FaithfulInv' /\ PlaceholderInv'
         /\ Upto(messages', start') = Upto(messages, start)
<1>1. /\ Len(messages) \in Nat /\ Len(messages') \in Nat /\ Len(messages) <= Len(messages')
      /\ \A i \in 1..Len(messages) : messages'[i] = messages[i]
      /\ start \in 1..Len(messages)
  BY Rows1 DEF HistoryOK, Extends, PlacedInv
<1>2. PlacedInv'
  <2>1. DOMAIN store' \subseteq (1..Len(messages')) \cup {start' + 1}
    BY <1>1 DEF PlacedInv
  <2> QED BY <1>1, <2>1 DEF PlacedInv
<1>3. FaithfulInv'
  <2>1. ASSUME NEW s \in DOMAIN store, s <= Len(messages'), ~(s = start + 1 /\ Streaming(s))
        PROVE  store[s].row = messages'[s]
    <3>1. s \in 1..Len(messages) \/ s = start + 1
      BY DEF PlacedInv
    <3>2. s <= Len(messages)
      <4>1. CASE s = start + 1 /\ Len(messages) = start
        BY <2>1, <4>1 DEF PlaceholderInv
      <4>2. CASE s = start + 1 /\ Len(messages) # start
        BY <1>1, <4>2
      <4> QED BY <3>1, <4>1, <4>2
    <3> QED BY <1>1, <2>1, <3>1, <3>2 DEF FaithfulInv
  <2> QED BY <2>1 DEF FaithfulInv, Streaming
<1>4. PlaceholderInv'
  <2>1. Len(messages') = start => Len(messages) = start
    BY <1>1
  <2>2. \A s : Streaming(s)' <=> Streaming(s)
    BY DEF Streaming
  <2>3. /\ Streaming(start + 1) =>
             /\ store[start + 1].holder = turn /\ watched
             /\ \A s \in DOMAIN store : s <= start + 1
        /\ Streaming(start + 1) \/ (start + 1 \in DOMAIN store /\ Len(messages) = start) =>
             store[start + 1].row = Placeholder
        /\ start + 1 \in DOMAIN store /\ Len(messages) = start => Streaming(start + 1)
    BY DEF PlaceholderInv
  <2> QED BY <2>1, <2>3 DEF PlaceholderInv, Streaming
<1>5. Upto(messages', start') = Upto(messages, start)
  BY <1>1 DEF Upto
<1> QED BY <1>2, <1>3, <1>4, <1>5

-----------------------------------------------------------------------------
(* Each action.                                                            *)

Writing == IInv /\ Sound

LEMMA Unfold ==
  ASSUME Writing
  PROVE  /\ HistoryOK /\ BlameInv /\ LedgerInv
         /\ pc = "idle" => IdleInv
         /\ pc # "idle" => TurnInv /\ PlacedInv /\ FaithfulInv /\ PlaceholderInv /\ RoundInv
BY DEF Writing, IInv, Held, TurnInv

LEMMA StartHolds ==
  ASSUME Writing, StartTurn
  PROVE  HistoryOK' /\ LedgerInv' /\ pc' # "idle" /\ TurnInv'
<1>1. IdleInv /\ HistoryOK /\ LedgerInv /\ pc = "idle" /\ turn < MaxTurns
  BY Unfold DEF StartTurn
<1>2. PICK repaired \in Repaired(Load) : messages' = Append(repaired, UserRow("input"))
  BY DEF StartTurn
<1>3. /\ Len(Load) = Cardinality(DOMAIN store) /\ DOMAIN store = 1..Len(Load)
      /\ \A s \in DOMAIN store : store[s].row = Load[s]
      /\ Load \in Seq(Row) /\ Shape(Load)
  BY <1>1, RestRows DEF IdleInv
<1> DEFINE load == Load
<1>4. load \in Seq(Row) /\ repaired \in Repaired(load)
  BY <1>3
<1> HIDE DEF load
<1>5. /\ messages' \in Seq(Row) /\ Pending(messages') = {} /\ Extends(messages', load)
      /\ Shape(load) => Shape(messages')
  BY <1>2, <1>4, Started
<1>6. repaired \in Seq(Row) /\ Extends(repaired, load)
  BY <1>4, RepairCloses
<1>7. UserRow("input") \in Row
  BY RowTypes DEF Bodies
<1>8. /\ Len(load) \in Nat /\ Len(messages') = Len(repaired) + 1 /\ Len(repaired) >= Len(load)
      /\ Len(repaired) \in Nat
      /\ \A i \in 1..Len(load) : messages'[i] = load[i]
  BY <1>2, <1>4, <1>5, <1>6, <1>7 DEF Extends
<1>9. /\ start' = Len(messages') /\ from' = Len(messages') /\ turn' = turn + 1
      /\ watched' \in BOOLEAN /\ store' = store /\ marks' = marks /\ final' = FALSE
      /\ pc' \in {"placing", "calling"} /\ (pc' = "placing" => watched')
  BY DEF StartTurn, Ledger
<1>10. /\ DOMAIN store = 1..Len(load) /\ Shape(load)
       /\ \A s \in DOMAIN store : store[s].row = load[s]
  BY <1>3 DEF load
<1>11. start' + 1 \notin DOMAIN store /\ start' \notin DOMAIN store
  BY <1>8, <1>9, <1>10
<1>12. HistoryOK'
  <2>1. start' \in Nat /\ turn' \in 0..MaxTurns
    BY <1>1, <1>8, <1>9, DoorBoundsAssumption DEF HistoryOK, DoorBoundsAssumption
  <2> QED BY <1>1, <1>5, <1>9, <2>1 DEF HistoryOK, Points
<1>13. LedgerInv'
  BY <1>1, <1>9 DEF LedgerInv, Streaming
<1>14. PlacedInv'
  <2>1. turn' \in 1..MaxTurns
    BY <1>1, <1>9, DoorBoundsAssumption DEF HistoryOK, DoorBoundsAssumption
  <2>2. DOMAIN store' \subseteq 1..Len(messages')
    BY <1>8, <1>9, <1>10
  <2> QED BY <1>8, <1>9, <1>11, <2>1, <2>2 DEF PlacedInv
<1>15. FaithfulInv'
  BY <1>8, <1>9, <1>10 DEF FaithfulInv
<1>16. PlaceholderInv'
  BY <1>9, <1>11 DEF PlaceholderInv, Streaming
<1>17. RoundInv'
  <2>1. Upto(messages', start') = messages'
    BY <1>5, <1>9 DEF Upto
  <2>2. Shape(messages')
    BY <1>5, <1>10
  <2>3. Shape(Append(messages', Placeholder))
    BY <1>5, <2>2, AppendPlain, PlaceholderRow
  <2> QED BY <1>5, <1>8, <1>9, <2>1, <2>2, <2>3 DEF RoundInv, Midway
<1> QED BY <1>9, <1>12, <1>13, <1>14, <1>15, <1>16, <1>17 DEF TurnInv

LEMMA PlaceHolds ==
  ASSUME Writing, PlaceRows
  PROVE  HistoryOK' /\ LedgerInv' /\ pc' # "idle" /\ TurnInv'
<1>1. /\ HistoryOK /\ LedgerInv /\ PlacedInv /\ FaithfulInv /\ PlaceholderInv /\ RoundInv
      /\ pc = "placing"
  BY Unfold DEF PlaceRows
<1>2. /\ {start, start + 1} \cap DOMAIN store = {} /\ Len(messages) = start
      /\ start \in 1..Len(messages) /\ from = start /\ turn \in 1..MaxTurns
      /\ DOMAIN store \subseteq (1..Len(messages)) \cup {start + 1}
      /\ messages \in Seq(Row) /\ Len(messages) \in Nat
  BY <1>1 DEF PlacedInv, HistoryOK
<1>3. /\ DOMAIN store' = DOMAIN store \cup {start, start + 1}
      /\ store'[start] = Sent(messages[start])
      /\ store'[start + 1] = [row |-> Placeholder, state |-> "streaming", holder |-> turn]
      /\ \A s \in DOMAIN store : s # start /\ s # start + 1 /\ store'[s] = store[s]
      /\ marks' = [marks EXCEPT ![turn] = "streaming"]
  <2>1. /\ store' = [s \in DOMAIN store \cup {start, start + 1} |->
                           IF s = start THEN Sent(messages[start])
                           ELSE IF s = start + 1
                             THEN [row |-> Placeholder, state |-> "streaming", holder |-> turn]
                             ELSE store[s]]
        /\ marks' = [marks EXCEPT ![turn] = "streaming"]
    BY <1>2 DEF PlaceRows
  <2>2. \A s \in DOMAIN store : s # start /\ s # start + 1
    BY <1>2
  <2>3. start + 1 # start
    BY <1>2
  <2> QED BY <2>1, <2>2, <2>3
<1>4. /\ UNCHANGED << messages, start, from, turn, watched, final >> /\ pc' = "calling"
      /\ watched \in BOOLEAN /\ watched
  BY <1>1 DEF PlaceRows, Given, HistoryOK, PlacedInv
<1>5. HistoryOK'
  <2>1. marks' \in [1..MaxTurns -> Marks]
    BY <1>1, <1>3 DEF HistoryOK, Marks
  <2> QED BY <1>1, <1>4, <2>1 DEF HistoryOK, Points
<1>6. LedgerInv'
  <2>1. SUFFICES ASSUME NEW t \in 1..MaxTurns, marks'[t] = "streaming"
                 PROVE  \E s \in DOMAIN store' : store'[s].state = "streaming" /\ store'[s].holder = t
    BY DEF LedgerInv, Streaming
  <2>2. CASE t = turn
    BY <1>3, <2>2
  <2>3. CASE t # turn
    <3>1. marks[t] = "streaming"
      BY <1>1, <1>3, <2>1, <2>3 DEF HistoryOK
    <3>2. PICK s \in DOMAIN store : store[s].state = "streaming" /\ store[s].holder = t
      BY <1>1, <3>1 DEF LedgerInv, Streaming
    <3> QED BY <1>3, <3>2
  <2> QED BY <2>2, <2>3
<1>7. PlacedInv'
  BY <1>2, <1>3, <1>4 DEF PlacedInv
<1>8. FaithfulInv'
  <2>1. ASSUME NEW s \in DOMAIN store', s <= Len(messages)
        PROVE  store'[s].row = messages[s]
    <3>1. CASE s = start
      BY <1>3, <3>1 DEF Sent
    <3>2. CASE s \in DOMAIN store
      <4>1. s # start + 1 /\ store'[s] = store[s]
        BY <1>3, <3>2
      <4> QED BY <1>1, <2>1, <3>2, <4>1 DEF FaithfulInv
    <3>3. s # start + 1
      BY <1>2, <2>1
    <3> QED BY <1>3, <3>1, <3>2, <3>3
  <2> QED BY <1>4, <2>1 DEF FaithfulInv
<1>9. PlaceholderInv'
  <2>1. \A s \in DOMAIN store' : s <= start + 1
    BY <1>2, <1>3
  <2> QED BY <1>3, <1>4, <2>1 DEF PlaceholderInv, Streaming
<1>10. RoundInv'
  BY <1>1, <1>2, <1>4 DEF RoundInv, Midway
<1> QED BY <1>4, <1>5, <1>6, <1>7, <1>8, <1>9, <1>10 DEF TurnInv

(* A step of a round that leaves the table and the ledger alone.           *)
LEMMA StepInRound ==
  ASSUME Writing,
         pc \in Midway \cup {"calling", "compacting"},
         pc' \in Midway \cup {"calling", "compacting", "finishing"},
         UNCHANGED << store, marks, start, from, turn, watched >>,
         messages' \in Seq(Row), Extends(messages', messages), Shape(messages'),
         pc' \in {"calling", "compacting"} => Pending(messages') = {},
         pc' \in Midway => Len(messages') > start,
         Len(messages') > start =>
           Len(messages) > start \/ messages'[start + 1].role = "assistant" \/ pc' = "finishing",
         final' => /\ pc' = "finishing" /\ Len(messages') > start
                   /\ messages'[Len(messages')] = AssistantRow(<< >>)
  PROVE  HistoryOK' /\ LedgerInv' /\ pc' # "idle" /\ TurnInv'
<1>1. HistoryOK /\ LedgerInv /\ PlacedInv /\ FaithfulInv /\ PlaceholderInv /\ RoundInv
  BY Unfold DEF Midway
<1>2. /\ PlacedInv' /\ FaithfulInv' /\ PlaceholderInv'
      /\ Upto(messages', start') = Upto(messages, start)
  BY <1>1, StepGrows DEF Midway
<1>3. HistoryOK'
  BY <1>1 DEF HistoryOK, Midway, Points
<1>4. LedgerInv'
  BY <1>1 DEF LedgerInv, Streaming
<1>5. RoundInv'
  <2>1. ASSUME pc' \in Midway \cup {"calling", "compacting"}, Len(messages') > start'
        PROVE  messages'[start' + 1].role = "assistant"
    <3>1. pc' # "finishing" /\ start' = start
      BY <2>1 DEF Midway
    <3>2. CASE Len(messages) > start
      <4>1. start + 1 \in 1..Len(messages)
        BY <1>1, <3>2, Rows1 DEF HistoryOK
      <4>2. messages'[start + 1] = messages[start + 1]
        BY <4>1 DEF Extends
      <4>3. messages[start + 1].role = "assistant"
        BY <1>1, <3>2 DEF RoundInv
      <4> QED BY <3>1, <4>2, <4>3
    <3> QED BY <2>1, <3>1, <3>2
  <2>2. pc' # "placing"
    BY DEF Midway
  <2>3. Shape(Append(Upto(messages', start'), Placeholder))
    BY <1>1, <1>2 DEF RoundInv
  <2> QED BY <2>1, <2>2, <2>3 DEF RoundInv
<1> QED BY <1>2, <1>3, <1>4, <1>5 DEF TurnInv, Midway

LEMMA RoundHolds ==
  ASSUME Writing, Sound',
         \/ Reply \/ Fail \/ AskForTools \/ Overflow \/ CompactHistory \/ FailCompaction
         \/ Summarise \/ FailPersist \/ AnswerCall
  PROVE  HistoryOK' /\ LedgerInv' /\ pc' # "idle" /\ TurnInv'
<1>1. pc \in Midway \cup {"calling", "compacting"}
  BY DEF Reply, Fail, AskForTools, Overflow, CompactHistory, FailCompaction, Summarise,
         FailPersist, AnswerCall, Called, Midway
<1>2. /\ messages \in Seq(Row) /\ Len(messages) \in Nat /\ start \in 1..Len(messages)
      /\ from = start /\ Shape(messages) /\ ~final
      /\ pc \in {"calling", "compacting"} => Pending(messages) = {}
      /\ pc \in Midway => Len(messages) > start
  BY <1>1, Unfold, Rows1 DEF HistoryOK, PlacedInv, RoundInv, Midway
<1>3. Extends(messages, messages)
  BY <1>2, ExtendsRefl
<1>4. ~CompactHistory
  BY DEF CompactHistory, Sound
<1>5. UNCHANGED << store, marks, start, from, turn, watched >>
  BY <1>4 DEF Reply, Fail, AskForTools, Overflow, FailCompaction, Summarise,
              FailPersist, AnswerCall, Kept, Ledger, Given
<1>6. CASE Fail \/ FailCompaction \/ FailPersist
  <2>1. messages' = messages /\ pc' = "finishing" /\ final' = final
    BY <1>6 DEF Fail, FailCompaction, FailPersist
  <2> QED BY <1>1, <1>2, <1>3, <1>5, <2>1, StepInRound DEF Midway
<1>7. CASE Overflow
  <2>1. messages' = messages /\ pc' = "compacting" /\ final' = final /\ pc = "calling"
    BY <1>7 DEF Overflow, Called
  <2> QED BY <1>1, <1>2, <1>3, <1>5, <2>1, StepInRound DEF Midway
<1>8. CASE Reply
  <2> DEFINE r == AssistantRow(<< >>)
  <2>1. messages' = Append(messages, r) /\ pc' = "finishing" /\ pc = "calling"
    BY <1>8 DEF Reply, Called
  <2>2. r \in Row /\ ~IsTool(r) /\ ~Opens(r) /\ r.role = "assistant"
    BY ReplyRow
  <2> HIDE DEF r
  <2>3. /\ messages' \in Seq(Row) /\ Len(messages') = Len(messages) + 1
        /\ messages'[Len(messages')] = r /\ Extends(messages', messages)
    BY <1>2, <2>1, <2>2 DEF Extends
  <2>4. Shape(messages')
    BY <1>2, <2>1, <2>2, AppendPlain
  <2>5. Len(messages') > start
    BY <1>2, <2>3
  <2>6. messages'[Len(messages')] = AssistantRow(<< >>)
    BY <2>3 DEF r
  <2> QED BY <1>1, <1>2, <1>5, <2>1, <2>3, <2>4, <2>5, <2>6, StepInRound DEF Midway
<1>9. CASE AskForTools
  <2>1. PICK calls \in Batches : messages' = Append(messages, AssistantRow(calls))
    BY <1>9 DEF AskForTools
  <2> DEFINE r == AssistantRow(calls)
  <2>2. pc' \in {"persisting", "answering"} /\ final' = final /\ pc = "calling"
    BY <1>9 DEF AskForTools, Called
  <2>3. r \in Row /\ ~IsTool(r) /\ r.role = "assistant"
    BY CallsRow, DoorBatchesAssumption DEF DoorBatchesAssumption, AssistantRow
  <2>4. messages' = Append(messages, r)
    BY <2>1
  <2> HIDE DEF r
  <2>5. /\ messages' \in Seq(Row) /\ Len(messages') = Len(messages) + 1
        /\ messages'[Len(messages) + 1] = r /\ Extends(messages', messages)
    BY <1>2, <2>3, <2>4 DEF Extends
  <2>6. Shape(messages')
    BY <1>2, <2>2, <2>3, <2>4, ShapeAppendPlain
  <2>7. Len(messages') > start
    BY <1>2, <2>5
  <2>8. Len(messages) > start \/ messages'[start + 1].role = "assistant"
    BY <1>2, <2>3, <2>5
  <2> QED BY <1>1, <1>2, <1>5, <2>2, <2>5, <2>6, <2>7, <2>8, StepInRound DEF Midway
<1>10. CASE Summarise
  <2> DEFINE n == messages \o << UserRow("summary_request"), AssistantRow(<< >>) >>
  <2>1. pc' = "finishing" /\ pc = "calling"
    BY <1>10 DEF Summarise
  <2>2. CASE UNCHANGED << messages, final >>
    BY <1>1, <1>2, <1>3, <1>5, <2>1, <2>2, StepInRound DEF Midway
  <2>3. CASE messages' = n
    <3>1. /\ n \in Seq(Row) /\ (Shape(messages) => Shape(n))
          /\ (Extends(messages, messages) => Extends(n, messages))
      BY <1>2, <2>1, Summarised
    <3>2. Len(n) = Len(messages) + 2 /\ n[Len(n)] = AssistantRow(<< >>)
      <4>1. UserRow("summary_request") \in Row /\ AssistantRow(<< >>) \in Row
        BY RowTypes, ReplyRow DEF Bodies
      <4> QED BY <1>2, <4>1
    <3> HIDE DEF n
    <3>3. Len(messages') > start
      BY <1>2, <2>3, <3>2
    <3> QED BY <1>1, <1>2, <1>3, <1>5, <2>1, <2>3, <3>1, <3>2, <3>3, StepInRound DEF Midway
  <2> QED BY <1>10, <2>2, <2>3 DEF Summarise
<1>11. CASE AnswerCall
  <2>1. PICK c \in Pending(messages), body \in {"unknown_tool", "result"} :
          /\ messages' = Append(messages, ToolRow(c, body))
          /\ pc' \in IF Pending(messages) # {c} THEN {pc}
                     ELSE IF pc = "answering" THEN {"finishing"} ELSE {"calling", "finishing"}
    <3>1. PICK c \in Pending(messages) :
            /\ messages' = Append(messages,
                             ToolRow(c, IF pc = "answering" THEN "unknown_tool" ELSE "result"))
            /\ pc' \in IF Pending(messages) # {c} THEN {pc}
                       ELSE IF pc = "answering" THEN {"finishing"} ELSE {"calling", "finishing"}
      BY <1>11 DEF AnswerCall
    <3>2. CASE pc = "answering"
      BY <3>1, <3>2
    <3>3. CASE pc # "answering"
      BY <3>1, <3>3
    <3> QED BY <3>2, <3>3
  <2>2. pc \in {"dispatching", "answering"} /\ final' = final
    BY <1>11 DEF AnswerCall
  <2>3. pc' \in {pc, "calling", "finishing"} /\ (pc' = "calling" => Pending(messages) = {c})
    BY <2>1, <2>2
  <2>4. /\ messages' \in Seq(Row) /\ Shape(messages')
        /\ Pending(messages') = Pending(messages) \ {c}
    BY <1>2, <2>1, AppendAnswer DEF Bodies
  <2>5. Extends(messages', messages) /\ Len(messages') = Len(messages) + 1
    <3>1. ToolRow(c, body) \in Row
      BY <2>1, PendingFinite, RowTypes DEF Bodies
    <3> QED BY <1>2, <2>1, <3>1 DEF Extends
  <2>6. Len(messages) > start /\ Len(messages') > start
    BY <1>2, <2>2, <2>5 DEF Midway
  <2> QED BY <1>1, <1>2, <1>5, <2>2, <2>3, <2>4, <2>5, <2>6, StepInRound DEF Midway
<1> QED BY <1>4, <1>6, <1>7, <1>8, <1>9, <1>10, <1>11

(* The write-ahead, in time or when its turn is being cancelled.           *)
LEMMA WriteAheadHolds ==
  ASSUME Writing, pc = "persisting", pc' \in {"dispatching", "finishing"},
         store' = Written(messages), marks' = Recorded(messages),
         UNCHANGED << messages, start, from, turn, watched, final >>
  PROVE  HistoryOK' /\ LedgerInv' /\ pc' # "idle" /\ TurnInv'
<1>1. HistoryOK /\ LedgerInv /\ TurnInv /\ PlacedInv /\ FaithfulInv /\ PlaceholderInv /\ RoundInv
  BY Unfold
<1>2. /\ Len(messages) \in Nat /\ Len(messages) > start /\ start \in Nat
      /\ DOMAIN store \subseteq (1..Len(messages)) \cup {start + 1}
  BY <1>1, Rows1 DEF HistoryOK, RoundInv, Midway, PlacedInv
<1>3. /\ DOMAIN store' = 1..Len(messages)
      /\ \A s \in 1..Len(messages) : store'[s].row = messages[s] /\ store'[s].state # "streaming"
  <2>1. start + 1 \in 1..Len(messages)
    BY <1>2
  <2> QED BY <1>1, <1>2, <2>1, WriteTurn
<1>4. HistoryOK' /\ LedgerInv'
  BY <1>1, RecordKeeps DEF HistoryOK, Points
<1>5. PlacedInv'
  BY <1>1, <1>3 DEF PlacedInv
<1>6. FaithfulInv'
  BY <1>3 DEF FaithfulInv
<1>7. PlaceholderInv'
  BY <1>2, <1>3 DEF PlaceholderInv, Streaming
<1>8. RoundInv'
  BY <1>1 DEF RoundInv, Midway
<1> QED BY <1>4, <1>5, <1>6, <1>7, <1>8 DEF TurnInv

LEMMA CancelHolds ==
  ASSUME Writing, Cancel
  PROVE  HistoryOK' /\ LedgerInv' /\ pc' # "idle" /\ TurnInv'
<1>1. /\ pc \in Midway \cup {"calling", "compacting"} /\ pc' = "finishing"
      /\ UNCHANGED << messages, start, from, turn, watched, final >>
  BY DEF Cancel, Midway, Given
<1>2. /\ messages \in Seq(Row) /\ Shape(messages) /\ ~final
  BY <1>1, Unfold DEF HistoryOK, RoundInv, Midway
<1>3. CASE UNCHANGED << store, marks >>
  <2>1. Extends(messages, messages)
    BY <1>2, ExtendsRefl
  <2> QED BY <1>1, <1>2, <1>3, <2>1, StepInRound DEF Midway
<1>4. CASE pc = "persisting" /\ store' = Written(messages) /\ marks' = Recorded(messages)
  BY <1>1, <1>4, WriteAheadHolds
<1> QED BY <1>3, <1>4 DEF Cancel, Ledger

(* turn_finished: the placeholder takes the reply, or fails, or goes.      *)
LEMMA FinishHolds ==
  ASSUME Writing, RowsInv, FinishTurn
  PROVE  HistoryOK' /\ LedgerInv' /\ pc' # "idle" /\ TurnInv'
<1> DEFINE p == start + 1
<1>1. /\ HistoryOK /\ LedgerInv /\ PlacedInv /\ FaithfulInv /\ PlaceholderInv /\ RoundInv
      /\ pc = "finishing" /\ pc' = "recording"
      /\ UNCHANGED << messages, start, from, turn, watched, final >>
  BY Unfold DEF FinishTurn, Given
<1>2. /\ messages \in Seq(Row) /\ Len(messages) \in Nat /\ start \in 1..Len(messages)
      /\ from = start /\ turn \in 1..MaxTurns
  BY <1>1, Rows1 DEF HistoryOK, PlacedInv
<1>3. Streaming(p) =>
        /\ p \in DOMAIN store /\ store[p].holder = turn /\ watched /\ store[p].row = Placeholder
        /\ store[p] = Entry(Placeholder, "streaming", turn)
  BY <1>1 DEF PlaceholderInv, Streaming, RowsInv
<1>4. /\ DOMAIN store' \subseteq DOMAIN store
      /\ \A s \in DOMAIN store : s # p => s \in DOMAIN store' /\ store'[s] = store[s]
      /\ p \in DOMAIN store' =>
           /\ store'[p].state # "streaming"
           /\ p <= Len(messages) => store'[p].row = messages[p]
           /\ Len(messages) = start => store'[p].row = Placeholder
  <2>1. CASE ~Streaming(p)
    <3>1. store' = store
      BY <1>1, <2>1 DEF FinishTurn, Settle, Ledger
    <3>2. p \in DOMAIN store => store[p].state # "streaming"
      BY <2>1 DEF Streaming
    <3>3. p \in DOMAIN store /\ p <= Len(messages) => store[p].row = messages[p]
      BY <1>1, <2>1 DEF FaithfulInv
    <3>4. p \in DOMAIN store /\ Len(messages) = start => store[p].row = Placeholder
      BY <1>1 DEF PlaceholderInv
    <3> QED BY <3>1, <3>2, <3>3, <3>4
  <2>2. CASE Streaming(p)
    <3>1. /\ p \in DOMAIN store /\ store[p] = Entry(Placeholder, "streaming", turn) /\ watched
          /\ Settle
      BY <1>3, <2>2 DEF FinishTurn
    <3>2. CASE final /\ Len(messages) = p
      <4>1. store' = [store EXCEPT ![p].row.body = "text", ![p].state = "sent"]
        BY <3>1, <3>2, <2>2 DEF Settle
      <4>2. store'[p] = [store[p] EXCEPT !.row.body = "text", !.state = "sent"]
        BY <3>1, <4>1
      <4>3. store'[p].row = [Placeholder EXCEPT !.body = "text"] /\ store'[p].state = "sent"
        BY <3>1, <4>2 DEF Entry
      <4>4. store'[p].row = messages[p] /\ store'[p].state = "sent"
        BY <1>1, <3>2, <4>3, PlaceholderRow DEF RoundInv
      <4>5. Len(messages) # start
        BY <1>2, <3>2
      <4> QED BY <4>1, <4>4, <4>5
    <3>3. CASE ~(final /\ Len(messages) = p) /\ Len(messages) = from
      <4>1. store' = [store EXCEPT ![p].state = "failed"]
        BY <3>1, <3>3, <2>2 DEF Settle
      <4>2. store'[p] = Entry(Placeholder, "failed", turn)
        BY <3>1, <4>1 DEF Entry
      <4>3. ~(p <= Len(messages))
        BY <1>2, <3>3
      <4> QED BY <4>1, <4>2, <4>3 DEF Entry
    <3>4. CASE ~(final /\ Len(messages) = p) /\ Len(messages) # from
      <4>1. store' = [t \in DOMAIN store \ {p} |-> store[t]]
        BY <3>1, <3>4, <2>2 DEF Settle
      <4> QED BY <4>1
    <3> QED BY <3>2, <3>3, <3>4
  <2> QED BY <2>1, <2>2
<1>5. /\ marks' \in [1..MaxTurns -> Marks]
      /\ \A t \in 1..MaxTurns : marks'[t] = "streaming" =>
           marks[t] = "streaming" /\ (watched => t # turn)
  <2>1. CASE watched
    <3>1. marks' = [marks EXCEPT ![turn] = Verdict] /\ Verdict \in Marks \ {"streaming"}
      BY <2>1 DEF FinishTurn, Verdict, Marks
    <3> QED BY <1>1, <1>2, <3>1 DEF HistoryOK
  <2>2. CASE ~watched
    <3>1. marks' = marks
      BY <2>2 DEF FinishTurn, Ledger
    <3> QED BY <1>1, <2>2, <3>1 DEF HistoryOK
  <2> QED BY <2>1, <2>2
<1>6. HistoryOK'
  BY <1>1, <1>5 DEF HistoryOK, Points
<1>7. LedgerInv'
  <2>1. SUFFICES ASSUME NEW t \in 1..MaxTurns, marks'[t] = "streaming"
                 PROVE  \E s \in DOMAIN store' : store'[s].state = "streaming" /\ store'[s].holder = t
    BY DEF LedgerInv, Streaming
  <2>2. PICK s \in DOMAIN store : Streaming(s) /\ store[s].holder = t
    BY <1>1, <1>5, <2>1 DEF LedgerInv
  <2>3. s # p
    BY <1>3, <1>5, <2>1, <2>2
  <2> QED BY <1>4, <2>2, <2>3 DEF Streaming
<1>8. PlacedInv'
  BY <1>1, <1>4 DEF PlacedInv
<1>9. FaithfulInv'
  <2>1. ASSUME NEW s \in DOMAIN store', s <= Len(messages)
        PROVE  store'[s].row = messages[s]
    <3>1. CASE s = p
      BY <1>4, <2>1, <3>1
    <3>2. CASE s # p
      <4>1. s \in DOMAIN store /\ store'[s] = store[s]
        BY <1>4, <3>2
      <4> QED BY <1>1, <2>1, <3>2, <4>1 DEF FaithfulInv
    <3> QED BY <3>1, <3>2
  <2> QED BY <1>1, <2>1 DEF FaithfulInv
<1>10. PlaceholderInv'
  BY <1>1, <1>4 DEF PlaceholderInv, Streaming
<1>11. RoundInv'
  BY <1>1 DEF RoundInv, Midway
<1> QED BY <1>1, <1>6, <1>7, <1>8, <1>9, <1>10, <1>11 DEF TurnInv

LEMMA RecordHolds ==
  ASSUME Writing, RecordTurn
  PROVE  HistoryOK' /\ LedgerInv' /\ pc' # "idle" /\ TurnInv'
<1>1. /\ HistoryOK /\ LedgerInv /\ PlacedInv /\ FaithfulInv /\ PlaceholderInv /\ RoundInv
      /\ pc = "recording" /\ pc' = "saving"
      /\ UNCHANGED << messages, start, from, turn, watched, final, store, marks >>
  BY Unfold DEF RecordTurn, Given, Ledger
<1>2. HistoryOK'
  BY <1>1 DEF HistoryOK, Points
<1>3. LedgerInv'
  BY <1>1 DEF LedgerInv, Streaming
<1>4. PlacedInv' /\ FaithfulInv'
  BY <1>1 DEF PlacedInv, FaithfulInv, Streaming
<1>5. PlaceholderInv'
  BY <1>1 DEF PlaceholderInv, Streaming
<1>6. RoundInv'
  BY <1>1 DEF RoundInv, Midway
<1> QED BY <1>1, <1>2, <1>3, <1>4, <1>5, <1>6 DEF TurnInv

(* The final save: the table is the history, but for a placeholder that    *)
(* was marked failed at its end.                                           *)
LEMMA SaveHolds ==
  ASSUME Writing, SaveTurn
  PROVE  HistoryOK' /\ LedgerInv' /\ pc' = "idle" /\ IdleInv'
<1>1. /\ HistoryOK /\ LedgerInv /\ TurnInv /\ PlacedInv /\ FaithfulInv /\ PlaceholderInv /\ RoundInv
      /\ pc = "saving" /\ pc' = "idle" /\ store' = Written(messages) /\ marks' = Recorded(messages)
      /\ messages' = << >> /\ returned' = messages /\ UNCHANGED << start, turn, watched >>
  BY Unfold DEF SaveTurn
<1>2. /\ messages \in Seq(Row) /\ Len(messages) \in Nat /\ start \in 1..Len(messages)
      /\ DOMAIN messages = 1..Len(messages) /\ Shape(messages)
      /\ DOMAIN store \subseteq (1..Len(messages)) \cup {start + 1}
      /\ ~Streaming(start + 1)
  BY <1>1, Rows1 DEF HistoryOK, PlacedInv, RoundInv, PlaceholderInv
<1>3. /\ DOMAIN store' = DOMAIN store \cup 1..Len(messages)
      /\ \A s \in 1..Len(messages) : store'[s].row = messages[s] /\ store'[s].state # "streaming"
      /\ \A s \in DOMAIN store : s > Len(messages) => store'[s] = store[s]
  BY <1>1, WriteTurn
<1>4. HistoryOK' /\ LedgerInv'
  <2>1. << >> \in Seq(Row)
    OBVIOUS
  <2>2. LedgerInv' /\ marks' \in [1..MaxTurns -> Marks]
    BY <1>1, RecordKeeps DEF HistoryOK
  <2> QED BY <1>1, <2>1, <2>2 DEF HistoryOK, Points
<1>5. \A s \in DOMAIN store' : store'[s].state # "streaming"
  <2>1. SUFFICES ASSUME NEW s \in DOMAIN store' PROVE store'[s].state # "streaming"
    OBVIOUS
  <2>2. CASE s \in 1..Len(messages)
    BY <1>3, <2>2
  <2>3. CASE s \notin 1..Len(messages)
    <3>1. s = start + 1 /\ s \in DOMAIN store /\ s > Len(messages)
      BY <1>2, <1>3, <2>3
    <3>2. store'[s] = store[s] /\ store[s].state # "streaming"
      BY <1>2, <1>3, <3>1 DEF Streaming
    <3> QED BY <3>2
  <2> QED BY <2>2, <2>3
<1>6. /\ ~Gapped' /\ Cardinality(DOMAIN store') \in Nat
      /\ Load' \in {messages, Append(messages, Placeholder)}
      /\ Load' \in Seq(Row) /\ Shape(Load')
  <2>1. CASE start + 1 \in DOMAIN store /\ Len(messages) = start
    <3> DEFINE h == Append(messages, Placeholder)
    <3>1. Upto(messages, start) = messages
      BY <1>2, <2>1 DEF Upto
    <3>2. Shape(h)
      BY <1>1, <3>1 DEF RoundInv
    <3>3. /\ h \in Seq(Row) /\ Len(h) = start + 1 /\ h[start + 1] = Placeholder
          /\ \A i \in 1..start : h[i] = messages[i]
      BY <1>2, <2>1, PlaceholderRow
    <3>4. DOMAIN store' = 1..(start + 1)
      BY <1>2, <1>3, <2>1
    <3>5. store'[start + 1].row = Placeholder
      <4>1. store'[start + 1] = store[start + 1]
        BY <1>2, <1>3, <2>1
      <4> QED BY <1>1, <2>1, <4>1 DEF PlaceholderInv
    <3> HIDE DEF h
    <3>6. \A i \in 1..Len(h) : store'[i].row = h[i]
      BY <1>2, <1>3, <2>1, <3>3, <3>5
    <3>7. /\ ~Gapped' /\ Cardinality(DOMAIN store') \in Nat /\ Load' = h
          /\ Load' \in Seq(Row) /\ Shape(Load')
      BY <3>2, <3>3, <3>4, <3>6, AtRest
    <3> QED BY <3>7 DEF h
  <2>2. CASE ~(start + 1 \in DOMAIN store /\ Len(messages) = start)
    <3>1. DOMAIN store' = 1..Len(messages)
      BY <1>2, <1>3, <2>2
    <3> QED BY <1>2, <1>3, <3>1, AtRest
  <2> QED BY <2>1, <2>2
<1>7. IdleInv'
  BY <1>1, <1>5, <1>6 DEF IdleInv, Streaming
<1> QED BY <1>1, <1>4, <1>7

(* A message that answers a parked run: its text is one more row.          *)
LEMMA ParkedHolds ==
  ASSUME Writing, AnswerParked
  PROVE  HistoryOK' /\ LedgerInv' /\ pc' = "idle" /\ IdleInv' /\ BlameInv'
<1> DEFINE r == AssistantRow(<< >>)
           h == Append(Load, r)
<1>1. /\ HistoryOK /\ LedgerInv /\ IdleInv /\ pc = "idle" /\ turn < MaxTurns
      /\ store' = Written(h) /\ marks' = Recorded(h) /\ returned' = h
      /\ blame' \in {0, Len(h)} /\ turn' = turn + 1
      /\ UNCHANGED << pc, messages, start, watched >>
      /\ CanAppend(Load, r)
  BY Unfold DEF AnswerParked
<1>2. r \in Row /\ ~IsTool(r) /\ ~Opens(r) /\ r.role = "assistant"
  BY ReplyRow
<1> HIDE DEF r
<1>3. /\ DOMAIN store = 1..Len(Load) /\ \A s \in DOMAIN store : store[s].row = Load[s]
      /\ Load \in Seq(Row) /\ Shape(Load) /\ Len(Load) \in Nat
  BY <1>1, RestRows, LenProperties DEF IdleInv
<1>4. /\ h \in Seq(Row) /\ Len(h) = Len(Load) + 1 /\ h[Len(Load) + 1] = r
      /\ \A i \in 1..Len(Load) : h[i] = Load[i]
      /\ DOMAIN h = 1..(Len(Load) + 1)
  BY <1>2, <1>3
<1>5. Shape(h)
  <2>1. Pending(Load) = {}
    BY <1>1, <1>2 DEF CanAppend
  <2> QED BY <1>2, <1>3, <2>1, AppendPlain
<1> HIDE DEF h
<1>6. DOMAIN store' = 1..Len(h)
  BY <1>1, <1>3, <1>4 DEF Written
<1>7. ASSUME NEW s \in 1..Len(h)
      PROVE  store'[s].row = h[s] /\ store'[s].state # "streaming"
  <2>1. CASE s \notin DOMAIN store
    BY <1>1, <1>4, <2>1 DEF Written, Sent
  <2>2. CASE Streaming(s)
    <3>1. store'[s] = Promote(store[s], h[s])
      BY <1>1, <1>4, <2>2 DEF Written, Streaming
    <3>2. store[s].row.role = h[s].role /\ h[s] \in Row
      BY <1>3, <1>4, <2>2 DEF Streaming
    <3>3. [h[s] EXCEPT !.role = store[s].row.role] = h[s]
      BY <3>2, RecordSame
    <3> QED BY <3>1, <3>3 DEF Promote
  <2>3. CASE s \in DOMAIN store /\ ~Streaming(s)
    BY <1>1, <1>3, <1>4, <2>3 DEF Written, Streaming
  <2> QED BY <2>1, <2>2, <2>3
<1>8. /\ ~Gapped' /\ Cardinality(DOMAIN store') \in Nat
      /\ Load' = h /\ Load' \in Seq(Row) /\ Shape(Load')
  BY <1>4, <1>5, <1>6, <1>7, AtRest
<1>9. IdleInv'
  BY <1>1, <1>6, <1>7, <1>8 DEF IdleInv, Streaming
<1>10. LedgerInv' /\ marks' \in [1..MaxTurns -> Marks]
  BY <1>1, RecordKeeps DEF HistoryOK
<1>11. HistoryOK'
  <2>1. turn' \in 0..MaxTurns
    BY <1>1, DoorBoundsAssumption DEF HistoryOK, DoorBoundsAssumption
  <2> QED BY <1>1, <1>10, <2>1 DEF HistoryOK
<1>12. BlameInv'
  <2>1. blame' # 0 => blame' \in 1..Len(h)
    BY <1>1, <1>3, <1>4
  <2> QED BY <1>6, <1>7, <2>1 DEF BlameInv, Streaming
<1> QED BY <1>1, <1>9, <1>10, <1>11, <1>12

(* create() marks its own message's row, which has settled.                *)
LEMMA BlameHolds ==
  ASSUME Writing, RowsInv, Sound', BlameLast
  PROVE  /\ HistoryOK' /\ LedgerInv' /\ pc' = pc
         /\ IF pc = "idle" THEN IdleInv' ELSE TurnInv'
<1>1. /\ HistoryOK /\ LedgerInv /\ BlameInv /\ blame # 0
      /\ UNCHANGED << pc, messages, watched, start, turn, from, final, marks, returned, settled >>
  BY Unfold DEF BlameLast, Given
<1>2. /\ DOMAIN store' = DOMAIN store
      /\ \A s \in DOMAIN store :
           /\ store'[s].row = store[s].row /\ store'[s].holder = store[s].holder
           /\ store'[s].state = "streaming" <=> store[s].state = "streaming"
  <2>1. CASE store' = store
    BY <2>1
  <2>2. CASE store' # store
    <3>1. store' = [store EXCEPT ![blame].state = "failed"]
      BY <2>2 DEF BlameLast, Sound
    <3>2. blame \in DOMAIN store /\ store[blame].state # "streaming"
      BY <1>1 DEF BlameInv, Streaming
    <3>3. store[blame] = Entry(store[blame].row, store[blame].state, store[blame].holder)
      BY <3>2 DEF RowsInv
    <3>4. store'[blame] = Entry(store[blame].row, "failed", store[blame].holder)
      BY <3>1, <3>2, <3>3 DEF Entry
    <3>5. \A s \in DOMAIN store : s # blame => store'[s] = store[s]
      BY <3>1
    <3>6. DOMAIN store' = DOMAIN store
      BY <3>1
    <3> QED BY <3>2, <3>4, <3>5, <3>6 DEF Entry
  <2> QED BY <2>1, <2>2
<1>3. HistoryOK'
  BY <1>1 DEF HistoryOK
<1>4. LedgerInv'
  BY <1>1, <1>2 DEF LedgerInv, Streaming
<1>5. CASE pc = "idle"
  <2>1. IdleInv
    BY <1>5, Unfold
  <2>2. /\ DOMAIN store = 1..Len(Load) /\ \A s \in DOMAIN store : store[s].row = Load[s]
        /\ Load \in Seq(Row) /\ Shape(Load)
    BY <2>1, RestRows DEF IdleInv
  <2>3. /\ ~Gapped' /\ Cardinality(DOMAIN store') \in Nat
        /\ Load' = Load /\ Load' \in Seq(Row) /\ Shape(Load')
    BY <1>2, <2>2, AtRest
  <2>4. settled' => /\ Load' \in {returned', Append(returned', Placeholder)}
                    /\ \A s \in DOMAIN store' : ~Streaming(s)'
    BY <1>1, <1>2, <2>1, <2>3 DEF IdleInv, Streaming
  <2> QED BY <1>1, <1>3, <1>4, <1>5, <2>3, <2>4 DEF IdleInv
<1>6. CASE pc # "idle"
  <2>1. PlacedInv /\ FaithfulInv /\ PlaceholderInv /\ RoundInv
    BY <1>6, Unfold
  <2>2. PlacedInv' /\ FaithfulInv'
    BY <1>1, <1>2, <2>1 DEF PlacedInv, FaithfulInv, Streaming
  <2>3. PlaceholderInv'
    BY <1>1, <1>2, <2>1 DEF PlaceholderInv, Streaming
  <2>4. RoundInv'
    BY <1>1, <2>1 DEF RoundInv
  <2> QED BY <1>1, <1>3, <1>4, <1>6, <2>2, <2>3, <2>4 DEF TurnInv
<1> QED BY <1>5, <1>6

(* The process dies: what it leaves, without a gap, is the head of its     *)
(* history, with the placeholder or not.                                   *)
LEMMA CrashHolds ==
  ASSUME Writing, Sound', Crash
  PROVE  HistoryOK' /\ LedgerInv' /\ pc' = "idle" /\ IdleInv'
<1>1. /\ HistoryOK /\ LedgerInv /\ PlacedInv /\ FaithfulInv /\ PlaceholderInv /\ RoundInv
      /\ ~Gapped /\ settled' = FALSE /\ pc' = "idle" /\ messages' = << >>
      /\ UNCHANGED << watched, start, turn, store, marks >>
  BY Unfold DEF Crash, Sound, Given, Ledger
<1>2. /\ messages \in Seq(Row) /\ Len(messages) \in Nat /\ start \in 1..Len(messages)
      /\ Shape(messages) /\ Shape(Append(Upto(messages, start), Placeholder))
      /\ DOMAIN store \subseteq (1..Len(messages)) \cup {start + 1}
  BY <1>1, Rows1 DEF HistoryOK, PlacedInv, RoundInv
<1> DEFINE k == Cardinality(DOMAIN store)
<1>3. k \in Nat /\ DOMAIN store = 1..k
  <2>1. IsFiniteSet(1..(Len(messages) + 1))
    BY <1>2, FS_Interval
  <2>2. DOMAIN store \subseteq 1..(Len(messages) + 1)
    BY <1>2
  <2>3. IsFiniteSet(DOMAIN store)
    BY <2>1, <2>2, FS_Subset
  <2> QED BY <1>1, <2>3, FS_CardinalityType DEF Gapped
<1> HIDE DEF k
<1>4. /\ ~Gapped' /\ Cardinality(DOMAIN store') \in Nat
      /\ Load' \in Seq(Row) /\ Shape(Load')
  <2>1. CASE start + 1 \in DOMAIN store /\ (Streaming(start + 1) \/ Len(messages) = start)
    <3> DEFINE u == Upto(messages, start)
               h == Append(u, Placeholder)
    <3>1. u \in Seq(Row) /\ Len(u) = start /\ \A i \in 1..start : u[i] = messages[i]
      BY <1>2, ShapeUpto DEF Upto
    <3> HIDE DEF u
    <3>2. /\ h \in Seq(Row) /\ Len(h) = start + 1 /\ h[start + 1] = Placeholder
          /\ \A i \in 1..start : h[i] = messages[i]
      BY <1>2, <3>1, PlaceholderRow
    <3>3. Shape(h)
      BY <1>2 DEF u
    <3> HIDE DEF h
    <3>4. store[start + 1].row = Placeholder
      BY <1>1, <2>1 DEF PlaceholderInv
    <3>5. \A s \in DOMAIN store : s <= start + 1
      BY <1>1, <1>2, <2>1 DEF PlaceholderInv
    <3>6. k = start + 1
      <4>1. start + 1 \in 1..k
        BY <1>3, <2>1
      <4>2. k \in DOMAIN store
        BY <1>2, <1>3, <4>1
      <4>3. k <= start + 1
        BY <3>5, <4>2
      <4> QED BY <1>2, <1>3, <4>1, <4>3
    <3>7. ASSUME NEW i \in 1..Len(h) PROVE store[i].row = h[i]
      <4>1. CASE i = start + 1
        BY <3>2, <3>4, <4>1
      <4>2. CASE i # start + 1
        <5>1. i \in 1..start /\ i <= Len(messages) /\ i \in DOMAIN store
          BY <1>2, <1>3, <3>2, <3>6, <4>2
        <5> QED BY <1>1, <3>2, <4>2, <5>1 DEF FaithfulInv
      <4> QED BY <4>1, <4>2
    <3>8. DOMAIN store' = 1..Len(h) /\ \A i \in 1..Len(h) : store'[i].row = h[i]
      BY <1>1, <1>3, <3>2, <3>6, <3>7
    <3> QED BY <3>2, <3>3, <3>8, AtRest
  <2>2. CASE ~(start + 1 \in DOMAIN store /\ (Streaming(start + 1) \/ Len(messages) = start))
    <3> DEFINE h == Upto(messages, k)
    <3>1. \A s \in DOMAIN store : s <= Len(messages) /\ ~(s = start + 1 /\ Streaming(s))
      BY <1>2, <2>2
    <3>2. k \in 0..Len(messages)
      BY <1>2, <1>3, <3>1
    <3>3. h \in Seq(Row) /\ Len(h) = k /\ Shape(h) /\ \A i \in 1..k : h[i] = messages[i]
      BY <1>2, <3>2, ShapeUpto DEF Upto
    <3> HIDE DEF h
    <3>4. \A i \in 1..k : store[i].row = h[i]
      BY <1>1, <1>3, <3>1, <3>3 DEF FaithfulInv
    <3>5. DOMAIN store' = 1..Len(h) /\ \A i \in 1..Len(h) : store'[i].row = h[i]
      BY <1>1, <1>3, <3>3, <3>4
    <3> QED BY <3>3, <3>5, AtRest
  <2> QED BY <2>1, <2>2
<1>5. HistoryOK'
  <2>1. << >> \in Seq(Row)
    OBVIOUS
  <2> QED BY <1>1, <2>1 DEF HistoryOK, Points
<1>6. LedgerInv'
  BY <1>1 DEF LedgerInv, Streaming
<1>7. IdleInv'
  BY <1>1, <1>4 DEF IdleInv
<1> QED BY <1>1, <1>5, <1>6, <1>7

-----------------------------------------------------------------------------
(* The invariant, and what follows from it.                                *)

LEMMA InvariantInit == Init => IInv
<1> SUFFICES ASSUME Init PROVE IInv
  OBVIOUS
<1>1. << >> \in Seq(Row) /\ Len(<< >>) = 0 /\ DOMAIN << >> = 1..0
  OBVIOUS
<1>2. /\ store = << >> /\ pc = "idle" /\ messages = << >> /\ returned = << >>
      /\ start = 0 /\ turn = 0 /\ blame = 0 /\ watched = FALSE
      /\ marks = [t \in 1..MaxTurns |-> "none"]
  BY DEF Init
<1>3. LoadOf(store) = << >> /\ Cardinality(DOMAIN store) = 0
  <2>1. DOMAIN store = 1..0 /\ 0 \in Nat
    BY <1>1, <1>2
  <2>2. /\ Cardinality(DOMAIN store) = 0
        /\ LoadOf(store) = [i \in 1..0 |-> store[i].row]
    BY <2>1, LoadIs
  <2>3. [i \in 1..0 |-> store[i].row] = << >>
    OBVIOUS
  <2> QED BY <2>2, <2>3
<1>4. Load = << >>
  BY <1>3, LoadDef
<1>5. IdleInv
  BY <1>1, <1>2, <1>3, <1>4, EmptyHistory DEF IdleInv, Gapped
<1>6. HistoryOK
  <2>1. pc \in Points
    BY <1>2 DEF Points
  <2>2. turn \in 0..MaxTurns
    BY <1>2, DoorBoundsAssumption DEF DoorBoundsAssumption
  <2>3. marks \in [1..MaxTurns -> Marks]
    BY <1>2 DEF Marks
  <2> QED BY <1>1, <1>2, <2>1, <2>2, <2>3 DEF HistoryOK
<1>7. BlameInv /\ LedgerInv
  BY <1>2 DEF BlameInv, LedgerInv
<1> QED BY <1>2, <1>5, <1>6, <1>7, RowsInit DEF IInv, Held

LEMMA InvariantStep == IInv /\ [Next]_vars => IInv'
<1> SUFFICES ASSUME IInv, [Next]_vars, Sound' PROVE Held'
  <2>1. IInv /\ [Next]_vars => RowsInv'
    BY RowsStep DEF IInv
  <2> QED BY <2>1 DEF IInv
<1>1. RowsInv
  BY DEF IInv
<1>2. Sound
  <2>1. astray => astray'
    BY DEF Next, vars, StartTurn, PlaceRows, Reply, Fail, AskForTools, Overflow,
           CompactHistory, FailCompaction, Summarise, Persist, FailPersist, AnswerCall, Cancel,
           FinishTurn, RecordTurn, SaveTurn, AnswerParked, BlameLast, Crash
  <2>2. blamed => blamed'
    BY DEF Next, vars, StartTurn, PlaceRows, Reply, Fail, AskForTools, Overflow,
           CompactHistory, FailCompaction, Summarise, Persist, FailPersist, AnswerCall, Cancel,
           FinishTurn, RecordTurn, SaveTurn, AnswerParked, BlameLast, Crash, Kept, Outcome
  <2> QED BY <2>1, <2>2 DEF Sound
<1>3. Writing
  BY <1>2 DEF Writing
<1>4. /\ HistoryOK /\ BlameInv /\ LedgerInv
      /\ pc = "idle" => IdleInv
      /\ pc # "idle" => TurnInv
  BY <1>3, Unfold
<1>5. blame' \in {0, blame} => BlameInv'
  BY <1>1, <1>4, NextSteady, BlameKeeps
<1>6. CASE StartTurn \/ PlaceRows \/ FinishTurn \/ RecordTurn \/ Cancel \/ Persist
  <2>1. blame' = blame
    BY <1>6 DEF StartTurn, PlaceRows, FinishTurn, RecordTurn, Cancel, Persist, Outcome
  <2>2. Persist => HistoryOK' /\ LedgerInv' /\ pc' # "idle" /\ TurnInv'
    BY <1>3, WriteAheadHolds DEF Persist, Given
  <2>3. HistoryOK' /\ LedgerInv' /\ pc' # "idle" /\ TurnInv'
    BY <1>1, <1>3, <1>6, <2>2, StartHolds, PlaceHolds, FinishHolds, RecordHolds, CancelHolds
  <2> QED BY <1>5, <2>1, <2>3 DEF Held
<1>7. CASE \/ Reply \/ Fail \/ AskForTools \/ Overflow \/ CompactHistory \/ FailCompaction
           \/ Summarise \/ FailPersist \/ AnswerCall
  <2>1. blame' = blame
    BY <1>7 DEF Reply, Fail, AskForTools, Overflow, CompactHistory, FailCompaction, Summarise,
                FailPersist, AnswerCall, Kept, Outcome
  <2>2. HistoryOK' /\ LedgerInv' /\ pc' # "idle" /\ TurnInv'
    BY <1>3, <1>7, RoundHolds
  <2> QED BY <1>5, <2>1, <2>2 DEF Held
<1>8. CASE SaveTurn
  <2>1. blame' = blame
    BY <1>8 DEF SaveTurn
  <2> QED BY <1>3, <1>5, <1>8, <2>1, SaveHolds DEF Held
<1>9. CASE AnswerParked
  BY <1>3, <1>9, ParkedHolds DEF Held
<1>10. CASE BlameLast
  <2>1. blame' = 0
    BY <1>10 DEF BlameLast
  <2>2. /\ HistoryOK' /\ LedgerInv' /\ pc' = pc
        /\ IF pc = "idle" THEN IdleInv' ELSE TurnInv'
    BY <1>1, <1>3, <1>10, BlameHolds
  <2> QED BY <1>5, <2>1, <2>2 DEF Held
<1>11. CASE Crash
  <2>1. blame' = 0
    BY <1>11 DEF Crash
  <2> QED BY <1>3, <1>5, <1>11, <2>1, CrashHolds DEF Held
<1>12. CASE UNCHANGED vars
  <2>1. /\ UNCHANGED << pc, messages, store, watched, start, from, final, turn, marks,
                        returned, settled, blame >>
    BY <1>12 DEF vars
  <2>2. HistoryOK' /\ BlameInv' /\ LedgerInv'
    BY <1>4, <2>1 DEF HistoryOK, BlameInv, LedgerInv, Streaming
  <2>3. IdleInv => IdleInv'
    <3>1. Load' = LoadOf(store')
      BY DEF Load, LoadOf, Rank
    <3>2. Load' = Load
      BY <2>1, <3>1, LoadDef
    <3> QED BY <2>1, <3>2 DEF IdleInv, Gapped, Streaming
  <2>4. TurnInv => TurnInv'
    BY <2>1 DEF TurnInv, PlacedInv, FaithfulInv, PlaceholderInv, RoundInv, Streaming
  <2> QED BY <1>4, <2>1, <2>2, <2>3, <2>4 DEF Held
<1> QED BY <1>6, <1>7, <1>8, <1>9, <1>10, <1>11, <1>12 DEF Next

LEMMA InvariantHolds == Spec => []IInv
BY InvariantInit, InvariantStep, PTL DEF Spec

(* Until create() marks a row that is not its message's own, a turn that   *)
(* ran to its end is read back as it was returned, it leaves no row        *)
(* streaming, and what a provider gets is in shape: for any calls, rounds, *)
(* deaths and answered parks.                                              *)
THEOREM HistoryKeptWhole == Spec => []KeptWhole
<1>1. IInv => KeptWhole
  <2> SUFFICES ASSUME IInv, ~blamed PROVE ReplyKept /\ NoStreamingLeft /\ RequestInShape
    BY DEF KeptWhole
  <2>1. CASE ~astray
    <3>1. Held
      BY <2>1 DEF IInv, Sound
    <3>2. pc = "idle" => IdleInv
      BY <3>1 DEF Held
    <3>3. pc = "calling" => RoundInv
      BY <3>1 DEF Held, TurnInv
    <3> QED BY <3>2, <3>3 DEF ReplyKept, NoStreamingLeft, RequestInShape, IdleInv, RoundInv
  <2>2. CASE astray
    BY <2>2 DEF ReplyKept, NoStreamingLeft, RequestInShape
  <2> QED BY <2>1, <2>2
<1> QED BY <1>1, InvariantHolds, PTL

(* While positions agree and every mark hit its own row, a placeholder the *)
(* ledger last called streaming is still streaming.                        *)
THEOREM LedgerTellsStreams == Spec => []LedgerCatchesUp
<1>1. IInv => LedgerCatchesUp
  <2> SUFFICES ASSUME IInv, NEW t \in DOMAIN marks, marks[t] = "streaming", ~blamed, ~astray
               PROVE  \E s \in DOMAIN store : Streaming(s) /\ store[s].holder = t
    BY DEF LedgerCatchesUp
  <2>1. LedgerInv /\ HistoryOK
    BY DEF IInv, Sound, Held
  <2>2. t \in 1..MaxTurns
    BY <2>1 DEF HistoryOK
  <2> QED BY <2>1, <2>2 DEF LedgerInv
<1> QED BY <1>1, InvariantHolds, PTL

=============================================================================
