--------------------------- MODULE TurnLoopProofs ---------------------------
(***************************************************************************)
(* The safety invariants of TurnLoop, proved for every set of call ids,    *)
(* every batch, tail length, budget and number of turns.                   *)
(***************************************************************************)
EXTENDS TurnLoop, TranscriptProofs

Between == {"loop", "calling", "compacting", "summarising"}
Midway  == {"persisting", "answering", "dispatching"}

(* Outside a round every call is answered; inside one, the calls still to  *)
(* be answered are exactly the round's open ones.                          *)
RoundInv ==
  /\ pc \in Between => Pending(messages) = {}
  /\ pc \in Midway => Pending(messages) = valid \cup invalid /\ valid \cap invalid = {}
  /\ pc \notin Midway => valid = {} /\ invalid = {}
  /\ pc = "persisting" => valid # {}
  /\ pc = "answering" => invalid # {}
  /\ pc = "dispatching" => valid # {} /\ invalid = {}
  /\ running # NoCall => pc = "dispatching" /\ running \in valid
  /\ pc # "idle" => turn # 0

(* The stored rows are the head of the history in memory.                  *)
StoreInv ==
  compacted = 0 => Shape(saved) /\ (pc # "idle" => Extends(messages, saved))

ShapeInv == LoadedWhole => Shape(messages)

(* Between the write-ahead and the end of the round the store shows every  *)
(* call of the round as pending.                                           *)
AheadInv ==
  compacted = 0 /\ (pc = "dispatching" \/ (pc = "answering" /\ valid # {})) =>
    valid \subseteq Pending(saved)

Safety == AppendAccepted /\ OpenOnlyWhenCut /\ RoundInv /\ ShapeInv /\ StoreInv /\ AheadInv

(* The inductive invariant.                                                *)
IInv == TypeOK /\ Safety
-----------------------------------------------------------------------------
(* A store that holds the head of the history holds all of it once         *)
(* _insert_messages has run.                                               *)
LEMMA DurableType ==
  ASSUME NEW rows \in Seq(Row), NEW m \in Seq(Row)
  PROVE  Durable(rows, m) \in Seq(Row)
<1>1. SubSeq(m, Len(rows) + 1, Len(m)) \in Seq(Row)
  <2>1. \A k \in (Len(rows) + 1)..Len(m) : k \in 1..Len(m)
    OBVIOUS
  <2>2. QED
    BY <2>1
<1>2. QED
  BY <1>1 DEF Durable

LEMMA DurableWhole ==
  ASSUME NEW rows \in Seq(Row), NEW m \in Seq(Row), Extends(m, rows)
  PROVE  Durable(rows, m) = m
<1> DEFINE t == SubSeq(m, Len(rows) + 1, Len(m))
<1>1. /\ Len(rows) \in Nat /\ Len(m) \in Nat /\ Len(m) >= Len(rows)
      /\ \A i \in 1..Len(rows) : m[i] = rows[i]
  BY DEF Extends
<1>2. /\ t \in Seq(Row) /\ Len(t) = Len(m) - Len(rows)
      /\ \A k \in 1..(Len(m) - Len(rows)) : t[k] = m[k + Len(rows)]
  BY <1>1
<1> HIDE DEF t
<1> DEFINE n == rows \o t
<1>3. /\ n \in Seq(Row) /\ Len(n) = Len(m)
      /\ \A i \in 1..Len(rows) : n[i] = rows[i]
      /\ \A i \in (Len(rows)+1)..Len(m) : n[i] = t[i - Len(rows)]
  BY <1>1, <1>2
<1> HIDE DEF n
<1>4. ASSUME NEW i \in 1..Len(m)
      PROVE  n[i] = m[i]
  <2>1. CASE i \in 1..Len(rows)
    BY <1>1, <1>3, <2>1
  <2>2. CASE i \in (Len(rows)+1)..Len(m)
    <3>1. i - Len(rows) \in 1..(Len(m) - Len(rows)) /\ i - Len(rows) + Len(rows) = i
      BY <1>1, <2>2
    <3>2. QED
      BY <1>2, <1>3, <2>2, <3>1
  <2>3. QED
    BY <1>1, <2>1, <2>2
<1>5. n = m
  BY <1>3, <1>4
<1>6. QED
  BY <1>5 DEF Durable, n, t
-----------------------------------------------------------------------------
LEMMA TypeInit == Init => TypeOK
<1> SUFFICES ASSUME Init PROVE TypeOK
  OBVIOUS
<1>1. << >> \in Seq(Row)
  OBVIOUS
<1>2. 0 \in 0..MaxIterations /\ 0 \in 0..MaxTurns /\ 0 \in 0..0
  BY BudgetAssumption DEF BudgetAssumption
<1>3. QED
  BY <1>1, <1>2 DEF Init, TypeOK, Points, Awaiting, Exits

LEMMA TypeStep == TypeOK /\ [Next]_vars => TypeOK'
<1> SUFFICES ASSUME TypeOK, [Next]_vars
             PROVE  TypeOK'
  OBVIOUS
<1> USE BudgetAssumption DEF BudgetAssumption, Round, Store, Given, Points, Awaiting, Exits
<1>1. CASE StartTurn
  <2>1. PICK m \in Repaired(saved) :
          IF CanAppend(m, UserRow("input"))
            THEN messages' = Append(m, UserRow("input")) /\ pc' = "loop"
            ELSE messages' = m /\ pc' = "raised"
    BY <1>1 DEF StartTurn
  <2>2. /\ messages' \in Seq(Row) /\ Len(messages') - 1 \in Nat /\ pc' = "loop"
    BY <2>1, Started DEF TypeOK
  <2>3. turnStart' \in Nat
    BY <1>1, <2>2 DEF StartTurn
  <2>4. turn' \in 0..MaxTurns /\ compacted' \in 0..turn'
    BY <1>1 DEF StartTurn, TypeOK
  <2>5. QED
    BY <1>1, <2>2, <2>3, <2>4 DEF StartTurn, TypeOK
<1>2. CASE ExhaustBudget
  BY <1>2 DEF ExhaustBudget, TypeOK
<1>3. CASE ExpireWallClock
  BY <1>3 DEF ExpireWallClock, ConsumeIteration, End, TypeOK
<1>4. CASE StopBeforeCall
  BY <1>4 DEF StopBeforeCall, ConsumeIteration, End, TypeOK
<1>5. CASE CallModel
  BY <1>5 DEF CallModel, ConsumeIteration, TypeOK
<1>6. CASE Answer
  <2>1. AssistantRow(<< >>) \in Row
    <3>1. << >> \in Seq(Calls)
      OBVIOUS
    <3>2. QED
      BY <3>1, RowTypes
  <2>2. messages' \in Seq(Row) /\ pc' \in {"finishing", "raised"}
    BY <1>6, <2>1 DEF Answer, Append1, TypeOK
  <2>3. QED
    BY <1>6, <2>2 DEF Answer, TypeOK
<1>7. CASE FailProvider
  BY <1>7 DEF FailProvider, End, TypeOK
<1>8. CASE Overflow
  BY <1>8 DEF Overflow, TypeOK
<1>9. CASE CompactHistory
  <2>1. messages' \in Seq(Row) /\ Len(messages') \in Nat
    <3>1. PICK b \in 1..Len(messages) : messages' = Compact(messages, b)
      BY <1>9 DEF CompactHistory
    <3>2. QED
      BY <3>1, CompactedRows DEF TypeOK
  <2>2. turnStart' \in Nat
    BY <1>9, <2>1 DEF CompactHistory, TypeOK
  <2>3. compacted' \in 0..turn'
    BY <1>9 DEF CompactHistory, TypeOK
  <2>4. QED
    BY <1>9, <2>1, <2>2, <2>3 DEF CompactHistory, TypeOK
<1>10. CASE FailCompaction
  BY <1>10 DEF FailCompaction, End, TypeOK
<1>11. CASE AskForTools
  <2>1. PICK calls \in Batches, unknown \in SUBSET Calls :
          /\ unknown \subseteq Ids(AssistantRow(calls))
          /\ Append1(AssistantRow(calls),
                     IF unknown = Ids(AssistantRow(calls)) THEN "answering" ELSE "persisting")
          /\ invalid' = unknown
          /\ valid' = Ids(AssistantRow(calls)) \ unknown
    BY <1>11 DEF AskForTools
  <2>2. /\ messages' \in Seq(Row) /\ pc' \in {"answering", "persisting", "raised"}
        /\ valid' \subseteq Calls /\ invalid' \subseteq Calls
    BY <2>1, CallsRow, BatchesAssumption DEF Append1, TypeOK, BatchesAssumption
  <2>3. QED
    BY <1>11, <2>2 DEF AskForTools, TypeOK
<1>12. CASE Persist
  <2>1. saved' \in Seq(Row)
    BY <1>12, DurableType DEF Persist, TypeOK
  <2>2. QED
    BY <1>12, <2>1 DEF Persist, TypeOK
<1>13. CASE FailPersist
  BY <1>13 DEF FailPersist, End, TypeOK
<1>14. CASE AnswerInvalid
  <2>1. PICK c \in invalid :
          /\ Append1(ToolRow(c, "unknown_tool"),
                     IF invalid # {c} THEN "answering"
                     ELSE IF valid # {} THEN "dispatching" ELSE "finishing")
          /\ invalid' = invalid \ {c}
          /\ exit' = IF invalid = {c} /\ valid = {} THEN "invalid_tool_calls" ELSE exit
    BY <1>14 DEF AnswerInvalid
  <2>2. ToolRow(c, "unknown_tool") \in Row
    BY <2>1, RowTypes DEF TypeOK, Bodies
  <2>3. messages' \in Seq(Row)
    BY <2>1, <2>2 DEF Append1, TypeOK
  <2>4. pc' \in {"answering", "dispatching", "finishing", "raised"}
    BY <2>1 DEF Append1
  <2>5. invalid' \subseteq Calls /\ exit' \in Exits
    BY <2>1 DEF TypeOK
  <2>6. QED
    BY <1>14, <2>3, <2>4, <2>5 DEF AnswerInvalid, TypeOK
<1>15. CASE Dispatch
  BY <1>15 DEF Dispatch, TypeOK
<1>16. CASE Return
  <2>1. ToolRow(running, "result") \in Row
    BY <1>16, RowTypes DEF Return, TypeOK, Bodies
  <2>2. /\ messages' \in Seq(Row)
        /\ pc' \in {"dispatching", "loop", "finishing", "raised"}
        /\ valid' \subseteq Calls
    BY <1>16, <2>1 DEF Return, Append1, TypeOK
  <2>3. QED
    BY <1>16, <2>2 DEF Return, TypeOK
<1>17. CASE Summarise
  <2>1. messages' \in Seq(Row)
    <3>1. UserRow("summary_request") \in Row /\ AssistantRow(<< >>) \in Row
      <4>1. << >> \in Seq(Calls)
        OBVIOUS
      <4>2. QED
        BY <4>1, RowTypes DEF Bodies
    <3>2. \A u, a \in Row : messages \o << u, a >> \in Seq(Row)
      BY DEF TypeOK
    <3>3. QED
      BY <1>17, <3>1, <3>2 DEF Summarise
  <2>2. QED
    BY <1>17, <2>1 DEF Summarise, TypeOK
<1>18. CASE FailSummary
  BY <1>18 DEF FailSummary, TypeOK
<1>19. CASE Cancel
  <2>1. saved' \in Seq(Row)
    BY <1>19, DurableType DEF Cancel, TypeOK
  <2>2. QED
    BY <1>19, <2>1 DEF Cancel, End, TypeOK
<1>20. CASE Save
  <2>1. saved' \in Seq(Row)
    BY <1>20, DurableType DEF Save, TypeOK
  <2>2. << >> \in Seq(Row)
    OBVIOUS
  <2>3. QED
    BY <1>20, <2>1, <2>2 DEF Save, TypeOK
<1>21. CASE Crash
  <2>1. << >> \in Seq(Row)
    OBVIOUS
  <2>2. QED
    BY <1>21, <2>1 DEF Crash, TypeOK
<1>22. CASE RequestStop
  BY <1>22 DEF RequestStop, TypeOK
<1>23. CASE UNCHANGED vars
  BY <1>23 DEF vars, TypeOK
<1>24. QED
  BY <1>1, <1>2, <1>3, <1>4, <1>5, <1>6, <1>7, <1>8, <1>9, <1>10, <1>11, <1>12,
     <1>13, <1>14, <1>15, <1>16, <1>17, <1>18, <1>19, <1>20, <1>21, <1>22, <1>23
     DEF Next, Progress

(* Every variable keeps its type, whatever the batches, budget and number  *)
(* of turns; in particular the budget in memory and the stored one never   *)
(* pass max_total.                                                         *)
THEOREM TypeCorrect == Spec => []TypeOK
<1>1. Init => TypeOK
  BY TypeInit
<1>2. TypeOK /\ [Next]_vars => TypeOK'
  BY TypeStep
<1>3. QED
  BY <1>1, <1>2, PTL DEF Spec
-----------------------------------------------------------------------------
(* The inductive step, one case per action.  A step that leaves the        *)
(* history, the store and the round alone only moves pc.                   *)
LEMMA SafetyInit == Init => Safety
<1>1. NoCall \notin Calls
  BY CallsAssumption DEF CallsAssumption
<1>2. Extends(<< >>, << >>)
  BY EmptyHistory, ExtendsRefl
<1>3. QED
  BY <1>1, <1>2, EmptyHistory
     DEF Init, Safety, AppendAccepted, OpenOnlyWhenCut, RoundInv, ShapeInv, StoreInv,
         AheadInv, Between, Midway

LEMMA SafetyStep == TypeOK /\ TypeOK' /\ Safety /\ [Next]_vars => Safety'
<1> SUFFICES ASSUME TypeOK, TypeOK', Safety, [Next]_vars
             PROVE  Safety'
  OBVIOUS
<1> USE DEF Round, Store, Given, Between, Midway
<1>1. /\ messages \in Seq(Row) /\ messages' \in Seq(Row)
      /\ saved \in Seq(Row) /\ saved' \in Seq(Row)
      /\ valid \subseteq Calls /\ invalid \subseteq Calls
      /\ compacted \in 0..turn /\ turn \in Nat
  BY BudgetAssumption DEF TypeOK, BudgetAssumption
<1>2. AppendAccepted /\ OpenOnlyWhenCut /\ RoundInv /\ ShapeInv /\ StoreInv /\ AheadInv
  BY DEF Safety
<1>3. ASSUME UNCHANGED << messages, saved, valid, invalid, running, turn, compacted >>,
             pc # "idle", pc \notin Midway, pc' \notin Midway \cup {"idle", "raised"},
             Pending(messages) = {}
      PROVE  Safety'
  BY <1>2, <1>3
     DEF Safety, AppendAccepted, OpenOnlyWhenCut, RoundInv, ShapeInv, StoreInv, AheadInv,
         LoadedWhole
<1>4. CASE StartTurn
  <2>1. PICK m \in Repaired(saved) :
          IF CanAppend(m, UserRow("input"))
            THEN messages' = Append(m, UserRow("input")) /\ pc' = "loop"
            ELSE messages' = m /\ pc' = "raised"
    BY <1>4 DEF StartTurn
  <2>2. /\ pc' = "loop" /\ Pending(messages') = {} /\ Extends(messages', saved)
        /\ Shape(saved) => Shape(messages')
    BY <1>1, <2>1, Started
  <2>3. LoadedWhole' => compacted = 0
    BY <1>4, <1>1 DEF LoadedWhole, StartTurn
  <2>4. turn' # 0
    BY <1>4, <1>1 DEF StartTurn
  <2>5. QED
    BY <1>4, <1>2, <2>2, <2>3, <2>4
       DEF StartTurn, Safety, AppendAccepted, OpenOnlyWhenCut, RoundInv, ShapeInv, StoreInv,
           AheadInv
<1>5. CASE ExhaustBudget
  <2>1. CanAppend(messages, UserRow("summary_request"))
    BY <1>5, <1>2, UserRowPlain DEF ExhaustBudget, RoundInv, CanAppend
  <2>2. QED
    BY <1>5, <1>3, <1>2, <2>1 DEF ExhaustBudget, RoundInv
<1>6. CASE ExpireWallClock
  BY <1>6, <1>3, <1>2 DEF ExpireWallClock, ConsumeIteration, End, RoundInv
<1>7. CASE StopBeforeCall
  BY <1>7, <1>3, <1>2 DEF StopBeforeCall, ConsumeIteration, End, RoundInv
<1>8. CASE CallModel
  BY <1>8, <1>3, <1>2 DEF CallModel, ConsumeIteration, RoundInv
<1>9. CASE Answer
  <2> DEFINE a == AssistantRow(<< >>)
  <2>1. a \in Row /\ ~IsTool(a) /\ ~Opens(a)
    <3>1. << >> \in Seq(Calls)
      OBVIOUS
    <3>2. QED
      BY <3>1, RowTypes, AssistantRowPlain
  <2>2. pc = "calling" /\ Pending(messages) = {} /\ Append1(a, "finishing")
        /\ UNCHANGED << saved, valid, invalid, running, turn, compacted >>
    BY <1>9, <1>2 DEF Answer, RoundInv
  <2> HIDE DEF a
  <2>3. /\ messages' = Append(messages, a) /\ pc' = "finishing"
        /\ Pending(messages') = {}
        /\ Shape(messages) => Shape(messages')
    BY <1>1, <2>1, <2>2, AppendPlain DEF Append1
  <2>4. Extends(messages, saved) => Extends(messages', saved)
    BY <1>1, <2>1, <2>3, ExtendsAppend
  <2>5. QED
    BY <1>2, <2>2, <2>3, <2>4
       DEF Safety, AppendAccepted, OpenOnlyWhenCut, RoundInv, ShapeInv, StoreInv, AheadInv,
           LoadedWhole
<1>10. CASE FailProvider
  BY <1>10, <1>3, <1>2 DEF FailProvider, End, RoundInv
<1>11. CASE Overflow
  BY <1>11, <1>3, <1>2 DEF Overflow, RoundInv
<1>12. CASE CompactHistory
  <2>1. PICK b \in 1..Len(messages) :
          IsBoundary(messages, b) /\ messages' = Compact(messages, b)
    BY <1>12 DEF CompactHistory
  <2>2. Pending(messages) = {} /\ SafeCut(messages, b)
    BY <1>12, <1>2, <2>1 DEF CompactHistory, RoundInv, IsBoundary
  <2>3. Pending(messages') = {} /\ (Shape(messages) => Shape(messages'))
    BY <1>1, <2>1, <2>2, CompactCloses, CompactShape
  <2>4. compacted' # 0 /\ (LoadedWhole' => LoadedWhole)
    <3>1. turn # 0 /\ turn' = turn
      BY <1>12, <1>2 DEF CompactHistory, RoundInv
    <3>2. QED
      BY <1>12, <1>1, <3>1 DEF CompactHistory, LoadedWhole
  <2>5. QED
    BY <1>12, <1>2, <2>3, <2>4
       DEF CompactHistory, Safety, AppendAccepted, OpenOnlyWhenCut, RoundInv, ShapeInv,
           StoreInv, AheadInv
<1>13. CASE FailCompaction
  BY <1>13, <1>3, <1>2 DEF FailCompaction, End, RoundInv
<1>14. CASE AskForTools
  <2>1. PICK calls \in Batches, unknown \in SUBSET Calls :
          /\ unknown \subseteq Ids(AssistantRow(calls))
          /\ Append1(AssistantRow(calls),
                     IF unknown = Ids(AssistantRow(calls)) THEN "answering" ELSE "persisting")
          /\ invalid' = unknown
          /\ valid' = Ids(AssistantRow(calls)) \ unknown
    BY <1>14 DEF AskForTools
  <2> DEFINE a == AssistantRow(calls)
  <2>2. a \in Row /\ ~IsTool(a) /\ Opens(a) /\ Ids(a) # {}
    BY CallsRow, BatchesAssumption DEF BatchesAssumption
  <2>3. /\ unknown \subseteq Ids(a) /\ invalid' = unknown /\ valid' = Ids(a) \ unknown
        /\ Append1(a, IF unknown = Ids(a) THEN "answering" ELSE "persisting")
    BY <2>1
  <2>4. /\ pc = "calling" /\ Pending(messages) = {}
        /\ UNCHANGED << saved, running, turn, compacted, exit >>
    BY <1>14, <1>2 DEF AskForTools, RoundInv
  <2>5. running = NoCall /\ turn # 0
    BY <1>2, <2>4 DEF RoundInv
  <2> HIDE DEF a
  <2>6. /\ messages' = Append(messages, a)
        /\ pc' = IF unknown = Ids(a) THEN "answering" ELSE "persisting"
    BY <2>2, <2>3, <2>4 DEF Append1, CanAppend
  <2>7. /\ Pending(messages') = Ids(a)
        /\ Shape(messages) => Shape(messages')
        /\ Extends(messages, saved) => Extends(messages', saved)
    BY <1>1, <2>2, <2>4, <2>6, PendingAppendCalls, ShapeAppendPlain, ExtendsAppend
  <2>8. RoundInv'
    <3>1. CASE unknown = Ids(a)
      <4>1. valid' = {} /\ invalid' = Ids(a) /\ pc' = "answering"
        BY <2>3, <2>6, <3>1
      <4>2. QED
        BY <2>2, <2>4, <2>5, <2>7, <4>1 DEF RoundInv
    <3>2. CASE unknown # Ids(a)
      <4>1. /\ valid' # {} /\ pc' = "persisting" /\ valid' \cap invalid' = {}
            /\ valid' \cup invalid' = Ids(a)
        BY <2>3, <2>6, <3>2
      <4>2. QED
        BY <2>4, <2>5, <2>7, <4>1 DEF RoundInv
    <3>3. QED
      BY <3>1, <3>2
  <2>9. AheadInv'
    BY <2>3, <2>6 DEF AheadInv
  <2>10. QED
    BY <1>2, <2>4, <2>6, <2>7, <2>8, <2>9
       DEF Safety, AppendAccepted, OpenOnlyWhenCut, ShapeInv, StoreInv, LoadedWhole
<1>15. CASE Persist
  <2>1. /\ pc = "persisting" /\ pc' = (IF invalid = {} THEN "dispatching" ELSE "answering")
        /\ saved' = Durable(saved, messages)
        /\ UNCHANGED << messages, valid, invalid, running, turn, compacted >>
    BY <1>15 DEF Persist
  <2>2. compacted = 0 => saved' = messages
    BY <1>2, <1>1, <2>1, DurableWhole DEF StoreInv
  <2>3. compacted = 0 => Shape(messages) /\ Extends(messages, messages)
    BY <1>2, <1>1, ExtendsRefl DEF ShapeInv, LoadedWhole
  <2>4. StoreInv'
    BY <2>1, <2>2, <2>3 DEF StoreInv
  <2>5. AheadInv'
    BY <1>2, <2>1, <2>2 DEF AheadInv, RoundInv
  <2>6. RoundInv'
    BY <1>2, <2>1 DEF RoundInv
  <2>7. QED
    BY <1>2, <2>1, <2>4, <2>5, <2>6
       DEF Safety, AppendAccepted, OpenOnlyWhenCut, ShapeInv, LoadedWhole
<1>16. CASE FailPersist
  BY <1>16, <1>2
     DEF FailPersist, End, Safety, AppendAccepted, OpenOnlyWhenCut, RoundInv, ShapeInv,
         StoreInv, AheadInv, LoadedWhole
<1>17. CASE AnswerInvalid
  <2>1. PICK c \in invalid :
          /\ Append1(ToolRow(c, "unknown_tool"),
                     IF invalid # {c} THEN "answering"
                     ELSE IF valid # {} THEN "dispatching" ELSE "finishing")
          /\ invalid' = invalid \ {c}
    BY <1>17 DEF AnswerInvalid
  <2>2. /\ pc = "answering" /\ Pending(messages) = valid \cup invalid
        /\ valid \cap invalid = {}
        /\ UNCHANGED << saved, valid, running, turn, compacted >>
    BY <1>17, <1>2 DEF AnswerInvalid, RoundInv
  <2>3. /\ messages' = Append(messages, ToolRow(c, "unknown_tool"))
        /\ Pending(messages') = valid \cup (invalid \ {c})
        /\ Shape(messages) => Shape(messages')
        /\ pc' = IF invalid # {c} THEN "answering"
                 ELSE IF valid # {} THEN "dispatching" ELSE "finishing"
    <3>1. c \in Pending(messages) /\ "unknown_tool" \in Bodies
      BY <2>2 DEF Bodies
    <3>2. Pending(messages) \ {c} = valid \cup (invalid \ {c})
      BY <2>1, <2>2
    <3>3. QED
      BY <1>1, <2>1, <3>1, <3>2, AppendAnswer DEF Append1
  <2>4. Extends(messages, saved) => Extends(messages', saved)
    <3>1. ToolRow(c, "unknown_tool") \in Row
      BY <1>1, <2>1, RowTypes DEF Bodies
    <3>2. QED
      BY <1>1, <2>3, <3>1, ExtendsAppend
  <2>5. RoundInv'
    <3>1. invalid = {c} <=> invalid' = {}
      BY <2>1
    <3>2. QED
      BY <1>2, <2>1, <2>2, <2>3, <3>1 DEF RoundInv
  <2>6. AheadInv'
    BY <1>2, <2>2, <2>3 DEF AheadInv
  <2>7. OpenOnlyWhenCut' /\ AppendAccepted'
    BY <2>1, <2>2, <2>3 DEF OpenOnlyWhenCut, AppendAccepted
  <2>8. QED
    BY <1>2, <2>2, <2>3, <2>4, <2>5, <2>6, <2>7
       DEF Safety, ShapeInv, StoreInv, LoadedWhole
<1>18. CASE Dispatch
  BY <1>18, <1>2
     DEF Dispatch, Safety, AppendAccepted, OpenOnlyWhenCut, RoundInv, ShapeInv, StoreInv,
         AheadInv, LoadedWhole
<1>19. CASE Return
  <2>1. /\ pc = "dispatching" /\ running # NoCall /\ running \in valid
        /\ Pending(messages) = valid /\ invalid = {}
        /\ Append1(ToolRow(running, "result"),
                   IF valid # {running} THEN "dispatching"
                   ELSE IF stop THEN "finishing" ELSE "loop")
        /\ valid' = valid \ {running} /\ running' = NoCall
        /\ UNCHANGED << saved, invalid, turn, compacted >>
    BY <1>19, <1>2 DEF Return, RoundInv
  <2>2. /\ messages' = Append(messages, ToolRow(running, "result"))
        /\ Pending(messages') = valid'
        /\ Shape(messages) => Shape(messages')
        /\ pc' = IF valid # {running} THEN "dispatching"
                 ELSE IF stop THEN "finishing" ELSE "loop"
    <3>1. running \in Pending(messages) /\ "result" \in Bodies
      BY <2>1 DEF Bodies
    <3>2. QED
      BY <1>1, <2>1, <3>1, AppendAnswer DEF Append1
  <2>3. Extends(messages, saved) => Extends(messages', saved)
    <3>1. ToolRow(running, "result") \in Row
      BY <1>1, <2>1, RowTypes DEF Bodies
    <3>2. QED
      BY <1>1, <2>2, <3>1, ExtendsAppend
  <2>4. valid = {running} <=> valid' = {}
    BY <2>1
  <2>5. RoundInv'
    BY <1>2, <2>1, <2>2, <2>4 DEF RoundInv
  <2>6. AheadInv'
    BY <1>2, <2>1, <2>2 DEF AheadInv
  <2>7. OpenOnlyWhenCut' /\ AppendAccepted'
    BY <2>1, <2>2, <2>4 DEF OpenOnlyWhenCut, AppendAccepted
  <2>8. QED
    BY <1>2, <2>1, <2>2, <2>3, <2>5, <2>6, <2>7
       DEF Safety, ShapeInv, StoreInv, LoadedWhole
<1>20. CASE Summarise
  <2>1. /\ pc = "summarising" /\ Pending(messages) = {} /\ pc' = "finishing"
        /\ messages' = messages \o << UserRow("summary_request"), AssistantRow(<< >>) >>
        /\ UNCHANGED << saved, valid, invalid, running, turn, compacted >>
    BY <1>20, <1>2 DEF Summarise, RoundInv
  <2>2. /\ Pending(messages') = {}
        /\ Shape(messages) => Shape(messages')
        /\ Extends(messages, saved) => Extends(messages', saved)
    BY <1>1, <2>1, Summarised
  <2>3. QED
    BY <1>2, <2>1, <2>2
       DEF Safety, AppendAccepted, OpenOnlyWhenCut, RoundInv, ShapeInv, StoreInv, AheadInv,
           LoadedWhole
<1>21. CASE FailSummary
  BY <1>21, <1>3, <1>2 DEF FailSummary, RoundInv
<1>22. CASE Cancel
  <2>1. compacted = 0 => /\ Shape(saved') /\ Extends(messages, saved')
    <3>1. compacted = 0 => Shape(saved) /\ Extends(messages, saved) /\ Shape(messages)
      BY <1>22, <1>2 DEF Cancel, Awaiting, StoreInv, ShapeInv, LoadedWhole
    <3>2. saved' = saved \/ saved' = Durable(saved, messages)
      BY <1>22 DEF Cancel
    <3>3. QED
      BY <1>1, <3>1, <3>2, DurableWhole, ExtendsRefl
  <2>2. QED
    BY <1>22, <1>2, <2>1
       DEF Cancel, Awaiting, End, Safety, AppendAccepted, OpenOnlyWhenCut, RoundInv, ShapeInv, StoreInv,
           AheadInv, LoadedWhole
<1>23. CASE Save
  <2>1. compacted = 0 => Shape(saved')
    <3>1. compacted = 0 => Extends(messages, saved) /\ Shape(messages)
      BY <1>23, <1>2 DEF Save, StoreInv, ShapeInv, LoadedWhole
    <3>2. QED
      BY <1>23, <1>1, <3>1, DurableWhole DEF Save
  <2>2. QED
    BY <1>23, <1>2, <2>1, EmptyHistory
       DEF Save, Safety, AppendAccepted, OpenOnlyWhenCut, RoundInv, ShapeInv, StoreInv,
           AheadInv
<1>24. CASE Crash
  BY <1>24, <1>2, EmptyHistory
     DEF Crash, Safety, AppendAccepted, OpenOnlyWhenCut, RoundInv, ShapeInv, StoreInv, AheadInv
<1>25. CASE RequestStop
  BY <1>25, <1>2
     DEF RequestStop, Safety, AppendAccepted, OpenOnlyWhenCut, RoundInv, ShapeInv, StoreInv,
         AheadInv, LoadedWhole
<1>26. CASE UNCHANGED vars
  BY <1>26, <1>2
     DEF vars, Safety, AppendAccepted, OpenOnlyWhenCut, RoundInv, ShapeInv, StoreInv, AheadInv,
         LoadedWhole
<1>27. QED
  BY <1>4, <1>5, <1>6, <1>7, <1>8, <1>9, <1>10, <1>11, <1>12, <1>13, <1>14, <1>15,
     <1>16, <1>17, <1>18, <1>19, <1>20, <1>21, <1>22, <1>23, <1>24, <1>25, <1>26
     DEF Next, Progress

LEMMA Inductive == Spec => []IInv
<1>1. Init => IInv
  BY TypeInit, SafetyInit DEF IInv
<1>2. IInv /\ [Next]_vars => IInv'
  BY TypeStep, SafetyStep DEF IInv
<1>3. QED
  BY <1>1, <1>2, PTL DEF Spec

(* No append of the loop is ever refused: run_turn and take_turn cannot    *)
(* raise TranscriptInvariantError, whatever is stored, stopped or cut.     *)
THEOREM NoAppendRefused == Spec => []AppendAccepted
<1>1. IInv => AppendAccepted
  BY DEF IInv, Safety
<1>2. QED
  BY <1>1, Inductive, PTL

(* Every request that goes to a provider has each of its calls answered,   *)
(* in place, after any sequence of crashes, repairs and rounds, and after  *)
(* the compactions of the running turn.                                    *)
THEOREM RequestsWellFormed == Spec => []ProviderContract
<1>1. IInv => ProviderContract
  BY DEF IInv, Safety, RoundInv, ShapeInv, ProviderContract, Between
<1>2. QED
  BY <1>1, Inductive, PTL

(* While a call runs the store already shows it as asked for and not       *)
(* answered, as long as nothing was compacted.                             *)
THEOREM AskedBeforeRun == Spec => []WriteAhead
<1>1. IInv => WriteAhead
  BY DEF IInv, Safety, RoundInv, AheadInv, WriteAhead
<1>2. QED
  BY <1>1, Inductive, PTL

(* A turn ends with an open call only when it was cancelled or its persist *)
(* failed.                                                                 *)
THEOREM ClosedUnlessCut == Spec => []OpenOnlyWhenCut
<1>1. IInv => OpenOnlyWhenCut
  BY DEF IInv, Safety
<1>2. QED
  BY <1>1, Inductive, PTL

(* Without a compaction the stored rows are always a history a provider    *)
(* accepts (conversation_store.py: "a conversation survives the process    *)
(* that was running it"); with one they need not be.                       *)
DurableUnlessCompacted == compacted = 0 => Shape(saved)

THEOREM StoredInShape == Spec => []DurableUnlessCompacted
<1>1. IInv => DurableUnlessCompacted
  BY DEF IInv, Safety, StoreInv, DurableUnlessCompacted
<1>2. QED
  BY <1>1, Inductive, PTL
=============================================================================
