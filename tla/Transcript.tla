----------------------------- MODULE Transcript -----------------------------
(***************************************************************************)
(* The history of one conversation (src/sadana/conversation.py, CONV-01    *)
(* and C11): a sequence of rows, and the three functions the code allows   *)
(* to change it, append, repair and compact.  A row keeps what the         *)
(* functions look at: its role, the ids of the tool calls an assistant row *)
(* asks for, the id a tool row answers, and a tag for where its text came  *)
(* from.  Sequences are numbered from 1 here and from 0 in the code.       *)
(***************************************************************************)
EXTENDS Integers, Sequences, FiniteSets

CONSTANTS
  Calls,     \* tool-call ids a provider may use; it may reuse one in a later round
  NoCall,    \* the tool_call_id None of a row that answers nothing
  KeepTail   \* SADANA_CONTEXT_COMPACTION_TAIL_MESSAGES

ASSUME CallsAssumption == IsFiniteSet(Calls) /\ NoCall \notin Calls
ASSUME KeepTailAssumption == KeepTail \in Nat

Bodies == {"input", "summary", "summary_request", "text", "empty", "result",
           "unknown_tool", "repaired"}

Row == [role : {"user", "assistant", "tool"}, calls : Seq(Calls),
        answers : Calls \cup {NoCall}, body : Bodies]

UserRow(body) ==
  [role |-> "user", calls |-> << >>, answers |-> NoCall, body |-> body]
AssistantRow(calls) ==
  [role |-> "assistant", calls |-> calls, answers |-> NoCall, body |-> "text"]
ToolRow(call, body) ==
  [role |-> "tool", calls |-> << >>, answers |-> call, body |-> body]

IsTool(row) == row.role = "tool"
Opens(row)  == row.role = "assistant" /\ row.calls # << >>
Ids(row)    == {row.calls[k] : k \in DOMAIN row.calls}

-----------------------------------------------------------------------------
(* pending_tool_call_ids: the ids the last assistant row with tool calls   *)
(* asked for that no tool row after it has answered.                       *)

LastOpening(m, i) ==
  /\ i \in DOMAIN m
  /\ Opens(m[i])
  /\ \A j \in (i+1)..Len(m) : ~Opens(m[j])

Pending(m) ==
  {c \in Calls : \E i \in DOMAIN m :
     /\ LastOpening(m, i)
     /\ c \in Ids(m[i])
     /\ \A j \in (i+1)..Len(m) : IsTool(m[j]) => m[j].answers # c}

(* append refuses anything but an answer while a call is pending, and an   *)
(* answer while none is.                                                   *)
CanAppend(m, row) ==
  \/ Pending(m) = {} /\ ~IsTool(row)
  \/ IsTool(row) /\ row.answers \in Pending(m)

-----------------------------------------------------------------------------
(* repair: a marker row for every pending call, in the order the calls     *)
(* were declared.  Repaired(m) has one element when ids do not repeat in a *)
(* row, which uniquify_tool_call_ids sees to.                              *)

Declared(m, c, d) ==
  \E i \in DOMAIN m :
    /\ LastOpening(m, i)
    /\ \E k, l \in DOMAIN m[i].calls :
         k < l /\ m[i].calls[k] = c /\ m[i].calls[l] = d

Closings(m) ==
  {s \in [1..Cardinality(Pending(m)) -> Pending(m)] :
     /\ \A c \in Pending(m) : \E k \in DOMAIN s : s[k] = c
     /\ \A k, l \in DOMAIN s : k < l => Declared(m, s[k], s[l])}

Markers(s) == [k \in DOMAIN s |-> ToolRow(s[k], "repaired")]

\* Mutant of Repaired: the last declared call is left without an answer.
HalfRepaired(m) ==
  {m \o SubSeq(Markers(s), 1, Len(s) - 1) : s \in Closings(m)}

Repaired(m) == {m \o Markers(s) : s \in Closings(m)}

-----------------------------------------------------------------------------
(* find_compaction_boundary: how many rows a compaction replaces.  The cut *)
(* starts KeepTail rows from the end and walks back over tool rows.        *)

CutStart(m) == IF Len(m) > KeepTail THEN Len(m) - KeepTail ELSE 0

\* Mutant of SafeCut: a cut may fall between a call and its answer.
AnyCut(m, b) == b \in 0..Len(m)

SafeCut(m, b) == b = 0 \/ b = Len(m) \/ ~IsTool(m[b+1])

IsBoundary(m, b) ==
  /\ b \in 0..CutStart(m)
  /\ SafeCut(m, b)
  /\ \A k \in (b+1)..CutStart(m) : ~SafeCut(m, k)

Compact(m, b) == << UserRow("summary") >> \o SubSeq(m, b + 1, Len(m))

-----------------------------------------------------------------------------
(* What a provider accepts.  Every tool row stands in an unbroken run of   *)
(* tool rows right after the assistant row that asked for it, and no call  *)
(* is answered twice there; before any other row, every earlier call was   *)
(* answered in its own run.                                                *)

RunOfTools(m, i, j) == \A k \in (i+1)..j : IsTool(m[k])

Answered(m, i, j) ==
  \A c \in Ids(m[i]) : \E k \in (i+1)..j : m[k].answers = c /\ RunOfTools(m, i, k)

Matched(m, j) ==
  \E i \in 1..(j-1) :
    /\ Opens(m[i])
    /\ m[j].answers \in Ids(m[i])
    /\ RunOfTools(m, i, j)
    /\ \A k \in (i+1)..(j-1) : m[k].answers # m[j].answers

Settled(m, j) == \A i \in 1..(j-1) : Opens(m[i]) => Answered(m, i, j - 1)

RowInPlace(m, j) == IF IsTool(m[j]) THEN Matched(m, j) ELSE Settled(m, j)

Shape(m) == \A j \in DOMAIN m : RowInPlace(m, j)
=============================================================================
