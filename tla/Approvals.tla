------------------------------ MODULE Approvals ------------------------------
(***************************************************************************)
(* One conversation's parked plugin run and the approvals that answer it:  *)
(* plugin_pauses and approvals (conversation_store.py, H18), the resume in *)
(* plugin_dispatch.py, and the three kinds of thread that come to it, each *)
(* under stores.conversation_lock: the conversation's own messages         *)
(* (client_surface.take_turn), the scheduler's expiry (approvals.          *)
(* expire_due) and the actions of the door (approvals.act).                *)
(*                                                                         *)
(* A park is one stop of a graph walk at a wait or a call node.  Parks are *)
(* numbered in the order they are written.  An approval row is addressed   *)
(* by its place in rows.  Clients park, as every caller but a terminal     *)
(* does (parking_approve).                                                 *)
(***************************************************************************)
EXTENDS Integers, Sequences, FiniteSets

CONSTANTS
  Clients,    \* requests in flight at the door
  MaxParks,   \* bound of the model: parks written
  MaxCrashes  \* bound of the model: deaths of the process

ASSUME ClientsAssumption == IsFiniteSet(Clients) /\ {"chat", "tick", "free"} \cap Clients = {}
ASSUME BoundsAssumption == MaxParks \in Nat /\ MaxCrashes \in Nat

Threads == Clients \cup {"chat", "tick"}
Kinds == {"wait", "call"}
Decisions == {"approve", "decline", "answer"}

VARIABLES
  pause,    \* the plugin_pauses row: park 0 when there is none
  rows,     \* the approvals rows
  parks,    \* parks written so far
  open,     \* whether the stored history ends in a call without an answer
  lock,     \* who holds the conversation's lock
  work,     \* where each thread stands
  dueList,  \* rows expire_due has read and not come to yet
  ran,      \* ghost: parks whose node body was carried out, and how often
  torn,     \* ghost: parks whose resume a crash cut off
  crashes,
  refused   \* ghost: take_turn raised TranscriptInvariantError

vars == << pause, rows, parks, open, lock, work, dueList, ran, torn, crashes, refused >>

NoPause == [park |-> 0, kind |-> "wait"]

(* A thread's local state: the park it means to answer, how, and, once the *)
(* walk is over, the node kind it stopped at again ("none" when it ended). *)
Job(at, named, decision, stopped) ==
  [at |-> at, named |-> named, decision |-> decision, stopped |-> stopped]
Idle == Job("idle", 0, "answer", "none")

Waiting(i) == rows[i].state = "waiting"

Init ==
  /\ pause = NoPause /\ rows = << >> /\ parks = 0
  /\ open = FALSE
  /\ lock = "free" /\ work = [t \in Threads |-> Idle] /\ dueList = {}
  /\ ran = [p \in 1..MaxParks |-> 0] /\ torn = {} /\ crashes = 0
  /\ refused = FALSE

Acquire(t) == lock = "free" /\ lock' = t
Release(t) == lock = t /\ lock' = "free"
Goto(t, job) == work' = [work EXCEPT ![t] = job]

Tables == << pause, rows, parks >>
Ghosts == << ran, torn, crashes >>

-----------------------------------------------------------------------------
(* _write_pause_c: upserts the pause and the conversation's waiting row.   *)
(* An overwritten row keeps its id and takes the new question and expiry.  *)
NewRow(p, kind) == [park |-> p, kind |-> kind, state |-> "waiting", due |-> FALSE]

\* Mutant of Parked: without the unique index on waiting rows.
ParkedBeside(rs, p, kind) == Append(rs, NewRow(p, kind))

Parked(rs, p, kind) ==
  IF \E i \in DOMAIN rs : rs[i].state = "waiting"
    THEN [i \in DOMAIN rs |-> IF rs[i].state = "waiting" THEN NewRow(p, kind) ELSE rs[i]]
    ELSE Append(rs, NewRow(p, kind))

WritePause(rs, kind) ==
  /\ parks < MaxParks
  /\ parks' = parks + 1
  /\ pause' = [park |-> parks + 1, kind |-> kind]
  /\ rows' = Parked(rs, parks + 1, kind)

(* mark_approval_decided: the waiting row, found by conversation.          *)
\* Mutant of Decided: every row of the conversation is marked.
DecidedAll(rs, state) == [i \in DOMAIN rs |-> [rs[i] EXCEPT !.state = state]]

Decided(rs, state) ==
  [i \in DOMAIN rs |->
     IF rs[i].state = "waiting" THEN [rs[i] EXCEPT !.state = state] ELSE rs[i]]

StateOf(t) ==
  CASE t = "tick" -> "expired"
    [] work[t].decision = "approve" -> "approved"
    [] work[t].decision = "decline" -> "declined"
    [] work[t].decision = "answer"  -> "answered"

-----------------------------------------------------------------------------
(* client_surface.take_turn, no pause outstanding: a turn of the model.    *)
StartTurn ==
  /\ work["chat"].at = "idle" /\ pause.park = 0
  /\ Acquire("chat")
  /\ Goto("chat", Job("turn", 0, "answer", "none"))
  /\ UNCHANGED << Tables, open, dueList, Ghosts, refused >>

(* A tool round: the write-ahead stores the calls (and closes older ones). *)
AskForTools ==
  /\ work["chat"].at = "turn"
  /\ open' = TRUE
  /\ Goto("chat", Job("asked", 0, "answer", "none"))
  /\ UNCHANGED << Tables, lock, dueList, Ghosts, refused >>

(* dispatch: the walk ends, or parks and is written down (persist_pause);  *)
(* either way the turn goes on with the result.                            *)
DispatchEnds ==
  /\ work["chat"].at = "asked"
  /\ Goto("chat", Job("turn", 0, "answer", "none"))
  /\ UNCHANGED << Tables, open, lock, dueList, Ghosts, refused >>

DispatchParks ==
  /\ work["chat"].at = "asked"
  /\ \E kind \in Kinds : WritePause(rows, kind)
  /\ Goto("chat", Job("turn", 0, "answer", "none"))
  /\ UNCHANGED << open, lock, dueList, Ghosts, refused >>

(* The final save; with the round's calls unanswered when the turn was cut.*)
EndTurn ==
  /\ work["chat"].at = "turn"
  /\ open' = FALSE
  /\ Release("chat") /\ Goto("chat", Idle)
  /\ UNCHANGED << Tables, dueList, Ghosts, refused >>

CutTurn ==
  /\ work["chat"].at = "asked"
  /\ Release("chat") /\ Goto("chat", Idle)
  /\ UNCHANGED << Tables, open, dueList, Ghosts, refused >>

(* A message while a call is parked is stored, nothing runs.  The history  *)
(* is not repaired first, so append refuses while a call is open.          *)
NoteMessage ==
  /\ work["chat"].at = "idle" /\ pause.park # 0 /\ pause.kind = "call"
  /\ lock = "free"
  /\ refused' = (refused \/ open)
  /\ UNCHANGED << Tables, open, lock, work, dueList, Ghosts >>

(* A message while a wait is parked answers it ...                         *)
AnswerByMessage ==
  /\ work["chat"].at = "idle" /\ pause.park # 0 /\ pause.kind = "wait"
  /\ Acquire("chat")
  /\ Goto("chat", Job("walking", pause.park, "answer", "none"))
  /\ UNCHANGED << Tables, open, dueList, Ghosts, refused >>

(* ... and the resumed text becomes one assistant row.                     *)
AppendResumed ==
  /\ work["chat"].at = "resumed"
  /\ refused' = (refused \/ open)
  /\ Release("chat") /\ Goto("chat", Idle)
  /\ UNCHANGED << Tables, open, dueList, Ghosts >>

-----------------------------------------------------------------------------
(* approvals.act: the row and If-Match are checked without the lock.  A    *)
(* matching version means the caller has seen what the row now asks.       *)
CheckAct(c) ==
  /\ work[c].at = "idle"
  /\ \E i \in DOMAIN rows, d \in Decisions :
       /\ Waiting(i)
       /\ (d = "answer") <=> (rows[i].kind = "wait")
       /\ Goto(c, Job("checked", rows[i].park, d, "none"))
  /\ UNCHANGED << Tables, open, lock, dueList, Ghosts, refused >>

(* resume_paused_run trusts that a pause exists and fits the decision.     *)
Fits(d) == pause.park # 0 /\ ((d = "answer") <=> (pause.kind = "wait"))

\* Mutant of EnterAct: the action does not wait for the conversation's lock.
EnterUnlocked(c) ==
  /\ work[c].at = "checked" /\ Fits(work[c].decision)
  /\ lock' = c
  /\ Goto(c, [work[c] EXCEPT !.at = "walking"])
  /\ UNCHANGED << Tables, open, dueList, Ghosts, refused >>

EnterAct(c) ==
  /\ work[c].at = "checked" /\ Fits(work[c].decision)
  /\ Acquire(c)
  /\ Goto(c, [work[c] EXCEPT !.at = "walking"])
  /\ UNCHANGED << Tables, open, dueList, Ghosts, refused >>

(* Otherwise its assertion fails, and the request with it.                 *)
FailAct(c) ==
  /\ work[c].at = "checked" /\ ~Fits(work[c].decision)
  /\ lock = "free"
  /\ Goto(c, Idle)
  /\ UNCHANGED << Tables, open, lock, dueList, Ghosts, refused >>

-----------------------------------------------------------------------------
(* scheduling.tick / expire_due: the due rows are read once, then resumed  *)
(* one by one with a decline.                                              *)
ReadDue ==
  /\ work["tick"].at = "idle" /\ dueList = {}
  /\ dueList' = {i \in DOMAIN rows : Waiting(i) /\ rows[i].due}
  /\ dueList' # {}
  /\ UNCHANGED << Tables, open, lock, work, Ghosts, refused >>

\* Mutant of EnterExpiry: resumes the way a message does.
EnterAsAnswer ==
  /\ work["tick"].at = "idle" /\ Fits("answer")
  /\ Acquire("tick")
  /\ \E i \in dueList :
       /\ dueList' = dueList \ {i}
       /\ Goto("tick", Job("walking", rows[i].park, "answer", "none"))
  /\ UNCHANGED << Tables, open, Ghosts, refused >>

EnterExpiry ==
  /\ work["tick"].at = "idle" /\ Fits("decline")
  /\ Acquire("tick")
  /\ \E i \in dueList :
       /\ dueList' = dueList \ {i}
       /\ Goto("tick", Job("walking", rows[i].park, "decline", "none"))
  /\ UNCHANGED << Tables, open, Ghosts, refused >>

(* The assertion fails; the row is logged and skipped.                     *)
FailExpiry ==
  /\ work["tick"].at = "idle" /\ ~Fits("decline")
  /\ lock = "free"
  /\ \E i \in dueList : dueList' = dueList \ {i}
  /\ UNCHANGED << Tables, open, lock, work, Ghosts, refused >>

Expire(i) ==
  /\ i \in DOMAIN rows /\ Waiting(i) /\ ~rows[i].due
  /\ rows' = [rows EXCEPT ![i].due = TRUE]
  /\ UNCHANGED << pause, parks, open, lock, work, dueList, Ghosts, refused >>

-----------------------------------------------------------------------------
\* Mutant of Carry: the body runs whatever was decided.
CarryAnyway(t) ==
  /\ work[t].at = "walking"
  /\ ran' = [ran EXCEPT ![pause.park] = IF @ < 2 THEN @ + 1 ELSE @]
  /\ Goto(t, [work[t] EXCEPT !.at = "walked", !.stopped = "none"])
  /\ UNCHANGED << Tables, open, lock, dueList, torn, crashes, refused >>

(* resume_paused_run, by whichever thread holds the lock.  An approve or   *)
(* an answer carries the walk on, to its end or to the next park.          *)
Carry(t) ==
  /\ work[t].at = "walking" /\ work[t].decision # "decline"
  /\ ran' = [ran EXCEPT ![pause.park] = IF @ < 2 THEN @ + 1 ELSE @]
  /\ \E stopped \in Kinds \cup {"none"} :
       /\ stopped = "none" \/ parks < MaxParks
       /\ Goto(t, [work[t] EXCEPT !.at = "walked", !.stopped = stopped])
  /\ UNCHANGED << Tables, open, lock, dueList, torn, crashes, refused >>

(* A decline, or a plugin that no longer resolves, ends the run there.     *)
Drop(t) ==
  /\ work[t].at = "walking"
  /\ Goto(t, [work[t] EXCEPT !.at = "walked", !.stopped = "none"])
  /\ UNCHANGED << Tables, open, lock, dueList, Ghosts, refused >>

(* A plugin that lacks a setting is parked again where it was.             *)
KeepParked(t) ==
  /\ work[t].at = "walking" /\ parks < MaxParks
  /\ Goto(t, [work[t] EXCEPT !.at = "walked", !.stopped = pause.kind])
  /\ UNCHANGED << Tables, open, lock, dueList, Ghosts, refused >>

(* resolve_pause: one transaction for the decision and what follows it.    *)
Resolve(t) ==
  /\ work[t].at = "walked"
  /\ LET decided == Decided(rows, StateOf(t)) IN
       IF work[t].stopped = "none"
         THEN pause' = NoPause /\ rows' = decided /\ parks' = parks
         ELSE WritePause(decided, work[t].stopped)
  /\ IF t = "chat"
       THEN lock' = lock /\ Goto(t, Job("resumed", 0, "answer", "none"))
       ELSE Release(t) /\ Goto(t, Idle)
  /\ UNCHANGED << open, dueList, Ghosts, refused >>

(* The process dies; only the tables and the history survive.              *)
Crash ==
  /\ crashes < MaxCrashes
  /\ crashes' = crashes + 1
  /\ torn' = torn \cup {pause.park : t \in {u \in Threads : work[u].at = "walked"}}
  /\ lock' = "free" /\ work' = [t \in Threads |-> Idle] /\ dueList' = {}
  /\ UNCHANGED << Tables, open, ran, refused >>

-----------------------------------------------------------------------------
Chat ==
  \/ AskForTools \/ DispatchEnds \/ DispatchParks \/ EndTurn \/ CutTurn \/ AppendResumed

Resume(t) == Carry(t) \/ Drop(t) \/ KeepParked(t) \/ Resolve(t)

Tick == ReadDue \/ EnterExpiry \/ FailExpiry

Next ==
  \/ StartTurn \/ NoteMessage \/ AnswerByMessage \/ Chat \/ Tick \/ Crash
  \/ \E c \in Clients : CheckAct(c) \/ EnterAct(c) \/ FailAct(c)
  \/ \E t \in Threads : Resume(t)
  \/ \E i \in 1..(MaxParks + 1) : Expire(i)

(* Whoever holds the lock gets on and gives it back: a turn's rounds are   *)
(* bounded (TurnEnds of TurnLoop), a walk visits each node once, and the   *)
(* rest is local.  The gateway ticks forever; its thread gets a lock that  *)
(* is free again and again.                                                *)
Fairness ==
  /\ WF_vars(DispatchEnds \/ CutTurn) /\ SF_vars(EndTurn) /\ WF_vars(AppendResumed)
  /\ \A t \in Threads : WF_vars(Resume(t))
  /\ WF_vars(ReadDue) /\ WF_vars(FailExpiry) /\ SF_vars(EnterExpiry)

Spec == Init /\ [][Next]_vars /\ Fairness

-----------------------------------------------------------------------------
States == {"waiting", "approved", "declined", "answered", "expired"}
Places == {"idle", "turn", "asked", "checked", "walking", "walked", "resumed"}

TablesOK ==
  /\ pause \in [park : 0..MaxParks, kind : Kinds]
  /\ rows \in Seq([park : 1..MaxParks, kind : Kinds, state : States, due : BOOLEAN])
  /\ parks \in 0..MaxParks

Jobs ==
  [at : Places, named : 0..MaxParks, decision : Decisions, stopped : Kinds \cup {"none"}]

ThreadsOK ==
  /\ lock \in Threads \cup {"free"}
  /\ work \in [Threads -> Jobs]
  /\ dueList \subseteq 1..MaxParks

GhostsOK ==
  /\ ran \in [1..MaxParks -> 0..2] /\ torn \subseteq 1..MaxParks
  /\ crashes \in 0..MaxCrashes

TypeOK ==
  /\ TablesOK /\ ThreadsOK /\ GhostsOK
  /\ open \in BOOLEAN /\ refused \in BOOLEAN

(* The two tables tell one story: a run is paused exactly when one         *)
(* approval waits, and that approval asks about the paused park.  take_turn *)
(* asserts it (client_surface.py, "a call-kind pause with no waiting       *)
(* approval row").                                                         *)
PauseHasApproval ==
  /\ pause.park = 0 => \A i \in DOMAIN rows : ~Waiting(i)
  /\ pause.park # 0 =>
       \E i \in DOMAIN rows :
         /\ Waiting(i) /\ rows[i].park = pause.park /\ rows[i].kind = pause.kind
         /\ \A j \in DOMAIN rows \ {i} : ~Waiting(j)

(* A decision stands: no later resume, park or expiry touches an approval  *)
(* that was decided.                                                       *)
DecisionStands ==
  [][\A i \in DOMAIN rows : ~Waiting(i) => i \in DOMAIN rows' /\ rows'[i] = rows[i]]_vars

(* An approval answers one park only once: the body of a parked node is    *)
(* carried out at most once, unless the process died between the body and  *)
(* the transaction that records the decision.                              *)
RunsOnce == \A p \in 1..MaxParks : ran[p] > 1 => p \in torn

(* A call that was declined or expired never ran, unless the process died  *)
(* in that same gap.                                                       *)
DeclinedNeverRan ==
  \A i \in DOMAIN rows :
    rows[i].kind = "call" /\ rows[i].state \in {"declined", "expired"}
      => ran[rows[i].park] = 0 \/ rows[i].park \in torn

(* Bodies run as the approvals say.                                        *)
RunsAsDecided == RunsOnce /\ DeclinedNeverRan

(* A parked call that nobody answers expires or is decided: once due, it   *)
(* does not wait forever.                                                  *)
DueCallEnds ==
  \A p \in 1..MaxParks :
    (\E i \in DOMAIN rows : Waiting(i) /\ rows[i].due /\ rows[i].park = p /\ rows[i].kind = "call")
      ~> ~(\E i \in DOMAIN rows : Waiting(i) /\ rows[i].park = p)

=============================================================================
