------------------------------ MODULE Schedules ------------------------------
(***************************************************************************)
(* Work that starts at a moment in time: the tick of the gateway           *)
(* (scheduling.py), the rows it fires (conversation_store.py, triggers and *)
(* schedules) and the door's schedules noun, whose requests read a row,    *)
(* decide and write it in separate steps (H27).  A firing is one turn      *)
(* (gateway_dispatch.handle_inbound), which may take time or raise.        *)
(* Versions, last_run_at and last_state are columns nothing here reads but *)
(* If-Match: an If-Match that matches is one that named the row as read.   *)
(***************************************************************************)
EXTENDS Cron, TLC

CONSTANTS
  Names,       \* names of triggers and schedules, numbers as they are ordered
  Ids,         \* ids make_id can mint
  Exprs,       \* cron expressions a client may send
  Zones,       \* time zones a client may send, with their change of offset
  Samples, SampleZones, \* expressions and zones on which the search is looked at
  Interval,    \* interval_seconds of a recurring trigger
  Requests,    \* threads that serve requests to the schedules noun, one at a time
  MaxNow,      \* bound of the model: the clock stops here
  MaxSent,     \* bound of the model: requests and registrations
  MaxCrashes,  \* bound of the model: deaths of the process
  MaxRaises    \* bound of the model: turns that raise out of handle_inbound

ASSUME SchedulesAssumption ==
  /\ Names \subseteq Nat /\ IsFiniteSet(Ids) /\ Interval \in Nat \ {0}
  /\ MaxNow \in Nat /\ MaxSent \in Nat /\ MaxCrashes \in Nat /\ MaxRaises \in Nat

VARIABLES
  now,        \* the clock
  triggers,   \* scheduled_triggers: a partial function of Names
  schedules,  \* schedules: a partial function of Ids
  sent,       \* requests and registrations so far
  opened,     \* whether the process has opened the store and serves
  tick,       \* the tick thread: where it stands, its own now, the rows it read
  request,    \* the door's request threads
  crashes, raises,
  firedPaused \* ghost: firings of each schedule since it was last paused

vars == << now, triggers, schedules, sent, opened, tick, request, crashes, raises,
           firedPaused >>

Cadences == {"cron", "interval", "none"}
Idle     == [at |-> "idle", now |-> 0, queue |-> {}, next |-> NoTime]
Unsent   == [at |-> "unsent"]

Init ==
  /\ now = 0
  /\ \E S \in SUBSET Names :
       triggers \in [S -> [next : {1}, recurring : BOOLEAN]]
  /\ schedules = << >> /\ sent = 0
  /\ opened = FALSE /\ tick = Idle
  /\ request = [r \in Requests |-> Unsent]
  /\ crashes = 0 /\ raises = 0
  /\ firedPaused = [i \in Ids |-> 0]

Without(f, x) == [y \in DOMAIN f \ {x} |-> f[y]]
With(f, x, v) == [y \in DOMAIN f \cup {x} |-> IF y = x THEN v ELSE f[y]]
First(S)      == CHOOSE x \in S : \A y \in S : x.name <= y.name

(* An id that no row, tick or request holds stands for a new one.          *)
Held  == DOMAIN schedules \cup {d.id : d \in {x \in tick.queue : "id" \in DOMAIN x}}
           \cup {request[r].id : r \in {q \in Requests : "id" \in DOMAIN request[q]}}
Fresh == Ids \ Held

Named(name)   == {i \in DOMAIN schedules : schedules[i].name = name}

Bounds == << crashes, raises >>
Ghosts == << firedPaused >>

-----------------------------------------------------------------------------
(* next_schedule_run: cron wins whenever it is set.  NoTime: it raises.    *)
NextRun(row, t) ==
  IF row.cadence = "cron" THEN NextAfter(Parse(row.expr), row.zone, t)
  ELSE IF row.cadence = "interval" THEN t + Interval
  ELSE NoTime

\* Mutant of Migrates: one-shot triggers too.
MigratesAll(name) == Named(name) = {}

(* adopt_scheduled_triggers skips one-shot triggers and names it finds.    *)
Migrates(name) == triggers[name].recurring /\ Named(name) = {}

Insert(row) ==
  \E i \in Fresh :
    /\ schedules' = With(schedules, i, row)
    /\ firedPaused' = [firedPaused EXCEPT ![i] = 0]

(* One row of adopt_scheduled_triggers, a transaction of its own: the old  *)
(* row stays.                                                              *)
Adopt(name) ==
  /\ ~opened /\ name \in DOMAIN triggers /\ Migrates(name)
  /\ Insert([name |-> name, state |-> "active", next |-> triggers[name].next,
             cadence |-> IF triggers[name].recurring THEN "interval" ELSE "none",
             expr |-> << >>, zone |-> UTC])
  /\ UNCHANGED << now, triggers, sent, opened, tick, request, Bounds >>

Open ==
  /\ ~opened /\ opened' = TRUE
  /\ \A name \in DOMAIN triggers : ~Migrates(name)
  /\ UNCHANGED << now, triggers, schedules, sent, tick, request, Bounds, Ghosts >>

(* upsert_scheduled_trigger, by the setup code of a plugin: a row of that  *)
(* name is overwritten.                                                    *)
Register(name) ==
  /\ opened /\ sent < MaxSent /\ sent' = sent + 1
  /\ \E recurring \in BOOLEAN :
       triggers' = With(triggers, name, [next |-> now + 1, recurring |-> recurring])
  /\ UNCHANGED << now, schedules, opened, tick, request, Bounds, Ghosts >>

-----------------------------------------------------------------------------
(* The tick: due triggers are read once, and fired in the order of their   *)
(* names; then due schedules are, the same way.                            *)
DueTriggers(t) ==
  {[name |-> n, recurring |-> triggers[n].recurring] :
     n \in {m \in DOMAIN triggers : triggers[m].next <= t}}

\* Mutant of DueSchedules: whatever the state.
DueAnyState(t) ==
  {[name |-> schedules[i].name, id |-> i, row |-> schedules[i]] :
     i \in {j \in DOMAIN schedules : schedules[j].next <= t}}

DueSchedules(t) ==
  {[name |-> schedules[i].name, id |-> i, row |-> schedules[i]] :
     i \in {j \in DOMAIN schedules : schedules[j].state = "active" /\ schedules[j].next <= t}}

StartTick ==
  /\ opened /\ tick.at = "idle"
  /\ tick' = [at |-> "triggers", now |-> now, queue |-> DueTriggers(now), next |-> NoTime]
  /\ UNCHANGED << now, triggers, schedules, sent, opened, request, Bounds, Ghosts >>

Head1 == First(tick.queue)
Drop  == tick.queue \ {Head1}

FireTrigger ==
  /\ opened /\ tick.at = "triggers" /\ tick.queue # {}
  /\ tick' = [tick EXCEPT !.at = "fired trigger"]
  /\ UNCHANGED << now, triggers, schedules, sent, opened, request, Bounds, Ghosts >>

(* A turn that raised: the row is left as it is, and stays due.            *)
RaiseTrigger ==
  /\ opened /\ tick.at = "triggers" /\ tick.queue # {} /\ raises < MaxRaises
  /\ tick' = [tick EXCEPT !.queue = Drop]
  /\ raises' = raises + 1
  /\ UNCHANGED << now, triggers, schedules, sent, opened, request, crashes, Ghosts >>

(* delete_scheduled_trigger or advance_scheduled_trigger, by name.         *)
WriteTrigger ==
  /\ opened /\ tick.at = "fired trigger"
  /\ tick' = [tick EXCEPT !.at = "triggers", !.queue = Drop]
  /\ triggers' = IF Head1.name \notin DOMAIN triggers THEN triggers
                 ELSE IF Head1.recurring
                   THEN [triggers EXCEPT ![Head1.name].next = tick.now + Interval]
                   ELSE Without(triggers, Head1.name)
  /\ UNCHANGED << now, schedules, sent, opened, request, Bounds, Ghosts >>

ReadSchedules ==
  /\ opened /\ tick.at = "triggers" /\ tick.queue = {}
  /\ tick' = [tick EXCEPT !.at = "schedules", !.queue = DueSchedules(tick.now)]
  /\ UNCHANGED << now, triggers, schedules, sent, opened, request, Bounds, Ghosts >>

Paused(i) == i \in DOMAIN schedules /\ schedules[i].state = "paused"

(* The cadence is computed from the row as read, before the turn; a row    *)
(* without one is skipped.                                                 *)
FireSchedule ==
  /\ opened /\ tick.at = "schedules" /\ tick.queue # {}
  /\ LET next == NextRun(Head1.row, tick.now) IN
     IF next = NoTime THEN tick' = [tick EXCEPT !.queue = Drop] /\ UNCHANGED firedPaused
     ELSE /\ tick' = [tick EXCEPT !.at = "fired schedule", !.next = next]
          /\ firedPaused' = IF Paused(Head1.id) THEN [firedPaused EXCEPT ![Head1.id] = @ + 1]
                            ELSE firedPaused
  /\ UNCHANGED << now, triggers, schedules, sent, opened, request, Bounds >>

RaiseSchedule ==
  /\ opened /\ tick.at = "schedules" /\ tick.queue # {} /\ raises < MaxRaises
  /\ NextRun(Head1.row, tick.now) # NoTime
  /\ tick' = [tick EXCEPT !.queue = Drop]
  /\ raises' = raises + 1
  /\ UNCHANGED << now, triggers, schedules, sent, opened, request, crashes, Ghosts >>

(* advance_schedule: UPDATE ... WHERE id, whatever the row has become.     *)
AdvanceSchedule ==
  /\ opened /\ tick.at = "fired schedule"
  /\ tick' = [tick EXCEPT !.at = "schedules", !.queue = Drop, !.next = NoTime]
  /\ schedules' = IF Head1.id \in DOMAIN schedules
                    THEN [schedules EXCEPT ![Head1.id].next = tick.next]
                    ELSE schedules
  /\ UNCHANGED << now, triggers, sent, opened, request, Bounds, Ghosts >>

EndTick ==
  /\ opened /\ tick.at = "schedules" /\ tick.queue = {}
  /\ tick' = Idle
  /\ UNCHANGED << now, triggers, schedules, sent, opened, request, Bounds, Ghosts >>

-----------------------------------------------------------------------------
(* The door's requests.  Each reads the row, or not, decides what to write *)
(* and writes it in a transaction of its own.                              *)
Decided(r, decision) == request' = [request EXCEPT ![r] = decision]

Serving == opened /\ UNCHANGED << now, tick, opened, Bounds >>

Sending(r) == Serving /\ request[r].at = "unsent" /\ sent < MaxSent /\ sent' = sent + 1

(* An action that is refused after the gate: the row is gone by now, or    *)
(* the If-Match is stale.  A request refused at once changes nothing.      *)
Refuse(r) ==
  /\ Serving /\ request[r].at = "gated"
  /\ Decided(r, Unsent)
  /\ UNCHANGED << triggers, schedules, sent, Ghosts >>

ReadCreate(r) ==
  /\ Sending(r)
  /\ \E name \in Names, expr \in Exprs, zone \in Zones :
       /\ Parses(expr) /\ NextAfter(Parse(expr), zone, now) # NoTime
       /\ Decided(r, [at |-> "create", row |->
            [name |-> name, state |-> "active", next |-> NextAfter(Parse(expr), zone, now),
             cadence |-> "cron", expr |-> expr, zone |-> zone]])
  /\ UNCHANGED << triggers, schedules, Ghosts >>

(* create_schedule; a name that is taken is a 409.                         *)
Create(r) ==
  /\ Serving /\ request[r].at = "create"
  /\ Decided(r, Unsent)
  /\ IF Named(request[r].row.name) # {} THEN UNCHANGED << schedules, firedPaused >>
     ELSE Insert(request[r].row)
  /\ UNCHANGED << triggers, sent >>

(* What an update writes: the columns of the body and, when the cadence    *)
(* changes, next_run_at computed from the row as read.                     *)
Given(body) ==
  IF "expr" \in DOMAIN body THEN body @@ [cadence |-> "cron"] ELSE body

Merge(row, change) == [c \in DOMAIN row |-> IF c \in DOMAIN change THEN change[c] ELSE row[c]]

Bodies ==
  [name : Names] \cup [expr : {e \in Exprs : Parses(e)}] \cup [zone : Zones]
    \cup [expr : {e \in Exprs : Parses(e)}, zone : Zones]

Moves(row, body) ==
  DOMAIN body \cap {"expr", "zone"} # {} /\ Merge(row, Given(body)).cadence = "cron"

ReadUpdate(r) ==
  /\ Sending(r)
  /\ \E i \in DOMAIN schedules, body \in Bodies :
       LET next == NextRun(Merge(schedules[i], Given(body)), now) IN
       /\ Moves(schedules[i], body) => next # NoTime
       /\ Decided(r, [at |-> "update", id |-> i,
                      change |-> IF Moves(schedules[i], body) THEN Given(body) @@ [next |-> next]
                                 ELSE Given(body)])
  /\ UNCHANGED << triggers, schedules, Ghosts >>

(* The UNIQUE constraint again: another schedule has the name.             *)
Clashes(d) == "name" \in DOMAIN d.change /\ Named(d.change.name) \ {d.id} # {}

(* update_schedule; a row that is gone is not touched.                     *)
Update(r) ==
  /\ Serving /\ request[r].at = "update"
  /\ Decided(r, Unsent)
  /\ LET d == request[r] IN
     schedules' = IF d.id \notin DOMAIN schedules \/ Clashes(d) THEN schedules
                  ELSE [schedules EXCEPT ![d.id] = Merge(@, d.change)]
  /\ UNCHANGED << triggers, sent, Ghosts >>

ReadRemove(r) ==
  /\ Sending(r)
  /\ \E i \in DOMAIN schedules : Decided(r, [at |-> "remove", id |-> i])
  /\ UNCHANGED << triggers, schedules, Ghosts >>

Remove(r) ==
  /\ Serving /\ request[r].at = "remove"
  /\ Decided(r, Unsent)
  /\ schedules' = Without(schedules, request[r].id)
  /\ UNCHANGED << triggers, sent, Ghosts >>

(* The state an action leaves from is looked at by the router, on a read   *)
(* before the action's own.                                                *)
Gate(r) ==
  /\ Sending(r)
  /\ \E i \in DOMAIN schedules :
       Decided(r, [at |-> "gated", id |-> i, pause |-> schedules[i].state = "active"])
  /\ UNCHANGED << triggers, schedules, Ghosts >>

(* act: resume computes next_run_at anew, from the row as read.            *)
ReadAct(r) ==
  /\ Serving /\ request[r].at = "gated" /\ request[r].id \in DOMAIN schedules
  /\ LET d == request[r]  next == NextRun(schedules[d.id], now) IN
     /\ ~d.pause => next # NoTime
     /\ Decided(r, [at |-> "act", id |-> d.id, pause |-> d.pause,
                    next |-> IF d.pause THEN NoTime ELSE next])
  /\ UNCHANGED << triggers, schedules, sent, Ghosts >>

(* set_schedule_state.                                                     *)
Act(r) ==
  /\ Serving /\ request[r].at = "act"
  /\ Decided(r, Unsent)
  /\ LET d == request[r] IN
     /\ schedules' =
          IF d.id \notin DOMAIN schedules THEN schedules
          ELSE [schedules EXCEPT ![d.id].state = IF d.pause THEN "paused" ELSE "active",
                                 ![d.id].next = IF d.pause THEN @ ELSE d.next]
     /\ firedPaused' = IF d.pause THEN [firedPaused EXCEPT ![d.id] = 0] ELSE firedPaused
  /\ UNCHANGED << triggers, sent >>

-----------------------------------------------------------------------------
Pass ==
  /\ now < MaxNow /\ now' = now + 1
  /\ UNCHANGED << triggers, schedules, sent, opened, tick, request, Bounds, Ghosts >>

(* The tick dies with the process, between a firing and its write too.     *)
Crash ==
  /\ opened /\ crashes < MaxCrashes
  /\ crashes' = crashes + 1
  /\ opened' = FALSE /\ tick' = Idle
  /\ request' = [r \in Requests |-> Unsent]
  /\ UNCHANGED << now, triggers, schedules, sent, raises, Ghosts >>

Tick ==
  \/ StartTick \/ FireTrigger \/ WriteTrigger \/ ReadSchedules
  \/ FireSchedule \/ AdvanceSchedule \/ EndTick

Opening == Open \/ \E name \in Names : Adopt(name)

Door(r) ==
  \/ Refuse(r) \/ ReadCreate(r) \/ Create(r) \/ ReadUpdate(r) \/ Update(r)
  \/ ReadRemove(r) \/ Remove(r) \/ Gate(r) \/ ReadAct(r) \/ Act(r)

Next ==
  \/ Tick \/ RaiseTrigger \/ RaiseSchedule
  \/ Opening \/ Crash \/ Pass
  \/ \E name \in Names : Register(name)
  \/ \E r \in Requests : Door(r)

(* run_tick_loop ticks forever, a turn ends, and a process that died is    *)
(* started again.                                                          *)
Fairness == WF_vars(Tick) /\ WF_vars(Opening)

Spec == Init /\ [][Next]_vars /\ Fairness

-----------------------------------------------------------------------------
Times0 == 0..(MaxNow + DayLength * MaxSearchDays)

Rows ==
  [name : Names, state : {"active", "paused"}, next : Times0, cadence : Cadences,
   expr : Exprs \cup {<< >>}, zone : Zones \cup {UTC}]

TypeOK ==
  /\ now \in 0..MaxNow /\ opened \in BOOLEAN
  /\ DOMAIN triggers \subseteq Names
  /\ \A n \in DOMAIN triggers : triggers[n] \in [next : Times0, recurring : BOOLEAN]
  /\ DOMAIN schedules \subseteq Ids /\ sent \in 0..MaxSent
  /\ \A i \in DOMAIN schedules : schedules[i] \in Rows
  /\ \A i, j \in DOMAIN schedules : schedules[i].name = schedules[j].name => i = j
  /\ tick.at \in {"idle", "triggers", "fired trigger", "schedules", "fired schedule"}
  /\ tick.now <= now
  /\ crashes \in 0..MaxCrashes /\ raises \in 0..MaxRaises

(* cron.next_after: "the first occurrence strictly after `after`".  The    *)
(* search by days, which filters past times on the first day only, finds   *)
(* it in every zone, the days the clocks change included.                  *)
NextIsFirst ==
  tick.at = "fired schedule" =>
    \A e \in {x \in Samples : Parses(x)}, z \in SampleZones :
      NextAfter(Parse(e), z, tick.now) = FirstComing(Parse(e), z, tick.now)

(* A pause takes effect: after it at most the firing that was under way    *)
(* comes through, whatever ticks, restarts and requests follow.            *)
PauseLetsOneThrough == \A i \in Ids : firedPaused[i] <= 1

Due(i) == i \in DOMAIN schedules /\ schedules[i].state = "active" /\ schedules[i].next <= now
DueTrigger(n) == n \in DOMAIN triggers /\ triggers[n].next <= now

(* What is due is fired and moved on, or changed by somebody: no row stays *)
(* due forever, after failures, crashes and adoption.                      *)
DueEnds ==
  /\ \A i \in Ids : Due(i) ~> ~Due(i)
  /\ \A n \in Names : DueTrigger(n) ~> ~DueTrigger(n)
=============================================================================
