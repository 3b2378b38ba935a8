------------------------------- MODULE Tether -------------------------------
(***************************************************************************)
(* The box's line to its console: the change ledger (ledger.py), the one   *)
(* outbound connection that follows it (tether/client.py), the queue of    *)
(* ephemeral frames (door/events.py) and what the door answers about the   *)
(* ledger (nouns/harness.py), with a mirror at the other end that keeps a  *)
(* cursor, catches up through GET /changes and starts over from GET        *)
(* /inventory, as docs/console/wire.md has it (H16, H21, H30).             *)
(* While a connection lasts its frames arrive in order; when it drops, a   *)
(* suffix of them is lost.  The cursor of a change is its place.           *)
(***************************************************************************)
EXTENDS Integers, Sequences, FiniteSets

CONSTANTS
  Ids,          \* ids of resources
  Listed,       \* those whose noun has a query in ledger._NOUNS
  Turns,        \* turns that stream, each one frame at a time
  QueueSize,    \* SADANA_DOOR_EPHEMERAL_QUEUE_SIZE
  PageSize,     \* _LEDGER_PAGE_SIZE, and the limit of GET /changes
  Exponents,    \* attempts for which 2**attempt is a float: 1024
  MaxChanges,   \* bound of the model: changes recorded
  MaxFailures,  \* bound of the model: connections that fail or drop
  MaxFrames,    \* bound of the model: ephemeral frames
  MaxRepairs    \* bound of the model: mirrors that start over

ASSUME TetherAssumption ==
  /\ IsFiniteSet(Ids) /\ Listed \subseteq Ids /\ IsFiniteSet(Turns)
  /\ QueueSize \in Nat \ {0} /\ PageSize \in Nat \ {0} /\ Exponents \in Nat
  /\ {MaxChanges, MaxFailures, MaxFrames, MaxRepairs} \subseteq Nat

VARIABLES
  rows,      \* the store: version of each resource, 0 when it does not exist
  ledger,    \* the changes table
  stopped,   \* _stop_event
  loop,      \* run_forever: where it stands, its attempt counter
  socket,    \* the connection: none, open, or closed and not yet noticed
  active,    \* whether stop() can see the connection (_active_ws)
  out,       \* outbound_task: what it drains, its cursor, the page it is in
  wire,      \* frames under way to the console
  queue,     \* ephemeral_queue; of a frame, whether this connection saw it pushed
  turn,      \* where each turn stands in events.push
  asked,     \* GET /changes of the console the box has not answered yet
  mirror,    \* the console: its copy, its cursor, the highest it has heard of
  failures, pushed, repairs,
  tail,      \* ghost: head of this connection's hello, cursors sent as events since
  missed     \* ghost: stop() came while the connection was being made

vars == << rows, ledger, stopped, loop, socket, active, out, wire, queue, turn, asked,
           mirror, failures, pushed, repairs, tail, missed >>

Quiet  == [doing |-> "tail", cursor |-> 0, page |-> << >>]
Absent == [i \in Ids |-> 0]

Init ==
  /\ rows = Absent /\ ledger = << >>
  /\ stopped = FALSE /\ loop = [at |-> "ready", attempt |-> 0]
  /\ socket = "none" /\ active = FALSE
  /\ out = Quiet /\ wire = << >>
  /\ queue = << >> /\ turn = [t \in Turns |-> "idle"]
  /\ asked = {}
  /\ mirror = [follows |-> TRUE, copy |-> Absent, known |-> 0, heard |-> 0, listed |-> 0]
  /\ failures = 0 /\ pushed = 0 /\ repairs = 0
  /\ tail = [from |-> 0, sent |-> << >>] /\ missed = FALSE

Store     == << rows, ledger >>
Line      == << socket, active, out, wire, tail >>
Ephemeral == << queue, turn, pushed >>
Console   == << asked, mirror, repairs >>

-----------------------------------------------------------------------------
Mentioned(i) == \E c \in DOMAIN ledger : ledger[c].id = i

(* record_change, in the transaction of the change it describes: created,  *)
(* changed or, with no version, deleted.  An id is never given out twice.  *)
Write(i) ==
  /\ Len(ledger) < MaxChanges
  /\ \E v \in IF rows[i] > 0 THEN {0, rows[i] + 1} ELSE IF Mentioned(i) THEN {} ELSE {1} :
       /\ rows' = [rows EXCEPT ![i] = v]
       /\ ledger' = Append(ledger, [id |-> i, version |-> v])
  /\ UNCHANGED << stopped, loop, Line, Ephemeral, Console, failures, missed >>

\* Mutant of ChangesSince: the newest changes of the page's length.
ChangesSinceNewest(cursor) ==
  LET n == IF cursor + PageSize < Len(ledger) THEN PageSize ELSE Len(ledger) - cursor
  IN [k \in 1..n |-> Len(ledger) - n + k]

(* changes_since: the cursors of a page.                                   *)
ChangesSince(cursor) ==
  LET n == IF cursor + PageSize < Len(ledger) THEN PageSize ELSE Len(ledger) - cursor
  IN [k \in 1..n |-> cursor + k]

-----------------------------------------------------------------------------
(* run_forever and _run_connection.                                        *)
Connect ==
  /\ loop.at = "ready"
  /\ loop' = [loop EXCEPT !.at = IF stopped THEN "ended" ELSE "connecting"]
  /\ UNCHANGED << Store, stopped, Line, Ephemeral, Console, failures, missed >>

(* next_delay: base * 2**attempt is computed before the cap is applied.    *)
Retry == [at |-> IF loop.attempt + 1 >= Exponents THEN "dead" ELSE "backoff",
          attempt |-> loop.attempt + 1]

(* Refused, 429, unreachable, or a handshake that went wrong.              *)
FailConnect ==
  /\ loop.at \in {"connecting", "handshaking"} /\ failures < MaxFailures
  /\ loop' = Retry
  /\ failures' = failures + 1
  /\ out' = Quiet
  /\ UNCHANGED << Store, stopped, socket, active, wire, tail, Ephemeral, Console, missed >>

(* ledger_head_now, read before the handshake: what hello says, and where  *)
(* the tail starts.                                                        *)
ReadHead ==
  /\ loop.at = "connecting"
  /\ loop' = [loop EXCEPT !.at = "handshaking"]
  /\ out' = [Quiet EXCEPT !.cursor = Len(ledger)]
  /\ UNCHANGED << Store, stopped, socket, active, wire, tail, Ephemeral, Console, failures, missed >>

SendHello ==
  /\ loop.at = "handshaking"
  /\ loop' = [loop EXCEPT !.at = "welcomed"]
  /\ socket' = "open"
  /\ wire' = << [type |-> "hello", head |-> out.cursor] >>
  /\ tail' = [from |-> out.cursor, sent |-> << >>]
  /\ UNCHANGED << Store, stopped, active, out, Ephemeral, Console, failures, missed >>

\* Mutant of EnterConnected: the backlog of the gap stays in the queue.
EnterWithBacklog ==
  /\ loop.at = "welcomed"
  /\ loop' = [loop EXCEPT !.at = "connected"]
  /\ active' = TRUE
  /\ UNCHANGED << Store, stopped, socket, out, wire, tail, Ephemeral, Console, failures, missed >>

\* Mutant of EnterConnected: the tail starts from the head of now.
EnterAtHead ==
  /\ loop.at = "welcomed"
  /\ loop' = [loop EXCEPT !.at = "connected"]
  /\ active' = TRUE /\ queue' = << >>
  /\ out' = [out EXCEPT !.cursor = Len(ledger)]
  /\ UNCHANGED << Store, stopped, socket, wire, tail, turn, pushed, Console, failures, missed >>

(* discard_ephemeral_backlog, then the connection is where stop() finds    *)
(* it, whether or not stop() has been called.                              *)
EnterConnected ==
  /\ loop.at = "welcomed"
  /\ loop' = [loop EXCEPT !.at = "connected"]
  /\ active' = TRUE /\ queue' = << >>
  /\ UNCHANGED << Store, stopped, socket, out, wire, tail, turn, pushed, Console, failures, missed >>

(* The connection breaks: what was under way and did not arrive is lost.   *)
Drop ==
  /\ socket = "open" /\ failures < MaxFailures
  /\ socket' = "closed" /\ wire' = << >>
  /\ failures' = failures + 1
  /\ UNCHANGED << Store, stopped, loop, active, out, tail, Ephemeral, Console, missed >>

(* The heartbeat or the reader raises, the task group ends, and with an    *)
(* exception: the attempt counter is never reset.                          *)
Disconnect ==
  /\ socket = "closed" /\ loop.at = "connected"
  /\ socket' = "none" /\ active' = FALSE /\ out' = Quiet
  /\ loop' = Retry
  /\ queue' = [k \in DOMAIN queue |-> FALSE]
  /\ asked' = {}
  /\ UNCHANGED << Store, stopped, wire, tail, turn, pushed, mirror, repairs, failures, missed >>

Wake ==
  /\ loop.at = "backoff"
  /\ loop' = [loop EXCEPT !.at = "ready"]
  /\ UNCHANGED << Store, stopped, Line, Ephemeral, Console, failures, missed >>

\* Mutant of Stop: does not close the connection.
StopSilently ==
  /\ ~stopped /\ stopped' = TRUE
  /\ missed' = (loop.at \in {"connecting", "handshaking", "welcomed"})
  /\ UNCHANGED << Store, loop, Line, Ephemeral, Console, failures >>

(* deregister: stop() closes the connection it can see, and the console    *)
(* hears no more.  The tombstone that follows is a change like any other.  *)
Stop ==
  /\ ~stopped /\ stopped' = TRUE
  /\ missed' = (loop.at \in {"connecting", "handshaking", "welcomed"})
  /\ IF active THEN socket' = "closed" /\ wire' = << >> ELSE UNCHANGED << socket, wire >>
  /\ UNCHANGED << Store, loop, active, out, tail, Ephemeral, Console, failures >>

-----------------------------------------------------------------------------
(* outbound_task: a page of the ledger, whatever is queued, and a pause.   *)
Draining(what) == loop.at = "connected" /\ out.doing = what

OutboundOnly == << Store, stopped, loop, socket, active, turn, pushed, Console, failures, missed >>

ReadPage ==
  /\ Draining("tail")
  /\ out' = [out EXCEPT !.page = ChangesSince(out.cursor),
                        !.doing = IF ChangesSince(out.cursor) = << >> THEN "queue" ELSE "page"]
  /\ UNCHANGED << wire, tail, queue, OutboundOnly >>

(* The cursor is the page's start until the whole page is sent.            *)
SendEvent ==
  /\ Draining("page") /\ socket = "open"
  /\ LET c == Head(out.page) IN
     /\ wire' = Append(wire, [type |-> "event", cursor |-> c])
     /\ tail' = [tail EXCEPT !.sent = Append(@, c)]
     /\ out' = IF Len(out.page) = 1 THEN [doing |-> "queue", cursor |-> c, page |-> << >>]
               ELSE [out EXCEPT !.page = Tail(@)]
  /\ UNCHANGED << queue, OutboundOnly >>

SendFrame ==
  /\ Draining("queue") /\ queue # << >> /\ socket = "open"
  /\ queue' = Tail(queue)
  /\ wire' = Append(wire, [type |-> "ephemeral", fresh |-> Head(queue)])
  /\ UNCHANGED << out, tail, OutboundOnly >>

Rest ==
  /\ Draining("queue") /\ queue = << >>
  /\ out' = [out EXCEPT !.doing = "tail"]
  /\ UNCHANGED << wire, tail, queue, OutboundOnly >>

(* A send raises: the pass is abandoned, the page with it, or the frame    *)
(* that was taken off the queue.                                           *)
FailSend ==
  /\ socket = "closed"
  /\ \/ Draining("page") /\ UNCHANGED queue
     \/ Draining("queue") /\ queue # << >> /\ queue' = Tail(queue)
  /\ out' = [out EXCEPT !.doing = "tail", !.page = << >>]
  /\ UNCHANGED << wire, tail, OutboundOnly >>

-----------------------------------------------------------------------------
(* events.push: put; if the queue is full, get and put again, and the      *)
(* second put may find it full once more.                                  *)
Put(t) ==
  IF Len(queue) < QueueSize
    THEN /\ queue' = Append(queue, loop.at = "connected")
         /\ turn' = [turn EXCEPT ![t] = "idle"]
    ELSE UNCHANGED queue /\ turn' = [turn EXCEPT ![t] = IF @ = "idle" THEN "full" ELSE "raised"]

PushOnly == << Store, stopped, loop, Line, Console, failures, missed >>

Push(t) ==
  /\ turn[t] = "idle" /\ pushed < MaxFrames
  /\ pushed' = pushed + 1
  /\ Put(t)
  /\ UNCHANGED PushOnly

MakeRoom(t) ==
  /\ turn[t] = "full"
  /\ queue' = IF queue = << >> THEN queue ELSE Tail(queue)
  /\ turn' = [turn EXCEPT ![t] = "room"]
  /\ UNCHANGED << pushed, PushOnly >>

PushAgain(t) ==
  /\ turn[t] = "room"
  /\ Put(t)
  /\ UNCHANGED << pushed, PushOnly >>

-----------------------------------------------------------------------------
(* get_changes, on a thread of the pool; a response for a connection that  *)
(* is gone goes nowhere.                                                   *)
Serve ==
  /\ loop.at = "connected" /\ asked # {}
  /\ \E since \in asked :
       wire' = IF socket = "open" THEN Append(wire, [type |-> "response", page |-> ChangesSince(since)])
               ELSE wire
  /\ asked' = {}
  /\ UNCHANGED << Store, stopped, loop, socket, active, out, tail, Ephemeral, mirror, repairs,
                  failures, missed >>

(* The mirror.  A change is its resource's version, or its absence.        *)
Update(copy, c) == [copy EXCEPT ![ledger[c].id] = ledger[c].version]

Highest(a, b) == IF a > b THEN a ELSE b

Learn(c) ==
  IF mirror.follows /\ c = mirror.known + 1
    THEN mirror' = [mirror EXCEPT !.copy = Update(@, c), !.known = c, !.heard = Highest(@, c)]
    ELSE mirror' = [mirror EXCEPT !.heard = Highest(@, c)]

(* A page is applied as far as it is new: of each resource it is about,    *)
(* what the newest change says.                                            *)
Newest(changes) == CHOOSE c \in changes : \A d \in changes : d <= c

LearnPage(page) ==
  LET new == {page[k] : k \in DOMAIN page} \ 0..mirror.known
      About(i) == {c \in new : ledger[c].id = i}
  IN IF mirror.follows /\ new # {}
       THEN mirror' = [mirror EXCEPT
              !.copy = [i \in Ids |-> IF About(i) = {} THEN @[i] ELSE ledger[Newest(About(i))].version],
              !.known = Newest(new), !.heard = Highest(@, Newest(new))]
       ELSE UNCHANGED mirror

Deliver ==
  /\ wire # << >>
  /\ wire' = Tail(wire)
  /\ LET frame == Head(wire) IN
     CASE frame.type = "hello" -> mirror' = [mirror EXCEPT !.heard = Highest(@, frame.head)]
       [] frame.type = "event" -> Learn(frame.cursor)
       [] frame.type = "response" -> LearnPage(frame.page)
       [] OTHER -> UNCHANGED mirror
  /\ UNCHANGED << Store, stopped, loop, socket, active, out, tail, Ephemeral, asked, repairs,
                  failures, missed >>

Answering == asked # {} \/ \E k \in DOMAIN wire : wire[k].type \in {"hello", "response"}

Ask ==
  /\ socket = "open" /\ ~Answering
  /\ mirror.follows /\ mirror.known < mirror.heard
  /\ asked' = {mirror.known}
  /\ UNCHANGED << Store, stopped, loop, Line, Ephemeral, mirror, repairs, failures, missed >>

(* A mirror that lost its place reads ledger_head, and then the inventory. *)
TakeHead ==
  /\ mirror.follows /\ repairs < MaxRepairs
  /\ repairs' = repairs + 1
  /\ mirror' = [mirror EXCEPT !.follows = FALSE, !.listed = Len(ledger)]
  /\ UNCHANGED << Store, stopped, loop, Line, Ephemeral, asked, failures, missed >>

(* Only a noun with a query in _NOUNS is listed.                           *)
Inventory == [i \in Ids |-> IF i \in Listed THEN rows[i] ELSE 0]

TakeInventory ==
  /\ ~mirror.follows
  /\ mirror' = [follows |-> TRUE, copy |-> Inventory, known |-> mirror.listed,
                heard |-> Highest(mirror.heard, mirror.listed), listed |-> Len(ledger)]
  /\ UNCHANGED << Store, stopped, loop, Line, Ephemeral, asked, repairs, failures, missed >>

-----------------------------------------------------------------------------
Connection ==
  \/ Connect \/ ReadHead \/ SendHello \/ EnterConnected \/ Disconnect \/ Wake

Outbound == ReadPage \/ SendEvent \/ SendFrame \/ Rest \/ FailSend

Next ==
  \/ Connection \/ FailConnect \/ Drop \/ Stop \/ Outbound \/ Serve
  \/ Deliver \/ Ask \/ TakeHead \/ TakeInventory
  \/ \E i \in Ids : Write(i)
  \/ \E t \in Turns : Push(t) \/ MakeRoom(t) \/ PushAgain(t)

(* The loop, its tasks and the pool go on by themselves; the network       *)
(* delivers while it holds; the console asks for what it lacks.            *)
Fairness ==
  /\ WF_vars(Connection) /\ WF_vars(Outbound) /\ WF_vars(Serve)
  /\ WF_vars(Deliver) /\ WF_vars(Ask) /\ WF_vars(TakeInventory)

Spec == Init /\ [][Next]_vars /\ Fairness

-----------------------------------------------------------------------------
Frames ==
  [type : {"hello"}, head : Nat] \cup [type : {"event"}, cursor : Nat]
    \cup [type : {"response"}, page : Seq(Nat)] \cup [type : {"ephemeral"}, fresh : BOOLEAN]

StoreOK == rows \in [Ids -> Nat] /\ ledger \in Seq([id : Ids, version : Nat])

LoopOK ==
  /\ loop \in [at : {"ready", "connecting", "handshaking", "welcomed", "connected", "backoff",
                     "ended", "dead"}, attempt : Nat]
  /\ socket \in {"none", "open", "closed"}
  /\ stopped \in BOOLEAN /\ active \in BOOLEAN /\ missed \in BOOLEAN /\ failures \in Nat

LineOK ==
  /\ out \in [doing : {"tail", "page", "queue"}, cursor : Nat, page : Seq(Nat)]
  /\ wire \in Seq(Frames) /\ tail \in [from : Nat, sent : Seq(Nat)]

QueueOK ==
  /\ queue \in Seq(BOOLEAN) /\ Len(queue) <= QueueSize /\ pushed \in Nat
  /\ turn \in [Turns -> {"idle", "full", "room", "raised"}]

ConsoleOK ==
  /\ mirror \in [follows : BOOLEAN, copy : [Ids -> Nat], known : Nat, heard : Nat, listed : Nat]
  /\ asked \subseteq Nat /\ repairs \in Nat

TypeOK == StoreOK /\ LoopOK /\ LineOK /\ QueueOK /\ ConsoleOK

(* A connection's events are the changes after the head its hello named,   *)
(* in order, each once: drain_ledger_tail's cursor against a head that was *)
(* read a handshake earlier.                                               *)
NothingSkipped == tail.sent = [k \in DOMAIN tail.sent |-> tail.from + k]

(* v is what a ledger up to its change c says of i: the version of the     *)
(* last change, 0 without one.                                             *)
Latest(log, i, from, c, v) ==
  \E d \in from+1..c : /\ log[d] = [id |-> i, version |-> v]
                       /\ \A later \in d+1..c : log[later].id # i

Told(log, i, c, v) ==
  Latest(log, i, 0, c, v) \/ (v = 0 /\ \A d \in 1..c : log[d].id # i)

(* What the mirror holds of a listed resource is what the ledger had made  *)
(* of it by the mirror's cursor: paging through GET /changes, events and a *)
(* start from the inventory, mixed, neither skip nor repeat a change.  A   *)
(* mirror started from the inventory may hold newer rows than its cursor   *)
(* says, until it has caught up with what was there when it read them.     *)
CopyTrue ==
  mirror.follows /\ mirror.known >= mirror.listed
    => \A i \in Listed : Told(ledger, i, mirror.known, mirror.copy[i])

(* No frame that was pushed before this connection was made is sent on it: *)
(* a delta of a turn that is long over would be rendered as news.          *)
NoLateDelta == \A k \in DOMAIN wire : wire[k].type = "ephemeral" => wire[k].fresh

(* What a connection sends is its own: no more and no less than what came  *)
(* after its hello.                                                        *)
LineTrue == NothingSkipped /\ NoLateDelta

(* The box as a feed.                                                      *)
Feed == INSTANCE Relay WITH history <- ledger, applied <- mirror.known, ended <- stopped

(* The ledger, its tail and its pages together implement the feed: the     *)
(* mirror's cursor only moves forward and never past the ledger, and a     *)
(* mirror that lags catches up however often the connection drops.         *)
FeedImplemented == Feed!Spec

(* Deregistering ends the loop, unless stop() came while a connection was  *)
(* being made.                                                             *)
StopEnds == stopped /\ ~missed ~> loop.at = "ended"
=============================================================================
