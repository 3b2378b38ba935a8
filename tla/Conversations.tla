--------------------------- MODULE Conversations ---------------------------
(***************************************************************************)
(* The rows of conversations as the door sees them: who owns one, whether  *)
(* it is active or archived, and the version the change ledger tells       *)
(* (conversation_store.py and the door's conversations noun).  What was    *)
(* said in it is in TurnLoop and DoorTurn; what it is called is left out.  *)
(***************************************************************************)
EXTENDS Requests, Sequences

VARIABLE conversations \* the rows, by key; "old", "twice" and "past" are ghosts

Keyed == DOMAIN conversations
Mine(a) == {k \in Keyed : conversations[k].account = a /\ conversations[k].id # 0}   \* _row()
Born(id) == [id |-> id, state |-> "active", version |-> 1, old |-> id = 0, twice |-> FALSE, past |-> FALSE]
ConversationToken(row) == Change("changed", row.state, row.version)

(* create(): the row and whose it is.                                      *)
Opened(c) ==
  /\ conversations' = Append(conversations, Born(minted + 1) @@ c)
  /\ minted' = minted + 1
  /\ Tell(minted + 1 :> Change("created", "active", 1))

(* save() at the end of a turn, and _record_conversation_change() as a run *)
(* parks or is resumed: the bump, what is read and what is told are of one *)
(* transaction.                                                            *)
Bumped(row) == [row EXCEPT !.version = @ + 1, !.past = FALSE]

SaveConversation(w, k) ==
  LET row == Bumped(conversations[k]) IN
  /\ row.id # 0
  /\ AskOnce(w, "turn taken")
  /\ conversations' = [conversations EXCEPT ![k] = row]
  /\ Tell(row.id :> ConversationToken(row)) /\ UNCHANGED minted

-----------------------------------------------------------------------------
(* open_store() of a store older than ids: the rows without one are read   *)
(* before the transaction that gives them theirs, and tells nobody.  Two   *)
(* processes at once give one row two ids, the later for good ("twice").   *)
Bare == {k \in Keyed : conversations[k].id = 0}

OpenStore(w) ==
  /\ Bare # {}
  /\ Ask(w, [op |-> "open", at |-> "fill", keys |-> Bare])
  /\ UNCHANGED << conversations, ledger >>

FillLegacyIdentity(w) ==
  /\ At(w, "open", "fill")
  /\ conversations' = [k \in Keyed |-> IF k \in job[w].keys
                                       THEN [conversations[k] EXCEPT !.twice = k \notin Bare, !.id = minted + k]
                                       ELSE conversations[k]]
  /\ minted' = minted + Len(conversations)
  /\ End(w, "filled") /\ UNCHANGED told

-----------------------------------------------------------------------------
(* The door.  An action is checked against the state by the router, by a   *)
(* read of its own; the noun reads the row again, compares If-Match, and   *)
(* writes by key what it makes of the row it read.                         *)
FromStates(verb) ==
  CASE verb = "archive" -> {"active"} [] verb = "unarchive" -> {"archived"} [] verb = "rename" -> {"active", "archived"}

Act(w, a, k, verb) ==
  /\ k \in Mine(a)
  /\ IF conversations[k].state \notin FromStates(verb) THEN AskOnce(w, "CONFLICT")
     ELSE Ask(w, [op |-> verb, at |-> "read", account |-> a, key |-> k])
  /\ UNCHANGED << conversations, ledger >>

Patch(w, a, k) ==
  /\ k \in Mine(a)
  /\ Ask(w, [op |-> "rename", at |-> "read", account |-> a, key |-> k])
  /\ UNCHANGED << conversations, ledger >>

ReadConversation(w, verb, matches) ==
  /\ At(w, verb, "read")
  /\ IF job[w].key \notin Mine(job[w].account) THEN End(w, "NOT_FOUND")
     ELSE IF ~matches THEN End(w, "PRECONDITION_FAILED")
     ELSE To(w, [op |-> verb, at |-> "write", key |-> job[w].key, row |-> conversations[job[w].key]])
  /\ UNCHANGED << conversations, ledger >>

(* A create with a name renames the row it reads back, unless a purge has  *)
(* been there first.                                                       *)
NameConversation(w) ==
  /\ At(w, "rename", "born")
  /\ IF job[w].key \notin Mine(job[w].account) THEN End(w, "AssertionError")
     ELSE To(w, [op |-> "rename", at |-> "write", key |-> job[w].key, row |-> conversations[job[w].key]])
  /\ UNCHANGED << conversations, ledger >>

(* "past": the row was renamed as it had been before it changed.           *)
ApplyUpdate(w, verb) ==
  LET k == job[w].key
      read == job[w].row
      now == conversations[k]
      state == CASE verb = "archive" -> "archived" [] verb = "unarchive" -> "active" [] verb = "rename" -> now.state
      telling == IF verb = "rename" THEN read.state ELSE state
  IN /\ At(w, verb, "write")
     /\ conversations' = [conversations EXCEPT ![k].state = state, ![k].version = read.version + 1,
                                               ![k].past = verb = "rename" /\ now # read]
     /\ Tell(read.id :> Change("changed", telling, read.version + 1))
     /\ End(w, "updated") /\ UNCHANGED minted

ConversationStep(w, accounts) ==
  \/ OpenStore(w) \/ FillLegacyIdentity(w) \/ NameConversation(w)
  \/ \E k \in Keyed : SaveConversation(w, k)
  \/ \E a \in accounts, k \in Keyed : Patch(w, a, k) \/ \E verb \in {"archive", "unarchive", "rename"} : Act(w, a, k, verb)
  \/ \E verb \in {"archive", "unarchive", "rename"} :
       ApplyUpdate(w, verb) \/ \E matches \in BOOLEAN : ReadConversation(w, verb, matches)
=============================================================================
