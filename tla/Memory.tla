------------------------------- MODULE Memory -------------------------------
(***************************************************************************)
(* What is remembered about an account (memory_store.py): entries that a   *)
(* turn writes through the memory plugin, that the shell forgets and the   *)
(* door forgets or removes, the rubric beside them, and the adoption, at   *)
(* the start of every process that takes turns, of what scheduled runs     *)
(* once remembered under accounts of their own.                            *)
(***************************************************************************)
EXTENDS Requests, Functions, Sequences

CONSTANTS
  Accounts,   \* account keys
  Scheduled,  \* those of them that begin with "schedule:"
  Owner,      \* owner_account()
  Keys,       \* entry keys a turn may choose
  Texts       \* contents and rubrics

ASSUME MemoryAssumption ==
  /\ Owner \in Accounts /\ Scheduled \subseteq Accounts
  /\ "none" \notin Texts

VARIABLES
  entries,  \* memory_entries, by account and key
  rubrics   \* memory_rubric_overrides, by account

remembered == << entries, rubrics >>

(* `k--schedule:x' is the key k has when the owner already has a k.        *)
Aliased(k, a) == << k, a >>
Plain(k)      == << k >>
EntryKeys     == {Plain(k) : k \in Keys} \cup {Aliased(k, a) : k \in Keys, a \in Scheduled}
Row(id, text, state) == [id |-> id, text |-> text, state |-> state, version |-> 1]
Held(a)       == {k \in EntryKeys : entries[a][k] # NoRow}
Put(a, k, row) == entries' = [entries EXCEPT ![a][k] = row]
EntryToken(row) == Change("changed", row.state, row.version)

(* An old store: scheduled runs have remembered something, and perhaps the *)
(* owner.                                                                  *)
MemoryInit ==
  /\ \E H \in SUBSET ((Scheduled \cup {Owner}) \X Keys) :
       LET id == CHOOSE f \in Injection(H, 1 .. Cardinality(H)) : TRUE IN
       \E text \in [H -> Texts], state \in [H -> {"kept", "forgotten"}] :
         /\ entries = [a \in Accounts |-> [k \in EntryKeys |->
              IF Len(k) = 1 /\ << a, k[1] >> \in H
              THEN Row(id[a, k[1]], text[a, k[1]], state[a, k[1]]) ELSE NoRow]]
         /\ minted = Cardinality(H)
         /\ told = [i \in 1 .. minted |-> Change("created", CHOOSE s \in {"kept", "forgotten"} :
                      \E h \in H : id[h] = i /\ state[h] = s, 1)]
  /\ rubrics = [a \in Accounts |-> NoRow]

(* write_entry(): what was forgotten is kept again.                        *)
Written(a, k, t) ==
  IF entries[a][k] = NoRow THEN Row(minted + 1, t, "kept")
  ELSE [entries[a][k] EXCEPT !.text = t, !.state = "kept", !.version = @ + 1]

WriteEntry(w, a, k, t) ==
  LET row == Written(a, k, t) IN
  /\ AskOnce(w, "remembered.")
  /\ Put(a, k, row) /\ minted' = minted + 1
  /\ Tell(row.id :> EntryToken(row)) /\ UNCHANGED rubrics

(* forget_entry() and delete_entry(), by account and key.                  *)
Forgotten(row) == [row EXCEPT !.state = "forgotten", !.version = @ + 1]

ForgetEntry(a, k) ==
  IF k \notin Held(a) THEN UNCHANGED << entries, told >>
  ELSE Put(a, k, Forgotten(entries[a][k])) /\ Tell(entries[a][k].id :> EntryToken(Forgotten(entries[a][k])))

DeleteEntry(a, k) ==
  IF k \notin Held(a) THEN UNCHANGED << entries, told >>
  ELSE Put(a, k, NoRow) /\ Tell(entries[a][k].id :> Gone)

CmdForget(w, a, k) ==
  /\ AskOnce(w, "no longer using it") /\ ForgetEntry(a, k) /\ UNCHANGED << rubrics, minted >>

(* The door reads the entry by its id, compares If-Match with what it read,*)
(* and writes by account and key later.                                    *)
ReadEntry(w, a, k, verb, matches) ==
  /\ k \in Held(a)
  /\ IF ~matches THEN AskOnce(w, "PRECONDITION_FAILED")
     ELSE Ask(w, [op |-> verb, at |-> "write", account |-> a, key |-> k, id |-> entries[a][k].id])
  /\ UNCHANGED << remembered, minted, told >>

ActForget(w) ==
  /\ At(w, "forget", "write")
  /\ ForgetEntry(job[w].account, job[w].key) /\ End(w, "forgotten") /\ UNCHANGED << rubrics, minted >>

RemoveEntry(w) ==
  /\ At(w, "remove", "write")
  /\ DeleteEntry(job[w].account, job[w].key) /\ End(w, "204") /\ UNCHANGED << rubrics, minted >>

(* set_rubric_override(), by the shell, and by the door after a comparison *)
(* of If-Match with the version it read, 0 where there is no row.          *)
SetRubric(a, t) ==
  LET row == IF rubrics[a] = NoRow THEN [id |-> minted + 1, text |-> t, version |-> 1]
             ELSE [rubrics[a] EXCEPT !.text = t, !.version = @ + 1] IN
  /\ rubrics' = [rubrics EXCEPT ![a] = row] /\ minted' = minted + 1
  /\ Tell(row.id :> Change("changed", "none", row.version)) /\ UNCHANGED entries

CmdSetRubric(w, a, t) == AskOnce(w, "rubric addition set") /\ SetRubric(a, t)

ReadRubric(w, a, t, matches) ==
  /\ IF ~matches THEN AskOnce(w, "PRECONDITION_FAILED")
     ELSE Ask(w, [op |-> "rubric", at |-> "write", account |-> a, text |-> t])
  /\ UNCHANGED << remembered, minted, told >>

PatchRubric(w) ==
  /\ At(w, "rubric", "write") /\ SetRubric(job[w].account, job[w].text) /\ End(w, "patched")

-----------------------------------------------------------------------------
(* adopt_scheduled_memories(): the rows are read before the transaction.   *)
Adoptable ==
  LET Found == UNION {{<< a, k >> : k \in {l \in Keys : Plain(l) \in Held(a)}} : a \in Scheduled} IN
  {[account |-> x[1], key |-> x[2], row |-> entries[x[1]][Plain(x[2])]] : x \in Found}

ReadAdoptable(w) ==
  /\ Ask(w, IF Owner \in Scheduled \/ Adoptable = {} THEN NoJob
            ELSE [op |-> "adopt", at |-> "write", rows |-> Adoptable])
  /\ UNCHANGED << remembered, minted, told >>

(* Where each of them goes: to its own key, or beside what is there.  Of   *)
(* several with one key, one comes first.                                  *)
Firsts(R) == {F \in SUBSET R : \A r \in R : Cardinality({f \in F : f.key = r.key}) = 1}
\* Mutant of Target: the owner's own entry is not looked for.
TargetPlain(r, F) == IF r \notin F THEN Aliased(r.key, r.account) ELSE Plain(r.key)
Target(r, F) ==
  IF Plain(r.key) \in Held(Owner) \/ r \notin F THEN Aliased(r.key, r.account) ELSE Plain(r.key)

Moved(r, k, id) ==
  IF entries[Owner][k] = NoRow THEN Row(id, r.row.text, r.row.state)
  ELSE [entries[Owner][k] EXCEPT !.text = r.row.text, !.state = r.row.state]

\* Mutant of Announced: a row that moves is told only where it arrives.
AnnouncedCreated(R, put) ==
  [i \in {put[r].id : r \in R} |->
     LET row == put[CHOOSE r \in R : put[r].id = i] IN Change("created", row.state, row.version)]
(* To a mirror one row appears and another goes.                           *)
Announced(R, put) ==
  [i \in {put[r].id : r \in R} |->
     LET row == put[CHOOSE r \in R : put[r].id = i] IN Change("created", row.state, row.version)]
  @@ [i \in {r.row.id : r \in R} |-> Gone]

AdoptMemories(w) ==
  LET R == job[w].rows
      ids == CHOOSE f \in Injection(R, minted + 1 .. minted + Cardinality(R)) : TRUE IN
  /\ At(w, "adopt", "write")
  /\ \E F \in Firsts(R) :
       LET put == [r \in R |-> Moved(r, Target(r, F), ids[r])] IN
       /\ entries' = [a \in Accounts |-> [k \in EntryKeys |->
            IF a = Owner /\ \E r \in R : Target(r, F) = k THEN put[CHOOSE r \in R : Target(r, F) = k]
            ELSE IF \E r \in R : r.account = a /\ Plain(r.key) = k THEN NoRow ELSE entries[a][k]]]
       /\ Tell(Announced(R, put))
  /\ minted' = minted + Cardinality(R) /\ End(w, "adopted") /\ UNCHANGED rubrics

-----------------------------------------------------------------------------
(* What a conversation is told when it is created (memory.py,              *)
(* system_message_for): the account's entries that are kept, and a rubric. *)
Recalled(a) == {entries[a][k].text : k \in {l \in Held(a) : entries[a][l].state = "kept"}}
RubricOf(a) == IF rubrics[a] = NoRow THEN "default" ELSE rubrics[a].text

MemoryStep(w) ==
  \/ \E a \in Accounts \ Scheduled, k \in Keys, t \in Texts : WriteEntry(w, a, Plain(k), t)
  \/ \E a \in Accounts, k \in EntryKeys : CmdForget(w, a, k)
  \/ \E a \in Accounts \ Scheduled, k \in EntryKeys, b \in BOOLEAN, v \in {"forget", "remove"} :
       ReadEntry(w, a, k, v, b)
  \/ ActForget(w) \/ RemoveEntry(w) \/ PatchRubric(w)
  \/ \E a \in Accounts \ Scheduled, t \in Texts : CmdSetRubric(w, a, t)
  \/ \E a \in Accounts \ Scheduled, t \in Texts, b \in BOOLEAN : ReadRubric(w, a, t, b)
  \/ ReadAdoptable(w) \/ AdoptMemories(w)
=============================================================================
