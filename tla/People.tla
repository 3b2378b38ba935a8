------------------------------- MODULE People -------------------------------
(***************************************************************************)
(* Who a conversation is with: Memory, Personas and Conversations, and the *)
(* creation of a conversation (client_surface.py, _create), which reads    *)
(* the first two, one read at a time, and keeps what it read; and the      *)
(* purge of an account.                                                    *)
(***************************************************************************)
EXTENDS Memory, Personas, Conversations

VARIABLES
  purged,        \* ghost: ids no row has any more, of which the ledger was not told
  side           \* bound of the model: what requests are about, besides conversations

vars == << clerk, ledger, remembered, personas, conversations, purged, side >>

(* What a conversation is created with, and of one older than all that.    *)
BornWith(a) ==
  [account |-> a, recalled |-> "none", rubric |-> "none", voice |-> "none", agent |-> "none"]

Init ==
  /\ RequestsInit /\ MemoryInit /\ PersonasInit
  /\ side \in {"memory", "personas", "conversations"} /\ purged = {}
  /\ side # "memory" => \A a \in Accounts : Held(a) = {}
  /\ \/ conversations = << >>
     \/ side = "conversations" /\ \E a \in {Owner, "none"} : conversations = << Born(0) @@ BornWith(a) >>

(* known_accounts(), and the owner, who is always one of them.             *)
KnownAccounts ==
  {Owner} \cup ({conversations[k].account : k \in Keyed} \ {"none"}) \cup {a \in Accounts : Held(a) # {}}
    \cup {a \in Speakers : chosen[a] # NoRow}

(* The entries that are kept are read, then the rubric and the voice, and  *)
(* the name of the character as the row is inserted.                       *)
Recall(w, a) ==
  /\ Ask(w, [op |-> "birth", at |-> "compose", account |-> a, recalled |-> Recalled(a)])
  /\ UNCHANGED << ledger, remembered, personas, conversations, purged, side >>

Compose(w) ==
  /\ At(w, "birth", "compose")
  /\ To(w, [op |-> "birth", at |-> "insert", account |-> job[w].account, recalled |-> job[w].recalled,
            rubric |-> RubricOf(job[w].account), voice |-> Voice(job[w].account)])
  /\ UNCHANGED << ledger, remembered, personas, conversations, purged, side >>

Insert(w) ==
  LET a == job[w].account IN
  /\ At(w, "birth", "insert")
  /\ Opened([account |-> a, recalled |-> job[w].recalled, rubric |-> job[w].rubric,
             voice |-> job[w].voice, agent |-> Selection(a)])
  /\ \/ End(w, "created")
     \/ side = "conversations" /\ To(w, [op |-> "rename", at |-> "born", account |-> a, key |-> Len(conversations) + 1])
  /\ UNCHANGED << remembered, personas, purged, side >>

Create(w) == Compose(w) \/ Insert(w) \/ \E a \in Speakers : Recall(w, a)

(* purge_account(): all of an account's rows, and whose its conversations  *)
(* were, in one transaction, which tells the ledger nothing.               *)
RowsOf(a) == {entries[a][k].id : k \in Held(a)} \cup {rubrics[a].id} \cup
             {chosen[b].id : b \in Speakers \cap {a}}

ConversationIds == {conversations[k].id : k \in Keyed}

PurgeAccount(w, a) ==
  /\ AskOnce(w, "purged")
  /\ entries' = [entries EXCEPT ![a] = [k \in EntryKeys |-> NoRow]]
  /\ rubrics' = [rubrics EXCEPT ![a] = NoRow]
  /\ chosen'  = [b \in Speakers |-> IF b = a THEN NoRow ELSE chosen[b]]
  /\ conversations' = [k \in Keyed |-> [conversations[k] EXCEPT !.account = IF @ = a THEN "none" ELSE @]]
  /\ purged' = purged \cup (RowsOf(a) \ {0})
  /\ UNCHANGED << ledger, files, agents, side >>

Next ==
  \E w \in Workers :
    \/ side = "memory" /\ MemoryStep(w) /\ UNCHANGED << personas, conversations, purged, side >>
    \/ side = "personas" /\ PersonaStep(w, KnownAccounts) /\ UNCHANGED << remembered, conversations, purged, side >>
    \/ /\ side = "conversations" /\ ConversationStep(w, Accounts)
       /\ purged' = purged \cup (ConversationIds \ ({0} \cup ConversationIds'))
       /\ UNCHANGED << remembered, personas, side >>
    \/ Create(w)
    \/ \E a \in Accounts : PurgeAccount(w, a)
    \/ Crash(w) /\ UNCHANGED << ledger, remembered, personas, conversations, purged, side >>

Spec == Init /\ [][Next]_vars

-----------------------------------------------------------------------------
(* An adoption whose rows are still as it read them loses nothing and      *)
(* revives nothing (memory_store.py, adopt_scheduled_memories): every      *)
(* entry of every account is afterwards where it was, or with the owner,   *)
(* with the same text and the same state, and an entry of the owner's has  *)
(* not moved at all.                                                       *)
Undisturbed(w) == \A r \in job[w].rows : entries[r.account][Plain(r.key)] = r.row

AdoptionLosesNothing ==
  [][\A w \in Workers : At(w, "adopt", "write") /\ job'[w] # job[w] /\ entries' # entries /\ Undisturbed(w) =>
       \A a \in Accounts : \A k \in Held(a) :
         \/ entries'[a][k] = entries[a][k]
         \/ a \in Scheduled /\ \E l \in EntryKeys : /\ entries[Owner][l] = NoRow /\ entries'[Owner][l] # NoRow
                                                   /\ entries'[Owner][l].text = entries[a][k].text
                                                   /\ entries'[Owner][l].state = entries[a][k].state]_vars

(* A mirror that follows the ledger holds the rows of entries, rubrics,    *)
(* characters and selections, each with its version, and nothing else but  *)
(* what a purge took: an entry that moves between accounts, a file that    *)
(* comes and goes and a reconciliation that read the directory too early   *)
(* are all told (ledger.py, record_change).                                *)
IdsOf == {entries[a][k].id : a \in Accounts, k \in EntryKeys} \cup {rubrics[a].id : a \in Accounts}
           \cup {agents[n].id : n \in Names} \cup {chosen[a].id : a \in Speakers}
MirrorHolds(row) == row = NoRow \/ (row.id \in DOMAIN told /\ told[row.id].version = row.version)

LedgerTellsPeople ==
  /\ {i \in DOMAIN told : told[i].kind # "deleted"} \ purged \subseteq IdsOf \cup ConversationIds
  /\ IdsOf \ {0} \subseteq {i \in DOMAIN told : told[i].kind # "deleted"}
  /\ \A k \in Keyed : LET row == conversations[k] IN
       IF row.twice THEN TRUE
       ELSE IF row.id \in DOMAIN told
       THEN told[row.id].version = row.version /\ (~row.past => told[row.id].state = row.state)
       ELSE row.old
  /\ \A a \in Accounts : MirrorHolds(rubrics[a]) /\ \A k \in EntryKeys :
       MirrorHolds(entries[a][k]) /\ (k \in Held(a) => told[entries[a][k].id].state = entries[a][k].state)
  /\ \A n \in Names : MirrorHolds(agents[n])
  /\ \A a \in Speakers : MirrorHolds(chosen[a])

(* From any state, one reconcile_agents() that nobody disturbs leaves a row*)
(* for each file that parses, with the digest of what is there now, and    *)
(* decides nothing about a row that stays.                                 *)
AgentsFollowFiles ==
  LET found == [n \in Found |-> Digest(files[n])]  after == Indexes(found) IN
  \A n \in Names :
    /\ (after[n] # NoRow) = (n \in Found)
    /\ n \in Found => after[n].digest = Digest(files[n])
    /\ n \in Found \cap Indexed => after[n].state = agents[n].state /\ after[n].id = agents[n].id
=============================================================================
