------------------------------ MODULE Personas ------------------------------
(***************************************************************************)
(* Characters and the accounts that chose one (persona_store.py, persona.py*)
(* and the door's agents noun).  A character is a file; `agents' is an     *)
(* index over the files that parse, brought up to date by every listing;   *)
(* a selection names a character, and a conversation takes its voice once. *)
(***************************************************************************)
EXTENDS Requests, Functions

CONSTANTS
  Names,      \* valid names of characters
  Speakers,   \* accounts that may choose one
  Prompts,    \* system prompts
  Descriptions, \* descriptions a client may give
  Unfit       \* those a frontmatter cannot hold: too long, or of several lines

ASSUME PersonasAssumption == Unfit \subseteq Descriptions

VARIABLES
  files,   \* the characters directory
  agents,  \* the index, by name
  chosen   \* persona_selections, by account

personas == << files, agents, chosen >>

(* A file as parse() sees it; its bytes are prompt and description.        *)
NoFile      == [prompt |-> "none", description |-> "none"]
Text(p, d)  == [prompt |-> p, description |-> d]   \* _character_file_text()
NewFile     == Text("template", "template")
Parses(f)   == f # NoFile /\ f.description \notin Unfit
Found       == {n \in Names : Parses(files[n])}     \* list_characters()
Digest(f)   == f
Loads(n)    == n \in Names /\ Parses(files[n])      \* load_character()
Indexed     == {n \in Names : agents[n] # NoRow}
HasId(id)   == {n \in Indexed : agents[n].id = id}
AgentRow(id, state, f, d) ==
  [id |-> id, state |-> state, digest |-> Digest(f), description |-> d, version |-> 1]

PersonasInit ==
  /\ files = [n \in Names |-> NoFile]
  /\ agents = [n \in Names |-> NoRow]
  /\ chosen = [a \in Speakers |-> NoRow]

Stores == UNCHANGED << minted, told >>

-----------------------------------------------------------------------------
(* reconcile_agents(), at every start, listing and reading: the directory  *)
(* is read before the transaction, the rows inside it.                     *)
ReadFiles(w) ==
  /\ Ask(w, [op |-> "reconcile", at |-> "write", found |-> [n \in Found |-> Digest(files[n])]])
  /\ UNCHANGED personas /\ Stores

Fresh(found) == DOMAIN found \ Indexed
Stale(found) == {n \in DOMAIN found \cap Indexed : agents[n].digest # found[n]}
Lost(found)  == Indexed \ DOMAIN found
FreshIds(found) == CHOOSE f \in Injection(Fresh(found), minted + 1 .. minted + Cardinality(Fresh(found))) : TRUE

\* Mutant of Indexes: rows whose file has gone stay.
IndexesKept(found) ==
  LET ids == FreshIds(found) IN
  [n \in Names |->
     CASE n \in Fresh(found) -> AgentRow(ids[n], "active", found[n], "")
       [] n \in Stale(found) -> [agents[n] EXCEPT !.digest = found[n], !.version = @ + 1]
       [] OTHER              -> agents[n]]

Indexes(found) ==
  LET ids == FreshIds(found) IN
  [n \in Names |->
     CASE n \in Fresh(found) -> AgentRow(ids[n], "active", found[n], "")
       [] n \in Stale(found) -> [agents[n] EXCEPT !.digest = found[n], !.version = @ + 1]
       [] n \in Lost(found)  -> NoRow
       [] OTHER              -> agents[n]]

(* A changed row is announced as active, whatever it is.                   *)
Reconcile(w) ==
  LET found == job[w].found  after == Indexes(found) IN
  /\ At(w, "reconcile", "write")
  /\ agents' = after
  /\ minted' = minted + Cardinality(Fresh(found))
  /\ Tell([i \in {after[n].id : n \in Fresh(found)} |-> Change("created", "active", 1)]
          @@ [i \in {agents[n].id : n \in Stale(found)} |->
                Change("changed", "active", 1 + (CHOOSE v \in {agents[n].version : n \in HasId(i)} : TRUE))]
          @@ [i \in {agents[n].id : n \in Lost(found)} |-> Gone])
  /\ End(w, "reconciled") /\ UNCHANGED << files, chosen >>

-----------------------------------------------------------------------------
(* create_character(): a name that has a file is refused, then the file is *)
(* written, and later its row, which another row of that name refuses.     *)
(* persona new does the first half, with the template.                     *)
CheckFree(w, op, n, f) ==
  /\ IF files[n] # NoFile THEN AskOnce(w, "CONFLICT")
     ELSE Ask(w, [op |-> op, at |-> "file", name |-> n, file |-> f])
  /\ UNCHANGED personas /\ Stores

WriteFile(w) ==
  LET j == job[w] IN
  /\ j.at = "file"
  /\ files' = [files EXCEPT ![j.name] = j.file]
  /\ IF j.op = "create" THEN Go(w, "hash") ELSE End(w, "path")
  /\ UNCHANGED << agents, chosen >> /\ Stores

HashFile(w) ==
  LET n == job[w].name IN
  /\ At(w, "create", "hash")
  /\ IF files[n] = NoFile THEN End(w, "raised")
     ELSE To(w, [op |-> "create", at |-> "insert", name |-> n, file |-> files[n],
                 description |-> job[w].file.description])
  /\ UNCHANGED personas /\ Stores

InsertAgent(w) ==
  LET n == job[w].name IN
  /\ At(w, "create", "insert")
  /\ IF n \in Indexed THEN End(w, "raised") /\ UNCHANGED agents /\ Stores
     ELSE /\ agents' = [agents EXCEPT ![n] = AgentRow(minted + 1, "draft", job[w].file, job[w].description)]
          /\ minted' = minted + 1 /\ Tell(minted + 1 :> Change("created", "draft", 1))
          /\ End(w, "created")
  /\ UNCHANGED << files, chosen >>

(* update(), act(): the row is read by its id and If-Match compared, then  *)
(* the change is made under what was read.  `prompt' is "same" or          *)
(* `description' "same" where the client did not name it.                  *)
ReadAgent(w, n, change, matches) ==
  /\ n \in Indexed
  /\ change.verb = "activate" => agents[n].state = "draft"
  /\ change.verb = "set-default" => agents[n].state = "active"
  /\ IF ~matches THEN AskOnce(w, "PRECONDITION_FAILED")
     ELSE Ask(w, [op |-> change.verb, at |-> "write", name |-> n, id |-> agents[n].id, change |-> change])
  /\ UNCHANGED personas /\ Stores

Rewritten(n, c) ==
  IF c.prompt = "same" THEN files[n]
  ELSE Text(c.prompt, IF c.description = "same" THEN agents[n].description ELSE c.description)

(* update_character(): in one transaction the file is replaced and the row *)
(* follows it.  The process may die in between.                            *)
UpdateCharacter(w) ==
  LET n == job[w].name  c == job[w].change  f == Rewritten(n, c) IN
  /\ At(w, "update", "write")
  /\ IF files[n] = NoFile \/ n \notin Indexed THEN End(w, "raised") /\ UNCHANGED << files, agents >> /\ Stores
     ELSE IF c.prompt = "same" /\ c.description = "same" THEN End(w, "unchanged") /\ UNCHANGED << files, agents >> /\ Stores
     ELSE /\ files' = [files EXCEPT ![n] = f]
          /\ \/ /\ agents' = [agents EXCEPT ![n].digest = Digest(f), ![n].version = @ + 1,
                     ![n].description = IF c.description = "same" THEN @ ELSE c.description]
                /\ Tell(agents[n].id :> Change("changed", "none", agents[n].version + 1))
                /\ UNCHANGED minted
             \/ UNCHANGED agents /\ Stores
          /\ End(w, "updated")
  /\ UNCHANGED chosen

(* set_agent_state(), by id.                                               *)
Activate(w) ==
  LET rows == HasId(job[w].id) IN
  /\ At(w, "activate", "write")
  /\ IF rows = {} THEN End(w, "raised") /\ UNCHANGED agents /\ Stores
     ELSE \E n \in rows :
            /\ agents' = [agents EXCEPT ![n].state = "active", ![n].version = @ + 1]
            /\ Tell(job[w].id :> Change("changed", "active", agents[n].version + 1))
            /\ UNCHANGED minted /\ End(w, "activated")
  /\ UNCHANGED << files, chosen >>

(* set_selection() and clear_selection().                                  *)
Select(a, n) ==
  LET row == IF chosen[a] = NoRow THEN [id |-> minted + 1, name |-> n, version |-> 1]
             ELSE [chosen[a] EXCEPT !.name = n, !.version = @ + 1] IN
  /\ chosen' = [chosen EXCEPT ![a] = row] /\ minted' = minted + 1
  /\ Tell(row.id :> Change("changed", "none", row.version)) /\ UNCHANGED << files, agents >>

SetDefault(w) ==
  /\ At(w, "set-default", "write")
  /\ Select(job[w].change.account, job[w].name) /\ End(w, "selected")

(* persona use: the file is loaded before the store is opened, and the     *)
(* account must be known.                                                  *)
Use(w, a, n) ==
  /\ IF Loads(n) THEN Ask(w, [op |-> "use", at |-> "write", account |-> a, name |-> n])
     ELSE AskOnce(w, "error")
  /\ UNCHANGED personas /\ Stores

FinishUse(w, known) ==
  /\ At(w, "use", "write")
  /\ IF job[w].account \in known THEN Select(job[w].account, job[w].name)
     ELSE UNCHANGED personas /\ Stores
  /\ End(w, "now speaks as")

UseNone(w, a) ==
  /\ AskOnce(w, "the neutral voice")
  /\ chosen' = [chosen EXCEPT ![a] = NoRow]
  /\ IF chosen[a] = NoRow THEN UNCHANGED told ELSE Tell(chosen[a].id :> Gone)
  /\ UNCHANGED << files, agents, minted >>

(* A person writes, breaks or deletes a file.                              *)
EditFile(w, n, f) ==
  /\ AskOnce(w, "edited") /\ files[n] # f
  /\ files' = [files EXCEPT ![n] = f]
  /\ UNCHANGED << agents, chosen >> /\ Stores

-----------------------------------------------------------------------------
(* resolve_voice(): no selection, and a character that no longer loads, are*)
(* the neutral voice.                                                      *)
Voice(a) == IF chosen[a] # NoRow /\ Loads(chosen[a].name) THEN files[chosen[a].name].prompt ELSE "neutral"
Selection(a) == IF chosen[a] = NoRow THEN "none" ELSE chosen[a].name

Changes ==
  [verb : {"update"}, prompt : Prompts \cup {"same"}, description : Descriptions \cup {"same"}]
  \cup [verb : {"activate"}] \cup [verb : {"set-default"}, account : Speakers]

PersonaStep(w, known) ==
  \/ ReadFiles(w) \/ Reconcile(w) \/ WriteFile(w) \/ HashFile(w) \/ InsertAgent(w) \/ UpdateCharacter(w)
  \/ Activate(w) \/ SetDefault(w) \/ FinishUse(w, known)
  \/ \E n \in Names :
       \/ \E p \in Prompts, d \in Descriptions : CheckFree(w, "create", n, Text(p, d))
       \/ \E c \in Changes, b \in BOOLEAN : ReadAgent(w, n, c, b)
       \/ \E a \in Speakers : Use(w, a, n)
       \/ CheckFree(w, "new", n, NewFile)
       \/ \E p \in Prompts, d \in Descriptions : EditFile(w, n, Text(p, d))
       \/ EditFile(w, n, NoFile)
  \/ \E a \in Speakers : UseNone(w, a)
=============================================================================
