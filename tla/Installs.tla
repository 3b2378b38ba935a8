------------------------------ MODULE Installs ------------------------------
(***************************************************************************)
(* Putting plugins on the disk and keeping the index of them               *)
(* (plugin_install.py, builtin_seed.py, the door's plugins noun): names    *)
(* are registered, a tag is fetched, verified and swapped into the plugins *)
(* root, shipped plugins are copied there, and plugin_state follows the    *)
(* directory.  Commands and requests run in processes of their own and     *)
(* interleave at every rename and every transaction; any of them may die.  *)
(* `commands' counts them, with those of Marketplace.                      *)
(***************************************************************************)
EXTENDS GitRemote, Functions

CONSTANTS
  Names,       \* names plugin_dir accepts, which are also directories
  OtherNames,  \* names it refuses
  Shipped,     \* the plugins inside the package, a subset of Names
  Stagings,    \* names mkdtemp makes for the directory builtin_seed copies into
  Workers,     \* processes and threads that run one command at a time
  MaxCommands  \* bound of the model: commands and requests

ASSUME InstallsAssumption ==
  /\ Names \cap OtherNames = {} /\ Shipped \subseteq Names /\ Stagings \cap (Names \cup OtherNames) = {}
  /\ MaxCommands \in Nat

VARIABLES
  registry,  \* plugin_registry: the repository a name means
  tree,      \* the plugins root: what each directory holds
  index,     \* plugin_state, by name
  minted,    \* ids make_id has made for rows of plugin_state
  ledger,    \* the last change announced of each of those ids
  job,       \* what each worker is doing
  commands,  \* commands and requests so far
  crashes    \* deaths of a process so far

installs == << registry, tree, index, minted, ledger, job, crashes >>

Dirs     == Names \cup Stagings
Absent   == [rev |-> Nothing, valid |-> FALSE]
Present  == {n \in Dirs : tree[n] # Absent}
NoRow    == [id |-> 0, state |-> "none", tag |-> Nothing, version |-> 0]
Rows     == {n \in Dirs : index[n] # NoRow}
NoJob    == [op |-> "none", at |-> "end"]
States   == {"installed", "error", "disabled"}

(* Earlier commands have left names registered, and plugins installed or   *)
(* switched off.                                                           *)
InstallsInit ==
  /\ registry \in [Names -> Repos \cup {Nothing}]
  /\ \E H \in SUBSET Names : \E s \in [H -> {"installed", "disabled"}] :
       /\ tree = [n \in Dirs |-> IF n \in H THEN [rev |-> n, valid |-> TRUE] ELSE Absent]
       /\ minted = Cardinality(H)
       /\ \E ids \in Injection(H, 1 .. minted) :
            /\ index = [n \in Dirs |-> IF n \in H
                 THEN [id |-> ids[n], state |-> s[n], tag |-> Nothing, version |-> 1] ELSE NoRow]
            /\ ledger = [i \in 1 .. minted |-> [kind |-> "changed", version |-> 1,
                 state |-> CHOOSE x \in States : \E n \in H : ids[n] = i /\ s[n] = x]]
  /\ job = [w \in Workers |-> NoJob]
  /\ commands = 0 /\ crashes = 0

(* Steps of a command that has begun.                                      *)
To(w, j)         == job' = [job EXCEPT ![w] = j]
Go(w, at)        == To(w, [job[w] EXCEPT !.at = at])
Finish(w, what)  == To(w, NoJob)   \* what the caller is told, for the reader
At(w, op, at)    == job[w].op \in op /\ job[w].at = at
Files            == UNCHANGED << registry, tree, index, minted, ledger >>
Quietly          == UNCHANGED << commands, crashes, mishaps >>
Command(w)       == /\ job[w].op = "none" /\ commands < MaxCommands
                    /\ commands' = commands + 1 /\ UNCHANGED << crashes, mishaps >>

(* register(): a name is recorded once and never repointed.                *)
Register(w, n, r) ==
  /\ Command(w)
  /\ IF n \in OtherNames THEN Finish(w, "InvalidName") /\ UNCHANGED registry
     ELSE IF registry[n] # Nothing THEN Finish(w, "NameTaken") /\ UNCHANGED registry
     ELSE Finish(w, "Registered") /\ registry' = [registry EXCEPT ![n] = r]
  /\ UNCHANGED << tree, index, minted, ledger >>

-----------------------------------------------------------------------------
(* install() up to the fetch: everything is checked that can be before it. *)
Install(w, n, t, replace) ==
  /\ Command(w)
  /\ IF t \in BadTags THEN Finish(w, "FetchFailed")
     ELSE IF n \in OtherNames THEN Finish(w, "InvalidName")
     ELSE IF registry[n] = Nothing THEN Finish(w, "UnknownPluginName")
     ELSE IF n \in Present /\ ~replace THEN Finish(w, "AlreadyInstalled")
     ELSE To(w, [op |-> "install", at |-> "resolve", repo |-> registry[n], tag |-> t,
                 name |-> n, expect |-> n, replace |-> replace, rev |-> Nothing, aside |-> Absent])
  /\ Files

(* install_from_git() as the door's create calls it: the name is not known *)
(* before the fetch.  Its act, install-from-git, expects the name of the   *)
(* row and replaces it.                                                    *)
InstallFromGit(w, r, t, expect) ==
  /\ Command(w)
  /\ expect # Nothing => expect \in Rows
  /\ IF t \in BadTags THEN Finish(w, "FetchFailed")
     ELSE To(w, [op |-> "from_git", at |-> "resolve", repo |-> r, tag |-> t, name |-> expect,
                 expect |-> expect, replace |-> expect # Nothing, rev |-> Nothing, aside |-> Absent])
  /\ Files

Placing == {"install", "from_git"}

(* _resolve_tag_commit(): the commit the tag names before it is cloned.    *)
Resolve(w) ==
  /\ At(w, Placing, "resolve")
  /\ \E c \in ResolveTag(job[w].repo, job[w].tag) :
       IF c = Nothing THEN Finish(w, "FetchFailed")
       ELSE To(w, [job[w] EXCEPT !.at = "clone", !.rev = c])
  /\ Files /\ Quietly

(* The clone and the comparison of what it checked out.                    *)
Clone(w) ==
  /\ At(w, Placing, "clone")
  /\ \E f \in CloneTag(job[w].repo, job[w].tag, job[w].rev) :
       IF f.outcome = "FetchedTag" THEN To(w, [job[w] EXCEPT !.at = "check", !.rev = f.revision])
       ELSE Finish(w, f.outcome)
  /\ Files /\ Quietly

\* Mutant of Check: the name of a fetched plugin is taken as it comes.
CheckNameless(w) ==
  LET j == job[w]  m == Manifest[j.rev] IN
  /\ At(w, Placing, "check")
  /\ IF ~m.parses THEN Finish(w, "FetchFailed")
     ELSE IF j.op = "install" \/ j.expect # Nothing THEN Go(w, "aside")
     ELSE IF m.name \in OtherNames THEN Finish(w, "InvalidName")
     ELSE To(w, [j EXCEPT !.at = "aside", !.name = m.name])
  /\ Files /\ Quietly

(* The rest of _fetch_and_verify_name(), and what install_from_git() can   *)
(* only check once it knows the name.                                      *)
Check(w) ==
  LET j == job[w]  m == Manifest[j.rev] IN
  /\ At(w, Placing, "check")
  /\ IF ~m.parses THEN Finish(w, "FetchFailed")
     ELSE IF j.expect # Nothing /\ m.name # j.expect THEN Finish(w, "NameMismatch")
     ELSE IF j.op = "install" THEN Go(w, "aside")
     ELSE IF m.name \in OtherNames THEN Finish(w, "InvalidName")
     ELSE IF m.name \in Present /\ ~j.replace THEN Finish(w, "AlreadyInstalled")
     ELSE To(w, [j EXCEPT !.at = "aside", !.name = m.name])
  /\ Files /\ Quietly

(* _place_atomically(), first rename: what is there is moved into the      *)
(* temporary directory, whose content nobody else looks at.                *)
Aside(w) ==
  LET n == job[w].name IN
  /\ At(w, Placing, "aside")
  /\ \/ /\ To(w, [job[w] EXCEPT !.at = "place", !.aside = tree[n]])
        /\ tree' = [tree EXCEPT ![n] = Absent] /\ UNCHANGED mishaps
     \/ /\ n \in Present /\ Mishap /\ Finish(w, "FetchFailed") /\ UNCHANGED tree
  /\ UNCHANGED << registry, index, minted, ledger, commands, crashes >>

\* Mutant of Place: a rename that fails is only reported.
PlaceOrGiveUp(w) ==
  LET j == job[w] IN
  /\ At(w, Placing, "place")
  /\ \/ /\ j.name \notin Present
        /\ tree' = [tree EXCEPT ![j.name] = [rev |-> j.rev, valid |-> Manifest[j.rev].valid]]
        /\ Go(w, "record") /\ UNCHANGED mishaps
     \/ /\ \/ j.name \in Present /\ UNCHANGED mishaps
           \/ Mishap
        /\ Finish(w, "FetchFailed") /\ UNCHANGED tree
  /\ UNCHANGED << registry, index, minted, ledger, commands, crashes >>

(* Second rename.  A directory that has appeared at the target makes it    *)
(* fail, as the disk may.                                                  *)
Place(w) ==
  LET j == job[w] IN
  /\ At(w, Placing, "place")
  /\ \/ /\ j.name \notin Present
        /\ tree' = [tree EXCEPT ![j.name] = [rev |-> j.rev, valid |-> Manifest[j.rev].valid]]
        /\ Go(w, "record") /\ UNCHANGED mishaps
     \/ /\ \/ j.name \in Present /\ UNCHANGED mishaps
           \/ Mishap
        /\ IF j.aside = Absent THEN Finish(w, "FetchFailed") ELSE Go(w, "rollback")
        /\ UNCHANGED tree
  /\ UNCHANGED << registry, index, minted, ledger, commands, crashes >>

(* What has appeared at the target is removed ...                          *)
Rollback(w) ==
  /\ At(w, Placing, "rollback")
  /\ tree' = [tree EXCEPT ![job[w].name] = Absent] /\ Go(w, "restore")
  /\ UNCHANGED << registry, index, minted, ledger >> /\ Quietly

(* ... and what was there is put back, unless something appeared again:    *)
(* then the rename raises and the old copy goes with the temporary         *)
(* directory.                                                              *)
Restore(w) ==
  LET j == job[w] IN
  /\ At(w, Placing, "restore")
  /\ IF j.name \in Present THEN Finish(w, "raised") /\ UNCHANGED tree
     ELSE tree' = [tree EXCEPT ![j.name] = j.aside] /\ Finish(w, "FetchFailed")
  /\ UNCHANGED << registry, index, minted, ledger >> /\ Quietly

-----------------------------------------------------------------------------
(* Rows of plugin_state and their announcement, in one transaction.        *)
Announce(id, kind, state, version) ==
  [i \in DOMAIN ledger \cup {id} |->
     IF i = id THEN [kind |-> kind, state |-> state, version |-> version] ELSE ledger[i]]

(* _record_installed(): an upsert that leaves the state alone.             *)
Recorded(n, t) ==
  IF index[n] = NoRow THEN [id |-> minted + 1, state |-> "installed", tag |-> t, version |-> 1]
  ELSE [index[n] EXCEPT !.tag = t, !.version = @ + 1]

RecordInstalled(w) ==
  LET n == job[w].name  row == Recorded(n, job[w].tag) IN
  /\ At(w, Placing, "record")
  /\ index' = [index EXCEPT ![n] = row] /\ minted' = minted + 1
  /\ ledger' = Announce(row.id, IF index[n] = NoRow THEN "created" ELSE "changed", row.state, row.version)
  /\ Finish(w, "Installed") /\ UNCHANGED << registry, tree >> /\ Quietly

-----------------------------------------------------------------------------
(* reconcile_plugin_state(), at every opening of the store by a process    *)
(* that takes turns: the directory is read, then the rows, and only a      *)
(* difference is written.                                                  *)
FoundIn(disk) == [n \in {m \in Dirs : disk[m] # Absent} |->
                    IF disk[n].valid THEN "installed" ELSE "error"]
KnownIn(rows) == [n \in {m \in Dirs : rows[m] # NoRow} |-> rows[n]]
Overruled(row, state) == row.state \notin {"disabled", state}
Differs(found, known) ==
  \/ DOMAIN found # DOMAIN known
  \/ \E n \in DOMAIN known : Overruled(known[n], found[n])

(* What the writing leaves in the table and tells the ledger, given what   *)
(* was read: an INSERT that meets a row fails the whole, an UPDATE or      *)
(* DELETE finds its row by id or does nothing.                             *)
Inserted(found, known) == DOMAIN found \ DOMAIN known
Updated(found, known)  == {n \in DOMAIN found \cap DOMAIN known : Overruled(known[n], found[n])}
Deleted(found, known)  == DOMAIN known \ DOMAIN found
NewIds(new) == CHOOSE f \in Injection(new, minted + 1 .. minted + Cardinality(new)) : TRUE

Reconciled(found, known, rows) ==
  LET ids == NewIds(Inserted(found, known)) IN
  [n \in Dirs |->
     IF n \in Inserted(found, known)
       THEN [id |-> ids[n], state |-> found[n], tag |-> Nothing, version |-> 1]
     ELSE IF n \notin DOMAIN known \/ rows[n].id # known[n].id THEN rows[n]
     ELSE IF n \in Updated(found, known) THEN [rows[n] EXCEPT !.state = found[n], !.version = @ + 1]
     ELSE IF n \in Deleted(found, known) THEN NoRow
     ELSE rows[n]]

\* Mutant of AnnouncedBy: a change always says installed.
AnnouncedInstalled(found, known) ==
  LET new  == Inserted(found, known)  ids == NewIds(new) IN
  [i \in DOMAIN ledger \cup {ids[n] : n \in new} |->
     IF \E n \in new : ids[n] = i THEN [kind |-> "created", state |-> found[CHOOSE n \in new : ids[n] = i], version |-> 1]
     ELSE IF \E n \in Updated(found, known) : known[n].id = i
       THEN [kind |-> "changed", state |-> "installed", version |-> ledger[i].version + 1]
     ELSE IF \E n \in Deleted(found, known) : known[n].id = i
       THEN [kind |-> "deleted", state |-> "none", version |-> 0]
     ELSE ledger[i]]

AnnouncedBy(found, known) ==
  LET new  == Inserted(found, known)  ids == NewIds(new)
      byId == [n \in DOMAIN known |-> known[n].id]
      says == {[id |-> ids[n], kind |-> "created", state |-> found[n], version |-> 1] : n \in new}
        \cup {[id |-> byId[n], kind |-> "changed", state |-> found[n], version |-> known[n].version + 1] :
                n \in Updated(found, known)}
        \cup {[id |-> byId[n], kind |-> "deleted", state |-> "none", version |-> 0] :
                n \in Deleted(found, known)}
      said(i) == CHOOSE x \in says : x.id = i
  IN  [i \in DOMAIN ledger \cup {x.id : x \in says} |->
         IF \E x \in says : x.id = i
           THEN [kind |-> said(i).kind, state |-> said(i).state, version |-> said(i).version]
           ELSE ledger[i]]

Reconcile(w) ==
  /\ Command(w) /\ To(w, [op |-> "reconcile", at |-> "compare", found |-> FoundIn(tree)]) /\ Files

Compare(w) ==
  LET known == KnownIn(index) IN
  /\ At(w, {"reconcile"}, "compare")
  /\ IF Differs(job[w].found, known)
       THEN To(w, [op |-> "reconcile", at |-> "write", found |-> job[w].found, known |-> known])
       ELSE Finish(w, "opened")
  /\ Files /\ Quietly

WriteIndex(w) ==
  LET found == job[w].found  known == job[w].known IN
  /\ At(w, {"reconcile"}, "write")
  /\ IF Inserted(found, known) \cap Rows # {} THEN Finish(w, "raised") /\ UNCHANGED << index, minted, ledger >>
     ELSE /\ index' = Reconciled(found, known, index)
          /\ minted' = minted + Cardinality(Inserted(found, known))
          /\ ledger' = AnnouncedBy(found, known) /\ Finish(w, "opened")
  /\ UNCHANGED << registry, tree >> /\ Quietly

-----------------------------------------------------------------------------
(* seed(): a shipped plugin that is missing is copied beside its place,    *)
(* where a scan sees it under a name of its own, and renamed into it.      *)
Seed(w, n) ==
  /\ Command(w)
  /\ IF n \in Present THEN Finish(w, "seeded") ELSE To(w, [op |-> "seed", at |-> "copy", name |-> n])
  /\ Files

Copy(w) ==
  /\ At(w, {"seed"}, "copy")
  /\ \E tmp \in Stagings \ Present :
       /\ tree' = [tree EXCEPT ![tmp] = [rev |-> job[w].name, valid |-> FALSE]]
       /\ To(w, [op |-> "seed", at |-> "rename", name |-> job[w].name, tmp |-> tmp])
  /\ UNCHANGED << registry, index, minted, ledger >> /\ Quietly

Rename(w) ==
  LET n == job[w].name  tmp == job[w].tmp IN
  /\ At(w, {"seed"}, "rename")
  /\ \/ /\ n \notin Present
        /\ tree' = [tree EXCEPT ![n] = [rev |-> n, valid |-> TRUE], ![tmp] = Absent]
        /\ Finish(w, "seeded") /\ UNCHANGED mishaps
     \/ /\ \/ n \in Present /\ UNCHANGED mishaps
           \/ Mishap
        /\ tree' = [tree EXCEPT ![tmp] = Absent] /\ Finish(w, "raised")
  /\ UNCHANGED << registry, index, minted, ledger, commands, crashes >>

-----------------------------------------------------------------------------
(* The door's actions on a row.  The router reads the row and checks the   *)
(* state an action may come from; act() and _set_settings() read it again, *)
(* and set_state() writes what they made of it, in a transaction.          *)
FromStates(action) == CASE action = "disable" -> {"installed"} [] action = "enable" -> {"disabled"}
                        [] OTHER -> States
ToState(action, row) == CASE action = "disable" -> "disabled" [] action = "enable" -> "installed"
                          [] OTHER -> row.state

Act(w, n, action) ==
  /\ Command(w)
  /\ IF n \notin Rows THEN Finish(w, "NOT_FOUND")
     ELSE IF index[n].state \notin FromStates(action) THEN Finish(w, "INVALID_STATE")
     ELSE To(w, [op |-> "act", at |-> "decide", id |-> index[n].id, action |-> action,
                 version |-> index[n].version])
  /\ Files

HasId(id) == {n \in Rows : index[n].id = id}

Decide(w) ==
  LET j == job[w] IN
  /\ At(w, {"act"}, "decide")
  /\ IF HasId(j.id) = {} THEN Finish(w, "NOT_FOUND")
     ELSE \E n \in HasId(j.id), matched \in BOOLEAN :
            IF matched /\ index[n].version # j.version THEN Finish(w, "PRECONDITION_FAILED")
            ELSE To(w, [op |-> "act", at |-> "write", id |-> j.id, to |-> ToState(j.action, index[n]),
                        action |-> j.action])
  /\ Files /\ Quietly

SetState(w) ==
  LET j == job[w] IN
  /\ At(w, {"act"}, "write")
  /\ IF HasId(j.id) = {} THEN Finish(w, "vanished") /\ UNCHANGED << index, ledger >>
     ELSE \E n \in HasId(j.id) :
            LET row == [index[n] EXCEPT !.state = j.to, !.version = @ + 1] IN
            /\ index' = [index EXCEPT ![n] = row]
            /\ ledger' = Announce(row.id, "changed", row.state, row.version)
            /\ Finish(w, "acted")
  /\ UNCHANGED << registry, tree, minted >> /\ Quietly

-----------------------------------------------------------------------------
(* A person, or the editor, changes a plugin's files so that they validate *)
(* or no longer do.                                                        *)
EditFiles(n) ==
  /\ n \in Present /\ Mishap
  /\ tree' = [tree EXCEPT ![n].valid = ~@]
  /\ UNCHANGED << registry, index, minted, ledger, job, commands, crashes >>

(* A process dies.  What its temporary directories hold stays on the disk, *)
(* and of it only what lies in the plugins root itself is seen again.      *)
Crash(w) ==
  /\ job[w].op # "none" /\ Mishap /\ crashes' = crashes + 1
  /\ To(w, NoJob) /\ Files /\ UNCHANGED commands

Places(w)   == Resolve(w) \/ Clone(w) \/ Check(w) \/ Aside(w) \/ Place(w) \/ Rollback(w)
                 \/ Restore(w) \/ RecordInstalled(w)
Proceeds(w) == Places(w) \/ Compare(w) \/ WriteIndex(w) \/ Copy(w) \/ Rename(w) \/ Decide(w) \/ SetState(w)

InstallsNext ==
  \/ \E w \in Workers :
       \/ \E n \in Names \cup OtherNames, r \in Repos : Register(w, n, r)
       \/ \E n \in Names \cup OtherNames, t \in Tags, b \in BOOLEAN : Install(w, n, t, b)
       \/ \E r \in Repos, t \in Tags, n \in Names \cup {Nothing} : InstallFromGit(w, r, t, n)
       \/ Proceeds(w) \/ Reconcile(w) \/ Crash(w)
       \/ \E n \in Shipped : Seed(w, n)
       \/ \E n \in Names, a \in {"disable", "enable", "set-settings"} : Act(w, n, a)
  \/ \E n \in Names : EditFiles(n)
=============================================================================
