------------------------------ MODULE Settings ------------------------------
(***************************************************************************)
(* What a box is configured with: config.toml (config.py, config_writer.py)*)
(* and .env (env_file.py), and the requests and commands that write them:  *)
(* budgets, integrations, providers, a plugin's settings and secrets       *)
(* through the door, `sadana setup' and `sadana plugin set' from the shell.*)
(* Secrets and providers are written inside a transaction, which one       *)
(* worker at a time holds; budgets, integrations and the shell's writes are*)
(* not.  The door's threads share a cache of the parsed file.              *)
(***************************************************************************)
EXTENDS Requests, Sequences, Functions, FiniteSetsExt

CONSTANTS
  SecretNames,  \* names a secret may have
  ShellNames,   \* those of them the shell sets as well
  Limits,       \* values a budget may have
  Retries       \* values of model_access.max_retries

ASSUME SettingsAssumption ==
  ShellNames \subseteq SecretNames /\ Retries \subseteq Nat

VARIABLES
  disk,       \* inodes that were ever config.toml or its temporary, with their mtime
  toml, tmp,  \* which inode is config.toml, which .config.toml.tmp; 0 is none
  cached,     \* _CONFIG_CACHE of the door's process
  env,        \* .env
  writer,     \* who is inside write_txn
  secrets, providers, singles,  \* the tables: by name, the one wired provider, budgets and integrations
  disturbed   \* a shell wrote .env while another did, or a process died writing it

files  == << disk, toml, tmp, cached >>
tables == << secrets, providers, singles >>
settings == << files, env, writer, tables, disturbed >>

Nobody == "nobody"
Absent == "absent"

(* config.toml by the keys the door writes, and the one a person edits,    *)
(* each with the value it is set to, if any.                               *)
ConfigKeys == {"budgets", "integrations", "providers", "plugin", "max_retries"}
Empty      == [k \in ConfigKeys |-> {}]
Garbled    == << >>   \* does not parse
Inode(data, mtime) == [data |-> data, mtime |-> mtime]
Mtimes     == {disk[i].mtime : i \in DOMAIN disk}
Now        == Max({0} \cup Mtimes) + 1
Wrote(i, data) == disk' = (i :> Inode(data, Now)) @@ disk

NoEnv  == [n \in SecretNames |-> Absent]
NoCache == Inode(Empty, 0)

SettingsInit ==
  /\ disk = << >> /\ toml = 0 /\ tmp = 0 /\ cached = NoCache
  /\ env \in {NoEnv} \cup {[NoEnv EXCEPT ![n] = "shell's"] : n \in ShellNames}
  /\ writer = Nobody /\ disturbed = FALSE
  /\ secrets = [n \in SecretNames |-> NoRow] /\ providers = NoRow
  /\ singles = [noun \in {"budgets", "integrations"} |-> {}]

Begin(w)  == writer = Nobody /\ writer' = w   \* write_txn()
Commit(w) == writer' = Nobody
Raise(w)  == End(w, "refused or raised") /\ writer' = IF writer = w THEN Nobody ELSE writer
SameLedger == UNCHANGED ledger

-----------------------------------------------------------------------------
(* raw_toml(): stat, then the cache or open, read and parse, then the      *)
(* cache.  A file that is not there is an empty configuration.             *)
StatToml(w) ==
  /\ At(w, job[w].op, "stat")
  /\ LET j == job[w] IN
     To(w, IF toml = 0 THEN [j EXCEPT !.at = "open", !.data = Empty]
           ELSE IF cached.mtime = disk[toml].mtime THEN [j EXCEPT !.at = "open", !.data = cached.data]
           ELSE [j EXCEPT !.at = "load", !.mtime = disk[toml].mtime])
  /\ UNCHANGED settings /\ SameLedger

LoadToml(w) ==
  /\ At(w, job[w].op, "load")
  /\ IF disk[toml].data = Garbled
     THEN Raise(w)
     ELSE To(w, [job[w] EXCEPT !.at = "store", !.data = disk[toml].data]) /\ UNCHANGED writer
  /\ UNCHANGED << files, env, tables, disturbed >> /\ SameLedger

\* Mutant of StoreToml: the file is looked at again after it was read.
StoreTomlAfter(w) ==
  /\ At(w, job[w].op, "store")
  /\ cached' = Inode(job[w].data, disk[toml].mtime)
  /\ Go(w, "open")
  /\ UNCHANGED << disk, toml, tmp, env, writer, tables, disturbed >> /\ SameLedger

StoreToml(w) ==
  /\ At(w, job[w].op, "store")
  /\ cached' = Inode(job[w].data, job[w].mtime)
  /\ Go(w, "open")
  /\ UNCHANGED << disk, toml, tmp, env, writer, tables, disturbed >> /\ SameLedger

(* config_writer.write(): the temporary, whose name is always the same, is *)
(* opened and so emptied, then filled, then renamed.  Two writers may have *)
(* the same inode open.                                                    *)
Applied(j) == [j.data EXCEPT ![j.key] = {j.value}]   \* config_writer.apply()

OpenTmp(w) ==
  LET i == IF tmp = 0 THEN Cardinality(DOMAIN disk) + 1 ELSE tmp IN
  /\ At(w, job[w].op, "open")
  /\ tmp' = i /\ Wrote(i, Empty)
  /\ To(w, [job[w] EXCEPT !.at = "fill", !.inode = i])
  /\ UNCHANGED << toml, cached, env, writer, tables, disturbed >> /\ SameLedger

FillTmp(w) ==
  LET j == job[w] IN
  /\ At(w, j.op, "fill")
  /\ \E data \in {Applied(j)} \cup (IF disk[j.inode].data = Empty THEN {} ELSE {Garbled}) : Wrote(j.inode, data)
  /\ Go(w, "rename")
  /\ UNCHANGED << toml, tmp, cached, env, writer, tables, disturbed >> /\ SameLedger

RenameTmp(w) ==
  /\ At(w, job[w].op, "rename")
  /\ IF tmp = 0
     THEN Raise(w) /\ UNCHANGED << toml, tmp >>
     ELSE toml' = tmp /\ tmp' = 0 /\ Go(w, "commit") /\ UNCHANGED writer
  /\ UNCHANGED << disk, cached, env, tables, disturbed >> /\ SameLedger

(* A person edits config.toml; editors replace the file.                   *)
EditToml(w, n) ==
  LET i == Cardinality(DOMAIN disk) + 1
      data == IF toml = 0 \/ disk[toml].data = Garbled THEN Empty ELSE disk[toml].data IN
  /\ AskOnce(w, "edited")
  /\ toml' = i /\ Wrote(i, [data EXCEPT !["max_retries"] = {n}])
  /\ UNCHANGED << tmp, cached, env, writer, tables, disturbed >> /\ SameLedger

(* config.get() and config.secret() of somebody who only reads.            *)
Toml   == IF toml = 0 THEN Empty ELSE IF cached.mtime = disk[toml].mtime THEN cached.data ELSE disk[toml].data
Parses == Toml # Garbled
Get(key, default) == IF Toml[key] = {} THEN default ELSE CHOOSE v \in Toml[key] : TRUE
Secret(n) == env[n]
Exists(n) == Secret(n) # Absent   \* secrets.exists()

-----------------------------------------------------------------------------
(* The budgets and the integrations noun: one row, which is version 0 until*)
(* it is first written.  If-Match is compared with what a reader sees, the *)
(* file written, and then the row, each by itself.                         *)
RowOf(noun) == CHOOSE row \in singles[noun] : TRUE
VersionOf(noun) == IF singles[noun] = {} THEN 0 ELSE RowOf(noun).version

Request(op, key, value, ifMatch, at) ==
  [op |-> op, key |-> key, value |-> value, ifMatch |-> ifMatch, at |-> at, data |-> Empty, mtime |-> 0, inode |-> 0]

PatchSingle(w, noun, value, ifMatch) ==
  /\ IF ifMatch # VersionOf(noun) THEN AskOnce(w, "PRECONDITION_FAILED")
     ELSE Ask(w, Request("single", noun, value, ifMatch, IF noun = "integrations" THEN "refer" ELSE "stat"))
  /\ UNCHANGED settings /\ SameLedger

(* A reference must name a secret that is there when it is asked.          *)
Refer(w) ==
  /\ At(w, job[w].op, "refer")
  /\ IF Exists(job[w].value) THEN Go(w, "stat") /\ UNCHANGED writer
     ELSE Raise(w)
  /\ UNCHANGED << files, env, tables, disturbed >> /\ SameLedger

\* Mutant of Bumped: whether there is a row is not asked inside the transaction.
BumpedBlind(noun) == {[id |-> minted + 1, version |-> 1]} \cup singles[noun]
Bumped(noun) ==
  IF singles[noun] = {} THEN {[id |-> minted + 1, version |-> 1]}
  ELSE {[row EXCEPT !.version = @ + 1] : row \in singles[noun]}

CommitSingle(w) ==
  LET noun == job[w].key  rows == Bumped(noun) IN
  /\ At(w, "single", "commit") /\ writer = Nobody
  /\ singles' = [singles EXCEPT ![noun] = rows] /\ minted' = minted + 1
  /\ Tell([i \in {row.id : row \in rows} |->
             Change("changed", "none", (CHOOSE row \in rows : row.id = i).version)])
  /\ End(w, "patched") /\ UNCHANGED << files, env, writer, secrets, providers, disturbed >>

(* The providers noun: a row for each wired provider, made when anybody    *)
(* lists; its PATCH does everything inside one transaction.                *)
Materialize(w) ==
  /\ At(w, "provider", "materialize") /\ writer = Nobody
  /\ IF providers # NoRow THEN UNCHANGED providers /\ SameLedger
     ELSE providers' = [id |-> minted + 1, version |-> 1] /\ minted' = minted + 1
          /\ Tell(minted + 1 :> Change("created", "none", 1))
  /\ IF job[w].value = "" THEN End(w, "listed") ELSE Go(w, "begin")
  /\ UNCHANGED << files, env, writer, secrets, singles, disturbed >>

ListProviders(w) ==
  Ask(w, Request("provider", "providers", "", 0, "materialize")) /\ UNCHANGED settings /\ SameLedger

PatchProvider(w, ref, ifMatch) ==
  /\ Ask(w, Request("provider", "providers", ref, ifMatch, "materialize"))
  /\ UNCHANGED settings /\ SameLedger

BeginProvider(w) ==
  /\ At(w, "provider", "begin")
  /\ IF job[w].ifMatch # providers.version
     THEN writer = Nobody /\ UNCHANGED writer /\ End(w, "PRECONDITION_FAILED")
     ELSE Begin(w) /\ Go(w, "refer")
  /\ UNCHANGED << files, env, tables, disturbed >> /\ SameLedger

CommitProvider(w) ==
  /\ At(w, "provider", "commit") /\ Commit(w)
  /\ providers' = [providers EXCEPT !.version = @ + 1]
  /\ Tell(providers.id :> Change("changed", "none", providers.version + 1))
  /\ End(w, "patched") /\ UNCHANGED << files, env, secrets, singles, disturbed, minted >>

(* set-settings of a plugin writes config.toml outside of any transaction; *)
(* the row it then writes is the one of PluginSupply.                      *)
SetSettings(w, ref) == Ask(w, Request("plugin", "plugin", ref, 0, "refer")) /\ UNCHANGED settings /\ SameLedger

EndSettings(w) ==
  At(w, "plugin", "commit") /\ End(w, "set") /\ UNCHANGED settings /\ SameLedger

-----------------------------------------------------------------------------
(* Writing .env: it is read, emptied and filled (path_put opens with       *)
(* O_TRUNC).                                                               *)
InShell(w) == job[w].op = "shell"
Writing(w) == job[w].at \in {"empty", "put"}

Upserted(n, v) == [env EXCEPT ![n] = v]
Dropped(n)     == [env EXCEPT ![n] = Absent]

ReadEnv(w) ==
  LET j == job[w]  after == IF j.op = "remove" THEN Dropped(j.name) ELSE Upserted(j.name, j.value) IN
  /\ At(w, j.op, "read")
  /\ To(w, [j EXCEPT !.at = IF j.op = "remove" /\ after = env THEN "commit" ELSE "empty", !.after = after])
  /\ disturbed' = (disturbed \/ \E v \in Workers \ {w} : Writing(v) /\ (InShell(v) \/ InShell(w)))
  /\ UNCHANGED << files, env, writer, tables >> /\ SameLedger

EmptyEnv(w) ==
  /\ At(w, job[w].op, "empty")
  /\ env' = NoEnv /\ Go(w, "put")
  /\ UNCHANGED << files, writer, tables, disturbed >> /\ SameLedger

PutEnv(w) ==
  /\ At(w, job[w].op, "put")
  /\ env' = job[w].after
  /\ IF InShell(w) THEN End(w, "set") ELSE Go(w, "commit")
  /\ UNCHANGED << files, writer, tables, disturbed >> /\ SameLedger

(* sadana setup, sadana plugin set.                                        *)
Secretive(op, n, v, ifMatch, at) ==
  [op |-> op, name |-> n, value |-> v, ifMatch |-> ifMatch, at |-> at, after |-> NoEnv]

ShellSet(w, n) ==
  Ask(w, Secretive("shell", n, "shell's", 0, "read")) /\ UNCHANGED settings /\ SameLedger

(* The secrets noun: the row and the file, inside one transaction.         *)
AskSecret(w, op, n, v, ifMatch) ==
  Ask(w, Secretive(op, n, v, ifMatch, "begin")) /\ UNCHANGED settings /\ SameLedger

Allowed(j) ==
  IF j.op = "create" THEN secrets[j.name] = NoRow
  ELSE secrets[j.name] # NoRow /\ secrets[j.name].version = j.ifMatch

\* Mutant of BeginSecret: the file is written before the transaction begins.
BeginSecretLater(w) ==
  LET j == job[w] IN
  /\ j.op \in {"create", "update", "remove"} /\ j.at = "begin"
  /\ IF ~Allowed(j) THEN writer = Nobody /\ End(w, "refused") /\ UNCHANGED writer
     ELSE UNCHANGED writer /\ Go(w, IF j.op = "update" /\ j.value = Absent THEN "commit" ELSE "read")
  /\ UNCHANGED << files, env, tables, disturbed >> /\ SameLedger

BeginSecret(w) ==
  LET j == job[w] IN
  /\ j.op \in {"create", "update", "remove"} /\ j.at = "begin"
  /\ IF ~Allowed(j) THEN writer = Nobody /\ End(w, "refused") /\ UNCHANGED writer
     ELSE Begin(w) /\ Go(w, IF j.op = "update" /\ j.value = Absent THEN "commit" ELSE "read")
  /\ UNCHANGED << files, env, tables, disturbed >> /\ SameLedger

CommitSecret(w) ==
  LET j == job[w]  n == j.name  row == secrets[n] IN
  /\ j.op \in {"create", "update", "remove"} /\ j.at = "commit"
  /\ Commit(w)
  /\ \/ /\ j.op = "create" /\ minted' = minted + 1
        /\ secrets' = [secrets EXCEPT ![n] = [id |-> minted + 1, version |-> 1]]
        /\ Tell(minted + 1 :> Change("created", "none", 1))
     \/ /\ j.op = "update" /\ UNCHANGED minted
        /\ secrets' = [secrets EXCEPT ![n].version = @ + 1]
        /\ Tell(row.id :> Change("changed", "none", row.version + 1))
     \/ /\ j.op = "remove" /\ UNCHANGED minted
        /\ secrets' = [secrets EXCEPT ![n] = NoRow]
        /\ Tell(row.id :> Gone)
  /\ End(w, "done") /\ UNCHANGED << files, env, providers, singles, disturbed >>

(* A process dies: its transaction is rolled back, its files stay as they  *)
(* are.  The cache goes with the door.                                     *)
Die(w) ==
  /\ Crash(w)
  /\ writer' = (IF writer = w THEN Nobody ELSE writer)
  /\ cached' = NoCache
  /\ disturbed' = (disturbed \/ "name" \in DOMAIN job[w])
  /\ UNCHANGED << disk, toml, tmp, env, tables >> /\ SameLedger

SettingsStep(w) ==
  \/ StatToml(w) \/ LoadToml(w) \/ StoreToml(w) \/ OpenTmp(w) \/ FillTmp(w) \/ RenameTmp(w)
  \/ Refer(w) \/ CommitSingle(w) \/ Materialize(w) \/ BeginProvider(w) \/ CommitProvider(w) \/ EndSettings(w)
  \/ ReadEnv(w) \/ EmptyEnv(w) \/ PutEnv(w) \/ BeginSecret(w) \/ CommitSecret(w)
  \/ \E n \in Retries : EditToml(w, n)
  \/ \E n \in Limits, v \in {VersionOf("budgets"), 0} : PatchSingle(w, "budgets", n, v)
  \/ \E n \in SecretNames :
       \/ \E v \in {VersionOf("integrations"), 0} : PatchSingle(w, "integrations", n, v)
       \/ \E v \in {0, 1} : PatchProvider(w, n, v)
       \/ SetSettings(w, n)
       \/ AskSecret(w, "create", n, "v1", 0)
       \/ \E v \in {"v2", Absent}, m \in {0, 1} : AskSecret(w, "update", n, v, m)
       \/ \E m \in {0, 1} : AskSecret(w, "remove", n, Absent, m)
  \/ \E n \in ShellNames : ShellSet(w, n)
  \/ ListProviders(w) \/ Die(w)
=============================================================================
