----------------------------- MODULE ModelAccess -----------------------------
(***************************************************************************)
(* Asking a model (model_access.py, conversation.py's complete(),          *)
(* context.py's turn_complete()): one attempt after another, each of which *)
(* reads the configuration and the credential anew while Settings changes  *)
(* them, until the reply is something else than a failure worth repeating. *)
(***************************************************************************)
EXTENDS Settings, Wire

CONSTANTS
  ApiKey,          \* the variable the wired provider names
  DefaultRetries,  \* of model_access.max_retries
  Fragments,       \* what a stream may bring of calls
  MaxFragments,    \* bound of the model: length of a stream
  Messages,        \* messages a request may hold
  MaxMessages      \* bound of the model: how many

ASSUME ModelAccessAssumption == ApiKey \in SecretNames /\ DefaultRetries \in Nat

(* What one reply's stream has brought so far, or the messages of one      *)
(* request: of neither does Settings know anything.                        *)
VARIABLE wire

vars == << clerk, ledger, settings, wire >>

Still == [heard |-> << >>, asked |-> << >>]
Fresh == RequestsInit /\ minted = 0 /\ told = << >> /\ SettingsInit
Init  == Fresh /\ wire = Still

Providers == {"openrouter", "unwired", "unknown"}
Purposes  == {"reply", "summary"}

Resolve(w, purpose, provider) ==
  /\ Ask(w, [op |-> "resolve", at |-> "send", purpose |-> purpose, provider |-> provider,
             attempt |-> 0, retries |-> 0, authorised |-> FALSE,
             outcome |-> "none", body |-> "none"])
  /\ UNCHANGED settings /\ SameLedger

Outcome(w, outcome, body) == To(w, [job[w] EXCEPT !.at = "given", !.outcome = outcome, !.body = body])

(* send(): a provider that is not there and a credential that is not there *)
(* are known before anything is sent.                                      *)
Send(w) ==
  LET j == job[w]  retries == Get("max_retries", DefaultRetries) IN
  /\ At(w, "resolve", "send")
  /\ IF j.provider # "openrouter" \/ ~Exists(ApiKey) THEN Outcome(w, "NeedsCredentialOrProviderChange", "none")
     ELSE IF ~Parses THEN End(w, "raised")
     ELSE To(w, [j EXCEPT !.at = "build", !.retries = retries])
  /\ UNCHANGED settings /\ SameLedger

(* _build_request(): the credential the provider's setting names by now.   *)
Build(w) ==
  /\ At(w, "resolve", "build")
  /\ IF ~Parses THEN End(w, "raised")
     ELSE To(w, [job[w] EXCEPT !.at = "reply",
                   !.authorised = LET name == Get("providers", ApiKey) IN name \in SecretNames /\ Exists(name)])
  /\ UNCHANGED settings /\ SameLedger

(* What may come back, 0 being no status at all: a connection that fails,  *)
(* at once or in the middle of a stream.  What a body says is searched for *)
(* the words a provider uses of a request too long, an answer as well as an*)
(* error (_error_message).                                                 *)
Answers   == {"answer", "silence", "answer about length"}
Bodies    == Answers \cup {"error", "error too long", "no tokens"}
Replies   == {r \in [status : {0, 200, 400, 401, 413, 429, 500}, body : Bodies] : r.body \in Answers => r.status = 200}
Transient(r) == r.status \in {0, 429} \/ r.status \in 500 .. 599
TooLong(r)   == r.status = 413 \/ r.body \in {"error too long", "answer about length"}

(* classify(): the first that holds.                                       *)
Classify(r, attempt, retries) ==
  IF r.status \in {401, 403} THEN "NeedsCredentialOrProviderChange"
  ELSE IF Transient(r) THEN IF attempt < retries THEN "Retry" ELSE "Abort"
  ELSE IF TooLong(r) THEN "NeedsContextCompression"
  ELSE IF r.status = 200 THEN IF r.body \in Answers THEN "Response" ELSE "Degenerate"
  ELSE "Abort"

(* resolve() goes on with the next attempt by itself.  A body that is not  *)
(* JSON under a status of 200 raises.                                      *)
Reply(w) ==
  LET j == job[w] IN
  /\ At(w, "resolve", "reply")
  /\ \/ j.authorised /\ End(w, "raised")
     \/ \E r \in Replies :
          /\ ~j.authorised => r.status = 401
          /\ LET outcome == Classify(r, j.attempt, j.retries) IN
             IF outcome = "Retry" THEN To(w, [j EXCEPT !.at = "send", !.attempt = @ + 1])
             ELSE Outcome(w, outcome, r.body)
  /\ UNCHANGED settings /\ SameLedger

(* What complete() raises or returns, and what turn_complete() returns.    *)
Given(j) ==
  IF j.purpose = "summary"
  THEN IF j.outcome = "Response" /\ j.body # "silence" THEN "new_summary_text" ELSE "nothing new"
  ELSE IF j.outcome = "Response" THEN "Completion"
  ELSE IF j.outcome = "NeedsContextCompression" THEN "ContextOverflow" ELSE "ProviderFailure"

Give(w) ==
  At(w, "resolve", "given") /\ End(w, Given(job[w])) /\ UNCHANGED settings /\ SameLedger

(* One more fragment of a stream (parse_stream), one more message of a     *)
(* request.  They share no state with the rest: that they are looked at    *)
(* where nothing else has happened leaves no case out.                     *)
Alone == Fresh /\ UNCHANGED << clerk, ledger, settings >>
Hear(f) ==
  /\ Alone /\ wire.asked = << >> /\ Len(wire.heard) < MaxFragments
  /\ wire' = [wire EXCEPT !.heard = Append(@, f)]
Compose(m) ==
  /\ Alone /\ wire.heard = << >> /\ Len(wire.asked) < MaxMessages
  /\ wire' = [wire EXCEPT !.asked = Append(@, m)]

Next ==
  \/ \E f \in Fragments : Hear(f)
  \/ \E m \in Messages : Compose(m)
  \/ /\ wire = Still /\ UNCHANGED wire
     /\ \E w \in Workers :
          \/ SettingsStep(w)
          \/ \E p \in Purposes, v \in Providers : Resolve(w, p, v)
          \/ Send(w) \/ Build(w) \/ Reply(w) \/ Give(w)

Spec == Init /\ [][Next]_vars

-----------------------------------------------------------------------------
(* The cache of config.toml, shared by the door's threads, never holds     *)
(* something else than the file under the file's own time (config.py,      *)
(* raw_toml): what a thread read before a rename is never taken for what is*)
(* there after it.                                                         *)
CacheTrue ==
  toml # 0 /\ cached.mtime = disk[toml].mtime => cached.data = disk[toml].data

(* A secret with a row has a value, and one without a row that no shell set*)
(* has none (secrets.py), unless a shell or a death came between: two      *)
(* requests at once never write one another's value away.                  *)
AtRest(n) == \A w \in Workers : ~Writing(w) /\ (At(w, job[w].op, "commit") => "name" \notin DOMAIN job[w])
SecretHeld ==
  ~disturbed => \A n \in SecretNames : AtRest(n) =>
    /\ secrets[n] # NoRow => Exists(n)
    /\ secrets[n] = NoRow /\ n \notin ShellNames => ~Exists(n)

(* A mirror that follows the ledger holds the row of every secret, of the  *)
(* provider, of the budgets and of the integrations, with its version:     *)
(* there is one budgets row however many asked for the first at once       *)
(* (budgets.py, update).                                                   *)
Rows == {secrets[n] : n \in SecretNames} \cup {providers} \cup singles["budgets"] \cup singles["integrations"]
SettingsTold ==
  /\ \A noun \in DOMAIN singles : Cardinality(singles[noun]) <= 1
  /\ {i \in DOMAIN told : told[i].kind # "deleted"} = {row.id : row \in Rows} \ {0}
  /\ \A row \in Rows \ {NoRow} : told[row.id].version = row.version

(* The calls of a reply, however their fragments were mixed in the stream: *)
(* each is what its own fragments say, all have ids of their own, one that *)
(* came with an id nobody had before keeps it, and what came first does not*)
(* depend on what came later (conversation.py, _resolve_tool_calls: the ids*)
(* must be those of the last time, or no prompt is cached); without        *)
(* duplicates no two ask the same.                                         *)
Of(fragments, i) == SelectSeq(fragments, LAMBDA f : f.index = i)
CallsRight ==
    LET fragments == wire.heard  raw == Assembled(fragments)
        calls == ResolveToolCalls(raw)  unique == Deduplicated(calls) IN
    /\ raw = FoldLeft(LAMBDA done, i : done \o Assembled(Of(fragments, i)), << >>,
                      SetToSortSeq({fragments[k].index : k \in DOMAIN fragments}, LAMBDA i, j : i < j))
    /\ \A k \in DOMAIN calls : \A l \in 1 .. k - 1 : calls[l].id # calls[k].id
    /\ \A k \in DOMAIN calls : calls[k].name = NameOf(raw[k])
         /\ (raw[k].id # NoId /\ (\A l \in 1 .. k - 1 : calls[l].id # raw[k].id) => calls[k].id = raw[k].id)
    /\ calls # << >> => ResolveToolCalls(Front(raw)) = Front(calls)
    /\ \A k \in DOMAIN unique : \A l \in 1 .. k - 1 : ~Same(unique[l], unique[k])
    /\ \A k \in DOMAIN calls : \E l \in DOMAIN unique : Same(unique[l], calls[k])

(* The marks of the cache boundary are on the last messages that can carry *)
(* one, as many as were asked for if there are as many, and the system's   *)
(* prefix; nothing else is touched (model_access.py, mark_cache_boundary). *)
Hints     == [prefix : 0 .. 3, trailing : 0 .. 3]
MarksLast ==
  LET ms == wire.asked IN
  \A hint \in Hints :
    LET sent == MarkBoundary(ms, hint)
        able == {i \in DOMAIN ms : CanCarry(ms[i]) /\ i # SystemIndex(ms)}
        last == {i \in DOMAIN ms : sent[i].marked = "last part"} IN
    /\ last \subseteq able /\ Cardinality(last) = Min({hint.trailing, Cardinality(able)})
    /\ \A i \in last, k \in able \ last : k < i
    /\ \A i \in DOMAIN ms : [sent[i] EXCEPT !.marked = "none"] = ms[i]

(* What goes out and what comes in are marked and named as the provider    *)
(* and the cache of prompts need it.                                       *)
WireRight == CallsRight /\ MarksLast

-----------------------------------------------------------------------------
(* config.toml is never seen half written (config_writer.py, write: "never *)
(* a partial write").                                                      *)
NeverPartial == toml # 0 => disk[toml].data \notin {Empty, Garbled}
=============================================================================
