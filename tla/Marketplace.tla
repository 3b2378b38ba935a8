----------------------------- MODULE Marketplace -----------------------------
(***************************************************************************)
(* Releases submitted for review (marketplace.py), by command or by the    *)
(* webhook (marketplace_webhook.py), the reviewers' decisions, and the     *)
(* door's inspections of a tag (door/nouns/inspections.py).  `now' is read *)
(* before the clone, so that a slow clone is inserted with an early time:  *)
(* the number of the submission stands for it.  A decision reads the status*)
(* and writes in two steps.                                                *)
(***************************************************************************)
EXTENDS GitRemote

CONSTANTS
  Submitters,     \* threads and processes that submit, inspect or decide
  MaxSubmissions  \* bound of the model: submissions, decisions and inspections

ASSUME MarketplaceAssumption ==
  MaxSubmissions \in Nat

VARIABLES
  releases,     \* marketplace_releases, by name and tag
  inspections,  \* the table of the same name
  day,          \* the day it is, each further from the last than the retention
  sweptOn,      \* _last_swept_day of the door's process
  hand,         \* what each submitter or reviewer is doing
  submissions   \* submissions, decisions and inspections so far

market == << releases, inspections, day, sweptOn, hand, submissions >>

Idle     == [op |-> "idle", at |-> "end"]
Never    == 0 - 1
PluginNames == {Manifest[c].name : c \in Commits}

MarketplaceInit ==
  /\ releases = << >> /\ inspections = {} /\ day = 0 /\ sweptOn = Never
  /\ hand = [s \in Submitters |-> Idle] /\ submissions = 0

Hand(s, h)  == hand' = [hand EXCEPT ![s] = h]
Done(s)     == Hand(s, Idle)
Does(s, op, at) == hand[s].op \in op /\ hand[s].at = at
Asked(s)    == /\ hand[s].op = "idle" /\ submissions < MaxSubmissions
               /\ submissions' = submissions + 1 /\ UNCHANGED << day, mishaps >>
Later       == UNCHANGED << day, submissions, mishaps >>
Tables      == UNCHANGED << releases, inspections, sweptOn >>

(* submit() and the create of the inspections noun begin alike: the tag is *)
(* fetched and its plugin.toml read, never run.                            *)
Begin(s, op, r, t) ==
  /\ Asked(s) /\ Hand(s, [op |-> op, at |-> "resolve", repo |-> r, tag |-> t, now |-> submissions,
                          rev |-> Nothing, verdict |-> "none"])
  /\ Tables

Submit(s, r, t)  == Begin(s, "submit", r, t)
Inspect(s, r, t) == Begin(s, "inspect", r, t)

(* A request to the webhook submits what parse_webhook_request() lets      *)
(* through: the secret is compared before the body is looked at.           *)
Requests == [secret : BOOLEAN, wellFormed : BOOLEAN, repo : Repos, tag : Tags]
Parsed(q) == IF ~q.secret THEN "WebhookUnauthorized"
             ELSE IF ~q.wellFormed THEN "WebhookBadRequest" ELSE "ReleaseSubmission"
Webhook(s, q) == Parsed(q) = "ReleaseSubmission" /\ Submit(s, q.repo, q.tag)

Fetching == {"submit", "inspect"}

ResolveRelease(s) ==
  /\ Does(s, Fetching, "resolve")
  /\ \E c \in ResolveTag(hand[s].repo, hand[s].tag) :
       Hand(s, IF c = Nothing THEN [hand[s] EXCEPT !.at = "write", !.verdict = "FetchFailed"]
               ELSE [hand[s] EXCEPT !.at = "clone", !.rev = c])
  /\ Tables /\ Later

(* What inspect_tag() makes of the clone before it discards it.            *)
VerdictOn(c) == IF Manifest[c].valid THEN "Inspected"
                ELSE IF Manifest[c].parses THEN "InvalidManifest" ELSE "Unreadable"

CloneRelease(s) ==
  /\ Does(s, Fetching, "clone")
  /\ \E f \in CloneTag(hand[s].repo, hand[s].tag, hand[s].rev) :
       Hand(s, [hand[s] EXCEPT !.at = "write", !.rev = f.revision,
                  !.verdict = IF f.outcome = "FetchedTag" THEN VerdictOn(f.revision) ELSE f.outcome])
  /\ Tables /\ Later

-----------------------------------------------------------------------------
Keys        == PluginNames \X Tags
Release(h, status, reason) ==
  [repo |-> h.repo, rev |-> h.rev, status |-> status, reason |-> reason, at |-> h.now, decided |-> Never]
Filed(key, row) == [k \in DOMAIN releases \cup {key} |-> IF k = key THEN row ELSE releases[k]]

(* _owning_repo_url(): the repository of the earliest row of a name.       *)
RowsOf(name)  == {releases[k] : k \in {l \in DOMAIN releases : l[1] = name}}
Earliest(R)   == CHOOSE row \in R : \A other \in R : row.at <= other.at
Owner(name)   == IF RowsOf(name) = {} THEN Nothing ELSE Earliest(RowsOf(name)).repo

(* _claim_release(): who owns the name is read and the row inserted in one *)
(* transaction.                                                            *)
Claim(h) ==
  LET key == << Manifest[h.rev].name, h.tag >> IN
  IF Owner(key[1]) \notin {Nothing, h.repo} \/ key \in DOMAIN releases THEN releases
  ELSE Filed(key, Release(h, "pending", FALSE))

(* A plugin.toml that parses and is not a plugin's is filed as rejected;   *)
(* nobody asks who owns the name.                                          *)
Reject(h) ==
  LET key == << Manifest[h.rev].name, h.tag >> IN
  IF key \in DOMAIN releases THEN releases ELSE Filed(key, Release(h, "rejected", TRUE))

FileRelease(s) ==
  LET h == hand[s] IN
  /\ Does(s, {"submit"}, "write")
  /\ releases' = CASE h.verdict = "Inspected"       -> Claim(h)
                   [] h.verdict = "InvalidManifest" -> Reject(h)
                   [] OTHER                         -> releases
  /\ Done(s) /\ UNCHANGED << inspections, sweptOn >> /\ Later

-----------------------------------------------------------------------------
(* An inspection is kept whatever it found; the first of a day sweeps away *)
(* those past the retention, a time that is remembered only in the process.*)
Inspection(h) ==
  [repo |-> h.repo, tag |-> h.tag, day |-> day,
   rev   |-> IF h.verdict \in {"FetchFailed", "TagMismatch"} THEN Nothing ELSE h.rev,
   state |-> IF h.verdict = "Inspected" THEN "ok" ELSE "failed"]

FileInspection(s) ==
  /\ Does(s, {"inspect"}, "write")
  /\ inspections' = {Inspection(hand[s])} \cup
       (IF sweptOn = day THEN inspections ELSE {i \in inspections : i.day = day})
  /\ sweptOn' = day
  /\ Done(s) /\ UNCHANGED releases /\ Later

-----------------------------------------------------------------------------
\* Mutant of Review: whatever has not been approved can be.
ReviewUndecided(s, key, decision, reason) ==
  /\ Asked(s)
  /\ IF decision = "rejected" /\ ~reason THEN Done(s)
     ELSE IF key \notin DOMAIN releases THEN Done(s)
     ELSE IF releases[key].status = "approved" THEN Done(s)
     ELSE Hand(s, [op |-> "decide", at |-> "write", key |-> key, decision |-> decision, reason |-> reason,
                  now |-> submissions])
  /\ Tables

(* decide(): the status is read, and the row written, with nothing held    *)
(* in between.                                                             *)
Review(s, key, decision, reason) ==
  /\ Asked(s)
  /\ IF decision = "rejected" /\ ~reason THEN Done(s)
     ELSE IF key \notin DOMAIN releases THEN Done(s)
     ELSE IF releases[key].status # "pending" THEN Done(s)
     ELSE Hand(s, [op |-> "decide", at |-> "write", key |-> key, decision |-> decision, reason |-> reason,
                  now |-> submissions])
  /\ Tables

WriteDecision(s) ==
  LET h == hand[s] IN
  /\ Does(s, {"decide"}, "write")
  /\ releases' = [releases EXCEPT ![h.key].status = h.decision, ![h.key].reason = h.reason,
                                  ![h.key].decided = h.now]
  /\ Done(s) /\ UNCHANGED << inspections, sweptOn >> /\ Later

Tick ==
  /\ Mishap /\ day' = day + 1
  /\ UNCHANGED << releases, inspections, sweptOn, hand, submissions >>

(* The door, or a command, dies and is started again.                      *)
Restart ==
  /\ Mishap
  /\ hand' = [s \in Submitters |-> Idle] /\ sweptOn' = Never
  /\ UNCHANGED << releases, inspections, day, submissions >>

MarketplaceNext ==
  \/ \E s \in Submitters :
       \/ \E r \in Repos, t \in Tags : Submit(s, r, t) \/ Inspect(s, r, t)
       \/ \E q \in Requests : Webhook(s, q)
       \/ ResolveRelease(s) \/ CloneRelease(s) \/ FileRelease(s) \/ FileInspection(s) \/ WriteDecision(s)
       \/ \E k \in Keys, d \in {"approved", "rejected"}, b \in BOOLEAN :
            (d = "approved" => ~b) /\ Review(s, k, d, b)
  \/ Tick \/ Restart

-----------------------------------------------------------------------------
(* What a browser of the marketplace is shown.                             *)
LatestApproved(name) ==
  {k \in DOMAIN releases : /\ k[1] = name /\ releases[k].status = "approved"
     /\ \A l \in DOMAIN releases : l[1] = name /\ releases[l].status = "approved"
                                     => releases[l].decided <= releases[k].decided}
ApprovedPluginNames == {k[1] : k \in {l \in DOMAIN releases : releases[l].status = "approved"}}
=============================================================================
