------------------------------ MODULE GitRemote ------------------------------
(***************************************************************************)
(* The repositories plugins come from, as this program sees them through   *)
(* git (plugin_install.py): a tag names a commit, its author may move or   *)
(* delete it at any time, and git may fail.  What matters of a commit is   *)
(* the plugin.toml in it: whether it parses, the name it declares and      *)
(* whether validate(check_bodies=False) accepts it.                        *)
(***************************************************************************)
EXTENDS FiniteSets, Integers, TLC

CONSTANTS
  Repos,       \* repositories
  Tags,        \* names a client may give for a tag
  BadTags,     \* those of them that are no released version: a commit's SHA, ill-formed names
  Commits,     \* commits a tag may name
  Manifest,    \* what the plugin.toml of each commit says: a record parses, name, valid
  Nothing,     \* no commit
  MaxMishaps   \* bound of the model: tags moved, files edited, renames failed, deaths, days passed

ASSUME GitRemoteAssumption ==
  /\ BadTags \subseteq Tags /\ Nothing \notin Commits /\ MaxMishaps \in Nat
  /\ \A c \in Commits : Manifest[c].parses \in BOOLEAN /\ Manifest[c].valid \in BOOLEAN
  /\ \A c \in Commits : Manifest[c].valid => Manifest[c].parses

VARIABLES
  tagged,   \* tagged[repo][tag]: the commit a tag names now
  mishaps   \* how much has happened around the commands

remote == << tagged, mishaps >>

RemoteInit ==
  /\ tagged \in [Repos -> [Tags -> Commits \cup {Nothing}]]
  /\ \A r \in Repos, t \in BadTags : tagged[r][t] = Nothing
  /\ mishaps = 0

Mishap == mishaps < MaxMishaps /\ mishaps' = mishaps + 1

(* The author of a repository tags again, or deletes the tag.              *)
Retag(r, t) ==
  /\ Mishap
  /\ t \notin BadTags
  /\ \E c \in (Commits \cup {Nothing}) \ {tagged[r][t]} :
       tagged' = [tagged EXCEPT ![r][t] = c]

(* What ls-remote says a tag names.  A tag that is not there and a remote  *)
(* that cannot be reached are one answer.                                  *)
ResolveTag(r, t) == {tagged[r][t], Nothing}

(* What the clone of a tag checks out, and what comes of comparing it with *)
(* the commit ls-remote named before.  git clone fails without the tag, and*)
(* for reasons of its own.                                                 *)
Failed      == [outcome |-> "FetchFailed", revision |-> Nothing]
CloneTag(r, t, expected) ==
  {Failed} \cup
  ( IF tagged[r][t] = Nothing THEN {}
    ELSE IF tagged[r][t] # expected THEN {[outcome |-> "TagMismatch", revision |-> Nothing]}
    ELSE {[outcome |-> "FetchedTag", revision |-> tagged[r][t]]} )
=============================================================================
