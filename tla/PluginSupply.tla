---------------------------- MODULE PluginSupply ----------------------------
(***************************************************************************)
(* Where plugins come from: Installs and Marketplace over the same         *)
(* repositories.  They share the code that fetches and verifies a tag, and *)
(* no state of this program, so the model looks at one of them at a time.  *)
(***************************************************************************)
EXTENDS Installs, Marketplace

vars == << remote, installs, commands, market >>

Init == RemoteInit /\ InstallsInit /\ MarketplaceInit

Next ==
  \/ submissions = 0 /\ InstallsNext /\ UNCHANGED << tagged, market >>
  \/ commands = 0 /\ MarketplaceNext /\ UNCHANGED << tagged, installs, commands >>
  \/ \E r \in Repos, t \in Tags : Retag(r, t) /\ UNCHANGED << installs, commands, market >>

Spec == Init /\ [][Next]_vars

-----------------------------------------------------------------------------
TypeOK ==
  /\ tree \in [Dirs -> [rev : Commits \cup Shipped \cup {Nothing}, valid : BOOLEAN]]
  /\ \A n \in Rows : index[n].state \in States /\ index[n].id \in 1 .. minted /\ index[n].version >= 1
  /\ \A k \in DOMAIN releases : releases[k].status \in {"pending", "approved", "rejected"}

(* What lies under a plugin's name, when it came from a repository, is a   *)
(* commit whose plugin.toml declares that name (plugin_install.py,         *)
(* _fetch_and_verify_name), however the tag moved and whoever else was     *)
(* installing.                                                             *)
PlacedIsNamed ==
  \A n \in Names : tree[n].rev \in Commits =>
    Manifest[tree[n].rev].parses /\ Manifest[tree[n].rev].name = n

(* A plugin that was there is there, or in the hands of a command that is  *)
(* about to put something in its place: only a death between the two       *)
(* renames of _place_atomically() loses it, never a rename that fails or a *)
(* second command under the same name.                                     *)
Kept(n) == n \in Present \/ \E w \in Workers :
             /\ job[w].op \in Placing /\ job[w].at \in {"place", "rollback", "restore"}
             /\ job[w].name = n /\ job[w].aside # Absent

NeverLost ==
  [][\A n \in Names : Kept(n) => Kept(n)' \/ crashes' > crashes]_vars

(* What the change ledger last said of a row's state is its state, so a    *)
(* mirror that follows the ledger shows the plugins as they are.           *)
LedgerTellsState ==
  \A n \in Rows : /\ index[n].id \in DOMAIN ledger
                  /\ ledger[index[n].id].kind # "deleted"
                  /\ ledger[index[n].id].state = index[n].state

(* What browsers are shown (latest_approved) was a plugin when it was      *)
(* submitted, under its own name: nothing decide() can do approves what    *)
(* submit() rejected by itself.                                            *)
ApprovedIsValid ==
  \A name \in ApprovedPluginNames : \A k \in LatestApproved(name) :
    Manifest[releases[k].rev].valid /\ Manifest[releases[k].rev].name = name

(* Neither the directory nor the browser shows what nobody checked.        *)
Verified == PlacedIsNamed /\ ApprovedIsValid
=============================================================================
