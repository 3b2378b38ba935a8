--------------------------- MODULE MCPluginSupply ---------------------------
(* Two repositories, two tags of which one is malformed, and four commits:  *)
(* a plugin, a version of it that does not validate, one that declares a    *)
(* name that is no name, and one that does not parse.                       *)
EXTENDS PluginSupply

MCManifest ==
  "good" :> [parses |-> TRUE, name |-> "p", valid |-> TRUE]
  @@ "bad" :> [parses |-> TRUE, name |-> "p", valid |-> FALSE]
  @@ "odd" :> [parses |-> TRUE, name |-> "..", valid |-> TRUE]
  @@ "broken" :> [parses |-> FALSE, name |-> "", valid |-> FALSE]

(* Commands do not care which process runs them, or how a repository is called. *)
Alike == Permutations(Workers) \cup Permutations(Submitters) \cup Permutations(Repos)
=============================================================================
