------------------------------ MODULE MCPeople ------------------------------
(* Two accounts of schedules' and the owner's, one key they all use, two    *)
(* characters; a description fits a frontmatter or does not.                *)
EXTENDS People

Alike == Permutations(Workers) \cup Permutations(Texts) \cup Permutations(Scheduled) \cup Permutations(Names)
=============================================================================
