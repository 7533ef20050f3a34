---------------------------- MODULE MCDocMemory ----------------------------
(***************************************************************************)
(* A small instance of the memory service for TLC.                         *)
(***************************************************************************)
EXTENDS DocMemory, TLC

Live(parent, position, kind) ==
  [parent |-> parent, position |-> position, kind |-> kind,
   fields |-> {}, deleted |-> FALSE]

Titled(content) == [content EXCEPT !.fields = {"title"}]

\* Two projects, 1 and 4; in the first a section 2 that holds a text 3.
TwoProjects ==
  [b \in Blocks |-> CASE b = 1 -> Live(None, 0, "Section")
                      [] b = 4 -> Titled(Live(None, 0, "Section"))
                      [] b = 2 -> Titled(Live(1, 0, "Section"))
                      [] b = 3 -> Live(2, 0, "Text")
                      [] OTHER -> Tombstone]

\* Texts below the sections, a text that becomes a list, and its items.
WrittenContents ==
  {Live(p, r, "Text") : p \in {1, 2, 4}, r \in Positions}
  \cup {Live(2, 0, "List"), Live(3, 0, "ListItem")}

Symmetry == Permutations(Calls)
=============================================================================
