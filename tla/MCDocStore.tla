----------------------------- MODULE MCDocStore -----------------------------
(***************************************************************************)
(* Small instances of the document store for TLC.                          *)
(***************************************************************************)
EXTENDS DocReads

Live(parent, position, kind) ==
  [parent |-> parent, position |-> position, kind |-> kind,
   fields |-> {}, deleted |-> FALSE]

\* Sections as roots and as children of 1 or of 2; a deleted child of 1; a
\* text at another rank, which may have no children; a negative rank.
LinkContents ==
  {Live(None, 0, "Section"), Live(1, 0, "Section"), Live(2, 0, "Section"),
   Live(1, 1, "Text"), Live(1, -1, "Section"),
   [Live(1, 0, "Section") EXCEPT !.deleted = TRUE]}
=============================================================================
