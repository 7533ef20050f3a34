--------------------------- MODULE MCTerraFormats ---------------------------
(***************************************************************************)
(* Releases of a program: a format is changed, one is added with a family  *)
(* of its own, and one returns to the format before.                       *)
(***************************************************************************)
EXTENDS TerraFormats, TLC

MCPrograms == {
  "entities" :> 1 @@ "assertions" :> 1,
  "entities" :> 1 @@ "assertions" :> 2,
  "entities" :> 1 @@ "assertions" :> 2 @@ "embeddings" :> 1,
  "entities" :> 2 @@ "assertions" :> 2 @@ "embeddings" :> 1,
  "entities" :> 2 @@ "assertions" :> 3 @@ "embeddings" :> 2}
=============================================================================
