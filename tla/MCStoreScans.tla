---------------------------- MODULE MCStoreScans ----------------------------
(***************************************************************************)
(* A store of at most MaxRows keys, for each column family in turn.        *)
(***************************************************************************)
EXTENDS StoreScans

\* The hashes of the names are in neither order.
MCHash == 1 :> 2 @@ 2 :> 3 @@ 3 :> 1

\* Paths of a tree whose third name ends with a hyphen.
MCPaths == {<<1>>, <<1, 2, 2>>, <<1, 3, 1>>, <<3, 1>>}
=============================================================================
