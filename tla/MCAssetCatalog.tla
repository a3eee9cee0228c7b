--------------------------- MODULE MCAssetCatalog ---------------------------
(***************************************************************************)
(* AssetCatalog for TLC: two manifests share an empty blob, three have     *)
(* their own, one of them large.                                           *)
(***************************************************************************)
EXTENDS AssetCatalog, TLC

CONSTANTS brick, tile, sky, tree, rock, b1, b2, b3, b4

MCAssets == {brick, tile, sky, tree, rock}
MCContent == brick :> b1 @@ tile :> b1 @@ sky :> b2 @@ tree :> b3 @@ rock :> b4
MCSize == b1 :> 0 @@ b2 :> 1 @@ b3 :> 2 @@ b4 :> 1

Symmetry == Permutations(Names)
=============================================================================
