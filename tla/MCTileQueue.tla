----------------------------- MODULE MCTileQueue -----------------------------
(* Tile rendering for TLC: a viewport of two tiles, the second one cut.    *)
EXTENDS TileQueue

Sizes == {<<3, 1>>}
Tile == <<2, 1>>
==============================================================================
