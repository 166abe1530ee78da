------------------------------- MODULE MCCore -------------------------------
(* Two layers and one sprite; a window of two cells and three banks of VRAM, *)
(* the font in one cell, so that images cross banks at different places.    *)
EXTENDS Core, TLC
Lengths == "bg" :> 3 @@ "bgpal" :> 1 @@ "image" :> 3 @@ "pal" :> 1 @@ "map" :> 1
TheLoads == {[what |-> "palette", file |-> "pal", dst |-> 1],
             [what |-> "tilemap", file |-> "map", dst |-> 1],
             [what |-> "image", file |-> "image", dst |-> 0],
             [what |-> "image", file |-> "image", dst |-> 3]}
=============================================================================
