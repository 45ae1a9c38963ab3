------------------------------ MODULE MCOverlay ------------------------------
(* Overlay with two small frames and characters of one dot.                 *)
EXTENDS Overlay

MCSizes   == {<<6, 5>>, <<3, 4>>}
MCCorners == {-1, 0, 3, 7}
MCGlyph   == {<<0, 0>>}
MCStatus  == {<<1, 1, 2>>, <<2, 4, 3>>}
=============================================================================
