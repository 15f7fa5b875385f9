---------------------------- MODULE MCVideoQuality ---------------------------
(***************************************************************************)
(* VideoQuality for TLC.                                                   *)
(***************************************************************************)
EXTENDS VideoQuality

MCLayers == {0, 1}

\* Two pictures at full size, one of them also at half the size.
MCFrames == {[width |-> 2, thumb |-> 0], [width |-> 2, thumb |-> 1], [width |-> 1, thumb |-> 1]}
==============================================================================
