--------------------------- MODULE MCStreamWorker ---------------------------
(***************************************************************************)
(* Instances of StreamWorker for TLC.  Two configurations share a quality, *)
(* and so a scratch directory: the RTSP URL or the live path was edited.   *)
(***************************************************************************)
EXTENDS StreamWorker, TLC

CONSTANTS low, sd

SameQuality == {[quality |-> low, rev |-> 1], [quality |-> low, rev |-> 2]}
OneConfig   == {[quality |-> low, rev |-> 1]}

JobSymmetry == Permutations(Jobs)
=============================================================================
