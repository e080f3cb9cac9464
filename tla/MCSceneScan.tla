---------------------------- MODULE MCSceneScan ----------------------------
(* Six units of video in chunks of three, sampled at an interval that divides the chunk (1, 3)
   or not (2): the frames are then 0, 2, 3, 5. *)
EXTENDS SceneScan
=============================================================================
