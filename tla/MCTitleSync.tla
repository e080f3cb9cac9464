---------------------------- MODULE MCTitleSync ----------------------------
(* The first episode is in the library; it is upgraded from an mp4 to an   *)
(* mkv, and a second one, not known before, arrives in a file of its own   *)
(* (MCHolds), or in the mkv as well (MCShared).                            *)
EXTENDS TitleSync, TLC
CONSTANTS e1, e2, mp4, mkv, ep2, t1, t2

MCHolds == mp4 :> {e1} @@ mkv :> {e1} @@ ep2 :> {e2}
MCShared == mp4 :> {e1} @@ mkv :> {e1, e2} @@ ep2 :> {e2}
MCFirstFile == e1 :> mp4
MCLibrary == <<e1>>
MCSymmetry == Permutations(Tasks)
=============================================================================
