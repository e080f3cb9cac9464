---------------------------- MODULE MCSceneReview ----------------------------
(* Small instances of SceneReview. *)
EXTENDS SceneReview, TLC

CONSTANTS s1, s2, h1, h2

OneScene    == {s1}
TwoScenes   == {s1, s2}
OneRequest  == {h1}
TwoRequests == {h1, h2}
AnyRequests == Permutations(TwoRequests)

=============================================================================
