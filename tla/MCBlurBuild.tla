---------------------------- MODULE MCBlurBuild ----------------------------
(* Small instances of BlurBuild. *)
EXTENDS BlurBuild

W(s, e) == [start |-> s, end |-> e]
Request(ws, m) == [windows |-> ws, mute |-> m]

\* Six cells; the probe reports keyframes the muxer does not cut at (2), or
\* misses some, or one leaves a decoder without references; or there is no
\* place to cut at all.
SixCells == {
    [keys |-> {0, 2, 3, 4, 5}, cuts |-> {3, 4, 5}, unclean |-> {}],
    [keys |-> {0, 1, 2, 4, 5}, cuts |-> {1, 2, 3, 4, 5}, unclean |-> {2}],
    [keys |-> {0, 1, 3, 5},    cuts |-> {1, 4}, unclean |-> {}],
    [keys |-> {0, 3},          cuts |-> {}, unclean |-> {}]}
Approved == {
    Request({W(4, 7)}, TRUE),
    Request({W(1, 2), W(4, 5)}, FALSE),
    Request({}, FALSE)}

=============================================================================
