------------------------------ MODULE MCCanvas ------------------------------
(* A track of cues, a curve of one channel and one of two, and what they hold:
   cues that overlap, points at the ends of the film, points of one channel only. *)
EXTENDS Canvas

MCTracks == <<[id |-> "fog", curve |-> FALSE, channels |-> <<>>],
              [id |-> "fan", curve |-> TRUE, channels |-> <<"intensity">>],
              [id |-> "light", curve |-> TRUE, channels |-> <<"r", "g">>]>>

Cue(t, end) == [t |-> t, end |-> end, v |-> <<>>]
At1(t, ch, n) == [t |-> t, end |-> t, v |-> [c \in {ch} |-> n]]
Both(t, n, m) == [t |-> t, end |-> t, v |-> [c \in {"r", "g"} |-> IF c = "r" THEN n ELSE m]]

\* Nothing kept; and a list that names a track long gone and not all there are, with
\* one folded that has nothing to fold.
MCArrangements == {[order |-> <<>>, collapsed |-> {}],
                   [order |-> <<"light", "ghost", "fan">>, collapsed |-> {"fan"}]}
MCLead == <<3, 0, 0>>
MCCalm == {[from |-> 5, to |-> 8], [from |-> 16, to |-> 16]}
MCLadder == <<2, 4, 10, 20, 20, 40>>

MCScenes ==
    {<< <<Cue(4, 4), Cue(10, 13), Cue(20, 20)>>,
        <<At1(0, "intensity", 1), At1(9, "intensity", 4), At1(24, "intensity", 0)>>,
        <<Both(3, 2, 1), At1(12, "r", 4), Both(20, 0, 3)>> >>,
     << <<Cue(2, 12), Cue(6, 8)>>,
        [k \in 1..20 |-> At1(k, "intensity", k % 3)],
        <<Both(5, 1, 1), Both(5, 3, 3)>> >>}
=============================================================================
