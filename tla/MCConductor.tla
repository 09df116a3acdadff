---------------------------- MODULE MCConductor ----------------------------
(***************************************************************************)
(* Instances of Conductor: a fan that answers at once and a fogger that    *)
(* needs warning and may not run for long.                                 *)
(***************************************************************************)
EXTENDS Conductor, TLC

CONSTANTS fan, fog, ghost

MCNames == {fan, fog, ghost}
MCInstruments == {fan, fog}
MCLatency == (fan :> 0) @@ (fog :> 1)
MCMaxContinuous == (fan :> 0) @@ (fog :> 2)

Start(t, i, h, p) ==
    [at |-> t, instrument |-> i, ends |-> FALSE, hold |-> h, required |-> p]
Off(t, i) ==
    [at |-> t, instrument |-> i, ends |-> TRUE, hold |-> 0, required |-> 0]

\* Every score of two cues of a pool of spans, flashes and written stops, the
\* spans nested, overlapping and back to back; three cues with one of each; and
\* three scores that Load refuses.  A loaded score is sorted by time.
Pool == {Start(t, fan, h, 0) : t \in {1, 2}, h \in {0, 1, 3}}
          \cup {Start(t, fog, h, 1) : t \in {0, 2, 3}, h \in {1, 2}}
          \cup {Off(t, fan) : t \in {2, 3}}

MCScores ==
    {s \in Pool \X Pool : s[1].at <= s[2].at}
      \cup {<<Start(1, fan, 4, 0), Off(2, fan), Start(3, fan, 1, 1)>>,
            <<Start(1, fog, 2, 0), Start(2, fan, 3, 2), Start(3, fog, 1, 0)>>,
            <<Start(1, fog, 0, 0)>>, <<Start(1, fog, 3, 0)>>,
            <<Start(1, ghost, 1, 0)>>}
=============================================================================
