------------- MODULE MCAmptekSimulatorConnectionHandler -------------
(* Instances of AmptekSimulatorConnectionHandler for TLC. *)
EXTENDS AmptekSimulatorConnectionHandler

MCSpeclens == {-1, 0, 1, 3}
MCPresets == {Off, 1}

\* Bound: after an MCAC that met the thread, failed or set a length of no use, one
\* request less is followed to its end.
MCUsable ==
    hist.raced \/ Dangling \/ speclen \notin 1..AnswerSpeclen => calls < MaxCalls
=============================================================================
