----------------------------- MODULE MCLogFile -----------------------------
(* LogFile with days of four seconds, a roll size two lines can exceed     *)
(* and a look at the clock every second line; the clock can be set back in *)
(* some behaviours, the disk be full in others.                            *)
EXTENDS LogFile

MCLineLens == {1, 3}
MCFaults == {{"clock"}, {"disk"}}
=============================================================================
