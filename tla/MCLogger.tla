------------------------------ MODULE MCLogger ------------------------------
(* Two threads log three lines, DEBUG or FATAL, while the clock and the     *)
(* settings change twice: time zones, and, next to stdout, a LogFile with   *)
(* its FlushFunc and an AsyncLogging, which has none.                       *)
EXTENDS Logger

MCLevels == {1, 5}
Symmetry == Permutations(Thread)

=============================================================================
