----------------------------- MODULE LogChannel -----------------------------
(***************************************************************************)
(* What a logging backend promises its front ends: log lines, numbered as  *)
(* they are handed over, come out in that order.  A line can be refused    *)
(* when it is handed over; later only a whole run of neighbours can be     *)
(* dropped from the backlog, and the output then shows a notice at a point *)
(* before the gap.  Nothing is reordered, repeated or altered, and nothing *)
(* already delivered is taken back.                                        *)
(***************************************************************************)
EXTENDS Naturals, Sequences

CONSTANT Notice      \* what stands in the output for dropped lines; no line's number

VARIABLES
    submitted,       \* how many lines have been handed over
    backlog,         \* those accepted and not delivered yet, oldest first
    delivered        \* the output

vars == <<submitted, backlog, delivered>>

Init == submitted = 0 /\ backlog = <<>> /\ delivered = <<>>

Accept ==
    /\ submitted' = submitted + 1
    /\ backlog' = Append(backlog, submitted + 1)
    /\ UNCHANGED delivered

Refuse ==
    /\ submitted' = submitted + 1
    /\ UNCHANGED <<backlog, delivered>>

\* The lines from first + 1 to last are given up.
Drop(first, last) ==
    /\ backlog' = SubSeq(backlog, 1, first)
                    \o SubSeq(backlog, last + 1, Len(backlog))
    /\ delivered' = Append(delivered, Notice)
    /\ UNCHANGED submitted

Deliver(n) ==
    /\ delivered' = delivered \o SubSeq(backlog, 1, n)
    /\ backlog' = SubSeq(backlog, n + 1, Len(backlog))
    /\ UNCHANGED submitted

Next ==
    \/ Accept
    \/ Refuse
    \/ \E last \in 0 .. Len(backlog) : \E first \in 0 .. last : Drop(first, last)
    \/ \E n \in 1 .. Len(backlog) : Deliver(n)

Spec == Init /\ [][Next]_vars
=============================================================================
