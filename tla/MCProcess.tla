----------------------------- MODULE MCProcess -----------------------------
(* One Thread object, two threads that list and count, three descriptors.   *)
EXTENDS Process

MCObjects == {5}
MCCallers == {1, 7}
MCFds == 1 .. 3
=============================================================================
