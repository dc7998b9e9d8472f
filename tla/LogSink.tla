------------------------------ MODULE LogSink ------------------------------
(***************************************************************************)
(* What a file sink promises the logger above it: entries, numbered as     *)
(* they are handed over, are stored in that order and none twice, however  *)
(* many files they are spread over; those in front that are durable stay   *)
(* so, and a flush makes all of them durable.  When the storage fails, the *)
(* newest entries that are not durable can be lost, and of the entry being *)
(* written a part can remain.                                              *)
(***************************************************************************)
EXTENDS Naturals, Sequences

VARIABLES
    handed,     \* how many entries have been handed over
    content,    \* the entries stored: number, and whether it is all there
    durable,    \* how many of them a crash cannot take away
    broken      \* the storage has failed at some time

vars == <<handed, content, durable, broken>>

Entry(whole) == [id |-> handed + 1, whole |-> whole]

Init == handed = 0 /\ content = <<>> /\ durable = 0 /\ broken = FALSE

\* Some entries may become durable with any step, never fewer.
Hardens == durable' \in durable .. Len(content')

Store ==
    /\ handed' = handed + 1
    /\ content' = Append(content, Entry(TRUE))
    /\ Hardens
    /\ UNCHANGED broken

Flush ==
    /\ durable' = Len(content)
    /\ UNCHANGED <<handed, content, broken>>

\* From now on the storage can fail.
Break ==
    /\ broken' = TRUE
    /\ UNCHANGED <<handed, content, durable>>

\* What can be left of entries of which the first n are durable: those up to
\* some entry, which need not be all there.
Remains(entries, n) ==
    {SubSeq(entries, 1, m) : m \in n .. Len(entries)}
      \cup {[SubSeq(entries, 1, m) EXCEPT ![m].whole = FALSE] : m \in n + 1 .. Len(entries)}

\* Storing an entry, or flushing, fails.
Fail ==
    /\ broken
    /\ \/ handed' = handed /\ content' \in Remains(content, durable)
       \/ /\ handed' = handed + 1
          /\ content' \in
                 UNION {{kept \o part : part \in {<<>>, <<Entry(FALSE)>>, <<Entry(TRUE)>>}} :
                          kept \in Remains(content, durable)}
    /\ Hardens
    /\ UNCHANGED broken

Next == Store \/ Flush \/ Break \/ Fail

Spec == Init /\ [][Next]_vars
=============================================================================
