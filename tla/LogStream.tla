----------------------------- MODULE LogStream -----------------------------
(***************************************************************************)
(* LogStream (asynlog/LogStream.h, .cc) over its FixedBuffer, and the line *)
(* a Logger makes with it.  Text goes through FixedBuffer::append(), which *)
(* copies all of it or nothing; a number is written straight at the cursor *)
(* when kMaxNumericSize bytes are left.  An item that does not fit is left *)
(* out and the next one may fit again.                                     *)
(*                                                                         *)
(* An operation is [kind, len] with kind "text", "integer" or "double",    *)
(* and len the bytes of its text; items are the numbers of the operations. *)
(***************************************************************************)
EXTENDS FixedBuffer, Integers, SequencesExt

CONSTANT kMaxNumericSize

\* / and % of C: rounded towards zero.
Halved(i, base) == IF i >= 0 \/ i % base = 0 THEN i \div base ELSE i \div base + 1
Lsd(i, base) == i - base * Halved(i, base)

\* zero[lsd]: digits[] has every digit on both sides of zero.
zero(lsd) == IF lsd < 0 THEN 0 - lsd ELSE lsd

WhileDigits(base) ==   \* (mutation: while for do ... while)
    LET d[i \in Int] ==
          IF i = 0 THEN <<>> ELSE <<zero(Lsd(i, base))>> \o d[Halved(i, base)]
    IN  d

\* The digits the loop of convert() and convertHex() puts down, last one first.
LoopDigits(base) ==
    LET d[i \in Int] ==
          IF Halved(i, base) = 0 THEN <<zero(Lsd(i, base))>>
          ELSE <<zero(Lsd(i, base))>> \o d[Halved(i, base)]
    IN  d

\* convert(buf, value), convertHex(buf, value)
convert(value) ==
    [negative |-> value < 0, digits |-> Reverse(LoopDigits(10)[value])]
convertHex(value) == Reverse(LoopDigits(16)[value])

-----------------------------------------------------------------------------
WithoutRoom(b, item, len) ==   \* (mutation: avail() not looked at)
    [data |-> Append(b.data, item), length |-> b.length + len]

\* formatInteger(), operator<<(double), operator<<(const void*)
formatNumber(b, item, len) ==
    IF Avail(b) >= kMaxNumericSize
    THEN [data |-> Append(b.data, item), length |-> b.length + len]
    ELSE b

Streamed(b, item, op) ==
    IF op.kind = "text" THEN AppendTo(b, item, op.len) ELSE formatNumber(b, item, op.len)

\* The buffer after the operations ops, from buffer b with items below k used.
After(b, ops) ==
    LET buf[k \in 0 .. Len(ops)] ==
          IF k = 0 THEN b ELSE Streamed(buf[k - 1], k, ops[k])
    IN  buf[Len(ops)]

\* Logger::Impl::finish(): " - ", the file, ':', the line number and '\n'.
finish(basename, line) ==
    << [kind |-> "text", len |-> 3], [kind |-> "text", len |-> basename],
       [kind |-> "text", len |-> 1], [kind |-> "integer", len |-> line],
       [kind |-> "text", len |-> 1] >>
=============================================================================
