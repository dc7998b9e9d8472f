---------------------------- MODULE FixedBuffer ----------------------------
(***************************************************************************)
(* muduo::detail::FixedBuffer<SIZE> (asynlog/LogStream.h): an array data_  *)
(* of SIZE bytes and a cursor cur_.  What matters of a buffer is which     *)
(* items were copied into it, in order, and how far the cursor has moved,  *)
(* so a buffer is a record: data is the sequence of the items before the   *)
(* cursor, length is cur_ - data_.  An item is whatever the user of the    *)
(* module copies (a message's identity); its size in bytes is an argument. *)
(***************************************************************************)
EXTENDS Naturals, Sequences

CONSTANT SIZE   \* the template parameter: kSmallBuffer or kLargeBuffer

ASSUME SizeAssumption == SIZE \in Nat \ {0}

\* FixedBuffer(): cur_ starts at data_.
EmptyBuffer == [data |-> <<>>, length |-> 0]

\* avail(): the bytes between the cursor and end().
Avail(b) == SIZE - b.length

\* append() with the test turned round to <=: would let the cursor reach
\* end() and beyond.  (Mutation.)
AppendUnchecked(b, item, len) ==
    [data |-> Append(b.data, item), length |-> b.length + len]

\* append(): copies the whole item, or nothing at all when it does not fit
\* with one byte to spare; the caller is not told which.
AppendTo(b, item, len) ==
    IF Avail(b) > len
    THEN [data |-> Append(b.data, item), length |-> b.length + len]
    ELSE b

\* A recycled buffer whose cursor is left where it was.  (Mutation.)
ResetForgotten(b) == b

\* reset(): the cursor goes back to data_.
Reset(b) == EmptyBuffer

\* The buffers over a set of items: the cursor stays below end(), so that
\* debugString() may always write its terminator at *cur_.
Buffers(Items) == [data : Seq(Items), length : 0 .. SIZE - 1]
=============================================================================
