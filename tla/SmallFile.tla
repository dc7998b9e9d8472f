----------------------------- MODULE SmallFile -----------------------------
(***************************************************************************)
(* FileUtil::ReadSmallFile and readFile() (asynlog/FileUtil.h, .cc): a     *)
(* file is read in pieces of at most kBufferSize bytes, with others free   *)
(* to append to it between two reads, or to truncate it, and each read     *)
(* free to fail.  A byte is stood for by its position in the file, and 0   *)
(* for what was in the buffer before.  A file is                           *)
(*    opened   whether open() succeeds                                     *)
(*    kind     "regular", "directory", or "unknown" when fstat() fails     *)
(*    sizes    its size when fstat() and then each read() looks at it; the *)
(*             last one stays                                              *)
(*    fails    which of the reads fails, 0 for none                        *)
(***************************************************************************)
EXTENDS Integers, FiniteSetsExt, SequencesExt

CONSTANT kBufferSize    \* sizeof buf_

ASSUME BufferAssumption == kBufferSize \in Nat \ {0}

\* The bytes at positions a + 1 .. b.
Stretch(a, b) == [k \in 1 .. b - a |-> a + k]

SizeAt(file, k) == file.sizes[Min({k + 1, Len(file.sizes)})]

BufferAlways(maxSize, content) == kBufferSize   \* (mutation: maxSize forgotten)

ToRead(maxSize, content) == Min({maxSize - Len(content), kBufferSize})

\* One turn of the loop, the k-th: read() returns what there is between the
\* offset and the end of the file, nothing after a truncation.
ReadOnce(file, maxSize, k, s) ==
    LET toRead == ToRead(maxSize, s.content)
        offset == Len(s.content)
        n == Max({0, Min({toRead, SizeAt(file, k) - offset})})
    IN  IF s.done \/ offset >= maxSize THEN [s EXCEPT !.done = TRUE]
        ELSE IF file.fails = k THEN [s EXCEPT !.done = TRUE, !.err = "read"]
        ELSE IF n = 0 THEN [s EXCEPT !.done = TRUE]
        ELSE [s EXCEPT !.content = @ \o Stretch(offset, offset + n)]

\* fstat(), for who asks for the size; the reads follow even after an error.
StatErr(file, asked) == IF asked /\ file.kind # "regular" THEN "stat" ELSE "none"

\* readToString(): every turn reads a byte at least, or is the last.
readToString(file, asked, maxSize, old) ==
    LET after[k \in 0 .. maxSize + 1] ==
            IF k = 0 THEN [content |-> <<>>, err |-> StatErr(file, asked), done |-> FALSE]
            ELSE ReadOnce(file, maxSize, k, after[k - 1])
        last == after[maxSize + 1]
        size == IF asked /\ file.kind = "regular" THEN SizeAt(file, 0) ELSE 0
    IN  IF file.opened THEN [content |-> last.content, err |-> last.err, fileSize |-> size]
        ELSE [content |-> old, err |-> "open", fileSize |-> 0]

\* readToBuffer(): one pread() from the start, and a NUL after its n bytes.
readToBuffer(file) ==
    LET n == Min({kBufferSize - 1, SizeAt(file, 1)})
    IN  IF ~ file.opened THEN [err |-> "open", size |-> 0, buf_ |-> <<0>>]
        ELSE IF file.fails = 1 THEN [err |-> "read", size |-> 0, buf_ |-> <<0>>]
        ELSE [err |-> "none", size |-> n, buf_ |-> Stretch(0, n) \o <<0>>]
=============================================================================
