--------------------------- MODULE LogFileProofs ---------------------------
(***************************************************************************)
(* Theorems of LogFile, for any sizes, intervals and numbers of lines:     *)
(* its variables keep their types, no file name is used twice, a crash     *)
(* loses only the newest lines, a file keeps to its day, a line waits in   *)
(* the stdio buffer no longer than promised, and the files together are    *)
(* the sink of LogSink.                                                    *)
(***************************************************************************)
EXTENDS LogFile, SequenceLemmas

-----------------------------------------------------------------------------
(* The operators on files. *)

LEMMA PeriodType == ASSUME NEW t \in Nat PROVE Period(t) \in Nat
<1>1. kRollPerSeconds_ \in Nat /\ kRollPerSeconds_ > 0
  BY LogFileAssumption
<1>2. t \div kRollPerSeconds_ \in Nat
  BY <1>1
<1> DEFINE q == t \div kRollPerSeconds_
<1> HIDE DEF q
<1>3. q \in Nat
  BY <1>2 DEF q
<1>4. q * kRollPerSeconds_ \in Nat
  BY <1>1, <1>3
<1> QED BY <1>4 DEF Period, q

\* What stdio has handed on changes nothing else of a file.
LEMMA HandedOnFacts ==
    ASSUME NEW f \in Files, NEW g \in HandedOn(f)
    PROVE  /\ g \in Files /\ g.name = f.name /\ g.lines = f.lines
           /\ g.writtenBytes = f.writtenBytes
           /\ f.onDisk <= g.onDisk /\ g.onDisk <= Len(g.lines)
           /\ g.torn => g.onDisk < Len(g.lines)
<1>1. PICK n \in f.onDisk .. Len(f.lines) :
        \E t \in Tearing(f, n) : g = [f EXCEPT !.onDisk = n, !.torn = t]
  BY DEF HandedOn
<1>2. PICK t \in Tearing(f, n) : g = [f EXCEPT !.onDisk = n, !.torn = t]
  BY <1>1
<1>3. t \in BOOLEAN /\ (t => n < Len(f.lines))
  BY DEF Tearing
<1>4. f.onDisk \in Nat /\ Len(f.lines) \in Nat /\ n \in Nat
  BY LenProperties DEF Files
<1> DEFINE h == [f EXCEPT !.onDisk = n]
<1>5. h \in Files /\ h.name = f.name /\ h.lines = f.lines /\ h.onDisk = n
      /\ h.writtenBytes = f.writtenBytes
  BY <1>4 DEF Files
<1>6. g = [h EXCEPT !.torn = t]
  BY <1>2
<1> HIDE DEF h
<1>7. /\ g \in Files /\ g.name = h.name /\ g.lines = h.lines /\ g.onDisk = h.onDisk
      /\ g.writtenBytes = h.writtenBytes /\ g.torn = t
  BY <1>3, <1>5, <1>6 DEF Files
<1> QED BY <1>3, <1>4, <1>5, <1>7

\* What a failed write leaves is the same file with the first of its lines; the
\* last that is left may be cut.
LEMMA LeftFacts ==
    ASSUME NEW f \in Files, f.onDisk <= Len(f.lines), NEW ls \in Left(f)
    PROVE  /\ ls \in Seq(Lines) /\ f.onDisk <= Len(ls) /\ Len(ls) <= Len(f.lines)
           /\ \A k \in 1 .. Len(ls) :
                \/ ls[k] = f.lines[k]
                \/ k = Len(ls) /\ k > f.onDisk /\ ls[k] = Cut(f.lines[k])
<1> DEFINE n == f.onDisk
           L == Len(f.lines)
           front == SubSeq(f.lines, 1, n)
<1>1. f.lines \in Seq(Lines) /\ L \in Nat /\ n \in Nat
  BY LenProperties DEF Files
<1>2. front \in Seq(Lines) /\ Len(front) = n /\ \A k \in 1 .. n : front[k] = f.lines[k]
  <2>1. \A k \in 1 .. n : f.lines[k] \in Lines
    BY <1>1, ElementOfSeq
  <2>2. /\ front \in Seq(Lines)
        /\ Len(front) = IF 1 <= n THEN n - 1 + 1 ELSE 0
        /\ \A k \in 1 .. n - 1 + 1 : front[k] = f.lines[1 + k - 1]
    BY <1>1, <2>1, SubSeqProperties
  <2> QED BY <1>1, <2>2
<1>3. \/ ls = f.lines
      \/ ls = front
      \/ n \in 0 .. L - 1 /\ ls = Append(front, Cut(f.lines[n + 1]))
  BY DEF Left
<1>4. CASE ls = f.lines
  BY <1>1, <1>4
<1>5. CASE ls = front
  <2>1. n <= L
    OBVIOUS
  <2> HIDE DEF n, L, front
  <2> QED BY <1>1, <1>2, <1>5, <2>1 DEF n, L
<1>6. CASE n \in 0 .. L - 1 /\ ls = Append(front, Cut(f.lines[n + 1]))
  <2> DEFINE c == Cut(f.lines[n + 1])
  <2>1. n + 1 \in 1 .. L
    BY <1>1, <1>6
  <2>2. f.lines[n + 1] \in Lines
    BY <1>1, <2>1, ElementOfSeq
  <2>3. c \in Lines
    BY <2>2 DEF Cut, Lines
  <2> HIDE DEF front
  <2>4. ls = Append(front, c)
    BY <1>6
  <2> HIDE DEF c, n, L
  <2>5. /\ ls \in Seq(Lines) /\ Len(ls) = n + 1 /\ ls[n + 1] = c
        /\ \A k \in 1 .. n : ls[k] = front[k]
    BY <1>2, <2>3, <2>4, AppendProperties
  <2>6. \A k \in 1 .. n + 1 : k = n + 1 \/ k \in 1 .. n
    BY <1>1
  <2> QED BY <1>1, <1>2, <2>1, <2>5, <2>6 DEF n, L, c
<1> QED BY <1>3, <1>4, <1>5, <1>6

LEMMA DamagedFacts ==
    ASSUME NEW f \in Files, NEW g \in Damaged(f)
    PROVE  /\ g \in Files /\ g.name = f.name
           /\ f.onDisk <= g.onDisk /\ g.onDisk <= Len(g.lines)
           /\ Len(g.lines) <= Len(f.lines)
           /\ \A k \in 1 .. Len(g.lines) :
                \/ g.lines[k] = f.lines[k]
                \/ k = Len(g.lines) /\ k > g.onDisk /\ g.lines[k] = Cut(f.lines[k])
<1>1. PICK h \in HandedOn(f) : \E ls \in Left(h) : g = [h EXCEPT !.lines = ls]
  BY DEF Damaged
<1>2. PICK ls \in Left(h) : g = [h EXCEPT !.lines = ls]
  BY <1>1
<1>3. /\ h \in Files /\ h.name = f.name /\ h.lines = f.lines
      /\ f.onDisk <= h.onDisk /\ h.onDisk <= Len(h.lines)
  BY HandedOnFacts
<1>4. /\ ls \in Seq(Lines) /\ h.onDisk <= Len(ls) /\ Len(ls) <= Len(h.lines)
      /\ \A k \in 1 .. Len(ls) :
           \/ ls[k] = h.lines[k]
           \/ k = Len(ls) /\ k > h.onDisk /\ ls[k] = Cut(h.lines[k])
  BY <1>3, LeftFacts
<1>5. g \in Files /\ g.name = h.name /\ g.lines = ls /\ g.onDisk = h.onDisk
  BY <1>2, <1>3, <1>4 DEF Files
<1> QED BY <1>3, <1>4, <1>5

LEMMA DamagedType ==
    ASSUME NEW f \in Files, NEW g \in Damaged(f)
    PROVE  g \in Files /\ g.name = f.name
BY DamagedFacts

LEMMA AllOnDiskFacts ==
    ASSUME NEW f \in Files
    PROVE  /\ AllOnDisk(f) \in Files /\ AllOnDisk(f).name = f.name
           /\ AllOnDisk(f).lines = f.lines /\ AllOnDisk(f).onDisk = Len(f.lines)
           /\ AllOnDisk(f).writtenBytes = f.writtenBytes /\ AllOnDisk(f).torn = FALSE
<1>1. Len(f.lines) \in Nat
  BY LenProperties DEF Files
<1> QED BY <1>1 DEF AllOnDisk, Files

LEMMA FlushedType ==
    ASSUME NEW f \in Files, NEW g \in Flushed(f)
    PROVE  g \in Files /\ g.name = f.name
BY DamagedType, AllOnDiskFacts DEF Flushed

LEMMA ClosedType ==
    ASSUME NEW f \in Files, NEW g \in Closed(f)
    PROVE  g \in Files /\ g.name = f.name
<1>1. PICK h \in Flushed(f) : g = AllOnDisk(h)
  BY DEF Closed
<1> QED BY <1>1, FlushedType, AllOnDiskFacts

LEMMA Singleton == ASSUME NEW line \in Lines PROVE <<line>> \in Seq(Lines)
OBVIOUS

LEMMA TakenFacts ==
    ASSUME NEW f \in Files, NEW line \in Lines, NEW len \in Nat
    PROVE  /\ Counted(f, len) \in Files /\ Counted(f, len).name = f.name
           /\ Counted(f, len).lines = f.lines /\ Counted(f, len).onDisk = f.onDisk
           /\ Taken(f, line, len) \in Files /\ Taken(f, line, len).name = f.name
           /\ Taken(f, line, len).lines = Append(f.lines, line)
           /\ Taken(f, line, len).onDisk = f.onDisk
           /\ Taken(f, line, len).writtenBytes = f.writtenBytes + len
<1> DEFINE c == Counted(f, len)
           ls == Append(f.lines, line)
<1>1. /\ c \in Files /\ c.name = f.name /\ c.lines = f.lines /\ c.onDisk = f.onDisk
      /\ c.writtenBytes = f.writtenBytes + len
  BY DEF Counted, Files
<1>2. ls \in Seq(Lines)
  BY DEF Files
<1>3. Taken(f, line, len) = [c EXCEPT !.lines = ls]
  BY <1>1 DEF Taken
<1> HIDE DEF c, ls
<1>4. /\ [c EXCEPT !.lines = ls] \in Files /\ [c EXCEPT !.lines = ls].name = c.name
      /\ [c EXCEPT !.lines = ls].lines = ls /\ [c EXCEPT !.lines = ls].onDisk = c.onDisk
      /\ [c EXCEPT !.lines = ls].writtenBytes = c.writtenBytes
  BY <1>1, <1>2 DEF Files
<1> QED BY <1>1, <1>3, <1>4 DEF c, ls

\* A line is taken, or something of it stays behind a failed write; and stdio
\* hands on what it likes.
LEMMA WrittenSteps ==
    ASSUME NEW f, NEW line, NEW len, NEW g \in Written(f, line, len)
    PROVE  \E w : /\ g \in HandedOn(w)
                  /\ \/ w = Taken(f, line, len)
                     \/ /\ disk = "full"
                        /\ \E h \in Damaged(Counted(f, len)), rest \in Rest(line) :
                             w = Behind(h, rest)
BY DEF Written

LEMMA BehindFacts ==
    ASSUME NEW h \in Files, NEW line \in Lines, NEW rest \in Rest(line)
    PROVE  /\ rest \in Seq(Lines)
           /\ Behind(h, rest) \in Files /\ Behind(h, rest).name = h.name
           /\ Behind(h, rest).lines = h.lines \o rest
           /\ Behind(h, rest).onDisk = h.onDisk
<1>2. Cut(line) \in Lines
  BY DEF Cut, Lines
<1>3. rest \in Seq(Lines)
  <2>1. rest = <<>> \/ rest = <<Cut(line)>> \/ rest = <<line>>
    BY DEF Rest
  <2>2. <<Cut(line)>> \in Seq(Lines) /\ <<line>> \in Seq(Lines)
    BY <1>2, Singleton
  <2>3. <<>> \in Seq(Lines)
    BY EmptySeq
  <2> QED BY <2>1, <2>2, <2>3
<1>4. h.lines \o rest \in Seq(Lines)
  BY <1>3, ConcatProperties DEF Files
<1> QED BY <1>3, <1>4 DEF Behind, Files

LEMMA WrittenType ==
    ASSUME NEW f \in Files, NEW line \in Lines, NEW len \in Nat,
           NEW g \in Written(f, line, len)
    PROVE  g \in Files /\ g.name = f.name
<1>1. PICK w : /\ g \in HandedOn(w)
               /\ \/ w = Taken(f, line, len)
                  \/ /\ disk = "full"
                     /\ \E h \in Damaged(Counted(f, len)), rest \in Rest(line) :
                          w = Behind(h, rest)
  BY WrittenSteps
<1>2. w \in Files /\ w.name = f.name
  <2>1. CASE w = Taken(f, line, len)
    BY <2>1, TakenFacts
  <2>2. CASE w # Taken(f, line, len)
    <3>1. PICK h \in Damaged(Counted(f, len)), rest \in Rest(line) :
            w = Behind(h, rest)
      BY <1>1, <2>2
    <3>2. Counted(f, len) \in Files /\ Counted(f, len).name = f.name
      BY TakenFacts
    <3>3. h \in Files /\ h.name = f.name
      BY <3>2, DamagedFacts
    <3> QED BY <3>1, <3>3, BehindFacts
  <2> QED BY <2>1, <2>2
<1> QED BY <1>1, <1>2, HandedOnFacts

\* The current file gives way to another version of it.
LEMMA ReplacedFacts ==
    ASSUME NEW fs \in Seq(Files), fs # <<>>, NEW g \in Files
    PROVE  /\ Replaced(fs, g) \in Seq(Files)
           /\ Replaced(fs, g) # <<>>
           /\ Len(Replaced(fs, g)) = Len(fs)
           /\ \A k \in 1 .. Len(fs) : k # Len(fs) => Replaced(fs, g)[k] = fs[k]
           /\ Replaced(fs, g)[Len(fs)] = g
<1> DEFINE n == Len(fs) - 1
<1>1. n \in Nat /\ Len(fs) = n + 1 /\ \A k \in 1 .. n : fs[k] \in Files
  BY EmptySeq, LenProperties, ElementOfSeq
<1> HIDE DEF n
<1> DEFINE front == SubSeq(fs, 1, n)
<1>2. front \in Seq(Files) /\ Len(front) = n /\ \A k \in 1 .. n : front[k] = fs[k]
  <2>1. /\ front \in Seq(Files)
        /\ Len(front) = IF 1 <= n THEN n - 1 + 1 ELSE 0
        /\ \A k \in 1 .. n - 1 + 1 : front[k] = fs[1 + k - 1]
    BY <1>1, SubSeqProperties
  <2> QED BY <1>1, <2>1
<1>3. Replaced(fs, g) = Append(front, g)
  BY <1>1 DEF Replaced, Front
<1> HIDE DEF front
<1>4. /\ Append(front, g) \in Seq(Files) /\ Append(front, g) # <<>>
      /\ Len(Append(front, g)) = n + 1
      /\ \A k \in 1 .. n : Append(front, g)[k] = front[k]
      /\ Append(front, g)[n + 1] = g
  BY <1>1, <1>2, AppendProperties
<1> QED BY <1>1, <1>2, <1>3, <1>4

-----------------------------------------------------------------------------
(* The invariant. *)

\* The files fs, the last of them opened at the second t.
Named(fs, t) ==
    /\ fs \in Seq(Files) /\ fs # <<>>
    /\ \A j, k \in 1 .. Len(fs) : j < k => fs[j].name < fs[k].name
    /\ fs[Len(fs)].name = t

\* How many of n lines are in the files before the last one of fs.
Older(fs, n) == n - Len(fs[Len(fs)].lines)

\* The last file holds the newest of n lines, one after the other.
NewestAreLast(fs, n) ==
    LET last == fs[Len(fs)]
    IN  /\ Older(fs, n) \in Nat /\ last.onDisk <= Len(last.lines)
        /\ last.torn => last.onDisk < Len(last.lines)
        /\ \A k \in 1 .. Len(last.lines) : last.lines[k].id = Older(fs, n) + k

\* The other files hold older ones, all of them on the disk.
OlderAreOnDisk(fs, n) ==
    \A i \in 1 .. Len(fs) : i # Len(fs) =>
        /\ fs[i].onDisk = Len(fs[i].lines) /\ fs[i].torn = FALSE
        /\ \A k \in 1 .. Len(fs[i].lines) : fs[i].lines[k].id \in 1 .. Older(fs, n)

NoneIsMissing(fs, n) ==
    \A m \in 1 .. n :
        \E i \in 1 .. Len(fs) : \E k \in 1 .. Len(fs[i].lines) : fs[i].lines[k].id = m

Kept(fs, n) == NewestAreLast(fs, n) /\ OlderAreOnDisk(fs, n) /\ NoneIsMissing(fs, n)

\* What is written is accounted for as long as the disk has never been full.
Sound(fs, t, n) == Named(fs, t) /\ (disk = "fine" => Kept(fs, n))

IInv == TypeOK /\ Sound(files, lastRoll_, lines)

LEMMA LastOfNamed ==
    ASSUME NEW fs, NEW t, Named(fs, t)
    PROVE  /\ Len(fs) \in Nat \ {0} /\ Last(fs) = fs[Len(fs)]
           /\ Last(fs) \in Files /\ Last(fs).name = t
<1>1. fs \in Seq(Files) /\ fs # <<>>
  BY DEF Named
<1>2. Len(fs) \in Nat \ {0}
  BY <1>1, EmptySeq, LenProperties
<1>3. fs[Len(fs)] \in Files
  BY <1>1, <1>2, ElementOfSeq
<1> QED BY <1>2, <1>3 DEF Last, Named

LEMMA NamedReplaced ==
    ASSUME NEW fs, NEW t, Named(fs, t), NEW g \in Files, g.name = Last(fs).name
    PROVE  Named(Replaced(fs, g), t)
<1>1. fs \in Seq(Files) /\ fs # <<>>
  BY DEF Named
<1> DEFINE r == Replaced(fs, g)
<1>2. /\ r \in Seq(Files) /\ r # <<>> /\ Len(r) = Len(fs)
      /\ \A k \in 1 .. Len(fs) : k # Len(fs) => r[k] = fs[k]
      /\ r[Len(fs)] = g
  BY <1>1, ReplacedFacts
<1> HIDE DEF r
<1>3. Len(fs) \in Nat \ {0} /\ g.name = fs[Len(fs)].name /\ g.name = t
  BY LastOfNamed
<1>4. \A k \in 1 .. Len(fs) : r[k].name = fs[k].name
  BY <1>2, <1>3
<1>5. \A j, k \in 1 .. Len(r) : j < k => r[j].name < r[k].name
  BY <1>2, <1>4 DEF Named
<1> QED BY <1>2, <1>3, <1>5 DEF Named, r

LEMMA NamedAppended ==
    ASSUME NEW fs, NEW s \in Nat, Named(fs, s), NEW t \in Nat, t > s
    PROVE  Named(Append(fs, NewFile(t)), t)
<1>1. fs \in Seq(Files) /\ Len(fs) \in Nat \ {0} /\ fs[Len(fs)].name = s
  BY LastOfNamed DEF Named
<1>2. NewFile(t) \in Files /\ NewFile(t).name = t
  BY DEF NewFile, Files
<1> DEFINE x == Append(fs, NewFile(t))
<1>3. /\ x \in Seq(Files) /\ x # <<>> /\ Len(x) = Len(fs) + 1
      /\ \A k \in 1 .. Len(fs) : x[k] = fs[k]
      /\ x[Len(fs) + 1] = NewFile(t)
  BY <1>1, <1>2, AppendProperties
<1> HIDE DEF x
<1>4. \A k \in 1 .. Len(fs) : fs[k].name \in Nat /\ fs[k].name <= s
  <2> SUFFICES ASSUME NEW k \in 1 .. Len(fs)
               PROVE  fs[k].name \in Nat /\ fs[k].name <= s
    OBVIOUS
  <2>1. fs[k] \in Files
    BY <1>1, ElementOfSeq
  <2>2. fs[k].name \in Nat
    BY <2>1 DEF Files
  <2>3. k = Len(fs) \/ fs[k].name < fs[Len(fs)].name
    BY <1>1 DEF Named
  <2> QED BY <1>1, <2>2, <2>3
<1>5. ASSUME NEW j \in 1 .. Len(x), NEW k \in 1 .. Len(x), j < k
      PROVE  x[j].name < x[k].name
  <2>1. CASE k = Len(x)
    BY <2>1, <1>1, <1>2, <1>3, <1>4, <1>5
  <2>2. CASE k # Len(x)
    <3>1. j \in 1 .. Len(fs) /\ k \in 1 .. Len(fs)
      BY <2>2, <1>1, <1>3, <1>5
    <3> QED BY <3>1, <1>3, <1>5 DEF Named
  <2> QED BY <2>1, <2>2
<1> QED BY <1>1, <1>2, <1>3, <1>5 DEF Named, x

\* One line more in the last file, of which stdio holds what it likes.
LEMMA KeptTaken ==
    ASSUME NEW fs, NEW t, Named(fs, t), NEW n \in Nat, Kept(fs, n),
           NEW line \in Lines, line.id = n + 1, NEW len \in Nat,
           NEW g \in Files, g.lines = Append(Last(fs).lines, line),
           g.onDisk <= Len(Last(fs).lines) + 1,
           g.torn => g.onDisk < Len(Last(fs).lines) + 1
    PROVE  Kept(Replaced(fs, g), n + 1)
<1> DEFINE f == fs[Len(fs)]
           r == Replaced(fs, g)
           N == Len(fs)
           L == Len(f.lines)
<1>1. fs \in Seq(Files) /\ fs # <<>> /\ N \in Nat \ {0} /\ f = Last(fs) /\ f \in Files
  BY LastOfNamed DEF Named
<1>2. /\ Len(r) = N
      /\ \A k \in 1 .. N : k # N => r[k] = fs[k]
      /\ r[N] = g
  BY <1>1, ReplacedFacts
<1>3. f.lines \in Seq(Lines) /\ L \in Nat
  BY <1>1, LenProperties DEF Files
<1>4. /\ Len(g.lines) = L + 1
      /\ \A k \in 1 .. L : g.lines[k] = f.lines[k]
      /\ g.lines[L + 1] = line
  BY <1>1, <1>3, AppendProperties
<1>5. /\ n - L \in Nat
      /\ \A k \in 1 .. L : f.lines[k].id = n - L + k
      /\ \A i \in 1 .. N : i # N =>
           /\ fs[i].onDisk = Len(fs[i].lines) /\ fs[i].torn = FALSE
           /\ \A k \in 1 .. Len(fs[i].lines) : fs[i].lines[k].id \in 1 .. n - L
      /\ \A m \in 1 .. n : \E i \in 1 .. N : \E k \in 1 .. Len(fs[i].lines) : fs[i].lines[k].id = m
  BY DEF Kept, NewestAreLast, OlderAreOnDisk, NoneIsMissing, Older
<1>6. fs[N] = f /\ Len(f.lines) = L
  OBVIOUS
<1> HIDE DEF f, r, N, L
<1>7. ASSUME NEW m \in 1 .. n + 1
      PROVE  \E i \in 1 .. N : \E k \in 1 .. Len(r[i].lines) : r[i].lines[k].id = m
  <2>1. CASE m = n + 1
    <3>1. N \in 1 .. N /\ L + 1 \in 1 .. Len(r[N].lines) /\ r[N].lines[L + 1].id = m
      BY <2>1, <1>1, <1>2, <1>3, <1>4
    <3> QED BY <3>1
  <2>2. CASE m # n + 1
    <3>1. m \in 1 .. n
      BY <2>2
    <3>2. PICK i \in 1 .. N : \E k \in 1 .. Len(fs[i].lines) : fs[i].lines[k].id = m
      BY <3>1, <1>5
    <3>3. PICK k \in 1 .. Len(fs[i].lines) : fs[i].lines[k].id = m
      BY <3>2
    <3>4. CASE i = N
      <4>1. k \in 1 .. L /\ f.lines[k].id = m
        BY <3>3, <3>4, <1>6
      <4>2. k \in 1 .. Len(r[N].lines) /\ r[N].lines[k].id = m
        <5>1. k \in 1 .. L + 1
          BY <4>1, <1>3
        <5>2. g.lines[k] = f.lines[k]
          BY <4>1, <1>4
        <5>3. r[N].lines = g.lines /\ Len(g.lines) = L + 1
          BY <1>2, <1>4
        <5> QED BY <4>1, <5>1, <5>2, <5>3
      <4> QED BY <4>2, <3>4
    <3>5. CASE i # N
      BY <3>3, <3>5, <1>2
    <3> QED BY <3>4, <3>5
  <2> QED BY <2>1, <2>2
<1>8. ASSUME NEW k \in 1 .. L + 1 PROVE g.lines[k].id = n + 1 - (L + 1) + k
  <2>1. CASE k = L + 1
    BY <2>1, <1>3, <1>4
  <2>2. CASE k # L + 1
    <3>1. k \in 1 .. L
      BY <2>2, <1>3
    <3>2. g.lines[k].id = n - L + k
      <4>1. g.lines[k] = f.lines[k]
        BY <3>1, <1>4
      <4>2. f.lines[k].id = n - L + k
        BY <3>1, <1>5
      <4> QED BY <4>1, <4>2
    <3> QED BY <3>1, <3>2, <1>3
  <2> QED BY <2>1, <2>2
<1>9. n + 1 - (L + 1) = n - L
  BY <1>3
<1>10. g.onDisk <= L + 1 /\ (g.torn => g.onDisk < L + 1)
  BY <1>1, <1>6
<1>11. Len(r) = N
  BY <1>2
<1>12. \A i \in 1 .. N : i # N =>
         /\ r[i].onDisk = Len(r[i].lines) /\ r[i].torn = FALSE
         /\ \A k \in 1 .. Len(r[i].lines) : r[i].lines[k].id \in 1 .. n - L
  BY <1>2, <1>5
<1>13. Len(r) = N /\ r[N] = g /\ Len(g.lines) = L + 1 /\ Older(r, n + 1) = n - L
  <2>1. r[Len(r)] = g
    BY <1>1, <1>2
  <2>2. Len(r[Len(r)].lines) = L + 1
    BY ONLY <2>1, <1>4
  <2>3. Older(r, n + 1) = n + 1 - (L + 1)
    BY ONLY <2>2, SMTT(30) DEF Older
  <2> QED BY ONLY <2>1, <2>2, <2>3, <1>1, <1>2, <1>9
<1>14. NewestAreLast(r, n + 1)
  <2>1. r[Len(r)] = g
    BY <1>13
  <2>2. Older(r, n + 1) \in Nat
    BY <1>5, <1>13
  <2>3. \A k \in 1 .. Len(g.lines) : g.lines[k].id = Older(r, n + 1) + k
    BY <1>8, <1>9, <1>13
  <2>4. g.onDisk <= Len(g.lines) /\ (g.torn => g.onDisk < Len(g.lines))
    BY <1>10, <1>13
  <2> QED BY ONLY <2>1, <2>2, <2>3, <2>4 DEF NewestAreLast
<1>15. OlderAreOnDisk(r, n + 1)
  BY <1>12, <1>13 DEF OlderAreOnDisk
<1>16. NoneIsMissing(r, n + 1)
  BY <1>7, <1>13 DEF NoneIsMissing
<1> QED BY <1>14, <1>15, <1>16 DEF Kept, r

\* The same lines, with more of them on the disk.
LEMMA KeptFlushed ==
    ASSUME NEW fs, NEW t, Named(fs, t), NEW n \in Nat, Kept(fs, n),
           NEW g \in Files, g.lines = Last(fs).lines, g.onDisk <= Len(g.lines),
           g.torn => g.onDisk < Len(g.lines)
    PROVE  Kept(Replaced(fs, g), n)
<1> DEFINE f == fs[Len(fs)]
           r == Replaced(fs, g)
           N == Len(fs)
<1>1. fs \in Seq(Files) /\ fs # <<>> /\ N \in Nat \ {0} /\ f = Last(fs)
  BY LastOfNamed DEF Named
<1>2. /\ Len(r) = N
      /\ \A k \in 1 .. N : k # N => r[k] = fs[k]
      /\ r[N] = g
  BY <1>1, ReplacedFacts
<1>3. /\ n - Len(f.lines) \in Nat
      /\ \A k \in 1 .. Len(f.lines) : f.lines[k].id = n - Len(f.lines) + k
      /\ \A i \in 1 .. N : i # N =>
           /\ fs[i].onDisk = Len(fs[i].lines) /\ fs[i].torn = FALSE
           /\ \A k \in 1 .. Len(fs[i].lines) : fs[i].lines[k].id \in 1 .. n - Len(f.lines)
      /\ \A m \in 1 .. n : \E i \in 1 .. N : \E k \in 1 .. Len(fs[i].lines) : fs[i].lines[k].id = m
  BY DEF Kept, NewestAreLast, OlderAreOnDisk, NoneIsMissing, Older
<1>4. fs[N] = f /\ g.lines = f.lines
  BY <1>1
<1> HIDE DEF f, r, N
<1>5. \A k \in 1 .. N : r[k].lines = fs[k].lines
  BY <1>2, <1>4
<1>6. ASSUME NEW m \in 1 .. n
      PROVE  \E i \in 1 .. N : \E k \in 1 .. Len(r[i].lines) : r[i].lines[k].id = m
  <2>1. PICK i \in 1 .. N : \E k \in 1 .. Len(fs[i].lines) : fs[i].lines[k].id = m
    BY <1>3
  <2>2. r[i].lines = fs[i].lines
    BY <1>5
  <2> QED BY <2>1, <2>2
<1>7. \A i \in 1 .. N : i # N =>
        /\ r[i].onDisk = Len(r[i].lines) /\ r[i].torn = FALSE
        /\ \A k \in 1 .. Len(r[i].lines) : r[i].lines[k].id \in 1 .. n - Len(f.lines)
  BY <1>2, <1>3
<1>8. Len(r) = N /\ r[N] = g /\ Older(r, n) = n - Len(f.lines)
  BY <1>1, <1>2, <1>4 DEF Older
<1>9. NewestAreLast(r, n)
  BY <1>3, <1>4, <1>8 DEF NewestAreLast
<1>10. OlderAreOnDisk(r, n)
  BY <1>7, <1>8 DEF OlderAreOnDisk
<1>11. NoneIsMissing(r, n)
  BY <1>6, <1>8 DEF NoneIsMissing
<1> QED BY <1>9, <1>10, <1>11 DEF Kept, r

\* A new file behind one that is on the disk.
LEMMA KeptRolled ==
    ASSUME NEW fs, NEW s, Named(fs, s), NEW n \in Nat, Kept(fs, n),
           Last(fs).onDisk = Len(Last(fs).lines), Last(fs).torn = FALSE, NEW t \in Nat
    PROVE  Kept(Append(fs, NewFile(t)), n)
<1> DEFINE f == fs[Len(fs)]
           x == Append(fs, NewFile(t))
           N == Len(fs)
           L == Len(f.lines)
<1>1. fs \in Seq(Files) /\ N \in Nat \ {0} /\ f = Last(fs) /\ f \in Files
  BY LastOfNamed DEF Named
<1>2. NewFile(t) \in Files /\ NewFile(t).lines = <<>> /\ NewFile(t).onDisk = 0
      /\ NewFile(t).torn = FALSE
  BY DEF NewFile, Files
<1>3. /\ Len(x) = N + 1
      /\ \A k \in 1 .. N : x[k] = fs[k]
      /\ x[N + 1] = NewFile(t)
  BY <1>1, <1>2, AppendProperties
<1>4. L \in Nat
  BY <1>1, LenProperties DEF Files
<1>5. /\ n - L \in Nat
      /\ \A k \in 1 .. L : f.lines[k].id = n - L + k
      /\ \A i \in 1 .. N : i # N =>
           /\ fs[i].onDisk = Len(fs[i].lines) /\ fs[i].torn = FALSE
           /\ \A k \in 1 .. Len(fs[i].lines) : fs[i].lines[k].id \in 1 .. n - L
      /\ \A m \in 1 .. n : \E i \in 1 .. N : \E k \in 1 .. Len(fs[i].lines) : fs[i].lines[k].id = m
  BY DEF Kept, NewestAreLast, OlderAreOnDisk, NoneIsMissing, Older
<1>6. fs[N] = f /\ Len(f.lines) = L /\ f.onDisk = L /\ f.torn = FALSE
  BY <1>1
<1>7. Len(<<>>) = 0
  BY EmptySeq
<1> HIDE DEF f, x, N, L
<1>8. ASSUME NEW i \in 1 .. N
      PROVE  /\ x[i].onDisk = Len(x[i].lines) /\ x[i].torn = FALSE
             /\ \A k \in 1 .. Len(x[i].lines) : x[i].lines[k].id \in 1 .. n
  <2>1. CASE i = N
    <3>1. x[i] = f
      BY <2>1, <1>1, <1>3, <1>6
    <3>2. \A k \in 1 .. L : f.lines[k].id \in 1 .. n
      BY <1>4, <1>5
    <3> QED BY <3>1, <3>2, <1>6
  <2>2. CASE i # N
    <3>1. x[i] = fs[i]
      BY <1>3
    <3>2. \A k \in 1 .. Len(fs[i].lines) : fs[i].lines[k].id \in 1 .. n - L
      BY <2>2, <1>5
    <3>3. \A m \in 1 .. n - L : m \in 1 .. n
      BY <1>4, <1>5
    <3> QED BY <2>2, <3>1, <3>2, <3>3, <1>5
  <2> QED BY <2>1, <2>2
<1>9. ASSUME NEW m \in 1 .. n
      PROVE  \E i \in 1 .. N + 1 : \E k \in 1 .. Len(x[i].lines) : x[i].lines[k].id = m
  <2>1. PICK i \in 1 .. N : \E k \in 1 .. Len(fs[i].lines) : fs[i].lines[k].id = m
    BY <1>5
  <2>2. i \in 1 .. N + 1 /\ x[i] = fs[i]
    BY <1>1, <1>3
  <2> QED BY <2>1, <2>2
<1>10. \A i \in 1 .. N + 1 : i # N + 1 => i \in 1 .. N
  BY <1>1
<1>12. Len(x) = N + 1 /\ x[N + 1].lines = <<>> /\ x[N + 1].onDisk = 0 /\ x[N + 1].torn = FALSE
  BY <1>2, <1>3
<1>13. Older(x, n) = n
  BY <1>7, <1>12 DEF Older
<1>14. NewestAreLast(x, n)
  BY <1>7, <1>12, <1>13 DEF NewestAreLast
<1>15. OlderAreOnDisk(x, n)
  BY <1>8, <1>10, <1>12, <1>13 DEF OlderAreOnDisk
<1>16. NoneIsMissing(x, n)
  BY <1>9, <1>12 DEF NoneIsMissing
<1> QED BY <1>14, <1>15, <1>16 DEF Kept, x

-----------------------------------------------------------------------------
(* The operations. *)

\* A flush of the current file.
LEMMA FlushedSound ==
    ASSUME NEW fs, NEW t, NEW n \in Nat, Sound(fs, t, n), NEW gs \in flushed(fs)
    PROVE  Sound(gs, t, n)
<1>1. PICK g \in Flushed(Last(fs)) : gs = Replaced(fs, g)
  BY DEF flushed
<1>2. Named(fs, t) /\ Last(fs) \in Files
  BY LastOfNamed DEF Sound
<1>3. g \in Files /\ g.name = Last(fs).name
  BY <1>2, FlushedType
<1>4. Named(gs, t)
  BY <1>1, <1>2, <1>3, NamedReplaced
<1>5. ASSUME disk = "fine" PROVE Kept(gs, n)
  <2>1. g = AllOnDisk(Last(fs))
    BY <1>5 DEF Flushed
  <2>2. g.lines = Last(fs).lines /\ g.onDisk = Len(g.lines) /\ g.torn = FALSE
    BY <2>1, <1>2, AllOnDiskFacts
  <2>3. Len(g.lines) \in Nat
    BY <1>3, LenProperties DEF Files
  <2> QED BY <1>1, <1>2, <1>3, <1>5, <2>2, <2>3, KeptFlushed DEF Sound
<1> QED BY <1>4, <1>5 DEF Sound

\* The current file is closed and another is opened at a later second.
LEMMA RolledSound ==
    ASSUME NEW fs, NEW s \in Nat, NEW n \in Nat, Sound(fs, s, n),
           NEW t \in Nat, t > s, NEW gs \in Rolled(fs, t)
    PROVE  Sound(gs, t, n)
<1>1. PICK g \in Closed(Last(fs)) : gs = Append(Replaced(fs, g), NewFile(t))
  BY DEF Rolled
<1>2. Named(fs, s) /\ fs \in Seq(Files) /\ fs # <<>> /\ Last(fs) \in Files
  BY LastOfNamed DEF Sound, Named
<1>3. g \in Files /\ g.name = Last(fs).name
  BY <1>2, ClosedType
<1> DEFINE r == Replaced(fs, g)
<1>4. Named(r, s)
  BY <1>2, <1>3, NamedReplaced
<1>5. Last(r) = g
  <2>1. Len(r) = Len(fs) /\ r[Len(fs)] = g
    BY <1>2, <1>3, ReplacedFacts
  <2> HIDE DEF r
  <2>2. Last(r) = r[Len(r)]
    BY <1>4, LastOfNamed
  <2> QED BY <2>1, <2>2
<1>6. ASSUME disk = "fine" PROVE Kept(gs, n)
  <2>1. PICK h \in Flushed(Last(fs)) : g = AllOnDisk(h)
    BY DEF Closed
  <2>2. h = AllOnDisk(Last(fs))
    BY <1>6, <2>1 DEF Flushed
  <2>3. g.lines = Last(fs).lines /\ g.onDisk = Len(g.lines) /\ g.torn = FALSE
    BY <2>1, <2>2, <1>2, AllOnDiskFacts
  <2>4. Len(g.lines) \in Nat
    BY <1>3, LenProperties DEF Files
  <2>5. Kept(r, n)
    BY <1>2, <1>3, <1>6, <2>3, <2>4, KeptFlushed DEF Sound
  <2> HIDE DEF r
  <2>6. Kept(Append(r, NewFile(t)), n)
    BY <1>4, <1>5, <2>3, <2>5, KeptRolled
  <2> QED BY <1>1, <2>6 DEF r
<1>7. Named(gs, t)
  <2> HIDE DEF r
  <2>1. Named(Append(r, NewFile(t)), t)
    BY <1>4, NamedAppended
  <2> QED BY <1>1, <2>1 DEF r
<1> QED BY <1>6, <1>7 DEF Sound

\* What the calls under append() leave of the variables.
Times == startOfPeriod_ \in Nat /\ lastRoll_ \in Nat /\ lastFlush_ \in Nat /\ aborted \in BOOLEAN

World == clock \in Nat /\ setBack \in BOOLEAN

LEMMA RollSound ==
    ASSUME Times, NEW fs, NEW n \in Nat, Sound(fs, lastRoll_, n),
           NEW t \in Nat, rollFile(fs, t)
    PROVE  Times' /\ Sound(files', lastRoll_', n)
<1>1. CASE /\ MayRoll(t) /\ lastRoll_' = t /\ lastFlush_' = t /\ startOfPeriod_' = Period(t)
           /\ files' \in Rolled(fs, t) /\ aborted' = aborted
  <2>1. t > lastRoll_
    BY <1>1 DEF MayRoll
  <2>2. Sound(files', t, n)
    BY <1>1, <2>1, RolledSound DEF Times
  <2> QED BY <1>1, <2>2, PeriodType DEF Times
<1>2. CASE /\ files' = fs /\ aborted' \in BOOLEAN
           /\ UNCHANGED <<lastRoll_, lastFlush_, startOfPeriod_>>
  BY <1>2 DEF Times
<1> QED BY <1>1, <1>2 DEF rollFile, rollVars, Times

LEMMA RollTimesType ==
    ASSUME NEW t \in RollTimes
    PROVE  t \in Nat
BY DEF RollTimes

LEMMA RollsSound ==
    ASSUME Times, World, NEW fs, NEW n \in Nat, Sound(fs, lastRoll_, n), rolls(fs)
    PROVE  Times' /\ World' /\ Sound(files', lastRoll_', n)
<1>1. PICK t \in RollTimes : rollFile(fs, t) /\ clock' = t /\ setBack' = (setBack \/ t < clock)
  BY DEF rolls
<1>2. t \in Nat
  BY RollTimesType
<1>3. Times' /\ Sound(files', lastRoll_', n)
  BY <1>1, <1>2, RollSound
<1>4. setBack' \in BOOLEAN
  BY <1>1 DEF World
<1> QED BY <1>1, <1>2, <1>3, <1>4 DEF World

LEMMA CheckSound ==
    ASSUME Times, World, NEW fs, NEW n \in Nat, Sound(fs, lastRoll_, n), check(fs)
    PROVE  Times' /\ World' /\ Sound(files', lastRoll_', n)
<1>1. CASE rolls(fs)
  BY <1>1, RollsSound
<1>2. CASE /\ lastFlush_' = clock /\ files' \in flushed(fs)
           /\ UNCHANGED <<startOfPeriod_, lastRoll_, aborted, timeVars>>
  <2>1. Sound(files', lastRoll_, n)
    BY <1>2, FlushedSound
  <2> QED BY <1>2, <2>1 DEF Times, World, timeVars
<1>3. CASE files' = fs /\ UNCHANGED <<rollVars, timeVars>>
  BY <1>3 DEF rollVars, timeVars, Times, World
<1> QED BY <1>1, <1>2, <1>3 DEF check

\* One line more.
LEMMA WrittenSound ==
    ASSUME NEW fs, NEW t, NEW n \in Nat, Sound(fs, t, n),
           NEW line \in Lines, line.id = n + 1, NEW len \in Nat,
           NEW g \in Written(Last(fs), line, len)
    PROVE  Sound(Replaced(fs, g), t, n + 1)
<1>1. Named(fs, t) /\ Last(fs) \in Files
  BY LastOfNamed DEF Sound
<1>2. g \in Files /\ g.name = Last(fs).name
  BY <1>1, WrittenType
<1>3. Named(Replaced(fs, g), t)
  BY <1>1, <1>2, NamedReplaced
<1>4. ASSUME disk = "fine" PROVE Kept(Replaced(fs, g), n + 1)
  <2> DEFINE f == Last(fs)
  <2>1. g \in HandedOn(Taken(f, line, len))
    BY <1>4, WrittenSteps
  <2>2. g.lines = Append(f.lines, line) /\ g.onDisk <= Len(g.lines)
        /\ (g.torn => g.onDisk < Len(g.lines))
    <3> DEFINE w == Taken(f, line, len)
    <3>1. w \in Files /\ w.lines = Append(f.lines, line)
      BY <1>1, TakenFacts
    <3> HIDE DEF w
    <3> QED BY <2>1, <3>1, HandedOnFacts DEF w
  <2>3. Len(g.lines) = Len(f.lines) + 1
    BY <2>2, <1>1, AppendProperties DEF Files
  <2>4. g.onDisk <= Len(f.lines) + 1 /\ (g.torn => g.onDisk < Len(f.lines) + 1)
    BY <2>2, <2>3
  <2> QED BY <1>1, <1>2, <1>4, <2>2, <2>4, KeptTaken DEF Sound
<1> QED BY <1>3, <1>4 DEF Sound

LEMMA AppendStep ==
    ASSUME IInv, NEW len \in LineLens, append(len)
    PROVE  IInv'
<1>1. len \in Nat
  BY LogFileAssumption
<1>2. PICK f \in Written(Last(files), [id |-> lines + 1, at |-> clock, whole |-> TRUE], len) :
        LET fs == Replaced(files, f)
        IN  \/ /\ TooLong(f)
               /\ rolls(fs)
               /\ UNCHANGED count_
            \/ /\ ~ TooLong(f) /\ ~ CheckIsDue(count_)
               /\ count_' = count_ + 1
               /\ files' = fs
               /\ UNCHANGED <<rollVars, timeVars>>
            \/ /\ ~ TooLong(f) /\ CheckIsDue(count_)
               /\ count_' = 0
               /\ check(fs)
  BY DEF append
<1>3. lines' = lines + 1 /\ disk' = disk
  BY DEF append
<1>4. lines \in Nat /\ clock \in Nat /\ count_ \in 0 .. checkEveryN_ - 1 /\ Times /\ World
  BY DEF IInv, TypeOK, Times, World
<1> DEFINE fs == Replaced(files, f)
<1>5. Sound(fs, lastRoll_, lines + 1)
  <2> DEFINE line == [id |-> lines + 1, at |-> clock, whole |-> TRUE]
  <2>1. line \in Lines /\ line.id = lines + 1
    BY <1>4 DEF Lines
  <2> HIDE DEF line
  <2>2. f \in Written(Last(files), line, len)
    BY DEF line
  <2> QED BY <1>1, <1>4, <2>1, <2>2, WrittenSound DEF IInv
<1>6. lines + 1 \in Nat
  BY <1>4
<1>7. checkEveryN_ \in Nat \ {0}
  BY LogFileAssumption
<1> HIDE DEF fs
<1>8. Times' /\ World' /\ count_' \in 0 .. checkEveryN_ - 1
      /\ Sound(files', lastRoll_', lines + 1)
  <2>1. CASE rolls(fs) /\ UNCHANGED count_
    BY <1>4, <1>5, <1>6, <2>1, RollsSound
  <2>2. CASE /\ ~ CheckIsDue(count_) /\ count_' = count_ + 1
             /\ files' = fs /\ UNCHANGED <<rollVars, timeVars>>
    <3>1. count_' \in 0 .. checkEveryN_ - 1
      BY <1>4, <1>7, <2>2 DEF CheckIsDue
    <3>2. Times' /\ World' /\ lastRoll_' = lastRoll_ /\ files' = fs
      BY <1>4, <2>2 DEF rollVars, timeVars, Times, World
    <3> QED BY <1>5, <3>1, <3>2
  <2>3. CASE count_' = 0 /\ check(fs)
    <3>1. Times' /\ World' /\ Sound(files', lastRoll_', lines + 1)
      BY <1>4, <1>5, <1>6, <2>3, CheckSound
    <3> QED BY <1>7, <2>3, <3>1
  <2> QED BY <1>2, <2>1, <2>2, <2>3 DEF fs
<1>9. disk \in {"fine", "full", "freed"}
  BY DEF IInv, TypeOK
<1>10. Sound(files, lastRoll_, lines)'
  BY <1>3, <1>8 DEF Sound
<1>11. files' \in Seq(Files) /\ files' # <<>>
  BY <1>8 DEF Sound, Named
<1> QED BY <1>3, <1>6, <1>8, <1>9, <1>10, <1>11 DEF IInv, TypeOK, Times, World

LEMMA RollStep == IInv /\ roll => IInv'
<1> SUFFICES ASSUME IInv, roll PROVE IInv'
  OBVIOUS
<1>1. Times /\ clock \in Nat /\ lines \in Nat /\ Sound(files, lastRoll_, lines)
  BY DEF IInv, TypeOK, Times
<1>2. rollFile(files, clock) /\ UNCHANGED <<clock, setBack, disk, count_, lines>>
  BY DEF roll, timeVars
<1>3. Times' /\ Sound(files', lastRoll_', lines)
  BY <1>1, <1>2, RollSound
<1>4. files' \in Seq(Files) /\ files' # <<>>
  BY <1>3 DEF Sound, Named
<1>5. Sound(files, lastRoll_, lines)'
  BY <1>2, <1>3 DEF Sound
<1> QED BY <1>2, <1>3, <1>4, <1>5 DEF IInv, TypeOK, Times

LEMMA FlushStep == IInv /\ flush => IInv'
<1> SUFFICES ASSUME IInv, flush PROVE IInv'
  OBVIOUS
<1>1. Sound(files', lastRoll_, lines)
  BY FlushedSound DEF flush, IInv, TypeOK
<1> QED BY <1>1 DEF flush, IInv, TypeOK, Sound, Named, timeVars, rollVars

\* The clock and the disk: no step of theirs touches a file.
LEMMA WorldStep ==
    IInv /\ (tick \/ setClockBack \/ diskFills \/ diskIsFreed \/ UNCHANGED vars) => IInv'
<1> SUFFICES ASSUME IInv PROVE (tick \/ setClockBack \/ diskFills \/ diskIsFreed \/ UNCHANGED vars) => IInv'
  OBVIOUS
<1> USE DEF IInv, TypeOK, Sound, timeVars, rollVars
<1>1. CASE tick
  BY <1>1 DEF tick
<1>2. CASE setClockBack
  BY <1>2 DEF setClockBack
<1>3. CASE diskFills
  BY <1>3 DEF diskFills
<1>4. CASE diskIsFreed
  BY <1>4 DEF diskIsFreed
<1>5. CASE UNCHANGED vars
  BY <1>5 DEF vars
<1> QED BY <1>1, <1>2, <1>3, <1>4, <1>5

LEMMA Initially == Init => IInv
<1> SUFFICES ASSUME Init PROVE IInv
  OBVIOUS
<1>1. clock \in Nat /\ clock = lastRoll_ /\ lines = 0 /\ files = <<NewFile(clock)>>
  BY LogFileAssumption DEF Init
<1>2. NewFile(clock) \in Files
  BY <1>1, EmptySeq DEF NewFile, Files
<1>3. files \in Seq(Files) /\ files # <<>> /\ Len(files) = 1 /\ files[1] = NewFile(clock)
  BY <1>1, <1>2
<1>4. TypeOK
  <2>1. Period(clock) \in Nat
    BY <1>1, PeriodType
  <2>2. count_ \in 0 .. checkEveryN_ - 1
    BY LogFileAssumption DEF Init
  <2>3. setBack = FALSE /\ aborted = FALSE /\ disk = "fine" /\ startOfPeriod_ = Period(clock)
        /\ lastFlush_ = clock
    BY DEF Init
  <2> QED BY ONLY <1>1, <1>3, <2>1, <2>2, <2>3 DEF TypeOK
<1>5. Named(files, lastRoll_)
  BY <1>1, <1>3 DEF Named, NewFile
<1>6. files[1].lines = <<>> /\ files[1].onDisk = 0 /\ files[1].torn = FALSE /\ Len(<<>>) = 0
  BY <1>3, EmptySeq DEF NewFile
<1>7. Kept(files, lines)
  BY <1>1, <1>3, <1>6 DEF Kept, NewestAreLast, OlderAreOnDisk, NoneIsMissing, Older
<1> QED BY <1>4, <1>5, <1>7 DEF IInv, Sound

LEMMA Inductive == Spec => []IInv
<1>1. IInv /\ [Next]_vars => IInv'
  BY AppendStep, RollStep, FlushStep, WorldStep DEF Next
<1> QED BY Initially, <1>1, PTL DEF Spec

-----------------------------------------------------------------------------
(* The clock: days, and how a file grows.                                  *)

\* A day is an interval: what lies between two moments of it is of it.
LEMMA PeriodConvex ==
    ASSUME NEW a \in Nat, NEW b \in Nat, NEW c \in Nat, a <= b, b <= c,
           Period(a) = Period(c)
    PROVE  Period(b) = Period(a)
<1> DEFINE P == kRollPerSeconds_
           qa == a \div P
           qb == b \div P
           qc == c \div P
<1>1. P \in Nat /\ P > 0
  BY LogFileAssumption
<1> HIDE DEF P
<1>2. qa \in Nat /\ qb \in Nat /\ qc \in Nat
  BY <1>1
<1>3. qa * P <= a /\ qb * P <= b /\ b < qb * P + P /\ c < qc * P + P
  BY <1>1
<1>4. Period(a) = qa * P /\ Period(b) = qb * P /\ Period(c) = qc * P
  BY DEF Period, P
<1> HIDE DEF qa, qb, qc
<1>5. qa * P \in Nat /\ qb * P \in Nat /\ qc * P \in Nat
  BY <1>1, <1>2
<1>6. qa * P < qb * P + P /\ qb * P < qa * P + P
  <2> DEFINE x == qa * P
             y == qb * P
             z == qc * P
  <2>1. x \in Nat /\ y \in Nat /\ z \in Nat /\ x = z
    BY <1>4, <1>5
  <2>2. x <= a /\ y <= b /\ b < y + P /\ c < z + P
    BY <1>3
  <2> HIDE DEF x, y, z
  <2>3. x < y + P /\ y < x + P
    BY <1>1, <2>1, <2>2
  <2> QED BY <2>3 DEF x, y
<1>7. qa < qb + 1 /\ qb < qa + 1
  <2>1. (qb + 1) * P = qb * P + P /\ (qa + 1) * P = qa * P + P
    BY <1>1, <1>2
  <2>2. ASSUME NEW x \in Nat, NEW y \in Nat, x <= y PROVE x * P <= y * P
    BY <1>1, <2>2
  <2> QED BY <1>1, <1>2, <1>5, <1>6, <2>1, <2>2
<1>8. qa = qb
  BY <1>2, <1>7
<1> QED BY <1>4, <1>8

\* g has lines of f, the first of them, perhaps not all.
Keeps(g, f) ==
    /\ g.name = f.name /\ Len(g.lines) <= Len(f.lines)
    /\ \A k \in 1 .. Len(g.lines) : g.lines[k].at = f.lines[k].at

\* And perhaps one more, appended at the second t.
Grows(g, f, t) ==
    /\ g.name = f.name /\ Len(g.lines) <= Len(f.lines) + 1
    /\ \A k \in 1 .. Len(g.lines) :
         \/ k <= Len(f.lines) /\ g.lines[k].at = f.lines[k].at
         \/ k = Len(g.lines) /\ g.lines[k].at = t

LEMMA FileLines ==
    ASSUME NEW f \in Files
    PROVE  /\ f.name \in Nat /\ f.lines \in Seq(Lines) /\ Len(f.lines) \in Nat
           /\ f.onDisk \in Nat /\ f.writtenBytes \in Nat
           /\ \A k \in 1 .. Len(f.lines) : f.lines[k] \in Lines /\ f.lines[k].at \in Nat
<1>1. f.name \in Nat /\ f.lines \in Seq(Lines) /\ f.onDisk \in Nat /\ f.writtenBytes \in Nat
  BY DEF Files
<1>2. Len(f.lines) \in Nat /\ \A k \in 1 .. Len(f.lines) : f.lines[k] \in Lines
  BY <1>1, LenProperties, ElementOfSeq
<1> QED BY <1>1, <1>2 DEF Lines

LEMMA DamagedKeeps ==
    ASSUME NEW f \in Files, NEW g \in Damaged(f)
    PROVE  Keeps(g, f)
<1>1. /\ g.name = f.name /\ Len(g.lines) <= Len(f.lines)
      /\ \A k \in 1 .. Len(g.lines) : g.lines[k] \in {f.lines[k], Cut(f.lines[k])}
      /\ g \in Files
  BY DamagedFacts
<1>2. \A k \in 1 .. Len(g.lines) : f.lines[k] \in Lines
  <2>1. \A k \in 1 .. Len(g.lines) : k \in 1 .. Len(f.lines)
    BY <1>1, FileLines
  <2> QED BY <2>1, FileLines
<1>3. \A l \in Lines : Cut(l).at = l.at
  BY DEF Cut, Lines
<1> QED BY <1>1, <1>2, <1>3 DEF Keeps

LEMMA FlushedKeeps ==
    ASSUME NEW f \in Files, NEW g \in Flushed(f)
    PROVE  Keeps(g, f)
<1>1. CASE disk = "full"
  BY <1>1, DamagedKeeps DEF Flushed
<1>2. CASE disk # "full"
  <2>1. g = AllOnDisk(f)
    BY <1>2 DEF Flushed
  <2>2. g.lines = f.lines /\ g.name = f.name
    BY <2>1, AllOnDiskFacts
  <2> QED BY <2>2, FileLines DEF Keeps
<1> QED BY <1>1, <1>2

LEMMA ClosedKeeps ==
    ASSUME NEW f \in Files, NEW g \in Closed(f)
    PROVE  Keeps(g, f)
<1>1. PICK h \in Flushed(f) : g = AllOnDisk(h)
  BY DEF Closed
<1>2. h \in Files /\ Keeps(h, f)
  BY FlushedType, FlushedKeeps
<1>3. g.lines = h.lines /\ g.name = h.name
  BY <1>1, <1>2, AllOnDiskFacts
<1> QED BY <1>2, <1>3 DEF Keeps

LEMMA WrittenGrows ==
    ASSUME NEW f \in Files, NEW line \in Lines, NEW len \in Nat,
           NEW g \in Written(f, line, len)
    PROVE  Grows(g, f, line.at)
<1>1. f.lines \in Seq(Lines) /\ Len(f.lines) \in Nat
  BY FileLines
<1>2. Counted(f, len) \in Files /\ Counted(f, len).lines = f.lines /\ Counted(f, len).name = f.name
  BY TakenFacts
<1> DEFINE grown(ls) == /\ Len(ls) <= Len(f.lines) + 1
                        /\ \A k \in 1 .. Len(ls) :
                             \/ k <= Len(f.lines) /\ ls[k].at = f.lines[k].at
                             \/ k = Len(ls) /\ ls[k].at = line.at
<1>3. grown(Append(f.lines, line))
  <2> DEFINE ls == Append(f.lines, line)
  <2>1. /\ Len(ls) = Len(f.lines) + 1
        /\ \A k \in 1 .. Len(f.lines) : ls[k] = f.lines[k]
        /\ ls[Len(f.lines) + 1] = line
    BY <1>1, AppendProperties
  <2> HIDE DEF ls
  <2>2. grown(ls)
    BY <1>1, <2>1
  <2> QED BY <2>2 DEF ls
<1>4. PICK w : /\ g \in HandedOn(w)
               /\ \/ w = Taken(f, line, len)
                  \/ /\ disk = "full"
                     /\ \E h \in Damaged(Counted(f, len)), rest \in Rest(line) :
                          w = Behind(h, rest)
  BY WrittenSteps
<1>5. w \in Files /\ Grows(w, f, line.at)
  <2>1. CASE w = Taken(f, line, len)
    <3>1. w \in Files /\ w.lines = Append(f.lines, line) /\ w.name = f.name
      BY <2>1, TakenFacts
    <3> QED BY <1>3, <3>1 DEF Grows
  <2>2. CASE w # Taken(f, line, len)
    <3>1. PICK h \in Damaged(Counted(f, len)), rest \in Rest(line) : w = Behind(h, rest)
      BY <1>4, <2>2
    <3>2. h \in Files /\ Keeps(h, Counted(f, len))
      BY <1>2, DamagedType, DamagedKeeps
    <3>3. /\ h.name = f.name /\ Len(h.lines) <= Len(f.lines)
          /\ \A k \in 1 .. Len(h.lines) : h.lines[k].at = f.lines[k].at
      BY <1>2, <3>2 DEF Keeps
    <3>4. w \in Files /\ w.lines = h.lines \o rest /\ w.name = f.name
      BY <3>1, <3>2, <3>3, BehindFacts
    <3>5. h.lines \in Seq(Lines) /\ Len(h.lines) \in Nat
      BY <3>2, FileLines
    <3>6. CASE rest = <<>>
      <4>1. w.lines = h.lines
        BY <3>4, <3>5, <3>6
      <4> QED BY <1>1, <3>3, <3>4, <3>5, <4>1 DEF Grows
    <3>7. CASE rest # <<>>
      <4>1. PICK l \in Lines : l.at = line.at /\ rest = <<l>>
        BY <3>7 DEF Rest, Cut, Lines
      <4>2. /\ Len(w.lines) = Len(h.lines) + 1
            /\ \A k \in 1 .. Len(h.lines) : w.lines[k] = h.lines[k]
            /\ w.lines[Len(h.lines) + 1] = l
        BY <3>4, <3>5, <4>1
      <4> QED BY <1>1, <3>3, <3>4, <3>5, <4>1, <4>2 DEF Grows
    <3> QED BY <3>6, <3>7
  <2> QED BY <2>1, <2>2
<1>6. g.lines = w.lines /\ g.name = w.name
  BY <1>4, <1>5, HandedOnFacts
<1> QED BY <1>5, <1>6 DEF Grows

-----------------------------------------------------------------------------
(* The times of the lines. *)

\* The lines of f are of the time from its opening until now.
OnTime(f, now) ==
    /\ f.name <= now
    /\ \A k \in 1 .. Len(f.lines) : f.name <= f.lines[k].at /\ f.lines[k].at <= now

\* All but the last n lines of f are of the day it is named for.
SameDay(f, n) ==
    \A k \in 1 .. Len(f.lines) - n : Period(f.lines[k].at) = Period(f.name)

Dated(fs, n, now) ==
    /\ OnTime(Last(fs), now) /\ SameDay(Last(fs), n)
    /\ \A i \in 1 .. Len(fs) : i # Len(fs) => SameDay(fs[i], checkEveryN_)

\* The lines of f that wait in the stdio buffer are not older than the last
\* flush, at t, and only the last n lines are of a time when another was due.
Fresh(f, n, t) ==
    \/ TooLong(f)
    \/ /\ \A k \in 1 .. Len(f.lines) : k > f.onDisk => t <= f.lines[k].at
       /\ \A k \in 1 .. Len(f.lines) - n : f.lines[k].at <= t + flushInterval_

LEMMA KeepsTimes ==
    ASSUME NEW f \in Files, NEW g \in Files, Keeps(g, f), NEW n \in Nat, NEW now \in Nat
    PROVE  /\ OnTime(f, now) => OnTime(g, now)
           /\ SameDay(f, n) => SameDay(g, n)
<1>1. Len(f.lines) \in Nat /\ Len(g.lines) \in Nat
  BY FileLines
<1> QED BY <1>1, SMTT(30) DEF Keeps, OnTime, SameDay

\* One line more, appended now, is one more that may be of another day.
LEMMA GrowsTimes ==
    ASSUME NEW f \in Files, NEW g \in Files, NEW now \in Nat, Grows(g, f, now),
           OnTime(f, now), NEW n \in Nat, SameDay(f, n)
    PROVE  OnTime(g, now) /\ SameDay(g, n + 1)
<1>1. Len(f.lines) \in Nat /\ Len(g.lines) \in Nat
  BY FileLines
<1>2. OnTime(g, now)
  <2>1. /\ g.name = f.name /\ f.name <= now
        /\ \A k \in 1 .. Len(f.lines) : f.name <= f.lines[k].at /\ f.lines[k].at <= now
    BY DEF Grows, OnTime
  <2>2. ASSUME NEW k \in 1 .. Len(g.lines)
        PROVE  g.name <= g.lines[k].at /\ g.lines[k].at <= now
    <3>1. \/ k <= Len(f.lines) /\ g.lines[k].at = f.lines[k].at
          \/ g.lines[k].at = now
      BY DEF Grows
    <3>2. now <= now
      OBVIOUS
    <3>3. k <= Len(f.lines) => k \in 1 .. Len(f.lines)
      BY <1>1
    <3> QED BY <2>1, <3>1, <3>2, <3>3
  <2> QED BY <2>1, <2>2 DEF OnTime
<1>3. ASSUME NEW k \in 1 .. Len(g.lines) - (n + 1)
      PROVE  Period(g.lines[k].at) = Period(g.name)
  <2>1. k \in 1 .. Len(g.lines) /\ k # Len(g.lines)
    BY <1>1
  <2>2. k <= Len(f.lines) /\ g.lines[k].at = f.lines[k].at /\ g.name = f.name
    BY <2>1 DEF Grows
  <2>3. k \in 1 .. Len(f.lines) - n
    BY <1>1, <2>2 DEF Grows
  <2> QED BY <2>2, <2>3 DEF SameDay
<1> QED BY <1>2, <1>3 DEF SameDay

\* On the day of its name, no line of f is of another day.
LEMMA WithinTheDay ==
    ASSUME NEW f \in Files, NEW now \in Nat, OnTime(f, now), Period(now) = Period(f.name),
           NEW n \in Nat
    PROVE  SameDay(f, n)
<1> SUFFICES ASSUME NEW k \in 1 .. Len(f.lines) - n
             PROVE  Period(f.lines[k].at) = Period(f.name)
  BY DEF SameDay
<1>1. f.name \in Nat /\ Len(f.lines) \in Nat
  BY FileLines
<1>2. k \in 1 .. Len(f.lines)
  BY <1>1
<1>3. f.lines[k].at \in Nat /\ f.name <= f.lines[k].at /\ f.lines[k].at <= now
  BY <1>2, FileLines DEF OnTime
<1> QED BY <1>1, <1>3, PeriodConvex

LEMMA MoreOfAnotherDay ==
    ASSUME NEW f \in Files, NEW m \in Nat, SameDay(f, m), NEW n \in Nat, m <= n
    PROVE  SameDay(f, n)
<1>1. Len(f.lines) \in Nat
  BY FileLines
<1> QED BY <1>1 DEF SameDay

LEMMA LastReplaced ==
    ASSUME NEW fs \in Seq(Files), fs # <<>>, NEW g \in Files
    PROVE  Last(Replaced(fs, g)) = g
<1> DEFINE r == Replaced(fs, g)
<1>1. Len(r) = Len(fs) /\ r[Len(fs)] = g
  BY ReplacedFacts
<1> HIDE DEF r
<1>2. Last(r) = g
  BY <1>1 DEF Last
<1> QED BY <1>2 DEF r

\* Another version of the current file, with lines of their time.
LEMMA DatedReplaced ==
    ASSUME NEW fs, NEW s, Named(fs, s), NEW m \in Nat, NEW now \in Nat, Dated(fs, m, now),
           NEW g \in Files, NEW n \in Nat, OnTime(g, now), SameDay(g, n)
    PROVE  Dated(Replaced(fs, g), n, now)
<1> DEFINE r == Replaced(fs, g)
<1>1. fs \in Seq(Files) /\ fs # <<>> /\ Len(fs) \in Nat \ {0}
  BY LastOfNamed DEF Named
<1>2. /\ Len(r) = Len(fs) /\ r[Len(fs)] = g
      /\ \A k \in 1 .. Len(fs) : k # Len(fs) => r[k] = fs[k]
  BY <1>1, ReplacedFacts
<1> HIDE DEF r
<1>3. Last(r) = g
  BY <1>2 DEF Last
<1>4. \A i \in 1 .. Len(r) : i # Len(r) => SameDay(r[i], checkEveryN_)
  BY <1>2 DEF Dated
<1>5. Dated(r, n, now)
  BY <1>3, <1>4 DEF Dated
<1> QED BY <1>5 DEF r

\* A new file, behind one that keeps to its day.
LEMMA DatedRolled ==
    ASSUME NEW fs, NEW s \in Nat, Named(fs, s), NEW m \in Nat, m <= checkEveryN_,
           NEW now \in Nat, Dated(fs, m, now),
           NEW t \in Nat, t > s, NEW gs \in Rolled(fs, t), NEW n \in Nat
    PROVE  Dated(gs, n, t) /\ Last(gs) = NewFile(t)
<1>1. PICK g \in Closed(Last(fs)) : gs = Append(Replaced(fs, g), NewFile(t))
  BY DEF Rolled
<1>2. fs \in Seq(Files) /\ fs # <<>> /\ Len(fs) \in Nat \ {0} /\ Last(fs) \in Files
  BY LastOfNamed DEF Named
<1>3. g \in Files /\ Keeps(g, Last(fs))
  BY <1>2, ClosedType, ClosedKeeps
<1>4. SameDay(g, checkEveryN_)
  <2>1. checkEveryN_ \in Nat
    BY LogFileAssumption
  <2>2. SameDay(Last(fs), checkEveryN_)
    BY <1>2, <2>1, MoreOfAnotherDay DEF Dated
  <2> QED BY <1>2, <1>3, <2>1, <2>2, KeepsTimes
<1> DEFINE r == Replaced(fs, g)
<1>5. /\ r \in Seq(Files) /\ Len(r) = Len(fs) /\ r[Len(fs)] = g
      /\ \A k \in 1 .. Len(fs) : k # Len(fs) => r[k] = fs[k]
  BY <1>2, <1>3, ReplacedFacts
<1>6. NewFile(t) \in Files /\ NewFile(t).name = t /\ NewFile(t).lines = <<>>
  BY DEF NewFile, Files
<1> HIDE DEF r
<1> DEFINE x == Append(r, NewFile(t))
<1>7. /\ Len(x) = Len(fs) + 1 /\ x[Len(fs) + 1] = NewFile(t)
      /\ \A k \in 1 .. Len(fs) : x[k] = r[k]
  BY <1>5, <1>6, AppendProperties
<1> HIDE DEF x
<1>8. \A i \in 1 .. Len(x) : i # Len(x) => SameDay(x[i], checkEveryN_)
  <2> SUFFICES ASSUME NEW i \in 1 .. Len(x), i # Len(x)
               PROVE  SameDay(x[i], checkEveryN_)
    OBVIOUS
  <2>1. i \in 1 .. Len(fs) /\ x[i] = r[i]
    BY <1>2, <1>7
  <2>2. CASE i = Len(fs)
    BY <1>4, <1>5, <2>1, <2>2
  <2>3. CASE i # Len(fs)
    <3>1. x[i] = fs[i]
      BY <1>5, <2>1, <2>3
    <3> QED BY <2>1, <2>3, <3>1 DEF Dated
  <2> QED BY <2>2, <2>3
<1>9. Last(x) = NewFile(t)
  BY <1>7 DEF Last
<1>10. OnTime(Last(x), t) /\ SameDay(Last(x), n)
  <2>1. Len(<<>>) = 0
    BY EmptySeq
  <2> QED BY <1>6, <1>9, <2>1 DEF OnTime, SameDay
<1>11. Dated(x, n, t)
  BY <1>8, <1>10 DEF Dated
<1> QED BY <1>1, <1>9, <1>11 DEF x, r

\* No line waits in a file that has just been opened or flushed.
LEMMA FreshWhenEmpty ==
    ASSUME NEW t, NEW n \in Nat, NEW u
    PROVE  Fresh(NewFile(t), n, u)
<1>1. NewFile(t).lines = <<>> /\ Len(<<>>) = 0
  BY EmptySeq DEF NewFile
<1> QED BY <1>1 DEF Fresh

LEMMA GrownFresh ==
    ASSUME NEW f \in Files, NEW g \in Files, NEW line \in Lines,
           g.lines = Append(f.lines, line), f.onDisk <= g.onDisk,
           f.writtenBytes <= g.writtenBytes,
           NEW n \in Nat, NEW t \in Nat, Fresh(f, n, t), t <= line.at
    PROVE  Fresh(g, n + 1, t)
<1>1. /\ Len(f.lines) \in Nat /\ f.lines \in Seq(Lines)
      /\ f.onDisk \in Nat /\ f.writtenBytes \in Nat
  BY FileLines
<1>2. g.onDisk \in Nat /\ g.writtenBytes \in Nat /\ rollSize_ \in Nat
  BY FileLines, LogFileAssumption
<1>3. /\ Len(g.lines) = Len(f.lines) + 1
      /\ \A k \in 1 .. Len(f.lines) : g.lines[k] = f.lines[k]
      /\ g.lines[Len(f.lines) + 1] = line
  BY <1>1, AppendProperties
<1>4. CASE TooLong(f)
  BY <1>1, <1>2, <1>4 DEF TooLong, Fresh
<1>5. CASE ~ TooLong(f)
  <2>1. /\ \A k \in 1 .. Len(f.lines) : k > f.onDisk => t <= f.lines[k].at
        /\ \A k \in 1 .. Len(f.lines) - n : f.lines[k].at <= t + flushInterval_
    BY <1>5 DEF Fresh
  <2>2. ASSUME NEW k \in 1 .. Len(g.lines), k > g.onDisk
        PROVE  t <= g.lines[k].at
    <3>1. CASE k = Len(f.lines) + 1
      BY <1>3, <3>1
    <3>2. CASE k # Len(f.lines) + 1
      <4>1. k \in 1 .. Len(f.lines) /\ k > f.onDisk
        BY <1>1, <1>2, <1>3, <2>2, <3>2, SMTT(30)
      <4> QED BY <1>3, <2>1, <4>1
    <3> QED BY <3>1, <3>2
  <2>3. ASSUME NEW k \in 1 .. Len(g.lines) - (n + 1)
        PROVE  g.lines[k].at <= t + flushInterval_
    <3>1. k \in 1 .. Len(f.lines) /\ k \in 1 .. Len(f.lines) - n
      BY <1>1, <1>3
    <3> QED BY <1>3, <2>1, <3>1
  <2> QED BY <2>2, <2>3 DEF Fresh
<1> QED BY <1>4, <1>5

\* Lines that were all appended before another flush was due.
LEMMA FreshWhileEarly ==
    ASSUME NEW f \in Files, NEW n \in Nat, NEW t \in Nat, Fresh(f, n, t),
           NEW now \in Nat, OnTime(f, now), now <= t + flushInterval_
    PROVE  Fresh(f, 0, t)
<1>1. Len(f.lines) \in Nat /\ flushInterval_ \in Nat
  BY FileLines, LogFileAssumption
<1>2. ASSUME NEW k \in 1 .. Len(f.lines) - 0 PROVE f.lines[k].at <= t + flushInterval_
  <2>1. k \in 1 .. Len(f.lines)
    BY <1>1
  <2>2. f.lines[k].at \in Nat /\ f.lines[k].at <= now
    BY <2>1, FileLines DEF OnTime
  <2> QED BY <1>1, <2>2
<1> QED BY <1>2 DEF Fresh

\* A flush that succeeds.
LEMMA FlushedFresh ==
    ASSUME NEW f \in Files, disk = "fine", NEW g \in Flushed(f), NEW t \in Nat
    PROVE  /\ \A n \in Nat : Fresh(f, n, t) => Fresh(g, n, t)
           /\ OnTime(f, t) => Fresh(g, 0, t)
<1>1. g = AllOnDisk(f)
  BY DEF Flushed
<1>2. g.lines = f.lines /\ g.onDisk = Len(f.lines) /\ g.writtenBytes = f.writtenBytes
  BY <1>1, AllOnDiskFacts
<1>3. Len(f.lines) \in Nat /\ flushInterval_ \in Nat
  BY FileLines, LogFileAssumption
<1>4. \A k \in 1 .. Len(g.lines) : ~ k > g.onDisk
  BY <1>2, <1>3
<1>5. ASSUME NEW n \in Nat, Fresh(f, n, t) PROVE Fresh(g, n, t)
  BY <1>2, <1>4, <1>5 DEF Fresh, TooLong
<1>6. ASSUME OnTime(f, t) PROVE Fresh(g, 0, t)
  <2>1. ASSUME NEW k \in 1 .. Len(g.lines) - 0 PROVE g.lines[k].at <= t + flushInterval_
    <3>1. k \in 1 .. Len(f.lines)
      BY <1>2, <1>3
    <3>2. f.lines[k].at \in Nat /\ f.lines[k].at <= t
      BY <1>6, <3>1, FileLines DEF OnTime
    <3> QED BY <1>2, <1>3, <3>2
  <2> QED BY <1>4, <2>1 DEF Fresh
<1> QED BY <1>5, <1>6

-----------------------------------------------------------------------------
(* The clock in the operations. *)

\* The lines at the end of the current file that can be of another day.
Allowed == IF aborted THEN checkEveryN_ ELSE count_

Punctual ==
    /\ startOfPeriod_ = Period(lastRoll_)
    /\ setBack \/ (lastFlush_ <= clock /\ Dated(files, Allowed, clock))
    /\ setBack \/ disk # "fine" \/ aborted \/ Fresh(Last(files), count_, lastFlush_)

\* Time goes by, and more lines are allowed to be of another day.
LEMMA DatedLater ==
    ASSUME NEW fs, NEW s, Named(fs, s), NEW m \in Nat, NEW now \in Nat, Dated(fs, m, now),
           NEW n \in Nat, m <= n, NEW t \in Nat, now <= t
    PROVE  Dated(fs, n, t)
<1>1. Last(fs) \in Files
  BY LastOfNamed
<1>2. SameDay(Last(fs), n)
  BY <1>1, MoreOfAnotherDay DEF Dated
<1>3. OnTime(Last(fs), t)
  <2>1. /\ Last(fs).name \in Nat
        /\ \A k \in 1 .. Len(Last(fs).lines) : Last(fs).lines[k].at \in Nat
    BY <1>1, FileLines
  <2> QED BY <2>1 DEF Dated, OnTime
<1> QED BY <1>2, <1>3 DEF Dated

\* A roll is refused only at the second at which the current file was opened.
LEMMA RollInTime ==
    ASSUME Times, ~ aborted, NEW fs, Named(fs, lastRoll_), NEW m \in Nat, m <= checkEveryN_,
           NEW now \in Nat, lastFlush_ <= now, Dated(fs, m, now),
           NEW t \in Nat, now <= t, rollFile(fs, t), NEW n \in Nat
    PROVE  /\ lastFlush_' <= t
           /\ Dated(files', IF aborted' THEN checkEveryN_ ELSE n, t)
           /\ \/ aborted'
              \/ Fresh(Last(files'), n, lastFlush_')
              \/ files' = fs /\ lastFlush_' = lastFlush_ /\ lastRoll_ = now
<1>1. CASE /\ MayRoll(t) /\ lastFlush_' = t /\ files' \in Rolled(fs, t) /\ UNCHANGED aborted
  <2>1. t > lastRoll_
    BY <1>1 DEF MayRoll
  <2>2. Dated(files', n, t) /\ Last(files') = NewFile(t)
    BY <1>1, <2>1, DatedRolled DEF Times
  <2> QED BY <1>1, <2>2, FreshWhenEmpty
<1>2. CASE aborted' = TRUE /\ files' = fs /\ lastFlush_' = lastFlush_
  <2>1. checkEveryN_ \in Nat
    BY LogFileAssumption
  <2>2. Dated(fs, checkEveryN_, t)
    BY <2>1, DatedLater
  <2> QED BY <1>2, <2>2 DEF Times
<1>3. CASE ~ MayRoll(t) /\ files' = fs /\ UNCHANGED rollVars
  <2>1. lastFlush_' = lastFlush_ /\ aborted' = aborted /\ t <= lastRoll_
    BY <1>3 DEF rollVars, MayRoll, Times
  <2>2. Last(fs) \in Files /\ Last(fs).name = lastRoll_ /\ OnTime(Last(fs), now)
    BY LastOfNamed DEF Dated
  <2>3. lastRoll_ = now /\ t = now
    BY <2>1, <2>2 DEF OnTime, Times
  <2>4. SameDay(Last(fs), n)
    BY <2>2, <2>3, WithinTheDay
  <2>5. Dated(fs, n, t)
    BY <2>2, <2>3, <2>4 DEF Dated
  <2> QED BY <1>3, <2>1, <2>3, <2>5 DEF Times
<1> QED BY <1>1, <1>2, <1>3 DEF rollFile

LEMMA RollKeepsPeriod ==
    ASSUME NEW fs, NEW t, rollFile(fs, t), startOfPeriod_ = Period(lastRoll_)
    PROVE  startOfPeriod_' = Period(lastRoll_')
BY DEF rollFile, rollVars, Period

\* rollFile() from append_unlocked(), at whatever time it is there.
LEMMA RollsInTime ==
    ASSUME Times, World, ~ aborted, NEW fs, Named(fs, lastRoll_), NEW m \in Nat,
           m <= checkEveryN_, ~ setBack => lastFlush_ <= clock /\ Dated(fs, m, clock),
           rolls(fs), NEW n \in Nat
    PROVE  \/ setBack'
           \/ /\ ~ setBack
              /\ lastFlush_' <= clock'
              /\ Dated(files', IF aborted' THEN checkEveryN_ ELSE n, clock')
              /\ \/ aborted'
                 \/ Fresh(Last(files'), n, lastFlush_')
                 \/ files' = fs /\ lastFlush_' = lastFlush_ /\ lastRoll_ = clock
<1>1. PICK t \in RollTimes : rollFile(fs, t) /\ clock' = t /\ setBack' = (setBack \/ t < clock)
  BY DEF rolls
<1>2. t \in Nat
  BY RollTimesType
<1>3. CASE setBack \/ t < clock
  BY <1>1, <1>3
<1>4. CASE ~ setBack /\ ~ t < clock
  <2>1. clock \in Nat /\ clock <= t /\ lastFlush_ <= clock /\ Dated(fs, m, clock)
    BY <1>2, <1>4 DEF World
  <2>2. /\ lastFlush_' <= t
        /\ Dated(files', IF aborted' THEN checkEveryN_ ELSE n, t)
        /\ \/ aborted'
           \/ Fresh(Last(files'), n, lastFlush_')
           \/ files' = fs /\ lastFlush_' = lastFlush_ /\ lastRoll_ = clock
    BY <1>1, <1>2, <2>1, RollInTime
  <2> QED BY <1>1, <1>4, <2>2
<1> QED BY <1>3, <1>4

\* The look at the clock, which makes all lines be of their day again.
LEMMA CheckInTime ==
    ASSUME Times, World, ~ aborted, startOfPeriod_ = Period(lastRoll_),
           NEW fs, Named(fs, lastRoll_), NEW m \in Nat, m <= checkEveryN_,
           ~ setBack => lastFlush_ <= clock /\ Dated(fs, m, clock), check(fs)
    PROVE  \/ setBack'
           \/ /\ ~ setBack
              /\ lastFlush_' <= clock'
              /\ Dated(files', IF aborted' THEN checkEveryN_ ELSE 0, clock')
              /\ \/ aborted'
                 \/ disk = "fine" /\ Fresh(Last(fs), m, lastFlush_)
                      => Fresh(Last(files'), 0, lastFlush_')
<1>0. clock \in Nat /\ lastFlush_ \in Nat
  BY DEF World, Times
<1>1. CASE Period(clock) # startOfPeriod_ /\ rolls(fs)
  <2>1. lastRoll_ # clock
    BY <1>1
  <2> QED BY <1>1, <2>1, RollsInTime
<1>2. CASE /\ Period(clock) = startOfPeriod_ /\ lastFlush_' = clock /\ files' \in flushed(fs)
           /\ UNCHANGED <<startOfPeriod_, lastRoll_, aborted, timeVars>>
  <2> SUFFICES ASSUME ~ setBack
               PROVE  /\ lastFlush_' <= clock' /\ Dated(files', 0, clock') /\ ~ aborted'
                      /\ disk = "fine" => Fresh(Last(files'), 0, lastFlush_')
    BY <1>2 DEF timeVars, World
  <2>0. Last(fs) \in Files /\ Last(fs).name = lastRoll_ /\ OnTime(Last(fs), clock)
        /\ Dated(fs, m, clock)
    BY LastOfNamed DEF Dated
  <2>1. PICK g \in Flushed(Last(fs)) : files' = Replaced(fs, g)
    BY <1>2 DEF flushed
  <2>2. g \in Files /\ Keeps(g, Last(fs)) /\ g.name = lastRoll_
    BY <2>0, FlushedType, FlushedKeeps
  <2>3. OnTime(g, clock)
    BY <1>0, <2>0, <2>2, KeepsTimes
  <2>4. SameDay(g, 0)
    BY <1>0, <1>2, <2>2, <2>3, WithinTheDay
  <2>5. Dated(files', 0, clock)
    BY <1>0, <2>0, <2>1, <2>2, <2>3, <2>4, DatedReplaced
  <2>6. disk = "fine" => Fresh(g, 0, clock)
    BY <1>0, <2>0, FlushedFresh
  <2>7. Last(files') = g
    BY <2>1, <2>2, LastReplaced DEF Named
  <2>8. clock' = clock /\ lastFlush_' = clock /\ ~ aborted'
    BY <1>2 DEF timeVars
  <2> QED BY <1>0, <2>5, <2>6, <2>7, <2>8
<1>3. CASE /\ Period(clock) = startOfPeriod_ /\ ~ clock - lastFlush_ > flushInterval_
           /\ files' = fs /\ UNCHANGED <<rollVars, timeVars>>
  <2> SUFFICES ASSUME ~ setBack
               PROVE  /\ lastFlush_' <= clock' /\ Dated(files', 0, clock') /\ ~ aborted'
                      /\ Fresh(Last(fs), m, lastFlush_) => Fresh(Last(files'), 0, lastFlush_')
    BY <1>3 DEF timeVars, World
  <2>0. Last(fs) \in Files /\ Last(fs).name = lastRoll_ /\ OnTime(Last(fs), clock)
        /\ Dated(fs, m, clock)
    BY LastOfNamed DEF Dated
  <2>1. lastFlush_' = lastFlush_ /\ clock' = clock /\ ~ aborted'
    BY <1>3 DEF rollVars, timeVars
  <2>2. SameDay(Last(fs), 0)
    BY <1>0, <1>3, <2>0, WithinTheDay
  <2>3. clock <= lastFlush_ + flushInterval_
    BY <1>0, <1>3, LogFileAssumption
  <2>4. Fresh(Last(fs), m, lastFlush_) => Fresh(Last(fs), 0, lastFlush_)
    BY <1>0, <2>0, <2>3, FreshWhileEarly
  <2>5. Dated(fs, 0, clock)
    BY <2>0, <2>2 DEF Dated
  <2> QED BY <1>3, <2>1, <2>4, <2>5
<1> QED BY <1>1, <1>2, <1>3 DEF check

LEMMA AppendPunctual ==
    ASSUME IInv, Punctual, ~ aborted, NEW len \in LineLens, append(len)
    PROVE  Punctual'
<1> DEFINE line == [id |-> lines + 1, at |-> clock, whole |-> TRUE]
<1>1. PICK f \in Written(Last(files), line, len) :
        LET fs == Replaced(files, f)
        IN  \/ /\ TooLong(f)
               /\ rolls(fs)
               /\ UNCHANGED count_
            \/ /\ ~ TooLong(f) /\ ~ CheckIsDue(count_)
               /\ count_' = count_ + 1
               /\ files' = fs
               /\ UNCHANGED <<rollVars, timeVars>>
            \/ /\ ~ TooLong(f) /\ CheckIsDue(count_)
               /\ count_' = 0
               /\ check(fs)
  BY DEF append
<1>2. disk' = disk
  BY DEF append
<1>3. /\ Times /\ World /\ clock \in Nat /\ lines \in Nat /\ len \in Nat
      /\ count_ \in Nat /\ count_ + 1 <= checkEveryN_ /\ lastFlush_ \in Nat
  BY LogFileAssumption DEF IInv, TypeOK, Times, World
<1>4. line \in Lines /\ line.at = clock
  BY <1>3 DEF Lines
<1> HIDE DEF line
<1>5. Named(files, lastRoll_) /\ Last(files) \in Files /\ files \in Seq(Files) /\ files # <<>>
  BY LastOfNamed DEF IInv, Sound, Named
<1>6. f \in Files /\ f.name = Last(files).name /\ Grows(f, Last(files), clock)
  BY <1>1, <1>3, <1>4, <1>5, WrittenType, WrittenGrows
<1> DEFINE fs == Replaced(files, f)
<1>7. Named(fs, lastRoll_) /\ Last(fs) = f
  BY <1>5, <1>6, NamedReplaced, LastReplaced
<1>8. ASSUME ~ setBack
      PROVE  lastFlush_ <= clock /\ Dated(fs, count_ + 1, clock)
  <2>1. lastFlush_ <= clock /\ Dated(files, count_, clock)
    BY <1>8 DEF Punctual, Allowed
  <2>2. OnTime(f, clock) /\ SameDay(f, count_ + 1)
    BY <1>3, <1>5, <1>6, <2>1, GrowsTimes DEF Dated
  <2> QED BY <1>3, <1>5, <1>6, <2>1, <2>2, DatedReplaced
<1>9. ASSUME ~ setBack, disk = "fine"
      PROVE  Fresh(f, count_ + 1, lastFlush_)
  <2> DEFINE w == Taken(Last(files), line, len)
  <2>1. f \in HandedOn(w)
    BY <1>1, <1>9, WrittenSteps
  <2>2. /\ w \in Files /\ w.lines = Append(Last(files).lines, line)
        /\ w.onDisk = Last(files).onDisk
        /\ w.writtenBytes = Last(files).writtenBytes + len
    BY <1>3, <1>4, <1>5, TakenFacts
  <2> HIDE DEF w
  <2>3. /\ f.lines = Append(Last(files).lines, line)
        /\ Last(files).onDisk <= f.onDisk
        /\ f.writtenBytes = Last(files).writtenBytes + len
    BY <2>1, <2>2, HandedOnFacts
  <2>4. Last(files).writtenBytes <= f.writtenBytes
    BY <1>3, <1>5, <2>3, FileLines
  <2>5. Fresh(Last(files), count_, lastFlush_) /\ lastFlush_ <= line.at
    BY <1>4, <1>8, <1>9 DEF Punctual
  <2> QED BY <1>3, <1>4, <1>5, <1>6, <2>3, <2>4, <2>5, GrownFresh
<1>10. startOfPeriod_ = Period(lastRoll_)
  BY DEF Punctual
<1>11. count_ + 1 \in Nat
  BY <1>3
<1> HIDE DEF fs
<1>12. CASE TooLong(f) /\ rolls(fs) /\ UNCHANGED count_
  <2>1. startOfPeriod_' = Period(lastRoll_')
    BY <1>10, <1>12, RollKeepsPeriod DEF rolls
  <2>2. \/ setBack'
        \/ /\ lastFlush_' <= clock'
           /\ Dated(files', IF aborted' THEN checkEveryN_ ELSE count_, clock')
           /\ \/ aborted'
              \/ Fresh(Last(files'), count_, lastFlush_')
              \/ files' = fs
    BY <1>3, <1>7, <1>8, <1>11, <1>12, RollsInTime
  <2>3. Fresh(f, count_, lastFlush_')
    BY <1>12 DEF Fresh
  <2>4. count_' = count_
    BY <1>12
  <2> QED BY <1>2, <1>7, <2>1, <2>2, <2>3, <2>4 DEF Punctual, Allowed
<1>13. CASE count_' = count_ + 1 /\ files' = fs /\ UNCHANGED <<rollVars, timeVars>>
  <2>1. rollVars' = rollVars /\ timeVars' = timeVars
    BY <1>13
  <2>2. /\ startOfPeriod_' = Period(lastRoll_') /\ lastFlush_' = lastFlush_
        /\ clock' = clock /\ setBack' = setBack /\ ~ aborted'
    BY <1>10, <2>1 DEF rollVars, timeVars
  <2> QED BY <1>2, <1>7, <1>8, <1>9, <1>13, <2>2 DEF Punctual, Allowed
<1>14. CASE count_' = 0 /\ check(fs)
  <2>1. startOfPeriod_' = Period(lastRoll_')
    BY <1>10, <1>14, RollKeepsPeriod DEF check, rolls, rollVars
  <2>2. \/ setBack'
        \/ /\ ~ setBack
           /\ lastFlush_' <= clock'
           /\ Dated(files', IF aborted' THEN checkEveryN_ ELSE 0, clock')
           /\ \/ aborted'
              \/ disk = "fine" /\ Fresh(f, count_ + 1, lastFlush_)
                   => Fresh(Last(files'), 0, lastFlush_')
    BY <1>3, <1>7, <1>8, <1>10, <1>11, <1>14, CheckInTime
  <2> QED BY <1>2, <1>9, <1>14, <2>1, <2>2 DEF Punctual, Allowed
<1> QED BY <1>1, <1>12, <1>13, <1>14 DEF fs

LEMMA RollPunctual ==
    ASSUME IInv, Punctual, ~ aborted, roll
    PROVE  Punctual'
<1>1. rollFile(files, clock) /\ UNCHANGED <<clock, setBack, disk, count_>>
  BY DEF roll, timeVars
<1>2. /\ Times /\ clock \in Nat /\ count_ \in Nat /\ count_ <= checkEveryN_
      /\ Named(files, lastRoll_)
  BY LogFileAssumption DEF IInv, TypeOK, Times, Sound
<1>3. startOfPeriod_' = Period(lastRoll_')
  BY <1>1, RollKeepsPeriod DEF Punctual
<1>4. ASSUME ~ setBack
      PROVE  /\ lastFlush_' <= clock
             /\ Dated(files', IF aborted' THEN checkEveryN_ ELSE count_, clock)
             /\ \/ aborted'
                \/ Fresh(Last(files'), count_, lastFlush_')
                \/ files' = files /\ lastFlush_' = lastFlush_
  <2>1. lastFlush_ <= clock /\ Dated(files, count_, clock)
    BY <1>4 DEF Punctual, Allowed
  <2> QED BY <1>1, <1>2, <2>1, RollInTime
<1> QED BY <1>1, <1>3, <1>4 DEF Punctual, Allowed

LEMMA FlushPunctual ==
    ASSUME IInv, Punctual, ~ aborted, flush
    PROVE  Punctual'
<1>1. PICK g \in Flushed(Last(files)) : files' = Replaced(files, g)
  BY DEF flush, flushed
<1>2. UNCHANGED <<clock, setBack, disk, startOfPeriod_, lastRoll_, lastFlush_, count_, aborted>>
  BY DEF flush, timeVars, rollVars
<1>3. /\ Named(files, lastRoll_) /\ Last(files) \in Files
      /\ files \in Seq(Files) /\ files # <<>>
  BY LastOfNamed DEF IInv, Sound, Named
<1>4. g \in Files /\ Keeps(g, Last(files))
  BY <1>3, FlushedType, FlushedKeeps
<1>5. Last(files') = g
  BY <1>1, <1>3, <1>4, LastReplaced
<1>6. clock \in Nat /\ count_ \in Nat /\ lastFlush_ \in Nat
  BY DEF IInv, TypeOK
<1>7. ASSUME ~ setBack PROVE Dated(files', count_, clock)
  <2>1. Dated(files, count_, clock)
    BY <1>7 DEF Punctual, Allowed
  <2>2. OnTime(g, clock) /\ SameDay(g, count_)
    BY <1>3, <1>4, <1>6, <2>1, KeepsTimes DEF Dated
  <2> QED BY <1>1, <1>3, <1>4, <1>6, <2>1, <2>2, DatedReplaced
<1>8. ASSUME ~ setBack, disk = "fine" PROVE Fresh(g, count_, lastFlush_)
  BY <1>3, <1>6, <1>8, FlushedFresh DEF Punctual
<1> QED BY <1>2, <1>5, <1>7, <1>8 DEF Punctual, Allowed, Period

\* The clock and the disk alone: time only goes by, unless it is set back.
LEMMA WorldPunctual ==
    ASSUME IInv, Punctual, tick \/ setClockBack \/ diskFills \/ diskIsFreed \/ UNCHANGED vars
    PROVE  Punctual'
<1>1. UNCHANGED <<startOfPeriod_, lastRoll_, lastFlush_, count_, files, aborted>>
  BY DEF tick, setClockBack, diskFills, diskIsFreed, vars, rollVars
<1>2. setBack => setBack'
  BY DEF tick, setClockBack, diskFills, diskIsFreed, vars, timeVars
<1>3. disk' = "fine" => disk = "fine"
  BY DEF tick, setClockBack, diskFills, diskIsFreed, vars
<1>4. ASSUME ~ setBack' PROVE clock' \in Nat /\ clock <= clock'
  BY <1>4 DEF tick, setClockBack, diskFills, diskIsFreed, vars, timeVars, IInv, TypeOK
<1>5. ASSUME ~ setBack' PROVE lastFlush_ <= clock' /\ Dated(files, Allowed, clock')
  <2>1. lastFlush_ <= clock /\ Dated(files, Allowed, clock) /\ clock \in Nat /\ lastFlush_ \in Nat
    BY <1>2, <1>5 DEF Punctual, IInv, TypeOK
  <2>2. Last(files) \in Files
    BY LastOfNamed DEF IInv, Sound
  <2>3. OnTime(Last(files), clock')
    <3>1. /\ Last(files).name \in Nat
          /\ \A k \in 1 .. Len(Last(files).lines) : Last(files).lines[k].at \in Nat
      BY <2>2, FileLines
    <3> QED BY <1>4, <1>5, <2>1, <3>1 DEF Dated, OnTime
  <2> QED BY <1>4, <1>5, <2>1, <2>3 DEF Dated
<1>6. startOfPeriod_' = Period(lastRoll_')
  BY <1>1 DEF Punctual
<1>7. Allowed' = Allowed
  BY <1>1 DEF Allowed
<1> QED BY <1>1, <1>2, <1>3, <1>5, <1>6, <1>7 DEF Punctual

LEMMA InitiallyPunctual == Init => Punctual
<1> SUFFICES ASSUME Init PROVE Punctual
  OBVIOUS
<1>1. /\ clock \in Nat /\ startOfPeriod_ = Period(lastRoll_) /\ lastFlush_ = clock
      /\ lastRoll_ = clock /\ files = <<NewFile(clock)>> /\ count_ = 0
  BY LogFileAssumption DEF Init
<1>2. Len(files) = 1 /\ files[1] = NewFile(clock)
  BY <1>1
<1>3. Last(files) = NewFile(clock)
  BY <1>2 DEF Last
<1>4. NewFile(clock).lines = <<>> /\ NewFile(clock).name = clock /\ Len(<<>>) = 0
  BY EmptySeq DEF NewFile
<1>5. OnTime(NewFile(clock), clock) /\ SameDay(NewFile(clock), count_)
  BY <1>1, <1>4 DEF OnTime, SameDay
<1>6. Dated(files, count_, clock)
  BY <1>2, <1>3, <1>5 DEF Dated
<1>7. Fresh(Last(files), count_, lastFlush_)
  BY <1>1, <1>3, FreshWhenEmpty
<1>8. Allowed = count_
  BY DEF Init, Allowed
<1> QED BY <1>1, <1>6, <1>7, <1>8 DEF Punctual

LEMMA AlwaysPunctual == Spec => []Punctual
<1>1. IInv /\ Punctual /\ [Next]_vars => Punctual'
  BY AppendPunctual, RollPunctual, FlushPunctual, WorldPunctual DEF Next
<1> QED BY InitiallyPunctual, Inductive, <1>1, PTL DEF Spec

-----------------------------------------------------------------------------
(* The sink: what is in the files, one after the other. *)

EntrySet == [id : Nat, whole : BOOLEAN]

\* All entries of the files fs, and those of them that are on the disk.
Content(fs) == FlattenSeq([k \in DOMAIN fs |-> Entries(fs[k])])
Durable(fs) == FlattenSeq([k \in DOMAIN fs |-> OnDisk(fs[k])])

\* Only the last file of fs can have lines that are not on the disk.
Settled(fs) ==
    /\ Last(fs).onDisk <= Len(Last(fs).lines)
    /\ \A i \in 1 .. Len(fs) : i # Len(fs) => fs[i].onDisk = Len(fs[i].lines)

LEMMA EntriesType ==
    ASSUME NEW f \in Files
    PROVE  /\ Entries(f) \in Seq(EntrySet) /\ Len(Entries(f)) = Len(f.lines)
           /\ \A k \in 1 .. Len(f.lines) :
                /\ Entries(f)[k] \in EntrySet
                /\ Entries(f)[k].id = f.lines[k].id /\ Entries(f)[k].whole = f.lines[k].whole
<1>1. Len(f.lines) \in Nat /\ f.lines \in Seq(Lines) /\ \A k \in 1 .. Len(f.lines) : f.lines[k] \in Lines
  BY FileLines
<1>2. DOMAIN f.lines = 1 .. Len(f.lines)
  BY <1>1
<1>3. \A k \in 1 .. Len(f.lines) : [id |-> f.lines[k].id, whole |-> f.lines[k].whole] \in EntrySet
  BY <1>1 DEF Lines, EntrySet
<1> QED BY <1>1, <1>2, <1>3 DEF Entries

LEMMA OnDiskType ==
    ASSUME NEW f \in Files, f.onDisk <= Len(f.lines)
    PROVE  /\ OnDisk(f) \in Seq(EntrySet) /\ Len(OnDisk(f)) = f.onDisk
           /\ f.onDisk = Len(f.lines) => OnDisk(f) = Entries(f)
<1>1. /\ Entries(f) \in Seq(EntrySet) /\ Len(Entries(f)) = Len(f.lines)
      /\ Len(f.lines) \in Nat /\ f.onDisk \in Nat
  BY EntriesType, FileLines
<1> QED BY <1>1 DEF OnDisk

\* Flattening the images of one element more.
LEMMA FlattenImages ==
    ASSUME NEW S, NEW fs \in Seq(Files), NEW image,
           image \in [1 .. Len(fs) + 1 -> Seq(S)],
           NEW before, before = [k \in 1 .. Len(fs) |-> image[k]]
    PROVE  FlattenSeq(image) = FlattenSeq(before) \o image[Len(fs) + 1]
<1> DEFINE T == Seq(S)
           e == image[Len(fs) + 1]
<1>1. Len(fs) \in Nat /\ before \in Seq(Seq(S)) /\ Len(before) = Len(fs) /\ e \in Seq(S)
  <2>1. Len(fs) \in Nat
    BY LenProperties
  <2> QED BY <2>1
<1>2. image = Append(before, e)
  <2>1. before \in Seq(T) /\ e \in T
    BY <1>1
  <2> HIDE DEF T, e
  <2>2. /\ Append(before, e) \in Seq(T) /\ Len(Append(before, e)) = Len(fs) + 1
        /\ \A k \in 1 .. Len(fs) : Append(before, e)[k] = before[k]
        /\ Append(before, e)[Len(fs) + 1] = e
    BY <1>1, <2>1, AppendProperties
  <2>3. image \in Seq(T) /\ Len(image) = Len(fs) + 1
    BY <1>1 DEF T
  <2>4. \A k \in 1 .. Len(fs) + 1 : image[k] = Append(before, e)[k]
    <3>1. ASSUME NEW k \in 1 .. Len(fs) + 1 PROVE image[k] = Append(before, e)[k]
      <4>1. k \in 1 .. Len(fs) \/ k = Len(fs) + 1
        BY <1>1
      <4> QED BY <2>2, <4>1 DEF e
    <3> QED BY <3>1
  <2> QED BY <2>2, <2>3, <2>4, SeqEqual
<1>3. FlattenSeq(Append(before, e)) = FlattenSeq(before) \o e
  <2> HIDE DEF e
  <2> QED BY <1>1, FlattenAppend
<1> QED BY <1>2, <1>3

LEMMA ContentAppend ==
    ASSUME NEW fs \in Seq(Files), NEW g \in Files
    PROVE  Content(Append(fs, g)) = Content(fs) \o Entries(g)
<1> DEFINE x == Append(fs, g)
           image == [k \in DOMAIN x |-> Entries(x[k])]
           before == [k \in DOMAIN fs |-> Entries(fs[k])]
<1>1. /\ x \in Seq(Files) /\ Len(x) = Len(fs) + 1 /\ x[Len(fs) + 1] = g /\ Len(fs) \in Nat
      /\ \A k \in 1 .. Len(fs) : x[k] = fs[k]
  BY AppendProperties, LenProperties
<1> HIDE DEF x
<1>2. DOMAIN x = 1 .. Len(fs) + 1 /\ DOMAIN fs = 1 .. Len(fs)
  BY <1>1
<1>3. \A k \in 1 .. Len(fs) + 1 : Entries(x[k]) \in Seq(EntrySet)
  BY <1>1, EntriesType, ElementOfSeq
<1>4. image \in [1 .. Len(fs) + 1 -> Seq(EntrySet)] /\ image[Len(fs) + 1] = Entries(g)
  BY <1>1, <1>2, <1>3
<1>5. before = [k \in 1 .. Len(fs) |-> image[k]]
  <2>1. \A k \in 1 .. Len(fs) : image[k] = Entries(fs[k])
    BY <1>1, <1>2
  <2> HIDE DEF image
  <2> QED BY <1>2, <2>1
<1> HIDE DEF image, before
<1>6. FlattenSeq(image) = FlattenSeq(before) \o Entries(g)
  BY <1>4, <1>5, FlattenImages
<1> QED BY <1>6 DEF Content, image, before, x

LEMMA DurableAppend ==
    ASSUME NEW fs \in Seq(Files), NEW g \in Files, g.onDisk <= Len(g.lines),
           \A i \in 1 .. Len(fs) : fs[i].onDisk = Len(fs[i].lines)
    PROVE  Durable(Append(fs, g)) = Durable(fs) \o OnDisk(g)
<1> DEFINE x == Append(fs, g)
           image == [k \in DOMAIN x |-> OnDisk(x[k])]
           before == [k \in DOMAIN fs |-> OnDisk(fs[k])]
<1>1. /\ x \in Seq(Files) /\ Len(x) = Len(fs) + 1 /\ x[Len(fs) + 1] = g /\ Len(fs) \in Nat
      /\ \A k \in 1 .. Len(fs) : x[k] = fs[k]
  BY AppendProperties, LenProperties
<1> HIDE DEF x
<1>2. DOMAIN x = 1 .. Len(fs) + 1 /\ DOMAIN fs = 1 .. Len(fs)
  BY <1>1
<1>3. ASSUME NEW k \in 1 .. Len(fs) + 1 PROVE OnDisk(x[k]) \in Seq(EntrySet)
  <2>1. x[k] \in Files
    BY <1>1, ElementOfSeq
  <2>2. x[k].onDisk <= Len(x[k].lines)
    <3>1. CASE k = Len(fs) + 1
      BY <1>1, <3>1
    <3>2. CASE k # Len(fs) + 1
      <4>1. k \in 1 .. Len(fs) /\ x[k] = fs[k]
        BY <1>1, <3>2
      <4>2. x[k].onDisk = Len(x[k].lines) /\ x[k].onDisk \in Nat
        BY <2>1, <4>1, FileLines
      <4> QED BY <4>2
    <3> QED BY <3>1, <3>2
  <2> QED BY <2>1, <2>2, OnDiskType
<1>4. image \in [1 .. Len(fs) + 1 -> Seq(EntrySet)] /\ image[Len(fs) + 1] = OnDisk(g)
  BY <1>1, <1>2, <1>3
<1>5. before = [k \in 1 .. Len(fs) |-> image[k]]
  <2>1. \A k \in 1 .. Len(fs) : image[k] = OnDisk(fs[k])
    BY <1>1, <1>2
  <2> HIDE DEF image
  <2> QED BY <1>2, <2>1
<1> HIDE DEF image, before
<1>6. FlattenSeq(image) = FlattenSeq(before) \o OnDisk(g)
  BY <1>4, <1>5, FlattenImages
<1> QED BY <1>6 DEF Durable, image, before, x

LEMMA ContentType ==
    ASSUME NEW fs \in Seq(Files)
    PROVE  Content(fs) \in Seq(EntrySet)
<1> DEFINE image == [k \in DOMAIN fs |-> Entries(fs[k])]
<1>1. DOMAIN fs = 1 .. Len(fs) /\ Len(fs) \in Nat
  BY LenProperties
<1>2. \A k \in 1 .. Len(fs) : Entries(fs[k]) \in Seq(EntrySet)
  BY EntriesType, ElementOfSeq
<1>3. image \in Seq(Seq(EntrySet))
  BY <1>1, <1>2
<1> HIDE DEF image
<1>4. FlattenSeq(image) \in Seq(EntrySet)
  BY <1>3, FlattenType
<1> QED BY <1>4 DEF Content, image

\* When all is on the disk, all is durable.
LEMMA SettledIsDurable ==
    ASSUME NEW fs \in Seq(Files), \A i \in 1 .. Len(fs) : fs[i].onDisk = Len(fs[i].lines)
    PROVE  Durable(fs) = Content(fs)
<1>1. DOMAIN fs = 1 .. Len(fs)
  OBVIOUS
<1>2. ASSUME NEW k \in DOMAIN fs PROVE OnDisk(fs[k]) = Entries(fs[k])
  <2>1. fs[k] \in Files /\ fs[k].onDisk = Len(fs[k].lines)
    BY <1>1, ElementOfSeq
  <2>2. fs[k].onDisk <= Len(fs[k].lines)
    BY <2>1, FileLines
  <2> QED BY <2>1, <2>2, OnDiskType
<1>3. [k \in DOMAIN fs |-> OnDisk(fs[k])] = [k \in DOMAIN fs |-> Entries(fs[k])]
  BY <1>2
<1> QED BY <1>3 DEF Durable, Content

LEMMA LenOfConcat ==
    ASSUME NEW S, NEW s \in Seq(S), NEW t \in Seq(S)
    PROVE  Len(s \o t) = Len(s) + Len(t)
OBVIOUS

\* The content splits into that of the files before the last one, all of it
\* durable, and what is in the last one.
LEMMA ContentSplits ==
    ASSUME NEW fs \in Seq(Files), fs # <<>>, Settled(fs)
    PROVE  \E A \in Seq(EntrySet) :
             /\ Content(fs) = A \o Entries(Last(fs))
             /\ Len(Durable(fs)) = Len(A) + Last(fs).onDisk
             /\ \A g \in Files : g.onDisk <= Len(g.lines) =>
                  /\ Content(Replaced(fs, g)) = A \o Entries(g)
                  /\ Len(Durable(Replaced(fs, g))) = Len(A) + g.onDisk
                  /\ Settled(Replaced(fs, g))
<1> DEFINE hs == Front(fs)
           n == Len(fs)
           A == Content(hs)
<1>1. n \in Nat \ {0} /\ Last(fs) \in Files /\ Last(fs) = fs[n]
  BY EmptySeq, LenProperties, ElementOfSeq DEF Last
<1>2. /\ hs \in Seq(Files) /\ Len(hs) = n - 1
      /\ \A k \in 1 .. n - 1 : hs[k] = fs[k]
  <2>1. n - 1 \in Nat /\ \A k \in 1 .. n - 1 : fs[k] \in Files
    BY <1>1, ElementOfSeq
  <2> HIDE DEF n
  <2>2. hs = SubSeq(fs, 1, n - 1)
    BY DEF Front, n
  <2>3. /\ SubSeq(fs, 1, n - 1) \in Seq(Files)
        /\ Len(SubSeq(fs, 1, n - 1)) = IF 1 <= n - 1 THEN n - 1 - 1 + 1 ELSE 0
        /\ \A k \in 1 .. n - 1 - 1 + 1 : SubSeq(fs, 1, n - 1)[k] = fs[1 + k - 1]
    BY <2>1, SubSeqProperties
  <2> QED BY <1>1, <2>1, <2>2, <2>3
<1> HIDE DEF hs, n
<1>3. \A i \in 1 .. Len(hs) : hs[i].onDisk = Len(hs[i].lines)
  <2>1. ASSUME NEW i \in 1 .. Len(hs) PROVE hs[i].onDisk = Len(hs[i].lines)
    <3>1. i \in 1 .. n /\ i # n /\ hs[i] = fs[i]
      BY <1>1, <1>2
    <3> QED BY <3>1 DEF Settled, n
  <2> QED BY <2>1
<1>4. A \in Seq(EntrySet) /\ Durable(hs) = A
  BY <1>2, <1>3, ContentType, SettledIsDurable
<1>5. ASSUME NEW g \in Files, g.onDisk <= Len(g.lines)
      PROVE  /\ Content(Append(hs, g)) = A \o Entries(g)
             /\ Len(Durable(Append(hs, g))) = Len(A) + g.onDisk
             /\ Settled(Append(hs, g))
  <2>1. Content(Append(hs, g)) = A \o Entries(g)
    BY <1>2, ContentAppend
  <2>2. Durable(Append(hs, g)) = A \o OnDisk(g)
    BY <1>2, <1>3, <1>4, <1>5, DurableAppend
  <2>3. Len(A \o OnDisk(g)) = Len(A) + g.onDisk
    <3>1. OnDisk(g) \in Seq(EntrySet) /\ Len(OnDisk(g)) = g.onDisk
      BY <1>5, OnDiskType
    <3>2. Len(A \o OnDisk(g)) = Len(A) + Len(OnDisk(g))
      BY <1>4, <3>1, LenOfConcat
    <3> QED BY <3>1, <3>2
  <2>4. Settled(Append(hs, g))
    <3> DEFINE x == Append(hs, g)
    <3>1. /\ Len(x) = Len(hs) + 1 /\ x[Len(hs) + 1] = g /\ Len(hs) \in Nat
          /\ \A k \in 1 .. Len(hs) : x[k] = hs[k]
      BY <1>2, AppendProperties, LenProperties
    <3> HIDE DEF x
    <3>2. Last(x) = g
      BY <3>1 DEF Last
    <3>3. \A i \in 1 .. Len(x) : i # Len(x) => x[i].onDisk = Len(x[i].lines)
      BY <1>3, <3>1
    <3>4. Settled(x)
      BY <1>5, <3>2, <3>3 DEF Settled
    <3> QED BY <3>4 DEF x
  <2> QED BY <2>1, <2>2, <2>3, <2>4
<1>6. \A g : Replaced(fs, g) = Append(hs, g)
  BY DEF Replaced, hs
<1>7. fs = Append(hs, Last(fs))
  <2>1. /\ Append(hs, fs[n]) \in Seq(Files) /\ Len(Append(hs, fs[n])) = n
        /\ \A k \in 1 .. n - 1 : Append(hs, fs[n])[k] = fs[k]
        /\ Append(hs, fs[n])[n] = fs[n]
    BY <1>1, <1>2, AppendProperties
  <2>2. \A k \in 1 .. n : Append(hs, fs[n])[k] = fs[k]
    BY <1>1, <2>1
  <2>3. Append(hs, fs[n]) = fs
    BY <2>1, <2>2, SeqEqual DEF n
  <2> QED BY <1>1, <2>3
<1>8. Last(fs).onDisk <= Len(Last(fs).lines)
  BY DEF Settled
<1>9. Content(fs) = A \o Entries(Last(fs)) /\ Len(Durable(fs)) = Len(A) + Last(fs).onDisk
  BY <1>1, <1>5, <1>7, <1>8
<1> HIDE DEF A
<1> QED BY <1>4, <1>5, <1>6, <1>9

-----------------------------------------------------------------------------
(* What a full disk leaves of the last file. *)

CutEntry(x) == [x EXCEPT !.whole = FALSE]

\* The first of the entries e, the d durable ones among them; the last one
\* may be cut.
PartOf(s, e, d) ==
    /\ s \in Seq(EntrySet) /\ Len(s) <= Len(e) /\ d <= Len(s)
    /\ \A k \in 1 .. Len(s) :
         \/ s[k] = e[k]
         \/ k = Len(s) /\ k > d /\ s[k] = CutEntry(e[k])

\* Such a part, and what is left of one entry x more.
Outcome(s, e, d, x) ==
    \E kept, part : /\ PartOf(kept, e, d)
                    /\ part \in {<<>>, <<CutEntry(x)>>, <<x>>}
                    /\ s = kept \o part

LEMMA SameEntry ==
    ASSUME NEW u \in EntrySet, NEW v \in EntrySet, u.id = v.id, u.whole = v.whole
    PROVE  u = v
BY DEF EntrySet

LEMMA CutOnce ==
    ASSUME NEW y \in EntrySet
    PROVE  /\ CutEntry(y) \in EntrySet
           /\ CutEntry(y).id = y.id /\ CutEntry(y).whole = FALSE
           /\ CutEntry(CutEntry(y)) = CutEntry(y)
<1>1. ASSUME NEW z \in EntrySet
      PROVE  CutEntry(z) \in EntrySet /\ CutEntry(z).id = z.id /\ CutEntry(z).whole = FALSE
  BY DEF CutEntry, EntrySet
<1>2. CutEntry(CutEntry(y)) = CutEntry(y)
  BY <1>1, SameEntry
<1> QED BY <1>1, <1>2

LEMMA WholeIsPart ==
    ASSUME NEW e \in Seq(EntrySet), NEW d \in Nat, d <= Len(e)
    PROVE  PartOf(e, e, d)
<1>1. Len(e) \in Nat
  BY LenProperties
<1> QED BY <1>1 DEF PartOf

LEMMA DamagedParts ==
    ASSUME NEW f \in Files, NEW g \in Damaged(f)
    PROVE  /\ PartOf(Entries(g), Entries(f), f.onDisk)
           /\ f.onDisk <= g.onDisk /\ g.onDisk <= Len(g.lines)
<1> DEFINE ls == g.lines
           n == g.onDisk
<1>2. /\ f.lines \in Seq(Lines) /\ Len(f.lines) \in Nat /\ n \in Nat /\ f.onDisk \in Nat
      /\ \A k \in 1 .. Len(f.lines) : f.lines[k] \in Lines
      /\ Len(ls) \in Nat /\ g \in Files
  BY FileLines, DamagedFacts
<1>5. /\ f.onDisk <= n /\ n <= Len(ls) /\ Len(ls) <= Len(f.lines)
      /\ \A k \in 1 .. Len(ls) :
           \/ ls[k] = f.lines[k]
           \/ k = Len(ls) /\ k > n /\ ls[k] = Cut(f.lines[k])
  BY DamagedFacts
<1>6. g.lines = ls /\ g.onDisk = n
  OBVIOUS
<1> HIDE DEF ls, n
<1>7. /\ Entries(f) \in Seq(EntrySet) /\ Len(Entries(f)) = Len(f.lines)
      /\ \A k \in 1 .. Len(f.lines) :
           /\ Entries(f)[k] \in EntrySet
           /\ Entries(f)[k].id = f.lines[k].id /\ Entries(f)[k].whole = f.lines[k].whole
  BY EntriesType
<1>8. /\ Entries(g) \in Seq(EntrySet) /\ Len(Entries(g)) = Len(ls) /\ Len(ls) \in Nat
      /\ \A k \in 1 .. Len(ls) :
           /\ Entries(g)[k] \in EntrySet
           /\ Entries(g)[k].id = ls[k].id /\ Entries(g)[k].whole = ls[k].whole
  BY <1>2, <1>6, EntriesType
<1>9. ASSUME NEW k \in 1 .. Len(ls)
      PROVE  \/ Entries(g)[k] = Entries(f)[k]
             \/ k = Len(ls) /\ k > f.onDisk /\ Entries(g)[k] = CutEntry(Entries(f)[k])
  <2>1. k \in 1 .. Len(f.lines) /\ f.lines[k] \in Lines
    BY <1>2, <1>5, <1>8
  <2>2. CASE ls[k] = f.lines[k]
    BY <1>7, <1>8, <2>1, <2>2, SameEntry
  <2>3. CASE k = Len(ls) /\ k > n /\ ls[k] = Cut(f.lines[k])
    <3>1. ls[k].id = f.lines[k].id /\ ls[k].whole = FALSE
      BY <2>1, <2>3 DEF Cut, Lines
    <3>2. Entries(g)[k] = CutEntry(Entries(f)[k])
      <4>1. Entries(f)[k] \in EntrySet /\ Entries(f)[k].id = f.lines[k].id
        BY <1>7, <2>1
      <4>2. Entries(g)[k] \in EntrySet /\ Entries(g)[k].id = ls[k].id /\ Entries(g)[k].whole = FALSE
        BY <1>8, <3>1
      <4> DEFINE u == Entries(f)[k]
                 v == Entries(g)[k]
      <4>3. u \in EntrySet /\ v \in EntrySet /\ v.id = u.id /\ v.whole = FALSE
        BY <3>1, <4>1, <4>2
      <4> HIDE DEF u, v
      <4>4. CutEntry(u) \in EntrySet /\ CutEntry(u).id = u.id /\ CutEntry(u).whole = FALSE
        BY <4>3, CutOnce
      <4>5. v = CutEntry(u)
        <5> DEFINE w == CutEntry(u)
        <5>1. w \in EntrySet /\ v.id = w.id /\ v.whole = w.whole
          BY <4>3, <4>4
        <5> HIDE DEF w
        <5>2. v = w
          BY <4>3, <5>1, SameEntry
        <5> QED BY <5>2 DEF w
      <4> QED BY <4>5 DEF u, v
    <3>3. k > f.onDisk
      BY <1>2, <1>5, <2>3
    <3> QED BY <2>3, <3>2, <3>3
  <2> QED BY <1>5, <2>2, <2>3
<1> QED BY <1>2, <1>5, <1>6, <1>7, <1>8, <1>9 DEF PartOf

\* The lines of what is left may be damaged once more.
LEMMA PartOfOutcome ==
    ASSUME NEW e \in Seq(EntrySet), NEW d \in Nat, NEW x \in EntrySet,
           NEW s \in Seq(EntrySet), Outcome(s, e, d, x),
           NEW b \in Nat, d <= b, NEW r \in Seq(EntrySet), PartOf(r, s, b)
    PROVE  Outcome(r, e, d, x)
<1>1. PICK kept, part : /\ PartOf(kept, e, d) /\ s = kept \o part
                        /\ part \in {<<>>, <<CutEntry(x)>>, <<x>>}
  BY DEF Outcome
<1>2. /\ kept \in Seq(EntrySet) /\ Len(kept) \in Nat /\ Len(e) \in Nat
      /\ Len(r) \in Nat /\ Len(s) \in Nat
  BY <1>1, LenProperties DEF PartOf
<1>3. CutEntry(x) \in EntrySet
  BY CutOnce
<1>4. /\ \A k \in 1 .. Len(kept) : s[k] = kept[k]
      /\ part = <<>> => Len(s) = Len(kept)
      /\ part # <<>> => Len(s) = Len(kept) + 1 /\ s[Len(kept) + 1] \in {x, CutEntry(x)}
                        /\ part = <<s[Len(kept) + 1]>>
  <2>1. CASE part = <<>>
    BY <1>1, <1>2, <2>1
  <2>2. CASE part = <<x>>
    BY <1>1, <1>2, <2>2
  <2>3. CASE part = <<CutEntry(x)>>
    BY <1>1, <1>2, <1>3, <2>3
  <2> QED BY <1>1, <2>1, <2>2, <2>3
<1>5. ASSUME NEW y \in EntrySet PROVE CutEntry(CutEntry(y)) = CutEntry(y)
  BY CutOnce
<1>6. CASE Len(r) <= Len(kept)
  <2>1. ASSUME NEW k \in 1 .. Len(r)
        PROVE  r[k] = e[k] \/ (k = Len(r) /\ k > d /\ r[k] = CutEntry(e[k]))
    <3>1. k \in 1 .. Len(kept) /\ s[k] = kept[k] /\ k \in 1 .. Len(e) /\ e[k] \in EntrySet
      <4>1. k \in 1 .. Len(kept)
        BY <1>2, <1>6
      <4>2. Len(kept) <= Len(e)
        BY <1>1 DEF PartOf
      <4>3. k \in 1 .. Len(e)
        BY <1>2, <4>1, <4>2
      <4> QED BY <1>4, <4>1, <4>3, ElementOfSeq
    <3>2. r[k] = s[k] \/ (k = Len(r) /\ k > b /\ r[k] = CutEntry(s[k]))
      BY DEF PartOf
    <3>3. kept[k] = e[k] \/ (k = Len(kept) /\ k > d /\ kept[k] = CutEntry(e[k]))
      BY <1>1, <3>1 DEF PartOf
    <3>4. k = Len(kept) => k = Len(r)
      BY <1>2, <1>6
    <3>5. k > b => k > d
      BY <1>2
    <3> QED BY <1>5, <3>1, <3>2, <3>3, <3>4, <3>5
  <2>2. PartOf(r, e, d)
    BY <1>1, <1>2, <1>6, <2>1 DEF PartOf
  <2>3. r = r \o <<>>
    OBVIOUS
  <2> QED BY <2>2, <2>3 DEF Outcome
<1>7. CASE ~ Len(r) <= Len(kept)
  <2>1. part # <<>> /\ Len(r) = Len(kept) + 1 /\ Len(s) = Len(kept) + 1
    BY <1>2, <1>4, <1>7 DEF PartOf
  <2>2. \A k \in 1 .. Len(kept) : r[k] = kept[k]
    BY <1>2, <1>4, <2>1 DEF PartOf
  <2> DEFINE y == r[Len(kept) + 1]
  <2>3. y = s[Len(kept) + 1] \/ y = CutEntry(s[Len(kept) + 1])
    BY <1>2, <2>1 DEF PartOf
  <2>4. y \in {x, CutEntry(x)} /\ y \in EntrySet
    BY <1>3, <1>4, <1>5, <2>1, <2>3
  <2> HIDE DEF y
  <2>5. r = kept \o <<y>>
    <3>1. /\ kept \o <<y>> \in Seq(EntrySet) /\ Len(kept \o <<y>>) = Len(kept) + 1
          /\ \A k \in 1 .. Len(kept) : (kept \o <<y>>)[k] = kept[k]
          /\ (kept \o <<y>>)[Len(kept) + 1] = y
      BY <1>2, <2>4
    <3>2. \A k \in 1 .. Len(r) : r[k] = (kept \o <<y>>)[k]
      BY <1>2, <2>1, <2>2, <3>1 DEF y
    <3> QED BY <2>1, <3>1, <3>2, SeqEqual
  <2> QED BY <1>1, <2>4, <2>5 DEF Outcome
<1> QED BY <1>6, <1>7

\* As the abstract sink says it.
LEMMA PartRemains ==
    ASSUME NEW A \in Seq(EntrySet), NEW e \in Seq(EntrySet), NEW d \in Nat,
           NEW s, PartOf(s, e, d)
    PROVE  A \o s \in Sink!Remains(A \o e, Len(A) + d)
<1> DEFINE m == Len(A) + Len(s)
           all == A \o e
           p == SubSeq(all, 1, m)
<1>1. /\ Len(A) \in Nat /\ Len(s) \in Nat /\ Len(e) \in Nat /\ s \in Seq(EntrySet)
      /\ d <= Len(s) /\ Len(s) <= Len(e)
  BY LenProperties DEF PartOf
<1>2. /\ all \in Seq(EntrySet) /\ Len(all) = Len(A) + Len(e)
      /\ \A k \in 1 .. Len(A) : all[k] = A[k]
      /\ \A k \in 1 .. Len(e) : all[Len(A) + k] = e[k]
  BY <1>1
<1>3. m \in Len(A) + d .. Len(all) /\ m \in Nat
  BY <1>1, <1>2
<1>4. /\ A \o s \in Seq(EntrySet) /\ Len(A \o s) = m
      /\ \A k \in 1 .. Len(A) : (A \o s)[k] = A[k]
      /\ \A k \in 1 .. Len(s) : (A \o s)[Len(A) + k] = s[k]
  BY <1>1
<1> HIDE DEF all
<1>5. p \in Seq(EntrySet) /\ Len(p) = m /\ \A k \in 1 .. m : p[k] = all[k]
  BY <1>2, <1>3, <1>1
<1> DEFINE as == A \o s
<1> HIDE DEF as
<1>6. /\ as \in Seq(EntrySet) /\ Len(as) = m
      /\ \A k \in 1 .. Len(A) : as[k] = A[k]
      /\ \A k \in 1 .. Len(s) : as[Len(A) + k] = s[k]
  BY <1>4 DEF as
<1>7. \A k \in 1 .. Len(s) :
        s[k] = e[k] \/ (k = Len(s) /\ k > d /\ s[k] = CutEntry(e[k]))
  BY DEF PartOf
<1>8. \A k \in 1 .. m : k \notin 1 .. Len(A) => k - Len(A) \in 1 .. Len(s) /\ k = Len(A) + (k - Len(A))
  BY <1>1
<1>9. CASE \A k \in 1 .. Len(s) : s[k] = e[k]
  <2>1. ASSUME NEW k \in 1 .. m PROVE as[k] = p[k]
    <3>1. CASE k \in 1 .. Len(A)
      BY <1>2, <1>5, <1>6, <3>1
    <3>2. CASE k \notin 1 .. Len(A)
      <4>1. PICK j \in 1 .. Len(s) : k = Len(A) + j
        BY <1>8, <3>2
      <4>2. j \in 1 .. Len(e)
        BY <1>1
      <4> QED BY <1>2, <1>5, <1>6, <1>9, <4>1, <4>2
    <3> QED BY <3>1, <3>2
  <2>2. as = p
    BY <1>5, <1>6, <2>1, SeqEqual
  <2> QED BY <1>3, <2>2 DEF Sink!Remains, as, all
<1>10. CASE ~ \A k \in 1 .. Len(s) : s[k] = e[k]
  <2> DEFINE n == Len(s)
             c == CutEntry(p[m])
             q == [p EXCEPT ![m] = c]
  <2>1. /\ n \in 1 .. Len(s) /\ n > d /\ s[n] = CutEntry(e[n])
        /\ \A k \in 1 .. Len(s) : k # n => s[k] = e[k]
    BY <1>7, <1>10
  <2>2. m \in 1 .. m /\ m \in Len(A) + d + 1 .. Len(all) /\ p[m] = e[n]
    <3>1. n \in 1 .. Len(e) /\ m = Len(A) + n
      BY <1>1, <2>1
    <3>2. m \in 1 .. m
      BY <1>1, <2>1
    <3> QED BY <1>1, <1>2, <1>3, <1>5, <2>1, <3>1, <3>2
  <2>3. p[m] \in EntrySet /\ c \in EntrySet
    <3>1. p[m] \in EntrySet
      BY <1>5, <2>2, ElementOfSeq
    <3> QED BY <3>1 DEF CutEntry, EntrySet
  <2> HIDE DEF p, c
  <2>4. /\ q \in Seq(EntrySet) /\ Len(q) = m
        /\ \A k \in 1 .. m : q[k] = IF k = m THEN c ELSE p[k]
    <3>1. m \in 1 .. Len(p)
      BY <1>5, <2>2
    <3> QED BY <1>5, <2>3, <3>1, ExceptSeq
  <2>5. ASSUME NEW k \in 1 .. m PROVE as[k] = q[k]
    <3>1. CASE k = m
      BY <1>6, <2>1, <2>2, <2>4, <3>1 DEF c
    <3>2. CASE k # m /\ k \in 1 .. Len(A)
      BY <1>2, <1>5, <1>6, <2>4, <3>2
    <3>3. CASE k # m /\ k \notin 1 .. Len(A)
      <4>1. PICK j \in 1 .. Len(s) : k = Len(A) + j
        BY <1>8, <3>3
      <4>2. j \in 1 .. Len(e) /\ j # n
        BY <1>1, <3>3, <4>1
      <4>3. q[k] = all[k] /\ all[k] = e[j] /\ as[k] = s[j]
        BY <1>2, <1>5, <1>6, <2>4, <3>3, <4>1, <4>2
      <4> QED BY <2>1, <4>2, <4>3
    <3> QED BY <3>1, <3>2, <3>3
  <2> HIDE DEF q
  <2>6. as = q
    <3>1. as \in Seq(EntrySet) /\ q \in Seq(EntrySet) /\ Len(as) = m /\ Len(q) = m
      BY <1>6, <2>4
    <3>2. \A k \in 1 .. m : as[k] = q[k]
      BY <2>5
    <3> HIDE DEF m
    <3> QED BY <3>1, <3>2, SeqEqual
  <2>7. q = [SubSeq(all, 1, m) EXCEPT ![m].whole = FALSE]
    BY DEF c, CutEntry, p, q
  <2> QED BY <2>2, <2>6, <2>7 DEF Sink!Remains, as, all
<1> QED BY <1>9, <1>10

\* The entry of a line.
EntryOf(line) == [id |-> line.id, whole |-> line.whole]

\* What has become of the file f and of a line appended to it.
Wrote(f, g, x) ==
    /\ g \in Files /\ f.onDisk <= g.onDisk /\ g.onDisk <= Len(g.lines)
    /\ IF disk = "full" THEN Outcome(Entries(g), Entries(f), f.onDisk, x)
                        ELSE Entries(g) = Append(Entries(f), x)

LEMMA EntriesOfLines ==
    ASSUME NEW f \in Files, NEW g \in Files, NEW line \in Lines,
           g.lines = Append(f.lines, line)
    PROVE  /\ Entries(g) = Append(Entries(f), EntryOf(line))
           /\ EntryOf(line) \in EntrySet
<1> DEFINE x == EntryOf(line)
           n == Len(f.lines)
<1>1. x \in EntrySet /\ x.id = line.id /\ x.whole = line.whole
  BY DEF EntryOf, EntrySet, Lines
<1>2. /\ n \in Nat /\ Len(g.lines) = n + 1 /\ g.lines[n + 1] = line
      /\ \A k \in 1 .. n : g.lines[k] = f.lines[k]
  BY AppendProperties, FileLines
<1> HIDE DEF x
<1>3. /\ Append(Entries(f), x) \in Seq(EntrySet) /\ Len(Append(Entries(f), x)) = n + 1
      /\ \A k \in 1 .. n : Append(Entries(f), x)[k] = Entries(f)[k]
      /\ Append(Entries(f), x)[n + 1] = x
  BY <1>1, EntriesType, AppendProperties
<1> DEFINE a == Append(Entries(f), x)
<1> HIDE DEF a, n
<1>4. ASSUME NEW k \in 1 .. n + 1 PROVE Entries(g)[k] = a[k]
  <2>1. Entries(g)[k] \in EntrySet /\ Entries(g)[k].id = g.lines[k].id
        /\ Entries(g)[k].whole = g.lines[k].whole
    BY <1>2, EntriesType
  <2>2. CASE k = n + 1
    <3>1. a[k] = x /\ g.lines[k] = line
      BY <1>2, <1>3, <2>2 DEF a
    <3> QED BY <1>1, <2>1, <3>1, SameEntry
  <2>3. CASE k # n + 1
    <3>1. k \in 1 .. n
      BY <1>2, <2>3
    <3>2. a[k] = Entries(f)[k] /\ g.lines[k] = f.lines[k]
      BY <1>2, <1>3, <3>1 DEF a
    <3>3. Entries(f)[k] \in EntrySet /\ Entries(f)[k].id = f.lines[k].id
          /\ Entries(f)[k].whole = f.lines[k].whole
      BY <3>1, EntriesType DEF n
    <3> QED BY <2>1, <3>2, <3>3, SameEntry
  <2> QED BY <2>2, <2>3
<1>5. Entries(g) = a
  <2>1. Entries(g) \in Seq(EntrySet) /\ Len(Entries(g)) = n + 1
    BY <1>2, EntriesType
  <2>2. a \in Seq(EntrySet) /\ Len(a) = n + 1
    BY <1>3 DEF a
  <2> QED BY <1>4, <2>1, <2>2, SeqEqual
<1> QED BY <1>1, <1>5 DEF a, x

LEMMA SameLines ==
    ASSUME NEW f, NEW g, g.lines = f.lines
    PROVE  Entries(g) = Entries(f)
BY DEF Entries

\* What stdio hands on takes nothing away.
LEMMA HandedOnWrote ==
    ASSUME NEW f \in Files, NEW x, NEW w, Wrote(f, w, x), NEW g \in HandedOn(w)
    PROVE  Wrote(f, g, x)
<1>1. w \in Files /\ f.onDisk <= w.onDisk /\ f.onDisk \in Nat /\ w.onDisk \in Nat
  BY FileLines DEF Wrote
<1>2. /\ g \in Files /\ g.lines = w.lines
      /\ w.onDisk <= g.onDisk /\ g.onDisk <= Len(g.lines)
  BY <1>1, HandedOnFacts
<1>3. g.onDisk \in Nat
  BY <1>2, FileLines
<1>4. Entries(g) = Entries(w)
  BY <1>2, SameLines
<1>5. f.onDisk <= g.onDisk
  BY <1>1, <1>2, <1>3
<1> QED BY <1>2, <1>4, <1>5 DEF Wrote

LEMMA WrittenWrote ==
    ASSUME NEW f \in Files, f.onDisk <= Len(f.lines), NEW line \in Lines, NEW len \in Nat,
           NEW g \in Written(f, line, len)
    PROVE  Wrote(f, g, EntryOf(line))
<1> DEFINE x == EntryOf(line)
           c == Counted(f, len)
           u == Taken(f, line, len)
<1>1. /\ Len(f.lines) \in Nat /\ f.onDisk \in Nat /\ f.lines \in Seq(Lines)
      /\ Entries(f) \in Seq(EntrySet) /\ Len(Entries(f)) = Len(f.lines)
  BY FileLines, EntriesType
<1>2. /\ c \in Files /\ c.lines = f.lines /\ c.onDisk = f.onDisk
      /\ u \in Files /\ u.lines = Append(f.lines, line) /\ u.onDisk = f.onDisk
  BY TakenFacts
<1>3. x \in EntrySet
  BY DEF EntryOf, EntrySet, Lines
<1>4. PICK w : /\ g \in HandedOn(w)
               /\ \/ w = u
                  \/ /\ disk = "full"
                     /\ \E h \in Damaged(c), rest \in Rest(line) : w = Behind(h, rest)
  BY WrittenSteps
<1> HIDE DEF x, c, u
<1>5. CASE w = u
  <2>1. Entries(u) = Append(Entries(f), x)
    BY <1>2, EntriesOfLines DEF x
  <2>2. PartOf(Entries(f), Entries(f), f.onDisk)
    BY <1>1, WholeIsPart
  <2>3. Append(Entries(f), x) = Entries(f) \o <<x>>
    BY <1>1, <1>3
  <2>4. Outcome(Entries(u), Entries(f), f.onDisk, x)
    BY <2>1, <2>2, <2>3 DEF Outcome
  <2>5. Len(u.lines) = Len(f.lines) + 1 /\ u.onDisk = f.onDisk
    BY <1>1, <1>2, AppendProperties
  <2>6. u.onDisk <= Len(u.lines) /\ f.onDisk <= u.onDisk
    BY <1>1, <2>5
  <2>7. Wrote(f, u, x)
    BY <1>2, <2>1, <2>4, <2>6 DEF Wrote
  <2> QED BY <1>4, <1>5, <2>7, HandedOnWrote DEF x
<1>6. CASE w # u
  <2>1. disk = "full"
    BY <1>4, <1>6
  <2>2. PICK h \in Damaged(c), rest \in Rest(line) : w = Behind(h, rest)
    BY <1>4, <1>6
  <2>3. /\ h \in Files /\ PartOf(Entries(h), Entries(f), f.onDisk)
        /\ f.onDisk <= h.onDisk /\ h.onDisk <= Len(h.lines)
    <3>1. Entries(c) = Entries(f)
      BY <1>2, SameLines
    <3>2. h \in Files
      BY <1>2, <2>2, DamagedType
    <3>3. /\ PartOf(Entries(h), Entries(c), c.onDisk)
          /\ c.onDisk <= h.onDisk /\ h.onDisk <= Len(h.lines)
      BY <1>2, <2>2, DamagedParts
    <3> QED BY <1>2, <3>1, <3>2, <3>3
  <2>4. w \in Files /\ w.lines = h.lines \o rest /\ w.onDisk = h.onDisk
    BY <2>2, <2>3, BehindFacts
  <2>5. /\ h.lines \in Seq(Lines) /\ Len(h.lines) \in Nat /\ h.onDisk \in Nat
        /\ Entries(h) \in Seq(EntrySet)
    BY <2>3, FileLines, EntriesType
  <2>6. Wrote(f, w, x)
    <3>1. CASE rest = <<>>
      <4>1. w.lines = h.lines
        BY <2>4, <2>5, <3>1
      <4>2. Entries(w) = Entries(h) \o <<>>
        BY <2>5, <4>1, SameLines
      <4>3. Outcome(Entries(w), Entries(f), f.onDisk, x)
        BY <2>3, <4>2 DEF Outcome
      <4> QED BY <2>1, <2>3, <2>4, <4>1, <4>3 DEF Wrote
    <3>2. CASE rest # <<>>
      <4>1. PICK l \in Lines : rest = <<l>> /\ (l = line \/ l = Cut(line))
        BY <3>2 DEF Rest, Cut, Lines
      <4>2. w.lines = Append(h.lines, l) /\ Len(w.lines) = Len(h.lines) + 1
        BY <2>4, <2>5, <4>1
      <4>3. Entries(w) = Append(Entries(h), EntryOf(l)) /\ EntryOf(l) \in EntrySet
        BY <2>3, <2>4, <4>2, EntriesOfLines
      <4>4. EntryOf(l) = x \/ EntryOf(l) = CutEntry(x)
        <5>1. CASE l = line
          BY <5>1 DEF x
        <5>2. CASE l = Cut(line)
          <6>1. l.id = line.id /\ l.whole = FALSE
            BY <5>2 DEF Cut, Lines
          <6>2. EntryOf(l).id = l.id /\ EntryOf(l).whole = l.whole /\ x.id = line.id
            BY DEF EntryOf, x
          <6>3. CutEntry(x) \in EntrySet /\ CutEntry(x).id = x.id /\ CutEntry(x).whole = FALSE
            BY <1>3, CutOnce
          <6> DEFINE y == EntryOf(l)
                     z == CutEntry(x)
          <6>4. y \in EntrySet /\ z \in EntrySet /\ y.id = z.id /\ y.whole = z.whole
            BY <4>3, <6>1, <6>2, <6>3
          <6> HIDE DEF y, z
          <6>5. y = z
            BY <6>4, SameEntry
          <6> QED BY <6>5 DEF y, z
        <5> QED BY <4>1, <5>1, <5>2
      <4>5. Append(Entries(h), EntryOf(l)) = Entries(h) \o <<EntryOf(l)>>
        BY <2>5, <4>3
      <4>6. Outcome(Entries(w), Entries(f), f.onDisk, x)
        BY <2>3, <4>3, <4>4, <4>5 DEF Outcome
      <4>7. h.onDisk <= Len(w.lines)
        BY <2>3, <2>5, <4>2
      <4> QED BY <2>1, <2>3, <2>4, <4>6, <4>7 DEF Wrote
    <3> QED BY <3>1, <3>2
  <2> QED BY <1>4, <2>6, HandedOnWrote DEF x
<1> QED BY <1>5, <1>6

\* A flush, or the end of the file, behind it.
LEMMA FlushedWrote ==
    ASSUME NEW f \in Files, NEW x \in EntrySet, NEW g, Wrote(f, g, x), NEW h \in Flushed(g)
    PROVE  Wrote(f, h, x) /\ (disk # "full" => h.onDisk = Len(h.lines))
<1>1. /\ g \in Files /\ h \in Files /\ f.onDisk \in Nat /\ g.onDisk \in Nat /\ h.onDisk \in Nat
      /\ Len(g.lines) \in Nat /\ f.onDisk <= g.onDisk /\ g.onDisk <= Len(g.lines)
  BY FlushedType, FileLines DEF Wrote
<1>2. CASE disk # "full"
  <2>1. h = AllOnDisk(g)
    BY <1>2 DEF Flushed
  <2>2. h.lines = g.lines /\ h.onDisk = Len(g.lines)
    BY <1>1, <2>1, AllOnDiskFacts
  <2>3. Entries(h) = Entries(g)
    BY <2>2, SameLines
  <2> QED BY <1>1, <1>2, <2>2, <2>3 DEF Wrote
<1>3. CASE disk = "full"
  <2>1. /\ PartOf(Entries(h), Entries(g), g.onDisk)
        /\ g.onDisk <= h.onDisk /\ h.onDisk <= Len(h.lines)
    BY <1>1, <1>3, DamagedParts DEF Flushed
  <2>2. Outcome(Entries(g), Entries(f), f.onDisk, x)
    BY <1>3 DEF Wrote
  <2>3. Entries(f) \in Seq(EntrySet) /\ Entries(g) \in Seq(EntrySet) /\ Entries(h) \in Seq(EntrySet)
    BY <1>1, EntriesType
  <2>4. Outcome(Entries(h), Entries(f), f.onDisk, x)
    BY <1>1, <2>1, <2>2, <2>3, PartOfOutcome
  <2>5. f.onDisk <= h.onDisk
    BY <1>1, <2>1
  <2> QED BY <1>1, <1>3, <2>1, <2>4, <2>5 DEF Wrote
<1> QED BY <1>2, <1>3

LEMMA ClosedWrote ==
    ASSUME NEW f \in Files, NEW x \in EntrySet, NEW g, Wrote(f, g, x), NEW h \in Closed(g)
    PROVE  Wrote(f, h, x) /\ h.onDisk = Len(h.lines)
<1>1. PICK i \in Flushed(g) : h = AllOnDisk(i)
  BY DEF Closed
<1>2. Wrote(f, i, x) /\ i \in Files
  BY FlushedWrote DEF Wrote
<1>3. h.lines = i.lines /\ h.onDisk = Len(i.lines) /\ h \in Files
  BY <1>1, <1>2, AllOnDiskFacts
<1>4. Entries(h) = Entries(i)
  BY <1>3, SameLines
<1>5. /\ f.onDisk <= i.onDisk /\ i.onDisk <= Len(i.lines)
      /\ f.onDisk \in Nat /\ i.onDisk \in Nat /\ Len(i.lines) \in Nat
  BY <1>2, FileLines DEF Wrote
<1>6. f.onDisk <= h.onDisk /\ h.onDisk <= Len(h.lines)
  BY <1>3, <1>5
<1> QED BY <1>2, <1>3, <1>4, <1>6 DEF Wrote

-----------------------------------------------------------------------------
(* The refinement, step by step. *)

LEMMA ReplacedTwice ==
    ASSUME NEW fs \in Seq(Files), fs # <<>>, NEW g \in Files, NEW h \in Files
    PROVE  Replaced(Replaced(fs, g), h) = Replaced(fs, h)
<1> DEFINE r == Replaced(fs, g)
           s == Replaced(r, h)
           u == Replaced(fs, h)
           n == Len(fs)
<1>1. /\ r \in Seq(Files) /\ r # <<>> /\ Len(r) = n
      /\ \A k \in 1 .. n : k # n => r[k] = fs[k]
  BY ReplacedFacts
<1>2. /\ u \in Seq(Files) /\ Len(u) = n /\ u[n] = h
      /\ \A k \in 1 .. n : k # n => u[k] = fs[k]
  BY ReplacedFacts
<1> HIDE DEF r, u, n
<1>3. /\ s \in Seq(Files) /\ Len(s) = n /\ s[n] = h
      /\ \A k \in 1 .. n : k # n => s[k] = r[k]
  BY <1>1, ReplacedFacts
<1> HIDE DEF s
<1>4. \A k \in 1 .. n : s[k] = u[k]
  BY <1>1, <1>2, <1>3
<1>5. s = u
  BY <1>2, <1>3, <1>4, SeqEqual
<1> QED BY <1>5 DEF s, r, u

\* A new file adds nothing yet.
LEMMA RolledContent ==
    ASSUME NEW rs \in Seq(Files), rs # <<>>, Settled(rs),
           Last(rs).onDisk = Len(Last(rs).lines), NEW t \in Nat
    PROVE  /\ Content(Append(rs, NewFile(t))) = Content(rs)
           /\ Durable(Append(rs, NewFile(t))) = Durable(rs)
           /\ Settled(Append(rs, NewFile(t)))
<1> DEFINE f == NewFile(t)
           x == Append(rs, f)
<1>1. f \in Files /\ f.lines = <<>> /\ f.onDisk = 0 /\ Len(<<>>) = 0
  BY EmptySeq DEF NewFile, Files
<1>2. Entries(f) = <<>> /\ OnDisk(f) = <<>>
  <2>1. Entries(f) \in Seq(EntrySet) /\ Len(Entries(f)) = 0
    BY <1>1, EntriesType
  <2>2. OnDisk(f) \in Seq(EntrySet) /\ Len(OnDisk(f)) = 0
    BY <1>1, OnDiskType
  <2> QED BY <2>1, <2>2, EmptySeq
<1>3. \A i \in 1 .. Len(rs) : rs[i].onDisk = Len(rs[i].lines)
  BY DEF Settled, Last
<1> HIDE DEF f
<1>4. Content(rs) \in Seq(EntrySet) /\ Durable(rs) = Content(rs)
  BY <1>3, ContentType, SettledIsDurable
<1>5. Content(x) = Content(rs) \o <<>>
  BY <1>1, <1>2, ContentAppend
<1>6. Durable(x) = Durable(rs) \o <<>>
  <2>1. f.onDisk <= Len(f.lines)
    BY <1>1
  <2>2. Durable(x) = Durable(rs) \o OnDisk(f)
    BY <1>1, <1>3, <2>1, DurableAppend
  <2> QED BY <1>2, <2>2
<1>7. Content(rs) \o <<>> = Content(rs)
  BY <1>4
<1>8. Settled(x)
  <2>1. /\ Len(x) = Len(rs) + 1 /\ x[Len(rs) + 1] = f /\ Len(rs) \in Nat
        /\ \A k \in 1 .. Len(rs) : x[k] = rs[k]
    BY <1>1, AppendProperties, LenProperties
  <2> HIDE DEF x
  <2>2. Last(x) = f
    BY <2>1 DEF Last
  <2>3. \A i \in 1 .. Len(x) : i # Len(x) => x[i].onDisk = Len(x[i].lines)
    BY <1>3, <2>1
  <2> QED BY <1>1, <2>2, <2>3 DEF Settled
<1> QED BY <1>4, <1>5, <1>6, <1>7, <1>8 DEF x, f

\* gs is files with h as the current one, or with one more that follows it.
Becomes(h, gs) ==
    \/ gs = Replaced(files, h)
    \/ /\ h.onDisk = Len(h.lines)
       /\ \E t \in Nat : gs = Append(Replaced(files, h), NewFile(t))

\* What the sink holds with the files gs, after an entry x was handed over.
Takes(gs, x) ==
    /\ IF disk = "full"
       THEN \E kept \in Sink!Remains(Content(files), Len(Durable(files))) :
              \E part \in {<<>>, <<CutEntry(x)>>, <<x>>} : Content(gs) = kept \o part
       ELSE Content(gs) = Append(Content(files), x)
    /\ Len(Durable(gs)) \in Len(Durable(files)) .. Len(Content(gs))

LEMMA BecomesContent ==
    ASSUME files \in Seq(Files), files # <<>>, NEW h \in Files,
           Settled(Replaced(files, h)), NEW gs, Becomes(h, gs)
    PROVE  /\ Settled(gs) /\ Content(gs) = Content(Replaced(files, h))
           /\ Durable(gs) = Durable(Replaced(files, h))
<1> DEFINE r == Replaced(files, h)
<1>1. r \in Seq(Files) /\ r # <<>> /\ Last(r) = h
  BY ReplacedFacts, LastReplaced
<1>2. CASE gs = r
  BY <1>2
<1>3. CASE gs # r
  <2>1. PICK t \in Nat : gs = Append(r, NewFile(t))
    BY <1>3 DEF Becomes
  <2>2. h.onDisk = Len(h.lines)
    BY <1>3 DEF Becomes
  <2>3. Settled(r)
    OBVIOUS
  <2> HIDE DEF r
  <2>4. /\ Settled(gs) /\ Content(gs) = Content(r) /\ Durable(gs) = Durable(r)
    BY <1>1, <2>1, <2>2, <2>3, RolledContent
  <2> QED BY <2>4 DEF r
<1> QED BY <1>2, <1>3

LEMMA WroteTakes ==
    ASSUME files \in Seq(Files), files # <<>>, Settled(files), NEW x \in EntrySet,
           NEW h \in Files, Wrote(Last(files), h, x), NEW gs, Becomes(h, gs)
    PROVE  Takes(gs, x) /\ Settled(gs)
<1> DEFINE f == Last(files)
           r == Replaced(files, h)
<1>1. PICK A \in Seq(EntrySet) :
        /\ Content(files) = A \o Entries(f)
        /\ Len(Durable(files)) = Len(A) + f.onDisk
        /\ \A g \in Files : g.onDisk <= Len(g.lines) =>
             /\ Content(Replaced(files, g)) = A \o Entries(g)
             /\ Len(Durable(Replaced(files, g))) = Len(A) + g.onDisk
             /\ Settled(Replaced(files, g))
  BY ContentSplits
<1>2. /\ Content(r) = A \o Entries(h) /\ Len(Durable(r)) = Len(A) + h.onDisk /\ Settled(r)
      /\ f.onDisk <= h.onDisk /\ h.onDisk <= Len(h.lines)
  BY <1>1 DEF Wrote
<1>3. Settled(gs) /\ Content(gs) = A \o Entries(h) /\ Len(Durable(gs)) = Len(A) + h.onDisk
  BY <1>2, BecomesContent
<1>4. f \in Files
  <2>1. Len(files) \in 1 .. Len(files)
    BY EmptySeq, LenProperties
  <2> QED BY <2>1, ElementOfSeq DEF Last
<1> HIDE DEF f, r
<1>5. /\ Entries(f) \in Seq(EntrySet) /\ Entries(h) \in Seq(EntrySet)
      /\ Len(Entries(h)) = Len(h.lines) /\ Len(h.lines) \in Nat
      /\ f.onDisk \in Nat /\ h.onDisk \in Nat /\ Len(A) \in Nat
  BY <1>4, EntriesType, FileLines, LenProperties
<1>6. Len(A \o Entries(h)) = Len(A) + Len(h.lines)
  BY <1>5, LenOfConcat
<1>7. Len(Durable(gs)) \in Len(Durable(files)) .. Len(Content(gs))
  <2>1. Len(Durable(files)) = Len(A) + f.onDisk
    BY <1>1 DEF f
  <2>2. Len(Durable(gs)) = Len(A) + h.onDisk /\ Len(Content(gs)) = Len(A) + Len(h.lines)
    BY <1>3, <1>6
  <2>3. f.onDisk <= h.onDisk /\ h.onDisk <= Len(h.lines)
    BY <1>2 DEF f
  <2> QED BY <1>5, <2>1, <2>2, <2>3, SMTT(30)
<1>8. CASE disk # "full"
  <2>1. Entries(h) = Append(Entries(f), x)
    BY <1>8 DEF Wrote, f
  <2>2. A \o Append(Entries(f), x) = Append(A \o Entries(f), x)
    BY <1>5, AppendAfterConcat, SMTT(30)
  <2> QED BY <1>1, <1>3, <1>7, <1>8, <2>1, <2>2 DEF Takes, f
<1>9. CASE disk = "full"
  <2>1. PICK kept, part : /\ PartOf(kept, Entries(f), f.onDisk)
                          /\ part \in {<<>>, <<CutEntry(x)>>, <<x>>}
                          /\ Entries(h) = kept \o part
    BY <1>9 DEF Wrote, Outcome, f
  <2>2. A \o kept \in Sink!Remains(A \o Entries(f), Len(A) + f.onDisk)
    BY <1>5, <2>1, PartRemains
  <2>3. A \o (kept \o part) = (A \o kept) \o part
    <3>1. kept \in Seq(EntrySet) /\ CutEntry(x) \in EntrySet
      BY <2>1, CutOnce DEF PartOf
    <3>2. part \in Seq(EntrySet)
      <4>1. \A y \in EntrySet : <<y>> \in Seq(EntrySet)
        OBVIOUS
      <4> QED BY <2>1, <3>1, <4>1, EmptySeq
    <3> QED BY <3>1, <3>2
  <2>4. Content(gs) = (A \o kept) \o part
    BY <1>3, <2>1, <2>3
  <2>5. A \o kept \in Sink!Remains(Content(files), Len(Durable(files)))
    BY <1>1, <2>2 DEF f
  <2> QED BY <1>3, <1>7, <1>9, <2>1, <2>4, <2>5 DEF Takes
<1> QED BY <1>3, <1>8, <1>9

\* What append() does to the files.
LEMMA AppendWrote ==
    ASSUME IInv, Settled(files), NEW len \in LineLens, append(len)
    PROVE  \E h \in Files : /\ Wrote(Last(files), h, [id |-> lines + 1, whole |-> TRUE])
                            /\ Becomes(h, files')
<1> DEFINE line == [id |-> lines + 1, at |-> clock, whole |-> TRUE]
           x == [id |-> lines + 1, whole |-> TRUE]
           f == Last(files)
<1>1. PICK g \in Written(f, line, len) :
        LET fs == Replaced(files, g)
        IN  \/ /\ TooLong(g)
               /\ rolls(fs)
               /\ UNCHANGED count_
            \/ /\ ~ TooLong(g) /\ ~ CheckIsDue(count_)
               /\ count_' = count_ + 1
               /\ files' = fs
               /\ UNCHANGED <<rollVars, timeVars>>
            \/ /\ ~ TooLong(g) /\ CheckIsDue(count_)
               /\ count_' = 0
               /\ check(fs)
  BY DEF append
<1>2. lines \in Nat /\ clock \in Nat /\ len \in Nat /\ files \in Seq(Files) /\ files # <<>>
  BY LogFileAssumption DEF IInv, TypeOK
<1>3. line \in Lines /\ x = EntryOf(line) /\ x \in EntrySet
  BY <1>2 DEF Lines, EntryOf, EntrySet
<1>4. f \in Files /\ f.onDisk <= Len(f.lines)
  BY LastOfNamed DEF IInv, Sound, Settled
<1> HIDE DEF line, x, f
<1>5. Wrote(f, g, x) /\ g \in Files
  BY <1>1, <1>2, <1>3, <1>4, WrittenWrote DEF Wrote
<1> DEFINE fs == Replaced(files, g)
<1>6. Last(fs) = g /\ \A h \in Files : Replaced(fs, h) = Replaced(files, h)
  BY <1>2, <1>5, LastReplaced, ReplacedTwice
<1>7. fs = Replaced(files, g)
  OBVIOUS
<1> HIDE DEF fs
<1>8. CASE rolls(fs)
  <2>1. PICK t \in RollTimes : rollFile(fs, t)
    BY <1>8 DEF rolls
  <2>2. t \in Nat
    BY RollTimesType
  <2>3. CASE files' \in Rolled(fs, t)
    <3>1. PICK h \in Closed(g) : files' = Append(Replaced(fs, h), NewFile(t))
      BY <1>6, <2>3 DEF Rolled
    <3>2. Wrote(f, h, x) /\ h.onDisk = Len(h.lines)
      BY <1>3, <1>4, <1>5, ClosedWrote
    <3>3. h \in Files
      BY <3>2 DEF Wrote
    <3>4. files' = Append(Replaced(files, h), NewFile(t))
      BY <1>6, <3>1, <3>3
    <3> QED BY <2>2, <3>2, <3>3, <3>4 DEF Becomes, f, x
  <2>4. CASE files' = fs
    BY <1>5, <1>7, <2>4 DEF Becomes, f, x
  <2> QED BY <2>1, <2>3, <2>4 DEF rollFile
<1>9. CASE files' \in flushed(fs)
  <2>1. PICK h \in Flushed(g) : files' = Replaced(fs, h)
    BY <1>6, <1>9 DEF flushed
  <2>2. Wrote(f, h, x)
    BY <1>3, <1>4, <1>5, FlushedWrote
  <2>3. h \in Files
    BY <2>2 DEF Wrote
  <2> QED BY <1>6, <2>1, <2>2, <2>3 DEF Becomes, f, x
<1>10. CASE files' = fs
  BY <1>5, <1>7, <1>10 DEF Becomes, f, x
<1> QED BY <1>1, <1>8, <1>9, <1>10 DEF fs, check

LEMMA AppendSinks ==
    ASSUME IInv, Settled(files), NEW len \in LineLens, append(len)
    PROVE  Settled(files)' /\ (Sink!Store \/ Sink!Fail)
<1> DEFINE x == [id |-> lines + 1, whole |-> TRUE]
<1>1. /\ lines \in Nat /\ files \in Seq(Files) /\ files # <<>>
      /\ disk \in {"fine", "full", "freed"}
  BY DEF IInv, TypeOK
<1>2. x \in EntrySet /\ x = Sink!Entry(TRUE) /\ CutEntry(x) = Sink!Entry(FALSE)
  <2> DEFINE y == Sink!Entry(FALSE)
  <2>1. x \in EntrySet /\ x = Sink!Entry(TRUE) /\ x.id = lines + 1
    BY <1>1 DEF EntrySet, Sink!Entry
  <2>2. y \in EntrySet /\ y.id = lines + 1 /\ y.whole = FALSE
    BY <1>1 DEF EntrySet, Sink!Entry
  <2> HIDE DEF x, y
  <2>3. CutEntry(x) = y
    BY <2>1, <2>2, CutOnce, SameEntry
  <2> QED BY <2>1, <2>3 DEF y
<1>3. lines' = lines + 1 /\ disk' = disk
  BY DEF append
<1> HIDE DEF x
<1>4. Takes(files', x) /\ Settled(files')
  <2>1. PICK h \in Files : Wrote(Last(files), h, x) /\ Becomes(h, files')
    BY AppendWrote DEF x
  <2> QED BY <1>1, <1>2, <2>1, WroteTakes
<1>5. Sink!Hardens
  BY <1>4 DEF Takes, Sink!Hardens, Content, Durable
<1>6. CASE disk # "full"
  <2>1. Content(files') = Append(Content(files), x)
    BY <1>4, <1>6 DEF Takes
  <2>2. Sink!Store
    BY <1>2, <1>3, <1>5, <2>1 DEF Sink!Store, Content
  <2> QED BY <1>4, <2>2
<1>7. CASE disk = "full"
  <2>1. PICK kept \in Sink!Remains(Content(files), Len(Durable(files))) :
          \E part \in {<<>>, <<CutEntry(x)>>, <<x>>} : Content(files') = kept \o part
    BY <1>4, <1>7 DEF Takes
  <2>2. Content(files') \in
          {kept \o part : part \in {<<>>, <<Sink!Entry(FALSE)>>, <<Sink!Entry(TRUE)>>}}
    BY <1>2, <2>1
  <2>3. Content(files') \in
          UNION {{k \o part : part \in {<<>>, <<Sink!Entry(FALSE)>>, <<Sink!Entry(TRUE)>>}} :
                   k \in Sink!Remains(Content(files), Len(Durable(files)))}
    BY <2>2
  <2>4. Sink!Fail
    BY <1>3, <1>5, <1>7, <2>3 DEF Sink!Fail, Content, Durable
  <2> QED BY <1>4, <2>4
<1> QED BY <1>6, <1>7

\* What a flush or the end of the file f leaves of it.
Remained(f, g) ==
    /\ g \in Files /\ f.onDisk <= g.onDisk /\ g.onDisk <= Len(g.lines)
    /\ IF disk = "full" THEN PartOf(Entries(g), Entries(f), f.onDisk)
                        ELSE Entries(g) = Entries(f) /\ g.onDisk = Len(g.lines)

LEMMA FlushedRemains ==
    ASSUME NEW f \in Files, f.onDisk <= Len(f.lines), NEW g \in Flushed(f)
    PROVE  Remained(f, g)
<1>1. g \in Files /\ Len(f.lines) \in Nat /\ f.onDisk \in Nat
  BY FlushedType, FileLines
<1>2. CASE disk # "full"
  <2>1. g = AllOnDisk(f)
    BY <1>2 DEF Flushed
  <2>2. g.lines = f.lines /\ g.onDisk = Len(f.lines)
    BY <2>1, AllOnDiskFacts
  <2>3. Entries(g) = Entries(f)
    BY <2>2, SameLines
  <2> QED BY <1>1, <1>2, <2>2, <2>3 DEF Remained
<1>3. CASE disk = "full"
  BY <1>1, <1>3, DamagedParts DEF Flushed, Remained
<1> QED BY <1>2, <1>3

LEMMA ClosedRemains ==
    ASSUME NEW f \in Files, f.onDisk <= Len(f.lines), NEW g \in Closed(f)
    PROVE  Remained(f, g) /\ g.onDisk = Len(g.lines)
<1>1. PICK h \in Flushed(f) : g = AllOnDisk(h)
  BY DEF Closed
<1>2. Remained(f, h) /\ h \in Files
  BY FlushedRemains DEF Remained
<1>3. g \in Files /\ g.lines = h.lines /\ g.onDisk = Len(g.lines)
  BY <1>1, <1>2, AllOnDiskFacts
<1>4. Entries(g) = Entries(h)
  BY <1>3, SameLines
<1>5. f.onDisk \in Nat /\ h.onDisk \in Nat /\ Len(h.lines) \in Nat
  BY <1>2, FileLines
<1>6. f.onDisk <= g.onDisk /\ g.onDisk <= Len(g.lines)
  BY <1>2, <1>3, <1>5 DEF Remained
<1> QED BY <1>2, <1>3, <1>4, <1>6 DEF Remained

LEMMA RemainedSinks ==
    ASSUME IInv, Settled(files), NEW g, Remained(Last(files), g), Becomes(g, files'),
           lines' = lines, disk' = disk
    PROVE  Settled(files)' /\ (Sink!Flush \/ Sink!Fail)
<1> DEFINE f == Last(files)
<1>1. /\ files \in Seq(Files) /\ files # <<>>
  BY DEF IInv, TypeOK
<1>2. f \in Files /\ f.onDisk <= Len(f.lines)
  BY LastOfNamed DEF IInv, Sound, Settled
<1>3. g \in Files /\ f.onDisk <= g.onDisk /\ g.onDisk <= Len(g.lines)
  BY DEF Remained
<1>4. PICK A \in Seq(EntrySet) :
        /\ Content(files) = A \o Entries(f)
        /\ Len(Durable(files)) = Len(A) + f.onDisk
        /\ \A h \in Files : h.onDisk <= Len(h.lines) =>
             /\ Content(Replaced(files, h)) = A \o Entries(h)
             /\ Len(Durable(Replaced(files, h))) = Len(A) + h.onDisk
             /\ Settled(Replaced(files, h))
  BY <1>1, ContentSplits
<1>5. /\ Content(files') = A \o Entries(g) /\ Settled(files')
      /\ Len(Durable(files')) = Len(A) + g.onDisk
  <2>1. /\ Content(Replaced(files, g)) = A \o Entries(g)
        /\ Len(Durable(Replaced(files, g))) = Len(A) + g.onDisk
        /\ Settled(Replaced(files, g))
    BY <1>3, <1>4
  <2> QED BY <1>1, <1>3, <2>1, BecomesContent
<1>6. CASE disk # "full" /\ Entries(g) = Entries(f) /\ g.onDisk = Len(g.lines)
  <2>1. Content(files') = Content(files)
    BY <1>4, <1>5, <1>6
  <2>2. Len(Content(files)) = Len(A) + Len(g.lines)
    <3>1. Entries(g) \in Seq(EntrySet) /\ Len(Entries(g)) = Len(g.lines)
      BY <1>3, EntriesType
    <3>2. Content(files) = A \o Entries(g)
      BY <1>4, <1>6
    <3>3. Len(A \o Entries(g)) = Len(A) + Len(Entries(g))
      BY <3>1, LenOfConcat
    <3> QED BY <3>1, <3>2, <3>3
  <2>3. Len(Durable(files')) = Len(Content(files))
    BY <1>5, <1>6, <2>2
  <2>4. Sink!Flush
    BY <2>1, <2>3 DEF Sink!Flush, Content, Durable
  <2> QED BY <1>5, <2>4
<1>7. CASE disk = "full" /\ PartOf(Entries(g), Entries(f), f.onDisk)
  <2> HIDE DEF f
  <2>1. /\ f.onDisk \in Nat /\ g.onDisk \in Nat /\ Len(f.lines) \in Nat /\ Len(g.lines) \in Nat
        /\ Entries(f) \in Seq(EntrySet) /\ Entries(g) \in Seq(EntrySet) /\ Len(A) \in Nat
        /\ Len(Entries(f)) = Len(f.lines) /\ Len(Entries(g)) = Len(g.lines)
    BY <1>2, <1>3, FileLines, EntriesType, LenProperties
  <2>2. Content(files') \in Sink!Remains(Content(files), Len(Durable(files)))
    BY <1>4, <1>5, <1>7, <2>1, PartRemains
  <2>3. Len(Content(files')) = Len(A) + Len(g.lines)
    BY <1>5, <2>1, LenOfConcat
  <2>4. Len(Durable(files')) \in Len(Durable(files)) .. Len(Content(files'))
    BY <1>3, <1>4, <1>5, <2>1, <2>3, SMTT(30)
  <2>5. Sink!Hardens
    BY <2>4 DEF Sink!Hardens, Content, Durable
  <2>6. Sink!Fail
    BY <1>7, <2>2, <2>5 DEF Sink!Fail, Content, Durable
  <2> QED BY <1>5, <2>6
<1> QED BY <1>6, <1>7 DEF Remained

LEMMA FlushSinks ==
    ASSUME IInv, Settled(files), flush
    PROVE  Settled(files)' /\ (Sink!Flush \/ Sink!Fail)
<1>1. PICK g \in Flushed(Last(files)) : files' = Replaced(files, g)
  BY DEF flush, flushed
<1>2. Remained(Last(files), g)
  BY LastOfNamed, FlushedRemains DEF IInv, Sound, Settled
<1>3. lines' = lines /\ disk' = disk /\ Becomes(g, files')
  BY <1>1 DEF flush, Becomes
<1> QED BY <1>2, <1>3, RemainedSinks

\* A roll for its own sake is a flush; one that is refused, or ends the
\* process, leaves the files as they are.
LEMMA RollSinks ==
    ASSUME IInv, Settled(files), roll
    PROVE  Settled(files)' /\ (Sink!Flush \/ Sink!Fail \/ UNCHANGED Sink!vars)
<1>1. rollFile(files, clock) /\ lines' = lines /\ disk' = disk /\ clock \in Nat
  BY DEF roll, IInv, TypeOK
<1>2. CASE files' \in Rolled(files, clock)
  <2>1. PICK g \in Closed(Last(files)) : files' = Append(Replaced(files, g), NewFile(clock))
    BY <1>2 DEF Rolled
  <2>2. Remained(Last(files), g) /\ g.onDisk = Len(g.lines)
    BY LastOfNamed, ClosedRemains DEF IInv, Sound, Settled
  <2>3. Becomes(g, files')
    BY <1>1, <2>1, <2>2 DEF Becomes
  <2> QED BY <1>1, <2>2, <2>3, RemainedSinks
<1>3. CASE files' = files
  BY <1>1, <1>3 DEF Sink!vars
<1> QED BY <1>1, <1>2, <1>3 DEF rollFile

LEMMA WorldSinks ==
    ASSUME Settled(files), tick \/ setClockBack \/ diskFills \/ diskIsFreed \/ UNCHANGED vars
    PROVE  Settled(files)' /\ (Sink!Break \/ UNCHANGED Sink!vars)
<1>1. files' = files /\ lines' = lines
  BY DEF tick, setClockBack, diskFills, diskIsFreed, vars
<1>2. CASE diskFills
  BY <1>1, <1>2 DEF diskFills, Sink!Break
<1>3. CASE ~ diskFills
  <2>1. (disk # "fine") = (disk' # "fine")
    BY <1>3 DEF tick, setClockBack, diskFills, diskIsFreed, vars
  <2> QED BY <1>1, <2>1 DEF Sink!vars
<1> QED BY <1>1, <1>2, <1>3

LEMMA InitiallySettled == Init => Settled(files) /\ Sink!Init
<1> SUFFICES ASSUME Init PROVE Settled(files) /\ Sink!Init
  OBVIOUS
<1>1. files = <<NewFile(clock)>> /\ lines = 0 /\ disk = "fine" /\ clock \in Nat
  BY LogFileAssumption DEF Init
<1>2. NewFile(clock).lines = <<>> /\ NewFile(clock).onDisk = 0 /\ NewFile(clock) \in Files
  BY <1>1, EmptySeq DEF NewFile, Files
<1>3. Len(files) = 1 /\ files[1] = NewFile(clock) /\ files \in Seq(Files) /\ Len(<<>>) = 0
  BY <1>1, <1>2
<1>4. Settled(files)
  BY <1>2, <1>3 DEF Settled, Last
<1>5. Content(files) = <<>>
  <2>1. Content(<<>>) = <<>>
    <3>1. [k \in DOMAIN <<>> |-> Entries(<<>>[k])] = <<>>
      OBVIOUS
    <3> QED BY <3>1, FlattenNone DEF Content
  <2>2. files = Append(<<>>, NewFile(clock))
    BY <1>1
  <2>3. <<>> \in Seq(Files)
    BY EmptySeq
  <2>4. Content(files) = <<>> \o Entries(NewFile(clock))
    BY <1>2, <2>1, <2>2, <2>3, ContentAppend
  <2>5. Entries(NewFile(clock)) = <<>>
    <3>1. Entries(NewFile(clock)) \in Seq(EntrySet) /\ Len(Entries(NewFile(clock))) = 0
      BY <1>2, <1>3, EntriesType
    <3> QED BY <3>1, EmptySeq
  <2> QED BY <2>4, <2>5
<1>6. Durable(files) = Content(files)
  BY <1>2, <1>3, SettledIsDurable
<1>7. Sink!Init
  BY <1>1, <1>3, <1>5, <1>6 DEF Sink!Init, Content, Durable
<1> QED BY <1>4, <1>7

-----------------------------------------------------------------------------
(* The theorems. *)

\* The variables of LogFile keep their types, whatever the clock and the disk
\* do; in particular there is always a file to append to, and count_ stays
\* below checkEveryN_.
THEOREM TypeCorrect == Spec => []TypeOK
<1>1. IInv => TypeOK
  BY DEF IInv
<1> QED BY <1>1, Inductive, PTL

\* rollFile() never uses a file name twice, for any sizes, intervals and
\* steps of the clock, back or forth.
THEOREM NamesNeverReused == Spec => []NamesIncrease
<1>1. IInv => NamesIncrease
  <2>1. ASSUME IInv PROVE DOMAIN files = 1 .. Len(files)
    BY <2>1 DEF IInv, TypeOK
  <2> QED BY <2>1 DEF IInv, Sound, Named, NamesIncrease
<1> QED BY <1>1, Inductive, PTL

\* While the disk has room, a crash at any moment leaves all lines up to some
\* one of them, perhaps a part of the next, and none after it, over however
\* many files they are spread and at whatever byte stdio has stopped.
THEOREM CrashKeepsAPrefix == Spec => []CrashLosesOnlyATail
<1>1. IInv => CrashLosesOnlyATail
  <2> SUFFICES ASSUME IInv, disk = "fine"
               PROVE  \E n \in 0 .. lines : Surviving = 1 .. n /\ InPart \subseteq {n + 1}
    BY DEF CrashLosesOnlyATail
  <2> DEFINE N == Len(files)
             last == files[N]
             older == Older(files, lines)
  <2>1. Named(files, lastRoll_) /\ Kept(files, lines) /\ lines \in Nat
    BY DEF IInv, TypeOK, Sound
  <2>2. files \in Seq(Files) /\ N \in Nat \ {0} /\ last \in Files
    BY <2>1, LastOfNamed DEF Named
  <2>3. last.onDisk \in Nat /\ Len(last.lines) \in Nat
    BY <2>2, LenProperties DEF Files
  <2>4. /\ older \in Nat /\ older = lines - Len(last.lines) /\ last.onDisk <= Len(last.lines)
        /\ last.torn => last.onDisk < Len(last.lines)
        /\ \A k \in 1 .. Len(last.lines) : last.lines[k].id = older + k
    BY <2>1 DEF Kept, NewestAreLast, Older
  <2>5. ASSUME NEW i \in 1 .. N, i # N
        PROVE  /\ files[i].onDisk = Len(files[i].lines) /\ files[i].torn = FALSE
               /\ \A k \in 1 .. Len(files[i].lines) : files[i].lines[k].id \in 1 .. older
    BY <2>1, <2>5 DEF Kept, OlderAreOnDisk
  <2>6. ASSUME NEW m \in 1 .. lines
        PROVE  \E i \in 1 .. N : \E k \in 1 .. Len(files[i].lines) : files[i].lines[k].id = m
    BY <2>1, <2>6 DEF Kept, NoneIsMissing
  <2> DEFINE n == older + last.onDisk
  <2>7. n \in 0 .. lines
    BY <2>1, <2>3, <2>4
  <2>8. \A x : x \in Surviving <=>
          \E i \in 1 .. N : \E k \in 1 .. files[i].onDisk : x = files[i].lines[k].id
    <3>1. ToSet(files) = {files[i] : i \in 1 .. N}
      BY <2>2 DEF ToSet
    <3> QED BY <3>1 DEF Surviving
  <2> HIDE DEF N, last, older, n
  <2>9. ASSUME NEW x \in Surviving PROVE x \in 1 .. n
    <3>1. PICK i \in 1 .. N : \E k \in 1 .. files[i].onDisk : x = files[i].lines[k].id
      BY <2>8
    <3>2. PICK k \in 1 .. files[i].onDisk : x = files[i].lines[k].id
      BY <3>1
    <3>3. CASE i = N
      <4>1. k \in 1 .. last.onDisk /\ x = last.lines[k].id
        BY <3>2, <3>3 DEF last
      <4>2. k \in 1 .. Len(last.lines)
        BY <4>1, <2>3, <2>4
      <4>3. x = older + k
        BY <4>1, <4>2, <2>4
      <4> QED BY <4>1, <4>3, <2>3, <2>4 DEF n
    <3>4. CASE i # N
      <4>1. x \in 1 .. older
        BY <3>2, <3>4, <2>5
      <4> QED BY <4>1, <2>3, <2>4 DEF n
    <3> QED BY <3>3, <3>4
  <2>10. ASSUME NEW m \in 1 .. n PROVE m \in Surviving
    <3>1. m \in 1 .. lines
      BY <2>1, <2>7
    <3>2. PICK i \in 1 .. N : \E k \in 1 .. Len(files[i].lines) : files[i].lines[k].id = m
      BY <3>1, <2>6
    <3>3. PICK k \in 1 .. Len(files[i].lines) : files[i].lines[k].id = m
      BY <3>2
    <3>4. CASE i = N
      <4>1. k \in 1 .. Len(last.lines) /\ last.lines[k].id = m
        BY <3>3, <3>4 DEF last
      <4>2. m = older + k
        BY <4>1, <2>4
      <4>3. k \in 1 .. last.onDisk
        BY <4>1, <4>2, <2>3, <2>4 DEF n
      <4>4. k \in 1 .. files[i].onDisk
        BY <4>3, <3>4 DEF last
      <4> QED BY <3>3, <4>4, <2>8
    <3>5. CASE i # N
      <4>1. k \in 1 .. files[i].onDisk
        BY <3>3, <3>5, <2>5
      <4> QED BY <3>3, <4>1, <2>8
    <3> QED BY <3>4, <3>5
  <2>11. Surviving = 1 .. n
    BY <2>9, <2>10
  <2>12. ASSUME NEW x \in InPart PROVE x = n + 1
    <3>1. PICK i \in 1 .. N : files[i].torn /\ x = files[i].lines[files[i].onDisk + 1].id
      <4>1. ToSet(files) = {files[i] : i \in 1 .. N}
        BY <2>2 DEF ToSet, N
      <4> QED BY <2>12, <4>1 DEF InPart
    <3>2. i = N
      BY <2>5, <3>1
    <3>3. last.onDisk < Len(last.lines) /\ x = last.lines[last.onDisk + 1].id
      BY <2>4, <3>1, <3>2 DEF last
    <3>4. last.onDisk + 1 \in 1 .. Len(last.lines)
      BY <2>3, <3>3
    <3>5. x = older + (last.onDisk + 1)
      BY <2>4, <3>3, <3>4
    <3>6. \A a, b \in Nat : a + (b + 1) = (a + b) + 1
      OBVIOUS
    <3> QED BY <2>3, <2>4, <3>5, <3>6 DEF n
  <2>13. InPart \subseteq {n + 1}
    BY <2>12
  <2> QED BY <2>7, <2>11, <2>13
<1> QED BY <1>1, Inductive, PTL

\* While the disk has room and the clock is not set back, a line waits in the
\* stdio buffer at most flushInterval_ seconds, counted to the last line that
\* has checkEveryN_ - 1 others behind it, in every file that is not too long.
THEOREM LinesReachTheDisk == Spec => []BoundedStaleness
<1>1. IInv /\ Punctual => BoundedStaleness
  <2> SUFFICES ASSUME IInv, Punctual, ~ setBack, disk = "fine", ~ aborted, ~ TooLong(Current),
                      NEW j \in Current.onDisk + 1 .. Len(Current.lines),
                      NEW k \in j .. Len(Current.lines) - checkEveryN_ + 1
               PROVE  Current.lines[k].at - Current.lines[j].at <= flushInterval_
    BY DEF BoundedStaleness
  <2> DEFINE f == Current
  <2>1. f \in Files
    BY LastOfNamed DEF IInv, Sound, Current
  <2>2. /\ \A i \in 1 .. Len(f.lines) : i > f.onDisk => lastFlush_ <= f.lines[i].at
        /\ \A i \in 1 .. Len(f.lines) - count_ : f.lines[i].at <= lastFlush_ + flushInterval_
    BY DEF Punctual, Fresh, Current
  <2> HIDE DEF f
  <2>3. /\ f.onDisk \in Nat /\ Len(f.lines) \in Nat
        /\ \A i \in 1 .. Len(f.lines) : f.lines[i].at \in Nat
    BY <2>1, FileLines
  <2>4. /\ count_ \in Nat /\ count_ + 1 <= checkEveryN_ /\ checkEveryN_ \in Nat
        /\ lastFlush_ \in Nat /\ flushInterval_ \in Nat
    BY LogFileAssumption DEF IInv, TypeOK
  <2>5. j \in f.onDisk + 1 .. Len(f.lines) /\ k \in j .. Len(f.lines) - checkEveryN_ + 1
    BY DEF f
  <2>6. j \in 1 .. Len(f.lines) /\ j > f.onDisk
    BY <2>3, <2>5
  <2>7. k \in 1 .. Len(f.lines) /\ k \in 1 .. Len(f.lines) - count_
    BY <2>3, <2>4, <2>5, <2>6
  <2>8. f.lines[j].at \in Nat /\ f.lines[k].at \in Nat
    BY <2>3, <2>6, <2>7
  <2>9. lastFlush_ <= f.lines[j].at /\ f.lines[k].at <= lastFlush_ + flushInterval_
    BY <2>2, <2>6, <2>7
  <2>10. f.lines[k].at - f.lines[j].at <= flushInterval_
    BY <2>4, <2>8, <2>9
  <2> QED BY <2>10 DEF f
<1> QED BY <1>1, Inductive, AlwaysPunctual, PTL

\* As long as the clock is not set back, all lines of a file but the last
\* checkEveryN_ are of the day it is named for, whether the disk is full or not.
THEOREM FilesKeepToTheirDay == Spec => []DayBoundary
<1>1. IInv /\ Punctual => DayBoundary
  <2> SUFFICES ASSUME IInv, Punctual, ~ setBack, NEW f \in ToSet(files)
               PROVE  SameDay(f, checkEveryN_)
    BY DEF DayBoundary, SameDay
  <2>1. files \in Seq(Files) /\ Last(files) = files[Len(files)] /\ Last(files) \in Files
    BY LastOfNamed DEF IInv, Sound, Named
  <2>2. PICK i \in 1 .. Len(files) : f = files[i]
    BY <2>1 DEF ToSet
  <2>3. Dated(files, Allowed, clock)
    BY DEF Punctual
  <2>4. Allowed \in Nat /\ checkEveryN_ \in Nat /\ Allowed <= checkEveryN_
    BY LogFileAssumption DEF IInv, TypeOK, Allowed
  <2>5. CASE i = Len(files)
    BY <2>1, <2>2, <2>3, <2>4, <2>5, MoreOfAnotherDay DEF Dated
  <2>6. CASE i # Len(files)
    BY <2>2, <2>3, <2>6 DEF Dated
  <2> QED BY <2>5, <2>6
<1> QED BY <1>1, Inductive, AlwaysPunctual, PTL

\* The files are one sink to the logger above them: a roll is not seen, a full
\* disk costs the newest lines at most, and nothing is put in twice or in
\* another order, however often a short write is continued.
THEOREM FilesAreASink == Spec => ImplementsSink
<1>1. IInv /\ Settled(files) /\ [Next]_vars => Settled(files)' /\ [Sink!Next]_(Sink!vars)
  <2> SUFFICES ASSUME IInv, Settled(files), [Next]_vars
               PROVE  Settled(files)' /\ [Sink!Next]_(Sink!vars)
    OBVIOUS
  <2>1. CASE \E len \in LineLens : append(len)
    BY <2>1, AppendSinks DEF Sink!Next
  <2>2. CASE flush
    BY <2>2, FlushSinks DEF Sink!Next
  <2>3. CASE roll
    BY <2>3, RollSinks DEF Sink!Next
  <2>4. CASE tick \/ setClockBack \/ diskFills \/ diskIsFreed \/ UNCHANGED vars
    BY <2>4, WorldSinks DEF Sink!Next
  <2> QED BY <2>1, <2>2, <2>3, <2>4 DEF Next
<1> QED BY InitiallySettled, Inductive, <1>1, PTL DEF Spec, ImplementsSink, Sink!Spec
=============================================================================
