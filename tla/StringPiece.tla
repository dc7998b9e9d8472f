---------------------------- MODULE StringPiece ----------------------------
(***************************************************************************)
(* The searches of internal::StringPiece (slog/stringpiece.h, .cc).  A     *)
(* piece is the sequence of the bytes from ptr_ on; the code counts        *)
(* positions from 0.  size_type is unsigned and wraps: npos is its largest *)
(* value, and a search downwards that passes 0 goes on at npos.  A search  *)
(* that cannot go wrong is a value, one that can is the set of its         *)
(* outcomes.                                                               *)
(***************************************************************************)
EXTENDS Integers, SequencesExt, FiniteSetsExt

CONSTANTS
    npos,       \* size_type(-1)
    Crash       \* the program has been killed

ASSUME PieceAssumption == npos \in Nat \ {0} /\ Crash \notin Nat

Sizes == 0 .. npos

\* a - b of two size_type.
Minus(a, b) == IF b <= a THEN a - b ELSE npos + 1 + a - b

Least(a, b) == IF a <= b THEN a ELSE b

First(positions) == IF positions = {} THEN npos ELSE Min(positions)

At(p, i) == p[i + 1]

OccursAt(s, p, i) == i + Len(s) <= Len(p) /\ SubSeq(p, i + 1, i + Len(s)) = s

-----------------------------------------------------------------------------
(* Searches upwards. *)

\* find(StringPiece s, pos).  An empty s is found at pos, but not at the end.
find(p, s, pos) ==
    IF p = <<>> \/ pos > Len(p)
    THEN IF p = <<>> /\ pos = 0 /\ s = <<>> THEN 0 ELSE npos
    ELSE First({i \in pos .. Len(p) - 1 : OccursAt(s, p, i)})

\* find(char c, pos), find_first_of(char c, pos)
findChar(p, c, pos) == First({i \in pos .. Len(p) - 1 : At(p, i) = c})

contains(p, s) == find(p, s, 0) # npos

find_first_of(p, s, pos) ==
    IF p = <<>> \/ s = <<>> THEN npos
    ELSE IF Len(s) = 1 THEN findChar(p, s[1], pos)
    ELSE First({i \in pos .. Len(p) - 1 : At(p, i) \in ToSet(s)})

\* With nothing to avoid it answers 0, whatever pos is.
find_first_not_of(p, s, pos) ==
    IF p = <<>> THEN npos
    ELSE IF s = <<>> THEN 0
    ELSE First({i \in pos .. Len(p) - 1 : At(p, i) \notin ToSet(s)})

-----------------------------------------------------------------------------
(* Searches downwards. *)

LastForgotten(p, s, pos) ==   \* (mutation: without + s.length_)
    LET last == Least(Len(p) - Len(s), pos)
        hits == {i \in 0 .. Len(p) : OccursAt(s, p, i) /\ i + Len(s) <= last}
    IN  IF Len(p) < Len(s) THEN npos
        ELSE IF s = <<>> THEN Least(Len(p), pos)
        ELSE IF hits = {} THEN npos ELSE Max(hits)

\* rfind(StringPiece s, pos): std::find_end on the bytes before last.
rfind(p, s, pos) ==
    LET last == Least(Len(p) - Len(s), pos) + Len(s)
        hits == {i \in 0 .. Len(p) : OccursAt(s, p, i) /\ i + Len(s) <= last}
    IN  IF Len(p) < Len(s) THEN npos
        ELSE IF s = <<>> THEN Least(Len(p), pos)
        ELSE IF hits = {} THEN npos ELSE Max(hits)

\* for (i = min(pos, length_ - 1); i >= 0; --i): the condition always holds.
\* A search without a hit goes on in the bytes before ptr_, at npos and below,
\* until one of those will do or the program is killed.
Downwards(p, pos, wanted) ==
    LET hits == {i \in 0 .. Least(pos, Len(p) - 1) : At(p, i) \in wanted}
    IN  IF hits # {} THEN {Max(hits)} ELSE {Crash} \cup Len(p) .. npos

\* rfind(char c, pos), find_last_of(char c, pos)
rfindChar(p, c, pos) ==
    IF p = <<>> THEN {npos} ELSE Downwards(p, pos, {c})

\* Also for a single character.
find_last_of(p, s, pos) ==
    IF p = <<>> \/ s = <<>> THEN {npos}
    ELSE Downwards(p, pos, ToSet(s))

find_last_not_of(p, s, pos) ==
    IF p = <<>> THEN {npos}
    ELSE IF s = <<>> THEN {Least(pos, Len(p) - 1)}
    ELSE Downwards(p, pos, ToSet(p) \ ToSet(s))

-----------------------------------------------------------------------------
(* Parts and comparisons. *)

\* substr(pos, n)
substr(p, pos, n) ==
    LET from == Least(pos, Len(p))
    IN  SubSeq(p, from + 1, from + Least(n, Len(p) - from))

\* StringPiece(x, pos, len): the checks come after the arithmetic, and abort.
SubPiece(p, pos, len) ==
    IF pos <= Len(p) THEN SubSeq(p, pos + 1, pos + Least(len, Len(p) - pos)) ELSE Crash

\* copy(buf, n, pos): how many bytes, be they inside the piece or not.
copied(p, n, pos) == Least(Minus(Len(p), pos), n)

starts_with(p, x) == OccursAt(x, p, 0)
ends_with(p, x) == Len(x) <= Len(p) /\ OccursAt(x, p, Len(p) - Len(x))

\* Consume(), ConsumeFromEnd(): what is left.
Consume(p, x) == IF starts_with(p, x) THEN SubSeq(p, Len(x) + 1, Len(p)) ELSE p
ConsumeFromEnd(p, x) ==
    IF ends_with(p, x) THEN SubSeq(p, 1, Len(p) - Len(x)) ELSE p

\* The sign of memcmp() of the common length.
memcmp(p, x) ==
    LET differ == {k \in 1 .. Least(Len(p), Len(x)) : p[k] # x[k]}
    IN  IF differ = {} THEN 0 ELSE IF p[Min(differ)] < x[Min(differ)] THEN 0 - 1 ELSE 1

LengthsCompared(m, n) == IF m < n THEN 0 - 1 ELSE IF m > n THEN 1 ELSE 0

\* compare(), the same in both classes.
compare(p, x) ==
    IF memcmp(p, x) # 0 THEN memcmp(p, x) ELSE LengthsCompared(Len(p), Len(x))

\* slog: ==, and the other operators in terms of it or of <.
equal(p, x) == Len(p) = Len(x) /\ memcmp(p, x) = 0
less(p, x) == memcmp(p, x) < 0 \/ (memcmp(p, x) = 0 /\ Len(p) < Len(x))

\* asynlog: STRINGPIECE_BINARY_PREDICATE for <, <=, >= and >.
Predicates(p, x) ==
    LET r == memcmp(p, x)
    IN  [lt |-> r < 0 \/ (r = 0 /\ Len(p) < Len(x)), le |-> r < 0 \/ (r = 0 /\ Len(p) <= Len(x)),
         ge |-> r > 0 \/ (r = 0 /\ Len(p) >= Len(x)), gt |-> r > 0 \/ (r = 0 /\ Len(p) > Len(x))]

-----------------------------------------------------------------------------
(* Two users of pieces: positions counted from 1. *)

\* ProcessInfo::procname(stat): from the first ( to the last ), if any.
procname(stat, open, close) ==
    LET lp == {i \in DOMAIN stat : stat[i] = open}
        rp == {i \in DOMAIN stat : stat[i] = close}
    IN  IF lp # {} /\ rp # {} /\ Min(lp) < Max(rp)
        THEN SubSeq(stat, Min(lp) + 1, Max(rp) - 1) ELSE <<>>

\* Logger::SourceFile: data_ is behind the last slash, of size_ bytes.
SourceFile(file, slash) ==
    LET slashes == {i \in DOMAIN file : file[i] = slash}
        from == IF slashes = {} THEN 0 ELSE Max(slashes)
    IN  SubSeq(file, from + 1, Len(file))
=============================================================================
