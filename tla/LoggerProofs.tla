---------------------------- MODULE LoggerProofs ----------------------------
(***************************************************************************)
(* Theorems of the front end.  Of Logger, for all sets of threads, zones   *)
(* and sinks and for all clocks: what the text of a line can be relied on  *)
(* for although the threads share their caches, and when a FATAL line is   *)
(* written.  Of the functions without state that the text is made with     *)
(* (Values), for all arguments that the assumptions of Values allow:       *)
(* handlers, lines, files, integers, time zones, dates, pieces.            *)
(***************************************************************************)
EXTENDS Logger, Values, SequenceLemmas

Places == Constructing \cup {"idle", "message", "flush", "abort", "aborted"}

Entry == [thread : Thread, level : Levels]

Line ==
    [level : Levels \cup {INFO}, second : Nat, time : [second : Nat, zone : Zone],
     utc : BOOLEAN, tid : Thread \cup {NoThread}, length : Thread \cup {NoThread},
     sink : Sink, flushed : Flushable]

-----------------------------------------------------------------------------
(* The inductive invariant. *)

ClockTyped ==
    /\ clock \in 1 .. MaxClock
    /\ latest \in clock .. MaxClock /\ changedAt \in 0 .. latest

SettingsTyped ==
    /\ g_logLevel \in Levels \cup {initLogLevel} /\ g_logTimeZone \in Zone
    /\ g_output \in Sink /\ g_flush \in Flushable

\* No cached second, and no line, is of a second the clock never showed.
CachesTyped ==
    /\ t_lastSecond \in [Thread -> Nat]
    /\ t_time \in [Thread -> [second : Nat, zone : Zone]]
    /\ \A t \in Thread :
         t_lastSecond[t] <= latest /\ t_time[t].second = t_lastSecond[t]
    /\ tid_ \in Thread \cup {NoThread} /\ tidString_ \in Thread \cup {NoThread}

LinesTyped ==
    /\ pc \in [Thread -> Places]
    /\ line \in [Thread -> Line]
    /\ \A t \in Thread :
         /\ line[t].second <= latest
         /\ pc[t] # "idle" => line[t].level \in Levels

SinksTyped ==
    buffered \in [Sink -> Seq(Entry)] /\ written \in [Sink -> Seq(Entry)]

PeersTyped == peers \in [Thread -> SUBSET Thread]

Typed ==
    ClockTyped /\ SettingsTyped /\ CachesTyped /\ LinesTyped /\ SinksTyped /\ PeersTyped

\* The text kept for a second that began after the zone was set is in that
\* zone, and so is a line once its time has been formatted.
CachesCurrent ==
    \A t \in Thread :
        /\ t_lastSecond[t] > changedAt => t_time[t].zone = g_logTimeZone
        /\ pc[t] = "appendTime" => t_lastSecond[t] = line[t].second

Formatted == Places \ {"idle", "formatTime", "appendTime"}

LinesCurrent ==
    \A t \in Thread : pc[t] \in Formatted =>
        /\ line[t].time.second = line[t].second
        /\ line[t].second > changedAt =>
             /\ line[t].time.zone = g_logTimeZone
             /\ line[t].utc = (g_logTimeZone = NoZone)

\* Two threads inside a constructor know of each other.
PeersMeet ==
    \A t \in Thread : \A u \in Thread :
        t # u /\ pc[t] \in Constructing /\ pc[u] \in Constructing => u \in peers[t]

\* Once tid() has run the shared id is that of some thread, and while this
\* thread still needs it, its own or a peer's: whoever writes it is inside
\* a constructor.  The same for the text, and for what the line has taken.
IdKnown(t) ==
    /\ pc[t] \in Formatted \ {"tid"} => tid_ \in Thread
    /\ pc[t] \in {"tidString", "tidLength", "operator<<"} => tid_ \in {t} \cup peers[t]

TextKnown(t) ==
    /\ pc[t] \in Formatted \ {"tid", "tidString"} => tidString_ \in Thread
    /\ pc[t] \in {"tidLength", "operator<<"} => tidString_ \in {t} \cup peers[t]

LineKnown(t) ==
    /\ pc[t] \in Formatted \ {"tid", "tidString"} => line[t].length \in Thread
    /\ pc[t] \in {"tidLength", "operator<<", "message"} =>
         line[t].length \in {t} \cup peers[t]
    /\ pc[t] \in {"message", "flush", "abort", "aborted"} => line[t].tid \in Thread
    /\ pc[t] = "message" => line[t].tid \in {t} \cup peers[t]

IdsKnown == \A t \in Thread : IdKnown(t) /\ TextKnown(t) /\ LineKnown(t)

\* A FATAL line is in its sink until g_flush() has been called, and written
\* afterwards if the two belong together.
FatalKept ==
    \A t \in Thread :
        /\ pc[t] = "flush" =>
             Item(t) \in ToSet(buffered[line[t].sink]) \cup ToSet(written[line[t].sink])
        /\ pc[t] \in {"abort", "aborted"} /\ line[t].flushed = line[t].sink =>
             Item(t) \in ToSet(written[line[t].sink])

IInv ==
    /\ Typed /\ CachesCurrent /\ LinesCurrent /\ PeersMeet /\ IdsKnown /\ FatalKept

LEMMA Initially == Init => IInv
<1> SUFFICES ASSUME Init PROVE IInv
  OBVIOUS
<1> USE LoggerAssumption DEF Init
<1>1. NoLine \in Line
  BY DEF NoLine, Line, INFO
<1>2. Typed
  BY <1>1 DEF Typed, ClockTyped, SettingsTyped, CachesTyped, LinesTyped,
              SinksTyped, PeersTyped, Places, NoLine
<1>3. CachesCurrent /\ LinesCurrent /\ PeersMeet
  BY DEF CachesCurrent, LinesCurrent, PeersMeet, Formatted, Constructing
<1>4. IdsKnown /\ FatalKept
  BY DEF IdsKnown, IdKnown, TextKnown, LineKnown, FatalKept, Formatted, Places
<1> QED BY <1>2, <1>3, <1>4 DEF IInv

-----------------------------------------------------------------------------
(* The entries of the sequences in a sink. *)

LEMMA EntriesOfAppend ==
    ASSUME NEW S, NEW s \in Seq(S), NEW e \in S
    PROVE  ToSet(Append(s, e)) = ToSet(s) \cup {e}
<1>1. \A k \in 1 .. Len(s) : Append(s, e)[k] = s[k]
  OBVIOUS
<1>2. Append(s, e)[Len(s) + 1] = e /\ Len(Append(s, e)) = Len(s) + 1
  OBVIOUS
<1>3. DOMAIN Append(s, e) = 1 .. Len(s) + 1 /\ DOMAIN s = 1 .. Len(s)
  OBVIOUS
<1>4. ASSUME NEW k \in 1 .. Len(s) + 1 PROVE k \in 1 .. Len(s) \/ k = Len(s) + 1
  OBVIOUS
<1>5. \A k \in 1 .. Len(s) : k \in 1 .. Len(s) + 1
  OBVIOUS
<1>6. Len(s) + 1 \in 1 .. Len(s) + 1
  OBVIOUS
<1> QED BY <1>1, <1>2, <1>3, <1>4, <1>5, <1>6, Zenon DEF ToSet

LEMMA EntriesStay ==
    ASSUME NEW S, NEW s \in Seq(S), NEW r \in Seq(S)
    PROVE  ToSet(s) \cup ToSet(r) \subseteq ToSet(s \o r)
<1>1. DOMAIN (s \o r) = 1 .. Len(s) + Len(r)
      /\ DOMAIN s = 1 .. Len(s) /\ DOMAIN r = 1 .. Len(r)
  OBVIOUS
<1>2. \A k \in 1 .. Len(s) : k \in DOMAIN (s \o r) /\ (s \o r)[k] = s[k]
  OBVIOUS
<1>3. \A k \in 1 .. Len(r) :
        Len(s) + k \in DOMAIN (s \o r) /\ (s \o r)[Len(s) + k] = r[k]
  OBVIOUS
<1>4. ToSet(s) \subseteq ToSet(s \o r)
  BY <1>1, <1>2, Zenon DEF ToSet
<1>5. ToSet(r) \subseteq ToSet(s \o r)
  BY <1>1, <1>3, Zenon DEF ToSet
<1> QED BY <1>4, <1>5

LEMMA HeadOrTail ==
    ASSUME NEW S, NEW s \in Seq(S), s # <<>>
    PROVE  ToSet(s) \subseteq {Head(s)} \cup ToSet(Tail(s))
<1>1. DOMAIN Tail(s) = 1 .. Len(s) - 1 /\ DOMAIN s = 1 .. Len(s)
  OBVIOUS
<1>2. s[1] = Head(s)
  OBVIOUS
<1>3. \A k \in 1 .. Len(s) - 1 : Tail(s)[k] = s[k + 1]
  OBVIOUS
<1>4. ASSUME NEW k \in DOMAIN s PROVE s[k] \in {Head(s)} \cup ToSet(Tail(s))
  <2>1. CASE k = 1
    BY <1>2, <2>1
  <2>2. CASE k # 1
    <3>1. k - 1 \in 1 .. Len(s) - 1 /\ (k - 1) + 1 = k
      BY <1>1, <2>2
    <3>2. s[k] = Tail(s)[k - 1]
      BY <1>3, <3>1
    <3> QED BY <1>1, <3>1, <3>2 DEF ToSet
  <2> QED BY <2>1, <2>2
<1> QED BY <1>4 DEF ToSet

-----------------------------------------------------------------------------
(* The steps of a Logger. *)

LEMMA BeginKeepsIInv ==
    ASSUME IInv, NEW t \in Thread, NEW level \in Levels, begin(t, level)
    PROVE  IInv'
<1> DEFINE inside == {u \in Thread \ {t} : pc[u] \in Constructing}
<1> USE DEF IInv, Typed
<1>1. /\ pc[t] = "idle" /\ pc' = [pc EXCEPT ![t] = "formatTime"]
      /\ line' = [line EXCEPT ![t] = [NoLine EXCEPT !.level = level, !.second = clock]]
      /\ UNCHANGED <<clock, settings, caches, sinks, seen>>
  BY DEF begin, at
<1>2. peers' = [u \in Thread |-> IF u = t THEN inside
                                 ELSE IF u \in inside THEN peers[u] \cup {t}
                                 ELSE peers[u]]
  BY DEF begin
<1>3. [NoLine EXCEPT !.level = level, !.second = clock] \in Line
  <2>1. NoLine \in Line
    BY LoggerAssumption DEF NoLine, Line, INFO
  <2>2. clock \in Nat
    BY DEF ClockTyped
  <2> DEFINE ofLevel == [NoLine EXCEPT !.level = level]
  <2>3. ofLevel \in Line
    BY <2>1 DEF Line
  <2> HIDE DEF ofLevel
  <2>4. [ofLevel EXCEPT !.second = clock] \in Line
    BY <2>2, <2>3 DEF Line
  <2> QED BY <2>4 DEF ofLevel
<1>4. ClockTyped' /\ SettingsTyped' /\ CachesTyped' /\ SinksTyped'
  BY <1>1 DEF ClockTyped, SettingsTyped, CachesTyped, SinksTyped, settings, caches,
              sinks, seen
<1>5. LinesTyped'
  BY <1>1, <1>3 DEF LinesTyped, Places, Constructing, NoLine, ClockTyped, seen
<1>6. PeersTyped'
  BY <1>2 DEF PeersTyped
<1>7. CachesCurrent'
  BY <1>1 DEF CachesCurrent, caches, settings, seen
<1>8. LinesCurrent'
  BY <1>1 DEF LinesCurrent, LinesTyped, Formatted, settings, seen
<1>9. PeersMeet'
  BY <1>1, <1>2 DEF PeersMeet, LinesTyped, Constructing
<1>10. IdsKnown'
  <2> SUFFICES ASSUME NEW u \in Thread
               PROVE  IdKnown(u)' /\ TextKnown(u)' /\ LineKnown(u)'
    BY DEF IdsKnown
  <2>1. IdKnown(u) /\ TextKnown(u) /\ LineKnown(u)
    BY DEF IdsKnown
  <2>2. CASE u = t
    BY <1>1, <2>2 DEF LinesTyped, IdKnown, TextKnown, LineKnown, Formatted
  <2>3. CASE u # t
    <3>1. pc'[u] = pc[u] /\ line'[u] = line[u] /\ peers[u] \subseteq peers'[u]
      BY <1>1, <1>2, <2>3 DEF LinesTyped
    <3> QED BY <1>1, <2>1, <3>1 DEF IdKnown, TextKnown, LineKnown, caches
  <2> QED BY <2>2, <2>3
<1>11. FatalKept'
  BY <1>1 DEF FatalKept, LinesTyped, Item, sinks
<1> QED BY <1>4, <1>5, <1>6, <1>7, <1>8, <1>9, <1>10, <1>11

LEMMA FormatTimeKeepsIInv ==
    ASSUME IInv, NEW t \in Thread, formatTime(t)
    PROVE  IInv'
<1> DEFINE text == IF Outdated(t) THEN [second |-> line[t].second, zone |-> g_logTimeZone]
                   ELSE t_time[t]
<1> USE DEF IInv, Typed
<1>1. /\ pc[t] = "formatTime" /\ pc' = [pc EXCEPT ![t] = "appendTime"]
      /\ t_lastSecond' = [t_lastSecond EXCEPT ![t] = line[t].second]
      /\ t_time' = [t_time EXCEPT ![t] = text]
      /\ UNCHANGED <<clock, settings, tid_, tidString_, line, sinks, seen, peers>>
  BY DEF formatTime, at
<1>2. /\ text \in [second : Nat, zone : Zone] /\ text.second = line[t].second
      /\ line[t].second > changedAt => text.zone = g_logTimeZone
  <2>1. line[t].second \in Nat /\ t_time[t] \in [second : Nat, zone : Zone]
        /\ g_logTimeZone \in Zone
    BY DEF LinesTyped, CachesTyped, SettingsTyped, Line
  <2>2. CASE Outdated(t)
    BY <2>1, <2>2
  <2>3. CASE ~ Outdated(t)
    BY <2>1, <2>3 DEF Outdated, CachesTyped, CachesCurrent
  <2> QED BY <2>2, <2>3
<1> HIDE DEF text
<1>3. ClockTyped' /\ SettingsTyped' /\ SinksTyped' /\ PeersTyped'
  BY <1>1 DEF ClockTyped, SettingsTyped, SinksTyped, PeersTyped, settings, sinks, seen
<1>4. CachesTyped'
  <2>1. line[t].second \in Nat /\ line[t].second <= latest
    BY DEF LinesTyped, Line
  <2> QED BY <1>1, <1>2, <2>1 DEF CachesTyped, seen
<1>5. LinesTyped'
  BY <1>1 DEF LinesTyped, Places, Constructing, seen
<1>6. CachesCurrent'
  BY <1>1, <1>2 DEF CachesCurrent, CachesTyped, LinesTyped, settings, seen
<1>7. LinesCurrent'
  BY <1>1 DEF LinesCurrent, LinesTyped, Formatted, settings, seen
<1>8. PeersMeet'
  BY <1>1 DEF PeersMeet, LinesTyped, Constructing
<1>9. IdsKnown'
  <2> SUFFICES ASSUME NEW u \in Thread
               PROVE  IdKnown(u)' /\ TextKnown(u)' /\ LineKnown(u)'
    BY DEF IdsKnown
  <2>1. IdKnown(u) /\ TextKnown(u) /\ LineKnown(u)
    BY DEF IdsKnown
  <2>2. CASE u = t
    BY <1>1, <2>2 DEF LinesTyped, IdKnown, TextKnown, LineKnown, Formatted
  <2>3. CASE u # t
    <3>1. pc'[u] = pc[u] /\ line'[u] = line[u]
      BY <1>1, <2>3 DEF LinesTyped
    <3> QED BY <1>1, <2>1, <3>1 DEF IdKnown, TextKnown, LineKnown
  <2> QED BY <2>2, <2>3
<1>10. FatalKept'
  <2>1. \A u \in Thread : pc'[u] \in {"flush", "abort", "aborted"} =>
            pc'[u] = pc[u] /\ line'[u] = line[u]
    BY <1>1 DEF LinesTyped
  <2> QED BY <1>1, <2>1 DEF FatalKept, Item, sinks
<1> QED BY <1>3, <1>4, <1>5, <1>6, <1>7, <1>8, <1>9, <1>10

\* The zone may have been set since the text was made; but then it was set at
\* or after the line's second, and nothing is promised of the line.
LEMMA AppendTimeKeepsIInv ==
    ASSUME IInv, NEW t \in Thread, appendTime(t)
    PROVE  IInv'
<1> DEFINE text == t_time[t]
<1> USE DEF IInv, Typed
<1>1. /\ pc[t] = "appendTime" /\ pc' = [pc EXCEPT ![t] = "tid"]
      /\ line' = [line EXCEPT ![t].time = text, ![t].utc = g_logTimeZone = NoZone]
      /\ UNCHANGED <<clock, settings, caches, sinks, seen, peers>>
  BY DEF appendTime, at
<1>2. /\ text \in [second : Nat, zone : Zone] /\ text.second = line[t].second
      /\ line[t].second > changedAt => text.zone = g_logTimeZone
  BY <1>1 DEF CachesTyped, CachesCurrent
<1> HIDE DEF text
<1>3. /\ line'[t] \in Line
      /\ line'[t].second = line[t].second /\ line'[t].level = line[t].level
      /\ line'[t].time = text /\ line'[t].utc = (g_logTimeZone = NoZone)
      /\ \A u \in Thread \ {t} : line'[u] = line[u]
      /\ line' \in [Thread -> Line]
  <2>1. line[t] \in Line
    BY DEF LinesTyped
  <2> DEFINE timed == [line[t] EXCEPT !.time = text]
             whole == [timed EXCEPT !.utc = g_logTimeZone = NoZone]
  <2>2. /\ timed \in Line /\ timed.second = line[t].second
        /\ timed.level = line[t].level /\ timed.time = text
    BY <1>2, <2>1 DEF Line
  <2>3. line' = [line EXCEPT ![t] = whole]
    BY <1>1 DEF LinesTyped
  <2> HIDE DEF timed
  <2>4. /\ whole \in Line /\ whole.second = line[t].second
        /\ whole.level = line[t].level /\ whole.time = text
        /\ whole.utc = (g_logTimeZone = NoZone)
    BY <2>2 DEF Line
  <2> QED BY <2>3, <2>4 DEF LinesTyped
<1>4. ClockTyped' /\ SettingsTyped' /\ SinksTyped' /\ PeersTyped'
  BY <1>1 DEF ClockTyped, SettingsTyped, SinksTyped, PeersTyped, settings, sinks, seen
<1>5. CachesTyped'
  BY <1>1 DEF CachesTyped, caches, seen
<1>6. LinesTyped'
  BY <1>1, <1>3 DEF LinesTyped, Places, Constructing, seen
<1>7. CachesCurrent'
  <2>1. \A u \in Thread : pc'[u] = "appendTime" => pc[u] = "appendTime" /\ line'[u] = line[u]
    BY <1>1, <1>3 DEF LinesTyped
  <2> QED BY <1>1, <2>1 DEF CachesCurrent, caches, settings, seen
<1>8. LinesCurrent'
  BY <1>1, <1>2, <1>3 DEF LinesCurrent, LinesTyped, Formatted, settings, seen
<1>9. PeersMeet'
  BY <1>1 DEF PeersMeet, LinesTyped, Constructing
<1>10. IdsKnown'
  <2> SUFFICES ASSUME NEW u \in Thread
               PROVE  IdKnown(u)' /\ TextKnown(u)' /\ LineKnown(u)'
    BY DEF IdsKnown
  <2>1. IdKnown(u) /\ TextKnown(u) /\ LineKnown(u)
    BY DEF IdsKnown
  <2>2. CASE u = t
    BY <1>1, <2>2 DEF LinesTyped, IdKnown, TextKnown, LineKnown, Formatted
  <2>3. CASE u # t
    <3>1. pc'[u] = pc[u] /\ line'[u] = line[u]
      BY <1>1, <1>3, <2>3 DEF LinesTyped
    <3> QED BY <1>1, <2>1, <3>1 DEF IdKnown, TextKnown, LineKnown, caches
  <2> QED BY <2>2, <2>3
<1>11. FatalKept'
  <2>1. \A u \in Thread : pc'[u] \in {"flush", "abort", "aborted"} =>
            pc'[u] = pc[u] /\ line'[u] = line[u]
    BY <1>1, <1>3 DEF LinesTyped
  <2> QED BY <1>1, <2>1 DEF FatalKept, Item, sinks
<1> QED BY <1>4, <1>5, <1>6, <1>7, <1>8, <1>9, <1>10, <1>11

\* What the four steps that bring the thread id into the line share: they
\* change the line's id or its length, and the shared caches.
TidStep(t, l, to) ==
    /\ pc[t] \in {"tid", "tidString", "tidLength", "operator<<"}
    /\ to \in {"tidString", "tidLength", "operator<<", "message"}
    /\ pc' = [pc EXCEPT ![t] = to]
    /\ l \in Line /\ line' = [line EXCEPT ![t] = l]
    /\ l.level = line[t].level /\ l.second = line[t].second
    /\ l.time = line[t].time /\ l.utc = line[t].utc
    /\ tid_' \in Thread \cup {NoThread} /\ tidString_' \in Thread \cup {NoThread}
    /\ UNCHANGED <<clock, settings, t_lastSecond, t_time, sinks, seen, peers>>

LEMMA TidStepKeepsRest ==
    ASSUME IInv, NEW t \in Thread, NEW l, NEW to, TidStep(t, l, to)
    PROVE  Typed' /\ CachesCurrent' /\ LinesCurrent' /\ PeersMeet' /\ FatalKept'
<1> USE DEF IInv, Typed, TidStep
<1>1. ClockTyped' /\ SettingsTyped' /\ SinksTyped' /\ PeersTyped'
  BY DEF ClockTyped, SettingsTyped, SinksTyped, PeersTyped, settings, sinks, seen
<1>2. CachesTyped'
  BY DEF CachesTyped, seen
<1>3. LinesTyped'
  BY DEF LinesTyped, Places, Constructing, seen
<1>4. CachesCurrent'
  BY DEF CachesCurrent, settings, seen
<1>5. LinesCurrent'
  BY DEF LinesCurrent, LinesTyped, Formatted, Places, Constructing, settings, seen
<1>6. PeersMeet'
  BY DEF PeersMeet, LinesTyped, Constructing
<1>7. FatalKept'
  <2>1. \A u \in Thread : pc'[u] \in {"flush", "abort", "aborted"} =>
            pc'[u] = pc[u] /\ line'[u] = line[u]
    BY DEF LinesTyped
  <2> QED BY <2>1 DEF FatalKept, Item, sinks
<1> QED BY <1>1, <1>2, <1>3, <1>4, <1>5, <1>6, <1>7

LEMMA TidKeepsIInv ==
    ASSUME IInv, NEW t \in Thread, tid(t)
    PROVE  IInv'
<1> USE DEF IInv, Typed
<1>1. /\ pc[t] = "tid" /\ pc' = [pc EXCEPT ![t] = "tidString"]
      /\ tid_' = t
      /\ UNCHANGED <<clock, settings, t_lastSecond, t_time, tidString_, line, sinks,
                     seen, peers>>
  BY DEF tid, at, NewTid
<1>2. line[t] \in Line /\ line' = [line EXCEPT ![t] = line[t]]
  BY <1>1 DEF LinesTyped
<1>3. tid_' \in Thread \cup {NoThread} /\ tidString_' \in Thread \cup {NoThread}
  BY <1>1 DEF CachesTyped
<1>4. Typed' /\ CachesCurrent' /\ LinesCurrent' /\ PeersMeet' /\ FatalKept'
  <2>1. TidStep(t, line[t], "tidString")
    BY <1>1, <1>2, <1>3 DEF TidStep
  <2> HIDE DEF IInv, Typed
  <2> QED BY <2>1, TidStepKeepsRest
<1>5. IdsKnown'
  <2> SUFFICES ASSUME NEW u \in Thread
               PROVE  IdKnown(u)' /\ TextKnown(u)' /\ LineKnown(u)'
    BY DEF IdsKnown
  <2>1. IdKnown(u) /\ TextKnown(u) /\ LineKnown(u)
    BY DEF IdsKnown
  <2>2. CASE u = t
    BY <1>1, <2>2 DEF LinesTyped, IdKnown, TextKnown, LineKnown, Formatted
  <2>3. CASE u # t
    <3>1. pc'[u] = pc[u]
      BY <1>1, <2>3 DEF LinesTyped
    <3>2. pc[u] \in {"tidString", "tidLength", "operator<<"} => t \in peers[u]
      BY <1>1, <2>3 DEF PeersMeet, Constructing
    <3> QED BY <1>1, <2>1, <3>1, <3>2 DEF IdKnown, TextKnown, LineKnown
  <2> QED BY <2>2, <2>3
<1> QED BY <1>4, <1>5

\* Both calls of tidToString(): the text is now that of the shared id, which
\* is the thread's own or a peer's for everybody inside.
LEMMA TidTextKeepsIds ==
    ASSUME IInv, NEW t \in Thread, NEW u \in Thread,
           pc[t] \in {"tidString", "tidLength"},
           tidString_' = tid_,
           pc'[u] = pc[u], line'[u] = line[u],
           UNCHANGED <<tid_, peers>>
    PROVE  IdKnown(u)' /\ TextKnown(u)' /\ LineKnown(u)'
<1> USE DEF IInv
<1>1. /\ IdKnown(u) /\ TextKnown(u) /\ LineKnown(u)
      /\ tid_ \in Thread
  BY DEF IdsKnown, IdKnown, Formatted, Places, Constructing
<1> QED BY <1>1 DEF IdKnown, TextKnown, LineKnown

LEMMA TidStringKeepsIInv ==
    ASSUME IInv, NEW t \in Thread, tidString(t)
    PROVE  IInv'
<1> DEFINE l == [line[t] EXCEPT !.length = tid_]
<1>1. /\ pc[t] = "tidString" /\ pc' = [pc EXCEPT ![t] = "tidLength"]
      /\ tidString_' = tid_
      /\ UNCHANGED <<clock, settings, t_lastSecond, t_time, tid_, sinks, seen, peers>>
  BY DEF tidString, at
<1>2. line[t] \in Line /\ tid_ \in Thread \cup {NoThread} /\ IdKnown(t)
  BY DEF IInv, Typed, LinesTyped, CachesTyped, IdsKnown
<1>3. line' = [line EXCEPT ![t] = l]
  BY DEF tidString, IInv, Typed, LinesTyped
<1>4. /\ l \in Line /\ l.level = line[t].level /\ l.second = line[t].second
      /\ l.time = line[t].time /\ l.utc = line[t].utc /\ l.length = tid_
  BY <1>2 DEF Line
<1> HIDE DEF l
<1>5. Typed' /\ CachesCurrent' /\ LinesCurrent' /\ PeersMeet' /\ FatalKept'
  <2>1. TidStep(t, l, "tidLength")
    BY <1>1, <1>2, <1>3, <1>4 DEF TidStep
  <2> QED BY <2>1, TidStepKeepsRest
<1>6. IdsKnown'
  <2> SUFFICES ASSUME NEW u \in Thread
               PROVE  IdKnown(u)' /\ TextKnown(u)' /\ LineKnown(u)'
    BY DEF IdsKnown
  <2>1. CASE u = t
    <3>1. pc'[t] = "tidLength" /\ line'[t] = l
      BY <1>1, <1>3 DEF IInv, Typed, LinesTyped
    <3>2. tid_ \in Thread /\ tid_ \in {t} \cup peers[t]
      BY <1>1, <1>2 DEF IdKnown, Formatted, Places, Constructing
    <3> QED BY <1>1, <1>4, <2>1, <3>1, <3>2 DEF IdKnown, TextKnown, LineKnown
  <2>2. CASE u # t
    <3>1. pc'[u] = pc[u] /\ line'[u] = line[u]
      BY <1>1, <1>3, <2>2 DEF IInv, Typed, LinesTyped
    <3> QED BY <1>1, <3>1, TidTextKeepsIds
  <2> QED BY <2>1, <2>2
<1> QED BY <1>5, <1>6 DEF IInv

LEMMA TidLengthKeepsIInv ==
    ASSUME IInv, NEW t \in Thread, tidLength(t)
    PROVE  IInv'
<1>1. /\ pc[t] = "tidLength" /\ pc' = [pc EXCEPT ![t] = "operator<<"]
      /\ tidString_' = tid_
      /\ UNCHANGED <<clock, settings, t_lastSecond, t_time, tid_, sinks, seen, peers>>
  BY DEF tidLength, at
<1>2. /\ line[t] \in Line /\ tid_ \in Thread \cup {NoThread}
      /\ IdKnown(t) /\ TextKnown(t) /\ LineKnown(t)
  BY DEF IInv, Typed, LinesTyped, CachesTyped, IdsKnown
<1>3. PICK length \in {line[t].length, tid_} :
          line' = [line EXCEPT ![t].length = length]
  BY DEF tidLength
<1> DEFINE l == [line[t] EXCEPT !.length = length]
<1>4. line' = [line EXCEPT ![t] = l]
  BY <1>3 DEF IInv, Typed, LinesTyped
<1>5. length \in Thread \cup {NoThread}
  BY <1>2, <1>3 DEF Line
<1>6. /\ l \in Line /\ l.level = line[t].level /\ l.second = line[t].second
      /\ l.time = line[t].time /\ l.utc = line[t].utc /\ l.length = length
  BY <1>2, <1>5 DEF Line
<1> HIDE DEF l
<1>7. Typed' /\ CachesCurrent' /\ LinesCurrent' /\ PeersMeet' /\ FatalKept'
  <2>1. TidStep(t, l, "operator<<")
    BY <1>1, <1>2, <1>4, <1>6 DEF TidStep
  <2> QED BY <2>1, TidStepKeepsRest
<1>8. IdsKnown'
  <2> SUFFICES ASSUME NEW u \in Thread
               PROVE  IdKnown(u)' /\ TextKnown(u)' /\ LineKnown(u)'
    BY DEF IdsKnown
  <2>1. CASE u = t
    <3>1. pc'[t] = "operator<<" /\ line'[t] = l
      BY <1>1, <1>4 DEF IInv, Typed, LinesTyped
    <3>2. tid_ \in Thread /\ tid_ \in {t} \cup peers[t]
      BY <1>1, <1>2 DEF IdKnown, Formatted, Places, Constructing
    <3>3. length \in Thread /\ length \in {t} \cup peers[t]
      BY <1>1, <1>2, <1>3, <3>2 DEF LineKnown, Formatted, Places, Constructing
    <3> QED BY <1>1, <1>6, <2>1, <3>1, <3>2, <3>3 DEF IdKnown, TextKnown, LineKnown
  <2>2. CASE u # t
    <3>1. pc'[u] = pc[u] /\ line'[u] = line[u]
      BY <1>1, <1>4, <2>2 DEF IInv, Typed, LinesTyped
    <3> QED BY <1>1, <3>1, TidTextKeepsIds
  <2> QED BY <2>1, <2>2
<1> QED BY <1>7, <1>8 DEF IInv

LEMMA AppendTidKeepsIInv ==
    ASSUME IInv, NEW t \in Thread, appendTid(t)
    PROVE  IInv'
<1> DEFINE l == [line[t] EXCEPT !.tid = tidString_]
<1>1. /\ pc[t] = "operator<<" /\ pc' = [pc EXCEPT ![t] = "message"]
      /\ UNCHANGED <<clock, settings, t_lastSecond, t_time, tid_, tidString_, sinks,
                     seen, peers>>
  BY DEF appendTid, at, caches
<1>2. /\ line[t] \in Line
      /\ tid_ \in Thread \cup {NoThread} /\ tidString_ \in Thread \cup {NoThread}
      /\ IdKnown(t) /\ TextKnown(t) /\ LineKnown(t)
  BY DEF IInv, Typed, LinesTyped, CachesTyped, IdsKnown
<1>3. line' = [line EXCEPT ![t] = l]
  BY DEF appendTid, IInv, Typed, LinesTyped
<1>4. /\ l \in Line /\ l.level = line[t].level /\ l.second = line[t].second
      /\ l.time = line[t].time /\ l.utc = line[t].utc /\ l.tid = tidString_
      /\ l.length = line[t].length
  BY <1>2 DEF Line
<1> HIDE DEF l
<1>5. Typed' /\ CachesCurrent' /\ LinesCurrent' /\ PeersMeet' /\ FatalKept'
  <2>1. TidStep(t, l, "message")
    BY <1>1, <1>2, <1>3, <1>4 DEF TidStep
  <2> QED BY <2>1, TidStepKeepsRest
<1>6. IdsKnown'
  <2> SUFFICES ASSUME NEW u \in Thread
               PROVE  IdKnown(u)' /\ TextKnown(u)' /\ LineKnown(u)'
    BY DEF IdsKnown
  <2>1. CASE u = t
    <3>1. pc'[t] = "message" /\ line'[t] = l
      BY <1>1, <1>3 DEF IInv, Typed, LinesTyped
    <3>2. /\ tid_ \in Thread
          /\ tidString_ \in Thread /\ tidString_ \in {t} \cup peers[t]
          /\ line[t].length \in Thread /\ line[t].length \in {t} \cup peers[t]
      BY <1>1, <1>2 DEF IdKnown, TextKnown, LineKnown, Formatted, Places, Constructing
    <3> QED BY <1>1, <1>4, <2>1, <3>1, <3>2 DEF IdKnown, TextKnown, LineKnown
  <2>2. CASE u # t
    <3>1. pc'[u] = pc[u] /\ line'[u] = line[u]
      BY <1>1, <1>3, <2>2 DEF IInv, Typed, LinesTyped
    <3>2. IdKnown(u) /\ TextKnown(u) /\ LineKnown(u)
      BY DEF IInv, IdsKnown
    <3> QED BY <1>1, <3>1, <3>2 DEF IdKnown, TextKnown, LineKnown
  <2> QED BY <2>1, <2>2
<1> QED BY <1>5, <1>6 DEF IInv

-----------------------------------------------------------------------------
(* The end of a Logger, and what a sink does. *)

\* No sink loses an entry that it has.
SinksKeep ==
    \A s \in Sink :
        /\ ToSet(written[s]) \subseteq ToSet(written'[s])
        /\ ToSet(buffered[s]) \subseteq ToSet(buffered'[s]) \cup ToSet(written'[s])

FatalKeptOf(t) ==
    /\ pc[t] = "flush" =>
         Item(t) \in ToSet(buffered[line[t].sink]) \cup ToSet(written[line[t].sink])
    /\ pc[t] \in {"abort", "aborted"} /\ line[t].flushed = line[t].sink =>
         Item(t) \in ToSet(written[line[t].sink])

LEMMA SinksKeepFatal ==
    ASSUME IInv, SinksKeep, NEW t \in Thread, pc'[t] = pc[t], line'[t] = line[t]
    PROVE  FatalKeptOf(t)'
<1>1. FatalKeptOf(t) /\ line[t].sink \in Sink
  BY DEF IInv, FatalKept, FatalKeptOf, Typed, LinesTyped, Line
<1> QED BY <1>1 DEF FatalKeptOf, SinksKeep, Item

LEMMA OutputKeepsSinks ==
    ASSUME SinksTyped, NEW s \in Sink, NEW e \in Entry,
           buffered' = [buffered EXCEPT ![s] = Append(@, e)], written' = written
    PROVE  SinksTyped' /\ SinksKeep /\ e \in ToSet(buffered'[s])
<1>1. \A r \in Sink : buffered[r] \in Seq(Entry) /\ written[r] \in Seq(Entry)
  BY DEF SinksTyped
<1>2. Append(buffered[s], e) \in Seq(Entry)
  BY <1>1, AppendProperties
<1>3. buffered'[s] = Append(buffered[s], e) /\ \A r \in Sink \ {s} : buffered'[r] = buffered[r]
  BY DEF SinksTyped
<1>4. ToSet(buffered'[s]) = ToSet(buffered[s]) \cup {e}
  BY <1>1, <1>3, EntriesOfAppend
<1>5. SinksTyped'
  BY <1>2 DEF SinksTyped
<1>6. SinksKeep
  BY <1>3, <1>4, Zenon DEF SinksKeep
<1> QED BY <1>4, <1>5, <1>6

LEMMA OutputKeepsIInv ==
    ASSUME IInv, NEW t \in Thread, output(t)
    PROVE  IInv'
<1> DEFINE l == IF line[t].level = FATAL THEN [line[t] EXCEPT !.sink = g_output]
                ELSE NoLine
<1>1. /\ pc[t] = "message" /\ pc' = [pc EXCEPT ![t] = AfterOutput(t)]
      /\ buffered' = [buffered EXCEPT ![g_output] = Append(@, Item(t))]
      /\ peers' = [peers EXCEPT ![t] = {}]
      /\ UNCHANGED <<clock, settings, caches, written, seen>>
  BY DEF output, at
<1>2. /\ line[t] \in Line /\ line[t].level \in Levels /\ line[t].second <= latest
      /\ IdKnown(t) /\ TextKnown(t) /\ LineKnown(t)
      /\ g_output \in Sink /\ latest \in Nat
  BY <1>1 DEF IInv, Typed, LinesTyped, IdsKnown, SettingsTyped, ClockTyped
<1>3. line' = [line EXCEPT ![t] = l]
  BY DEF output, IInv, Typed, LinesTyped
<1>4. NoLine \in Line /\ NoLine.second = 0
  BY LoggerAssumption DEF NoLine, Line, INFO
<1>5. /\ l \in Line /\ l.second <= latest
      /\ line[t].level = FATAL =>
           /\ l.level = FATAL /\ l.second = line[t].second /\ l.time = line[t].time
           /\ l.utc = line[t].utc /\ l.tid = line[t].tid /\ l.length = line[t].length
           /\ l.sink = g_output
  <2>1. CASE line[t].level = FATAL
    BY <1>2, <2>1 DEF Line
  <2>2. CASE line[t].level # FATAL
    BY <1>2, <1>4, <2>2
  <2> QED BY <2>1, <2>2
<1> HIDE DEF l
<1>6. /\ pc'[t] = AfterOutput(t) /\ line'[t] = l /\ peers'[t] = {}
      /\ \A u \in Thread \ {t} :
           pc'[u] = pc[u] /\ line'[u] = line[u] /\ peers'[u] = peers[u]
  BY <1>1, <1>3 DEF IInv, Typed, LinesTyped, PeersTyped
<1>7. Item(t) \in Entry
  BY <1>2 DEF Item, Entry
<1>8. SinksTyped' /\ SinksKeep /\ Item(t) \in ToSet(buffered'[g_output])
  BY <1>1, <1>2, <1>7, OutputKeepsSinks DEF IInv, Typed
<1>9. ClockTyped' /\ SettingsTyped' /\ CachesTyped' /\ PeersTyped' /\ CachesCurrent'
  <2>1. ClockTyped' /\ SettingsTyped' /\ CachesTyped' /\ PeersTyped'
    BY <1>1 DEF IInv, Typed, ClockTyped, SettingsTyped, CachesTyped, PeersTyped,
                settings, caches, seen
  <2>2. \A u \in Thread : pc'[u] = "appendTime" => pc[u] = "appendTime" /\ line'[u] = line[u]
    BY <1>6 DEF AfterOutput
  <2>3. CachesCurrent'
    BY <1>1, <2>2 DEF IInv, CachesCurrent, caches, settings, seen
  <2> QED BY <2>1, <2>3
<1>10. LinesTyped'
  BY <1>1, <1>2, <1>3, <1>5 DEF IInv, Typed, LinesTyped, AfterOutput, Places, seen
<1>11. LinesCurrent'
  <2> SUFFICES ASSUME NEW u \in Thread, pc'[u] \in Formatted
               PROVE  /\ line'[u].time.second = line'[u].second
                      /\ line'[u].second > changedAt =>
                           /\ line'[u].time.zone = g_logTimeZone
                           /\ line'[u].utc = (g_logTimeZone = NoZone)
    BY <1>1 DEF LinesCurrent, settings, seen
  <2>1. CASE u = t
    BY <1>1, <1>5, <1>6, <2>1
       DEF IInv, LinesCurrent, AfterOutput, Formatted, Places
  <2>2. CASE u # t
    BY <1>6, <2>2 DEF IInv, LinesCurrent
  <2> QED BY <2>1, <2>2
<1>12. PeersMeet'
  BY <1>6 DEF IInv, PeersMeet, Constructing, AfterOutput
<1>13. IdsKnown'
  <2> SUFFICES ASSUME NEW u \in Thread
               PROVE  IdKnown(u)' /\ TextKnown(u)' /\ LineKnown(u)'
    BY DEF IdsKnown
  <2>1. CASE u = t
    BY <1>1, <1>2, <1>5, <1>6, <2>1
       DEF IdKnown, TextKnown, LineKnown, AfterOutput, Formatted, Places, caches
  <2>2. CASE u # t
    <3>1. IdKnown(u) /\ TextKnown(u) /\ LineKnown(u)
      BY DEF IInv, IdsKnown
    <3> QED BY <1>1, <1>6, <2>2, <3>1 DEF IdKnown, TextKnown, LineKnown, caches
  <2> QED BY <2>1, <2>2
<1>14. ASSUME NEW u \in Thread PROVE FatalKeptOf(u)'
  <2>1. CASE u = t
    <3>1. pc'[t] = "flush" => Item(t)' = Item(t) /\ l.sink = g_output
      BY <1>5, <1>6 DEF AfterOutput, Item
    <3> QED BY <1>6, <1>8, <2>1, <3>1 DEF FatalKeptOf, AfterOutput
  <2>2. CASE u # t
    BY <1>6, <1>8, <2>2, SinksKeepFatal
  <2> QED BY <2>1, <2>2
<1>15. FatalKept'
  BY <1>14 DEF FatalKept, FatalKeptOf
<1> QED BY <1>8, <1>9, <1>10, <1>11, <1>12, <1>13, <1>15 DEF IInv, Typed

LEMMA FlushKeepsSinks ==
    ASSUME SinksTyped, NEW s \in Sink,
           written' = [written EXCEPT ![s] = @ \o buffered[s]],
           buffered' = [buffered EXCEPT ![s] = <<>>]
    PROVE  /\ SinksTyped' /\ SinksKeep
           /\ ToSet(buffered[s]) \cup ToSet(written[s]) \subseteq ToSet(written'[s])
<1>1. \A r \in Sink : buffered[r] \in Seq(Entry) /\ written[r] \in Seq(Entry)
  BY DEF SinksTyped
<1>2. written[s] \o buffered[s] \in Seq(Entry) /\ <<>> \in Seq(Entry)
  BY <1>1, ConcatProperties, EmptySeq
<1>3. /\ written'[s] = written[s] \o buffered[s]
      /\ \A r \in Sink \ {s} : buffered'[r] = buffered[r] /\ written'[r] = written[r]
  BY DEF SinksTyped
<1>4. ToSet(buffered[s]) \cup ToSet(written[s]) \subseteq ToSet(written'[s])
  <2>1. \A a \in Seq(Entry) : \A b \in Seq(Entry) :
            ToSet(a) \cup ToSet(b) \subseteq ToSet(a \o b)
    BY EntriesStay
  <2>2. ToSet(written[s]) \cup ToSet(buffered[s]) \subseteq ToSet(written[s] \o buffered[s])
    BY <1>1, <2>1
  <2> QED BY <1>3, <2>2
<1>5. SinksTyped'
  BY <1>2 DEF SinksTyped
<1>6. SinksKeep
  BY <1>3, <1>4, Zenon DEF SinksKeep
<1> QED BY <1>4, <1>5, <1>6

\* What the steps of ~Logger() after g_output() share.
LEMMA EndStepKeepsRest ==
    ASSUME IInv, NEW t \in Thread, NEW l \in Line,
           pc[t] \in {"flush", "abort"},
           NEW to \in {"abort", "aborted"}, pc' = [pc EXCEPT ![t] = to],
           line' = [line EXCEPT ![t] = l],
           l.level = line[t].level, l.second = line[t].second,
           l.time = line[t].time, l.utc = line[t].utc,
           l.tid = line[t].tid, l.length = line[t].length,
           UNCHANGED <<clock, settings, caches, seen, peers>>
    PROVE  /\ ClockTyped' /\ SettingsTyped' /\ CachesTyped' /\ LinesTyped' /\ PeersTyped'
           /\ CachesCurrent' /\ LinesCurrent' /\ PeersMeet' /\ IdsKnown'
<1> USE DEF IInv, Typed
<1>1. ClockTyped' /\ SettingsTyped' /\ CachesTyped' /\ PeersTyped'
  BY DEF ClockTyped, SettingsTyped, CachesTyped, PeersTyped, settings, caches, seen
<1>2. LinesTyped'
  BY DEF LinesTyped, Places, seen
<1>3. CachesCurrent'
  BY DEF CachesCurrent, settings, caches, seen
<1>4. LinesCurrent'
  BY DEF LinesCurrent, LinesTyped, Formatted, Places, Constructing, settings, seen
<1>5. PeersMeet'
  BY DEF PeersMeet, LinesTyped, Constructing
<1>6. IdsKnown'
  <2> SUFFICES ASSUME NEW u \in Thread
               PROVE  IdKnown(u)' /\ TextKnown(u)' /\ LineKnown(u)'
    BY DEF IdsKnown
  <2>1. IdKnown(u) /\ TextKnown(u) /\ LineKnown(u)
    BY DEF IdsKnown
  <2>2. CASE u = t
    BY <2>1, <2>2 DEF LinesTyped, IdKnown, TextKnown, LineKnown, Formatted, Places, caches
  <2>3. CASE u # t
    <3>1. pc'[u] = pc[u] /\ line'[u] = line[u]
      BY <2>3 DEF LinesTyped
    <3> QED BY <2>1, <3>1 DEF IdKnown, TextKnown, LineKnown, caches
  <2> QED BY <2>2, <2>3
<1> QED BY <1>1, <1>2, <1>3, <1>4, <1>5, <1>6

LEMMA FlushKeepsIInv ==
    ASSUME IInv, NEW t \in Thread, flush(t)
    PROVE  IInv'
<1> DEFINE l == [line[t] EXCEPT !.flushed = g_flush]
<1>1. /\ pc[t] = "flush" /\ pc' = [pc EXCEPT ![t] = "abort"]
      /\ written' = [written EXCEPT ![g_flush] = @ \o buffered[g_flush]]
      /\ buffered' = [buffered EXCEPT ![g_flush] = <<>>]
      /\ UNCHANGED <<clock, settings, caches, seen, peers>>
  BY DEF flush, at
<1>2. /\ line[t] \in Line /\ g_flush \in Flushable /\ g_flush \in Sink
      /\ FatalKeptOf(t)
  BY LoggerAssumption
     DEF IInv, Typed, LinesTyped, SettingsTyped, FatalKept, FatalKeptOf
<1>3. line' = [line EXCEPT ![t] = l]
  BY DEF flush, IInv, Typed, LinesTyped
<1>4. /\ l \in Line /\ l.level = line[t].level /\ l.second = line[t].second
      /\ l.time = line[t].time /\ l.utc = line[t].utc
      /\ l.tid = line[t].tid /\ l.length = line[t].length
      /\ l.sink = line[t].sink /\ l.flushed = g_flush
  BY <1>2 DEF Line
<1> HIDE DEF l
<1>5. /\ ClockTyped' /\ SettingsTyped' /\ CachesTyped' /\ LinesTyped' /\ PeersTyped'
      /\ CachesCurrent' /\ LinesCurrent' /\ PeersMeet' /\ IdsKnown'
  BY <1>1, <1>3, <1>4, EndStepKeepsRest
<1>6. /\ SinksTyped' /\ SinksKeep
      /\ ToSet(buffered[g_flush]) \cup ToSet(written[g_flush]) \subseteq ToSet(written'[g_flush])
  BY <1>1, <1>2, FlushKeepsSinks DEF IInv, Typed
<1>7. ASSUME NEW u \in Thread PROVE FatalKeptOf(u)'
  <2>1. CASE u = t
    <3>1. pc'[t] = "abort" /\ line'[t] = l /\ Item(t)' = Item(t)
      BY <1>1, <1>3, <1>4 DEF IInv, Typed, LinesTyped, Item
    <3>2. l.flushed = l.sink => line[t].sink = g_flush
      BY <1>4
    <3>3. l.flushed = l.sink => Item(t) \in ToSet(written'[l.sink])
      BY <1>1, <1>2, <1>4, <1>6, <3>2 DEF FatalKeptOf
    <3> QED BY <2>1, <3>1, <3>3 DEF FatalKeptOf
  <2>2. CASE u # t
    <3>1. pc'[u] = pc[u] /\ line'[u] = line[u]
      BY <1>1, <1>3, <2>2 DEF IInv, Typed, LinesTyped
    <3> QED BY <1>6, <3>1, SinksKeepFatal
  <2> QED BY <2>1, <2>2
<1>8. FatalKept'
  BY <1>7 DEF FatalKept, FatalKeptOf
<1> QED BY <1>5, <1>6, <1>8 DEF IInv, Typed

LEMMA AbortKeepsIInv ==
    ASSUME IInv, NEW t \in Thread, abort(t)
    PROVE  IInv'
<1>1. /\ pc[t] = "abort" /\ pc' = [pc EXCEPT ![t] = "aborted"]
      /\ UNCHANGED <<clock, settings, caches, line, sinks, seen, peers>>
  BY DEF abort, at
<1>2. line[t] \in Line /\ line' = [line EXCEPT ![t] = line[t]]
  BY <1>1 DEF IInv, Typed, LinesTyped
<1>3. /\ ClockTyped' /\ SettingsTyped' /\ CachesTyped' /\ LinesTyped' /\ PeersTyped'
      /\ CachesCurrent' /\ LinesCurrent' /\ PeersMeet' /\ IdsKnown'
  BY <1>1, <1>2, EndStepKeepsRest
<1>4. SinksTyped'
  BY <1>1 DEF IInv, Typed, SinksTyped, sinks
<1>5. FatalKept'
  BY <1>1 DEF IInv, Typed, LinesTyped, FatalKept, Item, sinks
<1> QED BY <1>3, <1>4, <1>5 DEF IInv, Typed

LEMMA SinkWritesKeepsIInv ==
    ASSUME IInv, NEW s \in Sink, sinkWrites(s)
    PROVE  IInv'
<1>1. /\ buffered[s] # <<>>
      /\ buffered' = [buffered EXCEPT ![s] = Tail(@)]
      /\ written' = [written EXCEPT ![s] = Append(@, Head(buffered[s]))]
      /\ UNCHANGED <<clock, settings, caches, pc, line, seen, peers>>
  BY DEF sinkWrites
<1>2. \A r \in Sink : buffered[r] \in Seq(Entry) /\ written[r] \in Seq(Entry)
  BY DEF IInv, Typed, SinksTyped
<1>3. /\ Head(buffered[s]) \in Entry /\ Tail(buffered[s]) \in Seq(Entry)
      /\ Append(written[s], Head(buffered[s])) \in Seq(Entry)
  BY <1>1, <1>2, HeadTailProperties, AppendProperties
<1>4. SinksTyped'
  BY <1>1, <1>3 DEF IInv, Typed, SinksTyped
<1>5. /\ buffered'[s] = Tail(buffered[s])
      /\ written'[s] = Append(written[s], Head(buffered[s]))
      /\ \A r \in Sink \ {s} : buffered'[r] = buffered[r] /\ written'[r] = written[r]
  BY <1>1 DEF IInv, Typed, SinksTyped
<1>6. ToSet(written'[s]) = ToSet(written[s]) \cup {Head(buffered[s])}
  BY <1>2, <1>3, <1>5, EntriesOfAppend
<1>7. ToSet(buffered[s]) \subseteq ToSet(buffered'[s]) \cup ToSet(written'[s])
  BY <1>1, <1>2, <1>5, <1>6, HeadOrTail
<1>8. SinksKeep
  BY <1>5, <1>6, <1>7, Zenon DEF SinksKeep
<1>9. ASSUME NEW u \in Thread PROVE FatalKeptOf(u)'
  BY <1>1, <1>8, SinksKeepFatal
<1>10. FatalKept'
  BY <1>9 DEF FatalKept, FatalKeptOf
<1>11. /\ ClockTyped' /\ SettingsTyped' /\ CachesTyped' /\ LinesTyped' /\ PeersTyped'
       /\ CachesCurrent' /\ LinesCurrent' /\ PeersMeet'
  BY <1>1 DEF IInv, Typed, ClockTyped, SettingsTyped, CachesTyped, LinesTyped,
              PeersTyped, CachesCurrent, LinesCurrent, PeersMeet, settings, caches, seen
<1>12. IdsKnown'
  BY <1>1 DEF IInv, IdsKnown, IdKnown, TextKnown, LineKnown, caches
<1> QED BY <1>4, <1>10, <1>11, <1>12 DEF IInv, Typed

-----------------------------------------------------------------------------
(* The setters and the clock. *)

\* No line needs to be of the zone that was set while its second, or a later
\* one, had already been seen.
LEMMA SetterKeepsIInv ==
    ASSUME IInv, setLogLevel \/ setTimeZone \/ setOutput \/ setFlush
    PROVE  IInv'
<1>1. /\ UNCHANGED <<clock, caches, pc, line, sinks, peers, latest>>
      /\ (changedAt' = changedAt /\ g_logTimeZone' = g_logTimeZone) \/ changedAt' = latest
      /\ SettingsTyped'
  BY DEF IInv, Typed, SettingsTyped, setLogLevel, setTimeZone, setOutput, setFlush,
         Change, seen
<1>2. ClockTyped'
  BY <1>1 DEF IInv, Typed, ClockTyped
<1>3. CachesTyped' /\ LinesTyped' /\ SinksTyped' /\ PeersTyped' /\ PeersMeet'
  BY <1>1 DEF IInv, Typed, CachesTyped, LinesTyped, SinksTyped, PeersTyped, PeersMeet,
              caches, sinks
<1>4. CachesCurrent'
  BY <1>1 DEF IInv, Typed, ClockTyped, CachesTyped, CachesCurrent, caches
<1>5. LinesCurrent'
  <2> SUFFICES ASSUME NEW t \in Thread, pc[t] \in Formatted
               PROVE  /\ line[t].time.second = line[t].second
                      /\ line[t].second > changedAt' =>
                           /\ line[t].time.zone = g_logTimeZone'
                           /\ line[t].utc = (g_logTimeZone' = NoZone)
    BY <1>1 DEF LinesCurrent
  <2>1. /\ line[t].second <= latest /\ line[t].second \in Nat /\ latest \in Nat
        /\ line[t].time.second = line[t].second
        /\ line[t].second > changedAt =>
             /\ line[t].time.zone = g_logTimeZone
             /\ line[t].utc = (g_logTimeZone = NoZone)
    BY DEF IInv, Typed, ClockTyped, LinesTyped, Line, LinesCurrent
  <2>2. CASE changedAt' = latest
    <3>1. ~ line[t].second > changedAt'
      BY ONLY <2>1, <2>2
    <3> QED BY <2>1, <3>1
  <2>3. CASE changedAt' = changedAt /\ g_logTimeZone' = g_logTimeZone
    BY <2>1, <2>3
  <2> QED BY <1>1, <2>2, <2>3
<1>6. IdsKnown'
  BY <1>1 DEF IInv, IdsKnown, IdKnown, TextKnown, LineKnown, caches
<1>7. FatalKept'
  BY <1>1 DEF IInv, FatalKept, Item, sinks
<1> QED BY <1>1, <1>2, <1>3, <1>4, <1>5, <1>6, <1>7 DEF IInv, Typed

LEMMA ClockKeepsIInv ==
    ASSUME IInv, tick \/ setClockBack
    PROVE  IInv'
<1>1. PICK second \in 1 .. MaxClock : SetClock(second)
  <2>1. CASE tick
    <3>1. clock + 1 \in 1 .. MaxClock
      BY <2>1, LoggerAssumption DEF tick, IInv, Typed, ClockTyped
    <3> QED BY <2>1, <3>1 DEF tick
  <2>2. CASE setClockBack
    <3>1. clock - 1 \in 1 .. MaxClock
      BY <2>2, LoggerAssumption DEF setClockBack, IInv, Typed, ClockTyped
    <3> QED BY <2>2, <3>1 DEF setClockBack
  <2> QED BY <2>1, <2>2
<1>2. /\ clock' = second /\ latest' = IF second > latest THEN second ELSE latest
      /\ UNCHANGED <<changedAt, settings, caches, pc, line, sinks, peers>>
  BY <1>1 DEF SetClock
<1>3. ClockTyped' /\ latest <= latest' /\ latest \in Nat /\ latest' \in Nat
  BY <1>2, LoggerAssumption DEF IInv, Typed, ClockTyped
<1>4. CachesTyped'
  BY <1>2, <1>3 DEF IInv, Typed, CachesTyped, caches
<1>5. LinesTyped'
  <2>1. \A t \in Thread : line[t].second \in Nat /\ line[t].second <= latest'
    BY <1>3 DEF IInv, Typed, LinesTyped, Line
  <2> QED BY <1>2, <2>1 DEF IInv, Typed, LinesTyped
<1>6. SettingsTyped' /\ SinksTyped' /\ PeersTyped' /\ PeersMeet' /\ CachesCurrent'
      /\ LinesCurrent'
  BY <1>2 DEF IInv, Typed, SettingsTyped, SinksTyped, PeersTyped, PeersMeet,
              CachesCurrent, LinesCurrent, settings, caches, sinks
<1>7. IdsKnown'
  BY <1>2 DEF IInv, IdsKnown, IdKnown, TextKnown, LineKnown, caches
<1>8. FatalKept'
  BY <1>2 DEF IInv, FatalKept, Item, sinks
<1> QED BY <1>3, <1>4, <1>5, <1>6, <1>7, <1>8 DEF IInv, Typed

-----------------------------------------------------------------------------
(* The theorems of Logger. *)

LEMMA Inductive == Spec => []IInv
<1>1. IInv /\ [Next]_vars => IInv'
  <2> SUFFICES ASSUME IInv, [Next]_vars PROVE IInv'
    OBVIOUS
  <2>1. ASSUME NEW t \in Thread, NEW level \in Levels, begin(t, level) PROVE IInv'
    BY <2>1, BeginKeepsIInv
  <2>2. ASSUME NEW t \in Thread,
               \/ formatTime(t) \/ appendTime(t)
               \/ tid(t) \/ tidString(t) \/ tidLength(t) \/ appendTid(t)
               \/ output(t) \/ flush(t) \/ abort(t)
        PROVE  IInv'
    BY <2>2, FormatTimeKeepsIInv, AppendTimeKeepsIInv, TidKeepsIInv, TidStringKeepsIInv,
       TidLengthKeepsIInv, AppendTidKeepsIInv, OutputKeepsIInv, FlushKeepsIInv, AbortKeepsIInv
  <2>3. ASSUME setLogLevel \/ setTimeZone \/ setOutput \/ setFlush PROVE IInv'
    BY <2>3, SetterKeepsIInv
  <2>4. ASSUME NEW s \in Sink, sinkWrites(s) PROVE IInv'
    BY <2>4, SinkWritesKeepsIInv
  <2>5. ASSUME tick \/ setClockBack PROVE IInv'
    BY <2>5, ClockKeepsIInv
  <2>6. CASE UNCHANGED vars
    <3> USE <2>6 DEF vars
    <3>1. Typed' /\ CachesCurrent' /\ LinesCurrent' /\ PeersMeet'
      BY DEF IInv, Typed, ClockTyped, SettingsTyped, CachesTyped, LinesTyped, SinksTyped,
             PeersTyped, CachesCurrent, LinesCurrent, PeersMeet, settings, caches, sinks,
             seen
    <3>2. IdsKnown' /\ FatalKept'
      BY DEF IInv, IdsKnown, IdKnown, TextKnown, LineKnown, FatalKept, Item, caches, sinks
    <3> QED BY <3>1, <3>2 DEF IInv
  <2> QED BY <2>1, <2>2, <2>3, <2>4, <2>5, <2>6 DEF Next
<1> QED BY <1>1, Initially, PTL DEF Spec

\* Every variable of the front end keeps its type, and whenever a line is
\* complete its id is some thread's.
THEOREM TypeCorrect == Spec => []TypeOK
<1>1. IInv => TypeOK
  <2> SUFFICES ASSUME IInv PROVE TypeOK
    OBVIOUS
  <2> USE DEF IInv, Typed
  <2>1. /\ clock \in 1 .. MaxClock
        /\ latest \in clock .. MaxClock /\ changedAt \in 0 .. latest
    BY DEF ClockTyped
  <2>2. settings \in (Levels \cup {initLogLevel}) \X Zone \X Sink \X Flushable
    BY DEF SettingsTyped, settings
  <2>3. /\ t_lastSecond \in [Thread -> 0 .. latest]
        /\ \A t \in Thread : t_time[t] \in [second : {t_lastSecond[t]}, zone : Zone]
    BY <2>1 DEF CachesTyped
  <2>4. /\ pc \in [Thread -> Constructing \cup {"idle", "message", "flush", "abort", "aborted"}]
        /\ peers \in [Thread -> SUBSET Thread]
    BY DEF LinesTyped, PeersTyped, Places
  <2>5. \A t \in Complete : {line[t].tid, line[t].length, tid_, tidString_} \subseteq Thread
    BY DEF Complete, IdsKnown, IdKnown, TextKnown, LineKnown, Formatted, Places
  <2>6. \A s \in Sink : {buffered[s], written[s]} \subseteq Seq([thread : Thread, level : Levels])
    BY DEF SinksTyped, Entry
  <2> QED BY <2>1, <2>2, <2>3, <2>4, <2>5, <2>6 DEF TypeOK
<1> QED BY <1>1, Inductive, PTL

\* A complete line shows its own second, however the clock was set since the
\* thread's last line, and shows it in the zone now set unless the clock had
\* shown that second, or a later one, when the zone was set.
THEOREM LinesAreOnTime == Spec => []TimeIsCurrent
<1>1. IInv => TimeIsCurrent
  BY DEF IInv, LinesCurrent, TimeIsCurrent, Complete, Formatted, Places
<1> QED BY <1>1, Inductive, PTL

\* The id in a line and the length asserted of it are those of the thread or
\* of one inside a constructor at the same time, however many threads share
\* tid_ and tidString_.
THEOREM IdsAreOfContemporaries == Spec => []TidIsOfAContemporary
<1>1. IInv => TidIsOfAContemporary
  BY DEF IInv, IdsKnown, LineKnown, TidIsOfAContemporary, Complete
<1> QED BY <1>1, Inductive, PTL

\* A FATAL line whose sink g_flush() flushes is written before the program
\* ends, whatever other threads log and set meanwhile.
THEOREM FatalLinesAreWritten == Spec => []FlushedBeforeAbort
<1>1. IInv => FlushedBeforeAbort
  BY DEF IInv, FatalKept, FlushedBeforeAbort
<1> QED BY <1>1, Inductive, PTL

-----------------------------------------------------------------------------
(* The functions without state: what they are asked. *)

\* Every query has its arguments from the sets it is given.
Asked ==
    \/ Nothing
    \/ \E p \in Pieces, s \in Patterns, pos \in Positions :
          query = [of |-> "search", p |-> p, s |-> s, pos |-> pos]
    \/ \E day \in Days : query = [of |-> "day", day |-> day]
    \/ \E zone \in Zones, t \in Moments : query = [of |-> "local", zone |-> zone, t |-> t]
    \/ \E file \in ZoneFiles : \E reads \in 0 .. ZoneReads(file) :
          query = [of |-> "zone", file |-> file, reads |-> reads]
    \/ \E file \in SmallFiles, asked \in BOOLEAN, maxSize \in MaxSizes :
          query = [of |-> "file", file |-> file, asked |-> asked, maxSize |-> maxSize]
    \/ \E v \in Numbers : query = [of |-> "integer", v |-> v]
    \/ \E ops \in Streams : query = [of |-> "line", ops |-> ops]
    \/ \E new \in HandlerLists : query = [of |-> "handlers", new |-> new]

\* The inductive invariant: a query is nothing yet, or has its arguments from
\* the sets, so that each theorem is about one query.
LEMMA QueriesAsked == Queries => []Asked
<1>1. Nothing => Asked
  BY DEF Asked
<1>2. ASSUME Asked, [Ask]_query
      PROVE  Asked'
  <2>1. CASE UNCHANGED query
    BY <1>2, <2>1, Zenon DEF Asked, Nothing
  <2>2. CASE askSearch
    BY <2>2, Zenon DEF askSearch, Asked
  <2>3. CASE askDay
    BY <2>3, Zenon DEF askDay, Asked
  <2>4. CASE askLocal
    BY <2>4, Zenon DEF askLocal, Asked
  <2>5. CASE askZone
    BY <2>5, Zenon DEF askZone, Asked
  <2>6. CASE askFile
    BY <2>6, Zenon DEF askFile, Asked
  <2>7. CASE askInteger
    BY <2>7, Zenon DEF askInteger, Asked
  <2>8. CASE askLine
    BY <2>8, Zenon DEF askLine, Asked
  <2>9. CASE askHandlers
    BY <2>9, Zenon DEF askHandlers, Asked
  <2> QED
    BY <1>2, <2>1, <2>2, <2>3, <2>4, <2>5, <2>6, <2>7, <2>8, <2>9, Zenon DEF Ask
<1> QED BY <1>1, <1>2, PTL DEF Queries

-----------------------------------------------------------------------------
(* slog *)

IsSetting(set, new) ==
    set = [k \in 0 .. Len(new) |->
              IF k = 0 THEN [log_handler_ |-> "Default", old |-> "NULL"]
              ELSE SetLogHandler(set[k - 1].log_handler_, new[k])]

\* From the n-th handler on they are handed back.
IsHandingBack(back, set, n) ==
    back = [k \in 0 .. n |->
               IF k = n THEN set[n].log_handler_
               ELSE SetLogHandler(back[k + 1], set[k + 1].old).log_handler_]

HandlerNames == Handlers \cup {"Default", "Null", "NULL"}

HandlerChange == [log_handler_ : HandlerNames, old : HandlerNames]

\* The functions of HandlersNest exist and are what their steps say.
LEMMA SettingExists ==
    ASSUME NEW new \in Seq(Handlers)
    PROVE  \E set : IsSetting(set, new)
<1> DEFINE n == Len(new)
           first == [log_handler_ |-> "Default", old |-> "NULL"]
           step == [k \in 1 .. n |->
                       [c \in HandlerChange |-> SetLogHandler(c.log_handler_, new[k])]]
<1>1. first \in HandlerChange /\ n \in Nat
  BY DEF HandlerChange, HandlerNames
<1>2. step \in [1 .. n -> [HandlerChange -> HandlerChange]]
  <2>1. ASSUME NEW k \in 1 .. n, NEW c \in HandlerChange
        PROVE  SetLogHandler(c.log_handler_, new[k]) \in HandlerChange
    <3>1. new[k] \in Handlers /\ c.log_handler_ \in HandlerNames
      BY DEF HandlerChange
    <3> QED BY <3>1 DEF HandlerChange, SetLogHandler, HandlerNames
  <2> QED BY <2>1
<1> HIDE DEF step, first, n
<1>3. PICK f : IsRecursion(f, HandlerChange, n, first, step)
  BY <1>1, <1>2, RecursionExists
<1>4. ASSUME NEW k \in 1 .. n
      PROVE  f[k] = SetLogHandler(f[k - 1].log_handler_, new[k])
  <2>1. f[k - 1] \in HandlerChange
    BY <1>1, <1>3 DEF IsRecursion
  <2> QED BY <1>3, <2>1 DEF step, IsRecursion
<1>5. f = [k \in 0 .. n |-> IF k = 0 THEN first ELSE SetLogHandler(f[k - 1].log_handler_, new[k])]
  BY <1>1, <1>3, <1>4 DEF IsRecursion
<1> QED BY <1>5 DEF n, first, IsSetting

LEMMA SettingSteps ==
    ASSUME NEW new \in Seq(Handlers), NEW set, IsSetting(set, new)
    PROVE  /\ set[0] = [log_handler_ |-> "Default", old |-> "NULL"]
           /\ \A k \in 1 .. Len(new) : set[k] = SetLogHandler(set[k - 1].log_handler_, new[k])
BY DEF IsSetting

\* No handler is the null pointer: NULL is replaced by NullLogHandler.
LEMMA NeverNull ==
    ASSUME NEW new \in Seq(Handlers), NEW set, IsSetting(set, new)
    PROVE  \A k \in 0 .. Len(new) : set[k].log_handler_ \in HandlerNames \ {"NULL"}
<1> DEFINE T == {k \in 0 .. Len(new) : set[k].log_handler_ \in HandlerNames \ {"NULL"}}
<1>1. Len(new) \in Nat
  OBVIOUS
<1>2. 0 \in T
  BY <1>1, SettingSteps DEF HandlerNames
<1>3. ASSUME NEW k \in 1 .. Len(new)
      PROVE  k \in T
  <2>1. set[k] = SetLogHandler(set[k - 1].log_handler_, new[k]) /\ new[k] \in Handlers
    BY SettingSteps
  <2> QED BY <1>1, <2>1 DEF SetLogHandler, HandlerNames
<1>4. \A k \in 0 .. Len(new) : k \in T
  <2> HIDE DEF T
  <2> QED BY <1>1, <1>2, <1>3, InductionUpTo
<1> QED BY <1>4

LEMMA HandingBackExists ==
    ASSUME NEW n \in Nat, NEW set, set[n].log_handler_ \in HandlerNames,
           \A k \in 1 .. n : set[k].old \in HandlerNames
    PROVE  \E back : IsHandingBack(back, set, n)
<1> DEFINE step == [j \in 1 .. n |->
                      [h \in HandlerNames |-> SetLogHandler(h, set[n - j + 1].old).log_handler_]]
<1>1. step \in [1 .. n -> [HandlerNames -> HandlerNames]]
  <2>1. ASSUME NEW j \in 1 .. n, NEW h \in HandlerNames
        PROVE  SetLogHandler(h, set[n - j + 1].old).log_handler_ \in HandlerNames
    <3>1. n - j + 1 \in 1 .. n
      OBVIOUS
    <3>2. set[n - j + 1].old \in HandlerNames
      BY <3>1
    <3> QED BY <3>2 DEF SetLogHandler, HandlerNames
  <2> QED BY <2>1
<1> HIDE DEF step
<1>2. PICK f : IsRecursion(f, HandlerNames, n, set[n].log_handler_, step)
  BY <1>1, RecursionExists
<1> DEFINE back == [k \in 0 .. n |-> f[n - k]]
<1>3. ASSUME NEW k \in 0 .. n, k # n
      PROVE  back[k] = SetLogHandler(back[k + 1], set[k + 1].old).log_handler_
  <2>1. /\ n - k \in 1 .. n /\ n - k - 1 \in 0 .. n /\ k + 1 \in 0 .. n
        /\ n - (n - k) + 1 = k + 1 /\ n - (k + 1) = n - k - 1
    BY <1>3
  <2>2. back[k] = step[n - k][f[n - k - 1]] /\ back[k + 1] = f[n - k - 1]
    BY <1>2, <2>1 DEF IsRecursion
  <2>3. f[n - k - 1] \in HandlerNames
    BY <1>2, <2>1 DEF IsRecursion
  <2>4. step[n - k][f[n - k - 1]] = SetLogHandler(f[n - k - 1], set[k + 1].old).log_handler_
    BY <2>1, <2>3 DEF step
  <2> HIDE DEF back
  <2> QED BY <2>2, <2>4
<1>4. back[n] = set[n].log_handler_
  BY <1>2 DEF IsRecursion
<1>5. back = [k \in 0 .. n |-> back[k]]
  OBVIOUS
<1>6. back = [k \in 0 .. n |->
                IF k = n THEN set[n].log_handler_
                ELSE SetLogHandler(back[k + 1], set[k + 1].old).log_handler_]
  <2> HIDE DEF back
  <2> QED BY <1>3, <1>4, <1>5
<1> HIDE DEF back
<1> QED BY <1>6 DEF IsHandingBack

\* Whatever handlers are set, handing them back undoes it.
LEMMA HandlersUndone ==
    ASSUME NEW new \in Seq(Handlers), NEW set, IsSetting(set, new),
           NEW back, IsHandingBack(back, set, Len(new))
    PROVE  \A k \in 0 .. Len(new) : back[k] = set[k].log_handler_
<1> DEFINE n == Len(new)
           T == {j \in 0 .. n : back[n - j] = set[n - j].log_handler_}
<1>1. n \in Nat
  OBVIOUS
<1>2. 0 \in T
  BY <1>1 DEF IsHandingBack
<1>3. ASSUME NEW j \in 1 .. n, j - 1 \in T
      PROVE  j \in T
  <2> DEFINE k == n - j
  <2>1. k \in 0 .. n /\ k # n /\ k + 1 \in 1 .. n /\ n - (j - 1) = k + 1 /\ k + 1 - 1 = k
    BY <1>1
  <2>2. back[k] = SetLogHandler(back[k + 1], set[k + 1].old).log_handler_
    BY <2>1 DEF IsHandingBack
  <2>3. set[k + 1] = SetLogHandler(set[k].log_handler_, new[k + 1])
    <3> HIDE DEF k
    <3>1. set[k + 1] = SetLogHandler(set[k + 1 - 1].log_handler_, new[k + 1])
      BY <2>1, SettingSteps
    <3> QED BY <2>1, <3>1
  <2>4. set[k].log_handler_ \in HandlerNames \ {"NULL"}
    BY <2>1, NeverNull
  <2> HIDE DEF k
  <2>5. back[k] = set[k].log_handler_
    BY <2>2, <2>3, <2>4 DEF SetLogHandler, HandlerNames
  <2> QED BY <2>5 DEF k
<1>4. \A j \in 0 .. n : j \in T
  <2> HIDE DEF T, n
  <2> QED BY <1>1, <1>2, <1>3, InductionUpTo
<1>5. ASSUME NEW k \in 0 .. n
      PROVE  back[k] = set[k].log_handler_
  <2>1. n - k \in 0 .. n /\ n - (n - k) = k
    BY <1>1
  <2> QED BY <1>4, <2>1
<1> QED BY <1>5

\* A FATAL message aborts, whatever the handler (LogMessage::Finish()).
LEMMA FatalNeverReturns ==
    ASSUME NEW handler
    PROVE  Finish(handler, LOGLEVEL_FATAL) # "returns"
BY DEF Finish, DefaultLogHandler, LOGLEVEL_FATAL, LOGLEVEL_ERROR

\* For every list of handlers, NULL among them, a program that hands back what
\* SetLogHandler() returned, the last one first, has the handler of before
\* again at each step, and no FATAL message returns in between
\* (slog: SetLogHandler(), LogMessage::Finish()).
THEOREM HandlersNestAlways == Queries => []HandlersNest
<1>1. ASSUME Asked, query.of = "handlers"
      PROVE  HandlersNest
  <2> DEFINE new == query.new
             set == CHOOSE f : IsSetting(f, new)
             back == CHOOSE f : IsHandingBack(f, set, Len(new))
  <2>1. new \in HandlerLists
    BY <1>1 DEF Asked, Nothing
  <2>2. new \in Seq(Handlers)
    BY <2>1, HandlersAssumption
  <2>3. IsSetting(set, new)
    <3> HIDE DEF new
    <3>1. \E f : IsSetting(f, new)
      BY <2>2, SettingExists
    <3> QED BY <3>1
  <2>4. Len(new) \in Nat
    BY <2>2
  <2>5. /\ set[Len(new)].log_handler_ \in HandlerNames
        /\ \A k \in 1 .. Len(new) : set[k].old \in HandlerNames
    <3> HIDE DEF set
    <3>1. \A k \in 0 .. Len(new) : set[k].log_handler_ \in HandlerNames
      BY <2>2, <2>3, NeverNull
    <3>2. ASSUME NEW k \in 1 .. Len(new)
          PROVE  set[k].old \in HandlerNames
      <4>1. k - 1 \in 0 .. Len(new)
        OBVIOUS
      <4>2. set[k] = SetLogHandler(set[k - 1].log_handler_, new[k])
        BY <2>2, <2>3, SettingSteps
      <4> QED BY <3>1, <4>1, <4>2 DEF SetLogHandler, HandlerNames
    <3> QED BY <2>4, <3>1, <3>2
  <2>6. IsHandingBack(back, set, Len(new))
    <3> HIDE DEF set
    <3>1. \E f : IsHandingBack(f, set, Len(new))
      BY <2>4, <2>5, HandingBackExists
    <3> QED BY <3>1
  <2>7. \A k \in 0 .. Len(new) :
            back[k] = set[k].log_handler_ /\ Finish(back[k], LOGLEVEL_FATAL) # "returns"
    <3> HIDE DEF set, back
    <3> QED BY <2>2, <2>3, <2>6, HandlersUndone, FatalNeverReturns
  <2> QED BY <2>7, Zenon DEF HandlersNest, IsSetting, IsHandingBack
<1>2. Asked => HandlersNest
  BY <1>1 DEF HandlersNest
<1> QED BY <1>2, QueriesAsked, PTL

-----------------------------------------------------------------------------
(* LogStream: lines *)

IsStreaming(buf, b, ops) ==
    buf = [k \in 0 .. Len(ops) |-> IF k = 0 THEN b ELSE Streamed(buf[k - 1], k, ops[k])]

StreamOperations ==
    {op \in [kind : {"text", "integer", "double"}, len : Nat] :
        op.kind # "text" => op.len < kMaxNumericSize}

\* No operation moves the cursor to the end of the buffer.
LEMMA StreamedFits ==
    ASSUME NEW b \in Buffers(Nat), NEW item \in Nat, NEW op \in StreamOperations
    PROVE  Streamed(b, item, op) \in Buffers(Nat)
<1>1. /\ b.data \in Seq(Nat) /\ b.length \in 0 .. SIZE - 1 /\ SIZE \in Nat
      /\ op.len \in Nat /\ kMaxNumericSize \in Nat
      /\ op.kind # "text" => op.len < kMaxNumericSize
  BY SizeAssumption, StreamsAssumption DEF Buffers, StreamOperations
<1>2. Append(b.data, item) \in Seq(Nat)
  BY <1>1
<1> DEFINE longer == [data |-> Append(b.data, item), length |-> b.length + op.len]
<1>3. b.length + op.len < SIZE => longer \in Buffers(Nat)
  BY <1>1, <1>2 DEF Buffers
<1>4. CASE op.kind = "text"
  BY <1>1, <1>3, <1>4 DEF Streamed, AppendTo, Avail
<1>5. CASE op.kind # "text"
  <2>1. Avail(b) >= kMaxNumericSize => b.length + op.len < SIZE
    BY <1>1, <1>5 DEF Avail
  <2> QED BY <1>3, <1>5, <2>1 DEF Streamed, formatNumber
<1> QED BY <1>4, <1>5

\* The fold of After() is the last of the buffers after each operation.
LEMMA StreamingExists ==
    ASSUME NEW b \in Buffers(Nat), NEW ops \in Seq(StreamOperations)
    PROVE  \E buf : IsStreaming(buf, b, ops)
<1> DEFINE n == Len(ops)
           B == Buffers(Nat)
           step == [k \in 1 .. n |-> [c \in B |-> Streamed(c, k, ops[k])]]
<1>1. n \in Nat /\ b \in B
  OBVIOUS
<1>2. step \in [1 .. n -> [B -> B]]
  <2>1. ASSUME NEW k \in 1 .. n, NEW c \in B
        PROVE  Streamed(c, k, ops[k]) \in B
    <3>1. ops[k] \in StreamOperations /\ k \in Nat
      OBVIOUS
    <3> QED BY <3>1, StreamedFits
  <2> HIDE DEF B
  <2> QED BY <2>1
<1> HIDE DEF step, n, B
<1>3. PICK f : IsRecursion(f, B, n, b, step)
  BY <1>1, <1>2, RecursionExists
<1>4. ASSUME NEW k \in 1 .. n
      PROVE  f[k] = Streamed(f[k - 1], k, ops[k])
  <2>1. f[k - 1] \in B
    BY <1>1, <1>3 DEF IsRecursion
  <2> QED BY <1>3, <2>1 DEF step, IsRecursion
<1>5. f = [k \in 0 .. n |-> IF k = 0 THEN b ELSE Streamed(f[k - 1], k, ops[k])]
  BY <1>1, <1>3, <1>4 DEF IsRecursion
<1> QED BY <1>5 DEF n, IsStreaming

LEMMA StreamingSteps ==
    ASSUME NEW b \in Buffers(Nat), NEW ops \in Seq(StreamOperations),
           NEW buf, IsStreaming(buf, b, ops)
    PROVE  /\ buf[0] = b
           /\ \A k \in 1 .. Len(ops) : buf[k] = Streamed(buf[k - 1], k, ops[k])
           /\ \A k \in 0 .. Len(ops) : buf[k] \in Buffers(Nat)
<1> DEFINE n == Len(ops)
           T == {k \in 0 .. n : buf[k] \in Buffers(Nat)}
<1>1. n \in Nat
  OBVIOUS
<1>2. buf[0] = b /\ \A k \in 1 .. n : buf[k] = Streamed(buf[k - 1], k, ops[k])
  BY DEF IsStreaming
<1>3. 0 \in T
  BY <1>1, <1>2
<1>4. ASSUME NEW k \in 1 .. n, k - 1 \in T
      PROVE  k \in T
  <2>1. ops[k] \in StreamOperations /\ k \in Nat /\ k \in 0 .. n
    OBVIOUS
  <2>2. buf[k - 1] \in Buffers(Nat)
    BY <1>4
  <2>3. Streamed(buf[k - 1], k, ops[k]) \in Buffers(Nat)
    BY <2>1, <2>2, StreamedFits
  <2> QED BY <1>2, <2>1, <2>3
<1>5. \A k \in 0 .. n : k \in T
  <2> HIDE DEF T, n
  <2> QED BY <1>1, <1>3, <1>4, InductionUpTo
<1> QED BY <1>2, <1>5

\* What After() returns: the buffer before the last operation, and that one.
LEMMA AfterLast ==
    ASSUME NEW b \in Buffers(Nat), NEW ops \in Seq(StreamOperations), ops # <<>>
    PROVE  /\ After(b, ops) \in Buffers(Nat)
           /\ \E before \in Buffers(Nat) :
                 After(b, ops) = Streamed(before, Len(ops), ops[Len(ops)])
<1> DEFINE buf == CHOOSE f : IsStreaming(f, b, ops)
           n == Len(ops)
<1>1. IsStreaming(buf, b, ops)
  BY StreamingExists
<1>2. After(b, ops) = buf[n]
  BY Zenon DEF After, IsStreaming
<1>3. n \in 1 .. n /\ n \in 0 .. n /\ n - 1 \in 0 .. n
  OBVIOUS
<1> HIDE DEF buf
<1>4. buf[n] \in Buffers(Nat) /\ buf[n - 1] \in Buffers(Nat)
  BY <1>1, <1>3, StreamingSteps
<1>5. buf[n] = Streamed(buf[n - 1], n, ops[n])
  BY <1>1, <1>3, StreamingSteps
<1> QED BY <1>2, <1>4, <1>5

\* A line in the buffer, for every statement and every name of a file.
LEMMA LineFits ==
    ASSUME NEW ops \in Seq(StreamOperations), NEW basename \in Nat, NEW digits \in Nat,
           digits < kMaxNumericSize
    PROVE  LET after == After(EmptyBuffer, ops \o finish(basename, digits))
           IN  /\ after.length < SIZE
               /\ Len(ops) + 5 \notin ToSet(after.data) => after.length = SIZE - 1
<1> DEFINE tail == finish(basename, digits)
           all == ops \o tail
           after == After(EmptyBuffer, all)
           n == Len(ops)
<1>1. EmptyBuffer \in Buffers(Nat)
  <2>1. SIZE - 1 \in Nat /\ <<>> \in Seq(Nat)
    BY SizeAssumption
  <2> QED BY <2>1 DEF EmptyBuffer, Buffers
<1>2. tail \in Seq(StreamOperations) /\ Len(tail) = 5 /\ tail[5] = [kind |-> "text", len |-> 1]
  <2> DEFINE text(len) == [kind |-> "text", len |-> len]
             integer == [kind |-> "integer", len |-> digits]
  <2>1. \A len \in Nat : text(len) \in StreamOperations
    BY DEF StreamOperations
  <2>2. integer \in StreamOperations
    BY DEF StreamOperations
  <2>3. text(3) \in StreamOperations /\ text(basename) \in StreamOperations
        /\ text(1) \in StreamOperations
    BY <2>1
  <2>4. tail = <<text(3), text(basename), text(1), integer, text(1)>>
    BY DEF finish
  <2> HIDE DEF text, integer, tail
  <2>5. tail \in Seq(StreamOperations) /\ Len(tail) = 5 /\ tail[5] = text(1)
    BY <2>2, <2>3, <2>4
  <2> QED BY <2>5 DEF text
<1> HIDE DEF tail
<1>3. /\ all \in Seq(StreamOperations) /\ all # <<>> /\ Len(all) = n + 5 /\ n \in Nat
      /\ all[n + 5] = [kind |-> "text", len |-> 1]
  <2> DEFINE O == StreamOperations
  <2>1. ops \in Seq(O) /\ tail \in Seq(O) /\ n \in Nat
    BY <1>2
  <2> HIDE DEF O
  <2>2. /\ all \in Seq(O) /\ Len(all) = n + Len(tail)
        /\ \A k \in 1 .. Len(tail) : all[n + k] = tail[k]
    BY <2>1
  <2>4. Len(all) = n + 5 /\ all[n + 5] = tail[5]
    <3> HIDE DEF all, n
    <3> QED BY <1>2, <2>2
  <2>3. all # <<>>
    <3> HIDE DEF all, n
    <3> QED BY <2>1, <2>2, <2>4
  <2> QED BY <1>2, <2>1, <2>2, <2>3, <2>4 DEF O
<1> HIDE DEF all, n
<1>4. after \in Buffers(Nat)
  BY <1>1, <1>3, AfterLast
<1>5. PICK before \in Buffers(Nat) : after = Streamed(before, n + 5, all[n + 5])
  BY <1>1, <1>3, AfterLast
<1>6. after.length < SIZE
  BY <1>4, SizeAssumption DEF Buffers
<1>7. CASE Avail(before) > 1
  <2>1. after.data = Append(before.data, n + 5)
    BY <1>3, <1>5, <1>7 DEF Streamed, AppendTo
  <2>2. before.data \in Seq(Nat)
    BY DEF Buffers
  <2>3. after.data[Len(before.data) + 1] = n + 5 /\ Len(before.data) + 1 \in DOMAIN after.data
    BY <1>3, <2>1, <2>2
  <2>4. n + 5 \in ToSet(after.data)
    BY <2>3 DEF ToSet
  <2> QED BY <1>6, <2>4 DEF all, n, tail
<1>8. CASE ~ (Avail(before) > 1)
  <2>1. after = before
    BY <1>3, <1>5, <1>8 DEF Streamed, AppendTo
  <2>2. before.length = SIZE - 1
    BY <1>8, SizeAssumption DEF Buffers, Avail
  <2> QED BY <1>6, <2>1, <2>2 DEF all, n, tail
<1> QED BY <1>7, <1>8

\* Whatever is streamed, the cursor stays inside LogStream's buffer, and the
\* line lacks its newline only when the buffer is full to its last byte
\* (FixedBuffer::append(), LogStream's operators, Logger::Impl::finish()).
THEOREM LinesEndAlways == Queries => []LinesEnd
<1>1. ASSUME Asked, query.of = "line"
      PROVE  LinesEnd
  <2> DEFINE ops == query.ops
  <2>1. ops \in Streams
    BY <1>1 DEF Asked, Nothing
  <2>2. ops \in Seq(StreamOperations) /\ 1 < kMaxNumericSize
    <3> DEFINE O == [kind : {"text", "integer", "double"}, len : Nat]
    <3>1. /\ ops \in Seq(O)
          /\ \A k \in DOMAIN ops : ops[k].kind # "text" => ops[k].len < kMaxNumericSize
      BY <2>1, StreamsAssumption
    <3> HIDE DEF O, ops
    <3>2. ASSUME NEW k \in 1 .. Len(ops)
          PROVE  ops[k] \in StreamOperations
      <4>1. ops[k] \in O /\ k \in DOMAIN ops
        BY <3>1
      <4> QED BY <3>1, <4>1 DEF StreamOperations, O
    <3>3. ops \in Seq(StreamOperations)
      BY <3>1, <3>2
    <3> QED BY <3>3, StreamsAssumption
  <2> HIDE DEF ops
  <2>3. LET after == After(EmptyBuffer, ops \o finish(2, 1))
        IN  /\ after.length < SIZE
            /\ Len(ops) + 5 \notin ToSet(after.data) => after.length = SIZE - 1
    BY <2>2, LineFits
  <2> QED BY <2>3 DEF LinesEnd, ops
<1>2. Asked => LinesEnd
  BY <1>1 DEF LinesEnd
<1> QED BY <1>2, QueriesAsked, PTL

-----------------------------------------------------------------------------
(* ReadSmallFile *)

\* A stretch of the file, and two that meet.
LEMMA StretchIs ==
    ASSUME NEW a \in Nat, NEW b \in Nat, a <= b
    PROVE  /\ Stretch(a, b) \in Seq(Nat) /\ Len(Stretch(a, b)) = b - a
           /\ \A k \in 1 .. b - a : Stretch(a, b)[k] = a + k
BY DEF Stretch

LEMMA StretchesJoin ==
    ASSUME NEW a \in Nat, NEW b \in Nat, a <= b
    PROVE  Stretch(0, a) \o Stretch(a, b) = Stretch(0, b)
<1> DEFINE s == Stretch(0, a)
           t == Stretch(a, b)
           u == Stretch(0, b)
<1>1. /\ s \in Seq(Nat) /\ Len(s) = a /\ \A k \in 1 .. a : s[k] = k
      /\ t \in Seq(Nat) /\ Len(t) = b - a /\ \A k \in 1 .. b - a : t[k] = a + k
      /\ u \in Seq(Nat) /\ Len(u) = b /\ \A k \in 1 .. b : u[k] = k
  <2>1. /\ s \in Seq(Nat) /\ Len(s) = a - 0 /\ \A k \in 1 .. a - 0 : s[k] = 0 + k
        /\ u \in Seq(Nat) /\ Len(u) = b - 0 /\ \A k \in 1 .. b - 0 : u[k] = 0 + k
    <3>1. 0 \in Nat /\ 0 <= a /\ 0 <= b
      OBVIOUS
    <3> QED BY <3>1, StretchIs
  <2>2. t \in Seq(Nat) /\ Len(t) = b - a /\ \A k \in 1 .. b - a : t[k] = a + k
    BY StretchIs
  <2> HIDE DEF s, t, u
  <2> QED BY <2>1, <2>2
<1> HIDE DEF s, t, u
<1>2. s \o t \in Seq(Nat) /\ Len(s \o t) = Len(s) + Len(t)
  BY <1>1, ConcatProperties, SMTT(30)
<1>3. Len(s \o t) = b
  BY <1>1, <1>2
<1>4. ASSUME NEW k \in 1 .. b
      PROVE  (s \o t)[k] = u[k]
  <2>1. (s \o t)[k] = IF k <= Len(s) THEN s[k] ELSE t[k - Len(s)]
    <3>1. k \in 1 .. Len(s) + Len(t)
      BY <1>1
    <3> QED BY <1>1, <3>1, ConcatProperties
  <2>2. CASE k <= a
    BY <1>1, <2>1, <2>2
  <2>3. CASE ~ k <= a
    <3>1. k - a \in 1 .. b - a
      BY <2>3
    <3> QED BY <1>1, <2>1, <2>3, <3>1
  <2> QED BY <2>2, <2>3
<1>5. s \o t = u
  BY <1>1, <1>2, <1>3, <1>4, SeqEqual
<1> QED BY <1>5 DEF s, t, u

\* The size of the file at each read, and at any moment of the call.
LEMMA SizesGrow ==
    ASSUME NEW file, Grows(file), NEW k \in Nat
    PROVE  /\ SizeAt(file, k) \in Nat
           /\ \E j \in DOMAIN file.sizes : SizeAt(file, k) = file.sizes[j]
           /\ SizeAt(file, k) <= SizeAt(file, k + 1)
           /\ \A j \in DOMAIN file.sizes : SizeAt(file, 0) <= file.sizes[j]
<1> DEFINE n == Len(file.sizes)
           place(i) == IF i + 1 <= n THEN i + 1 ELSE n
<1>1. n \in Nat /\ n >= 1 /\ DOMAIN file.sizes = 1 .. n
  BY DEF Grows
<1>2. ASSUME NEW i \in Nat
      PROVE  SizeAt(file, i) = file.sizes[place(i)] /\ place(i) \in 1 .. n
  <2>1. Min({i + 1, n}) = place(i)
    BY <1>1, MinOfTwo
  <2>2. place(i) \in 1 .. n
    BY <1>1
  <2>3. SizeAt(file, i) = file.sizes[place(i)]
    <3> HIDE DEF place
    <3> QED BY <2>1 DEF SizeAt
  <2> QED BY <2>2, <2>3
<1>3. place(k) <= place(k + 1) /\ place(0) = 1 /\ k + 1 \in Nat /\ 0 \in Nat
  BY <1>1
<1>4. \A i \in 1 .. n : file.sizes[i] \in Nat
  BY <1>1 DEF Grows
<1>5. \A i, j \in 1 .. n : i <= j => file.sizes[i] <= file.sizes[j]
  BY <1>1 DEF Grows
<1> HIDE DEF place, n
<1>6. /\ SizeAt(file, k) = file.sizes[place(k)] /\ place(k) \in 1 .. n
      /\ SizeAt(file, k + 1) = file.sizes[place(k + 1)] /\ place(k + 1) \in 1 .. n
      /\ SizeAt(file, 0) = file.sizes[1] /\ 1 \in 1 .. n
  BY <1>2, <1>3
<1> QED BY <1>1, <1>3, <1>4, <1>5, <1>6

ReadErrors == {"none", "stat", "read"}

ReadStates == [content : Seq(Nat), err : ReadErrors, done : BOOLEAN]

\* After k turns of the loop: what has been read is what was there, no more
\* than was asked for and no more than there is.  Every turn reads a byte or
\* is the last one, and that has come to the end.
Reading(file, maxSize, k, s) ==
    LET size == Len(s.content)
    IN  /\ s \in ReadStates
        /\ s.content = Stretch(0, size)
        /\ size <= maxSize /\ size <= SizeAt(file, k)
        /\ ~ s.done => size >= k
        /\ s.done /\ s.err = "none" =>
              size = maxSize \/ \E j \in DOMAIN file.sizes : size = file.sizes[j]

\* How much a turn reads.
LEMMA TurnReads ==
    ASSUME NEW file, Grows(file), NEW maxSize \in Nat, NEW k \in Nat, NEW content \in Seq(Nat),
           Len(content) < maxSize, Len(content) <= SizeAt(file, k)
    PROVE  LET offset == Len(content)
               n == Max({0, Min({ToRead(maxSize, content), SizeAt(file, k) - offset})})
           IN  /\ n \in Nat /\ offset + n <= maxSize /\ offset + n <= SizeAt(file, k)
               /\ n = 0 => offset = SizeAt(file, k)
<1> DEFINE offset == Len(content)
           size == SizeAt(file, k)
           toRead == ToRead(maxSize, content)
           least == Min({toRead, size - offset})
           n == Max({0, least})
<1>1. offset \in Nat /\ size \in Nat /\ kBufferSize \in Nat /\ kBufferSize >= 1
  <2>1. size \in Nat
    BY SizesGrow
  <2>2. kBufferSize \in Nat /\ kBufferSize >= 1
    BY BufferAssumption
  <2> QED BY <2>1, <2>2
<1> HIDE DEF offset, size
<1>2. toRead = IF maxSize - offset <= kBufferSize THEN maxSize - offset ELSE kBufferSize
  BY <1>1, MinOfTwo DEF ToRead, offset
<1> HIDE DEF toRead
<1>3. toRead \in Nat /\ toRead >= 1 /\ toRead <= maxSize - offset
  BY <1>1, <1>2 DEF offset
<1>4. least = IF toRead <= size - offset THEN toRead ELSE size - offset
  BY <1>1, <1>3, MinOfTwo
<1> HIDE DEF least
<1>5. least \in Int /\ least <= toRead /\ least <= size - offset
      /\ (least <= 0 => size <= offset)
  BY <1>1, <1>3, <1>4
<1>6. n = IF 0 >= least THEN 0 ELSE least
  BY <1>5, MaxOfTwo
<1> HIDE DEF n
<1>7. offset <= size
  BY DEF offset, size
<1>8. /\ n \in Nat /\ offset + n <= maxSize /\ offset + n <= size
      /\ n = 0 => offset = size
  BY <1>1, <1>3, <1>5, <1>6, <1>7
<1> QED BY <1>8 DEF n, least, toRead, size, offset

\* A turn of the loop keeps what is read a prefix of the file, of no more than
\* it held at that moment.
LEMMA TurnKeepsReading ==
    ASSUME NEW file, Grows(file), NEW maxSize \in Nat, NEW k \in Nat, NEW s,
           Reading(file, maxSize, k, s)
    PROVE  Reading(file, maxSize, k + 1, ReadOnce(file, maxSize, k + 1, s))
<1> DEFINE offset == Len(s.content)
           n == Max({0, Min({ToRead(maxSize, s.content), SizeAt(file, k + 1) - offset})})
           then == ReadOnce(file, maxSize, k + 1, s)
<1>1. /\ s \in ReadStates /\ offset \in Nat /\ s.content = Stretch(0, offset)
      /\ s.content \in Seq(Nat) /\ offset <= maxSize /\ k + 1 \in Nat
      /\ s.done \in BOOLEAN /\ s.err \in ReadErrors
  BY DEF Reading, ReadStates
<1>2. offset <= SizeAt(file, k + 1) /\ SizeAt(file, k + 1) \in Nat
  <2>1. SizeAt(file, k) <= SizeAt(file, k + 1) /\ SizeAt(file, k) \in Nat
    BY SizesGrow
  <2>2. SizeAt(file, k + 1) \in Nat
    BY <1>1, SizesGrow
  <2>3. offset <= SizeAt(file, k)
    BY DEF Reading
  <2> QED BY <1>1, <2>1, <2>2, <2>3
<1>3. CASE s.done \/ offset >= maxSize
  <2>1. then = [s EXCEPT !.done = TRUE]
    BY <1>3, Zenon DEF ReadOnce
  <2>2. then \in ReadStates /\ then.content = s.content /\ then.done /\ then.err = s.err
    BY <1>1, <2>1 DEF ReadStates
  <2>3. s.err = "none" =>
          offset = maxSize \/ \E j \in DOMAIN file.sizes : offset = file.sizes[j]
    BY <1>1, <1>3 DEF Reading
  <2> HIDE DEF then
  <2> QED BY <1>1, <1>2, <2>2, <2>3 DEF Reading, then
<1>4. CASE ~ (s.done \/ offset >= maxSize) /\ file.fails = k + 1
  <2>1. then = [s EXCEPT !.done = TRUE, !.err = "read"]
    BY <1>4, Zenon DEF ReadOnce
  <2>2. then \in ReadStates /\ then.content = s.content /\ then.done /\ then.err = "read"
    BY <1>1, <2>1 DEF ReadStates, ReadErrors
  <2> HIDE DEF then
  <2> QED BY <1>1, <1>2, <2>2 DEF Reading, then
<1>5. CASE ~ (s.done \/ offset >= maxSize) /\ file.fails # k + 1
  <2>1. /\ n \in Nat /\ offset + n <= maxSize /\ offset + n <= SizeAt(file, k + 1)
        /\ n = 0 => offset = SizeAt(file, k + 1)
    <3>1. Len(s.content) < maxSize
      BY <1>1, <1>5
    <3> QED BY <1>1, <1>2, <3>1, TurnReads, ZenonT(40)
  <2>2. CASE n = 0
    <3>1. then = [s EXCEPT !.done = TRUE]
      BY <1>5, <2>2, Zenon DEF ReadOnce
    <3>2. then \in ReadStates /\ then.content = s.content /\ then.done
      BY <1>1, <3>1 DEF ReadStates
    <3>3. \E j \in DOMAIN file.sizes : offset = file.sizes[j]
      BY <1>1, <2>1, <2>2, SizesGrow
    <3> HIDE DEF then, n
    <3> QED BY <1>1, <1>2, <3>2, <3>3 DEF Reading, then
  <2>3. CASE n # 0
    <3>1. then = [s EXCEPT !.content = @ \o Stretch(offset, offset + n)]
      BY <1>5, <2>3, Zenon DEF ReadOnce
    <3> DEFINE m == offset + n
    <3>2. m \in Nat /\ offset <= m /\ m > offset
      <4> HIDE DEF n
      <4> QED BY <1>1, <2>1, <2>3
    <3> HIDE DEF n
    <3>3. m <= maxSize /\ m <= SizeAt(file, k + 1)
      BY <2>1
    <3> HIDE DEF m
    <3>4. Stretch(0, offset) \o Stretch(offset, m) = Stretch(0, m)
      BY <1>1, <3>2, StretchesJoin
    <3>5. Stretch(0, m) \in Seq(Nat) /\ Len(Stretch(0, m)) = m
      <4>1. 0 \in Nat /\ 0 <= m /\ m - 0 = m
        BY <3>2
      <4> QED BY <3>2, <4>1, StretchIs
    <3>6. then.content = Stretch(0, m) /\ then.err = s.err /\ then.done = s.done
      BY <1>1, <3>1, <3>4 DEF m, ReadStates
    <3>7. then \in ReadStates
      BY <1>1, <3>1, <3>4, <3>5 DEF m, ReadStates
    <3>8. offset >= k
      BY <1>5 DEF Reading
    <3> HIDE DEF then
    <3> QED BY <1>1, <1>5, <3>2, <3>3, <3>5, <3>6, <3>7, <3>8 DEF Reading, then
  <2> QED BY <2>2, <2>3
<1> QED BY <1>1, <1>3, <1>4, <1>5

ReadStart(file, asked) == [content |-> <<>>, err |-> StatErr(file, asked), done |-> FALSE]

IsReading(after, file, asked, maxSize) ==
    after = [k \in 0 .. maxSize + 1 |->
                IF k = 0 THEN [content |-> <<>>, err |-> StatErr(file, asked), done |-> FALSE]
                ELSE ReadOnce(file, maxSize, k, after[k - 1])]

\* The loop as a function of the number of turns.
LEMMA ReadOnceType ==
    ASSUME NEW file, Grows(file), NEW maxSize \in Nat, NEW k \in Nat, NEW s \in ReadStates
    PROVE  ReadOnce(file, maxSize, k, s) \in ReadStates
<1> DEFINE offset == Len(s.content)
           n == Max({0, Min({ToRead(maxSize, s.content), SizeAt(file, k) - offset})})
<1>1. s.content \in Seq(Nat) /\ offset \in Nat /\ s.err \in ReadErrors /\ s.done \in BOOLEAN
  BY DEF ReadStates
<1>2. n \in Nat
  <2>1. SizeAt(file, k) \in Nat
    BY SizesGrow
  <2>2. kBufferSize \in Nat
    BY BufferAssumption
  <2>3. ToRead(maxSize, s.content) \in Int
    <3>1. maxSize - offset \in Int
      BY <1>1
    <3>2. ToRead(maxSize, s.content) \in {maxSize - offset, kBufferSize}
      <4> HIDE DEF offset
      <4>1. Min({maxSize - offset, kBufferSize}) \in {maxSize - offset, kBufferSize}
        BY <2>2, <3>1, MinOfTwo
      <4> QED BY <4>1 DEF ToRead, offset
    <3> QED BY <2>2, <3>1, <3>2
  <2> DEFINE toRead == ToRead(maxSize, s.content)
             left == SizeAt(file, k) - offset
  <2>4. left \in Int
    BY <1>1, <2>1
  <2> HIDE DEF left, toRead
  <2>5. Min({toRead, left}) \in Int
    BY <2>3, <2>4, MinOfTwo DEF toRead
  <2> DEFINE least == Min({toRead, left})
  <2> HIDE DEF least
  <2>6. Max({0, least}) \in Nat
    BY <2>5, MaxOfTwo DEF least
  <2> QED BY <2>6 DEF least, left, toRead
<1>3. s.content \o Stretch(offset, offset + n) \in Seq(Nat)
  <2> HIDE DEF n
  <2>1. offset + n \in Nat /\ offset <= offset + n
    BY <1>1, <1>2
  <2>2. Stretch(offset, offset + n) \in Seq(Nat)
    BY <1>1, <2>1, StretchIs
  <2> QED BY <1>1, <2>2
<1>4. \/ ReadOnce(file, maxSize, k, s) = [s EXCEPT !.done = TRUE]
      \/ ReadOnce(file, maxSize, k, s) = [s EXCEPT !.done = TRUE, !.err = "read"]
      \/ ReadOnce(file, maxSize, k, s) = [s EXCEPT !.content = @ \o Stretch(offset, offset + n)]
  BY Zenon DEF ReadOnce
<1> QED BY <1>1, <1>3, <1>4 DEF ReadStates, ReadErrors

LEMMA ReadingExists ==
    ASSUME NEW file, Grows(file), NEW asked, NEW maxSize \in Nat
    PROVE  \E after : IsReading(after, file, asked, maxSize)
<1> DEFINE n == maxSize + 1
           first == ReadStart(file, asked)
           step == [k \in 1 .. n |-> [s \in ReadStates |-> ReadOnce(file, maxSize, k, s)]]
<1>1. n \in Nat /\ first \in ReadStates
  BY DEF ReadStart, ReadStates, ReadErrors, StatErr
<1>2. step \in [1 .. n -> [ReadStates -> ReadStates]]
  <2>1. ASSUME NEW k \in 1 .. n, NEW s \in ReadStates
        PROVE  ReadOnce(file, maxSize, k, s) \in ReadStates
    <3>1. k \in Nat
      OBVIOUS
    <3> QED BY <3>1, ReadOnceType
  <2> QED BY <2>1
<1> HIDE DEF step, first, n
<1>3. PICK f : IsRecursion(f, ReadStates, n, first, step)
  BY <1>1, <1>2, RecursionExists
<1>4. ASSUME NEW k \in 1 .. n
      PROVE  f[k] = ReadOnce(file, maxSize, k, f[k - 1])
  <2>1. f[k - 1] \in ReadStates
    BY <1>1, <1>3 DEF IsRecursion
  <2> QED BY <1>3, <2>1 DEF step, IsRecursion
<1>5. f = [k \in 0 .. n |-> IF k = 0 THEN first ELSE ReadOnce(file, maxSize, k, f[k - 1])]
  BY <1>1, <1>3, <1>4 DEF IsRecursion
<1> QED BY <1>5 DEF n, first, IsReading, ReadStart

\* The loop stays in Reading, and its last turn has come to the end.
LEMMA LoopReads ==
    ASSUME NEW file, Grows(file), NEW asked, NEW maxSize \in Nat,
           NEW after, IsReading(after, file, asked, maxSize)
    PROVE  /\ Reading(file, maxSize, maxSize + 1, after[maxSize + 1])
           /\ after[maxSize + 1].done
<1> DEFINE n == maxSize + 1
           T == {k \in 0 .. n : Reading(file, maxSize, k, after[k])}
<1>1. n \in Nat /\ n \in 0 .. n /\ 0 \in 0 .. n
  OBVIOUS
<1>2. after[0] = ReadStart(file, asked)
  BY <1>1 DEF IsReading, ReadStart
<1>3. ASSUME NEW k \in 1 .. n
      PROVE  after[k] = ReadOnce(file, maxSize, k, after[k - 1])
  <2>1. k \in 0 .. maxSize + 1 /\ k # 0
    OBVIOUS
  <2> QED BY <2>1, Zenon DEF IsReading
<1>4. 0 \in T
  <2>1. Stretch(0, 0) = <<>> /\ SizeAt(file, 0) \in Nat
    <3>1. SizeAt(file, 0) \in Nat
      BY SizesGrow
    <3>2. Stretch(0, 0) \in Seq(Nat) /\ Len(Stretch(0, 0)) = 0 - 0
      BY StretchIs, SMTT(30)
    <3>3. Stretch(0, 0) = <<>>
      BY <3>2
    <3> QED BY <3>1, <3>3
  <2>2. ReadStart(file, asked) \in ReadStates
    BY DEF ReadStart, ReadStates, ReadErrors, StatErr
  <2>3. Reading(file, maxSize, 0, ReadStart(file, asked))
    BY <2>1, <2>2 DEF Reading, ReadStart
  <2> QED BY <1>1, <1>2, <2>3
<1>5. ASSUME NEW k \in 1 .. n, k - 1 \in T
      PROVE  k \in T
  <2>1. k - 1 \in Nat /\ k - 1 + 1 = k /\ k \in 0 .. n
    BY <1>1
  <2>2. Reading(file, maxSize, k - 1, after[k - 1])
    BY <1>5
  <2>3. Reading(file, maxSize, k - 1 + 1, ReadOnce(file, maxSize, k - 1 + 1, after[k - 1]))
    BY <2>1, <2>2, TurnKeepsReading
  <2>4. Reading(file, maxSize, k, after[k])
    BY <1>3, <2>1, <2>3
  <2> QED BY <2>1, <2>4
<1>6. \A k \in 0 .. n : k \in T
  <2> HIDE DEF T, n
  <2> QED BY <1>1, <1>4, <1>5, InductionUpTo
<1>7. Reading(file, maxSize, n, after[n])
  BY <1>1, <1>6
<1>8. after[n].done
  <2>1. Len(after[n].content) <= maxSize /\ Len(after[n].content) \in Nat
    BY <1>7 DEF Reading, ReadStates
  <2>2. ~ after[n].done => Len(after[n].content) >= n
    BY <1>7 DEF Reading
  <2> QED BY <2>1, <2>2
<1> QED BY <1>7, <1>8

\* readToString(), of any file that grows while it is read.
LEMMA StringRead ==
    ASSUME NEW file, Grows(file), NEW asked \in BOOLEAN, NEW maxSize \in Nat, NEW old
    PROVE  LET string == readToString(file, asked, maxSize, old)
               size == Len(string.content)
           IN  /\ IF file.opened THEN string.content = Stretch(0, size)
                  ELSE string.content = old
               /\ file.opened => size <= maxSize
               /\ string.err = "none" =>
                    /\ size = maxSize \/ \E k \in DOMAIN file.sizes : size = file.sizes[k]
                    /\ size >= Min({maxSize, string.fileSize})
<1> DEFINE after == CHOOSE f : IsReading(f, file, asked, maxSize)
           last == after[maxSize + 1]
           size0 == IF asked /\ file.kind = "regular" THEN SizeAt(file, 0) ELSE 0
           string == readToString(file, asked, maxSize, old)
<1>1. string = IF file.opened THEN [content |-> last.content, err |-> last.err, fileSize |-> size0]
               ELSE [content |-> old, err |-> "open", fileSize |-> 0]
  BY Zenon DEF readToString, IsReading
<1>2. IsReading(after, file, asked, maxSize)
  BY ReadingExists
<1> HIDE DEF after
<1>3. Reading(file, maxSize, maxSize + 1, last) /\ last.done
  BY <1>2, LoopReads
<1> HIDE DEF last, string, size0
<1> DEFINE size == Len(last.content)
<1>4. /\ size \in Nat /\ last.content = Stretch(0, size) /\ size <= maxSize
      /\ last.err = "none" =>
            size = maxSize \/ \E j \in DOMAIN file.sizes : size = file.sizes[j]
  BY <1>3 DEF Reading, ReadStates
<1>5. size0 \in Nat /\ \A j \in DOMAIN file.sizes : size0 <= file.sizes[j]
  <2>1. SizeAt(file, 0) \in Nat /\ \A j \in DOMAIN file.sizes : SizeAt(file, 0) <= file.sizes[j]
    BY SizesGrow
  <2>2. \A j \in DOMAIN file.sizes : file.sizes[j] \in Nat
    BY DEF Grows
  <2> QED BY <2>1, <2>2 DEF size0
<1>6. last.err = "none" => size >= Min({maxSize, size0})
  <2>1. Min({maxSize, size0}) = IF maxSize <= size0 THEN maxSize ELSE size0
    BY <1>5, MinOfTwo
  <2> QED BY <1>4, <1>5, <2>1
<1>7. CASE file.opened
  <2>1. string.content = last.content /\ string.err = last.err /\ string.fileSize = size0
    BY <1>1, <1>7
  <2> QED BY <1>4, <1>6, <1>7, <2>1 DEF string
<1>8. CASE ~ file.opened
  <2>1. string.content = old /\ string.err = "open"
    BY <1>1, <1>8
  <2> QED BY <1>8, <2>1 DEF string
<1> QED BY <1>7, <1>8

\* readToBuffer().
LEMMA BufferRead ==
    ASSUME NEW file, Grows(file)
    PROVE  LET buffer == readToBuffer(file)
           IN  /\ Len(buffer.buf_) <= kBufferSize
               /\ buffer.err = "none" => buffer.buf_ = Stretch(0, buffer.size) \o <<0>>
<1> DEFINE n == Min({kBufferSize - 1, SizeAt(file, 1)})
           buffer == readToBuffer(file)
<1>1. kBufferSize \in Nat /\ kBufferSize >= 1 /\ kBufferSize - 1 \in Nat
  BY BufferAssumption
<1>2. SizeAt(file, 1) \in Nat
  BY SizesGrow
<1>3. n \in Nat /\ n + 1 <= kBufferSize
  <2>1. n = IF kBufferSize - 1 <= SizeAt(file, 1) THEN kBufferSize - 1 ELSE SizeAt(file, 1)
    BY <1>1, <1>2, MinOfTwo
  <2> HIDE DEF n
  <2> QED BY <1>1, <1>2, <2>1
<1>4. \/ buffer = [err |-> "open", size |-> 0, buf_ |-> <<0>>]
      \/ buffer = [err |-> "read", size |-> 0, buf_ |-> <<0>>]
      \/ buffer = [err |-> "none", size |-> n, buf_ |-> Stretch(0, n) \o <<0>>]
  BY Zenon DEF readToBuffer
<1> HIDE DEF buffer, n
<1>5. Len(Stretch(0, n) \o <<0>>) <= kBufferSize
  <2>1. Stretch(0, n) \in Seq(Nat) /\ Len(Stretch(0, n)) = n - 0
    <3>1. 0 \in Nat /\ 0 <= n
      BY <1>3
    <3> QED BY <1>3, <3>1, StretchIs
  <2> DEFINE s == Stretch(0, n)
             t == <<0>>
  <2>2. t \in Seq(Nat) /\ s \in Seq(Nat)
    BY <2>1
  <2>6. Len(t) = 1
    OBVIOUS
  <2> HIDE DEF s, t
  <2>3. Len(s \o t) = Len(s) + Len(t)
    BY <2>2
  <2>4. Len(s) = n
    BY <1>3, <2>1 DEF s
  <2>5. Len(s \o t) <= kBufferSize
    BY <1>1, <1>3, <2>6, <2>3, <2>4
  <2> QED BY <2>5 DEF s, t
<1>6. Len(<<0>>) <= kBufferSize
  BY <1>1
<1>7. CASE buffer.err # "none"
  <2>1. buffer.buf_ = <<0>>
    BY <1>4, <1>7
  <2> QED BY <1>6, <1>7, <2>1 DEF buffer
<1>8. CASE buffer.err = "none"
  <2>1. buffer.size = n /\ buffer.buf_ = Stretch(0, n) \o <<0>>
    BY <1>4, <1>8
  <2> QED BY <1>5, <2>1 DEF buffer
<1> QED BY <1>7, <1>8

\* What ReadSmallFile returns without an error from a file that grows while it
\* is read is the file at one moment of the call or its first maxSize bytes,
\* and not less than the size it reports; what an error leaves is a prefix
\* too; the terminator is inside the buffer (readToString(), readToBuffer()).
THEOREM ReadsArePrefixesAlways == Queries => []ReadsArePrefixes
<1>1. ASSUME Asked, query.of = "file"
      PROVE  ReadsArePrefixes
  <2>1. /\ query.file \in SmallFiles /\ query.asked \in BOOLEAN
        /\ query.maxSize \in MaxSizes
    BY <1>1 DEF Asked, Nothing
  <2>2. Grows(query.file) /\ query.maxSize \in Nat
    BY <2>1, SmallFilesAssumption
  <2> DEFINE file == query.file
             string == readToString(file, query.asked, query.maxSize, <<0>>)
             size == Len(string.content)
             buffer == readToBuffer(file)
  <2>3. /\ IF file.opened THEN string.content = Stretch(0, size) ELSE string.content = <<0>>
        /\ file.opened => size <= query.maxSize
        /\ string.err = "none" =>
             /\ size = query.maxSize \/ \E k \in DOMAIN file.sizes : size = file.sizes[k]
             /\ size >= Min({query.maxSize, string.fileSize})
    <3>1. \A old : LET str == readToString(file, query.asked, query.maxSize, old)
               sz == Len(str.content)
           IN  /\ IF file.opened THEN str.content = Stretch(0, sz)
                  ELSE str.content = old
               /\ file.opened => sz <= query.maxSize
               /\ str.err = "none" =>
                    /\ sz = query.maxSize \/ \E k \in DOMAIN file.sizes : sz = file.sizes[k]
                    /\ sz >= Min({query.maxSize, str.fileSize})
      BY <2>1, <2>2, StringRead
    <3> QED BY <3>1, Zenon
  <2>4. /\ Len(buffer.buf_) <= kBufferSize
        /\ buffer.err = "none" => buffer.buf_ = Stretch(0, buffer.size) \o <<0>>
    BY <2>2, BufferRead, Zenon
  <2> QED BY <2>3, <2>4, Zenon DEF ReadsArePrefixes
<1>2. Asked => ReadsArePrefixes
  BY <1>1 DEF ReadsArePrefixes
<1> QED BY <1>2, QueriesAsked, PTL

-----------------------------------------------------------------------------
(* LogStream: integers *)

Digit == 0 .. 9

\* Halving a number leaves its sign, and less of it; the digit is the rest.
LEMMA HalvedIs ==
    ASSUME NEW i \in Int
    PROVE  LET h == Halved(i, 10)
               digit == zero(Lsd(i, 10))
           IN  /\ h \in Int /\ digit \in Digit /\ zero(i) \in Nat
               /\ i < 0 => h <= 0 /\ i = 10 * h - digit
               /\ i >= 0 => h >= 0 /\ i = 10 * h + digit
<1>1. CASE i >= 0 \/ i % 10 = 0
  BY <1>1 DEF Halved, Lsd, zero, Digit
<1>2. CASE i < 0 /\ i % 10 # 0
  BY <1>2 DEF Halved, Lsd, zero, Digit
<1> QED BY <1>1, <1>2

\* Each turn of convert()'s loop has a smaller absolute value.
LEMMA HalvedLess ==
    ASSUME NEW i \in Int, Halved(i, 10) # 0
    PROVE  zero(Halved(i, 10)) \in 0 .. zero(i) - 1
<1> DEFINE h == Halved(i, 10)
           digit == zero(Lsd(i, 10))
<1>1. /\ h \in Int /\ digit \in Digit /\ h # 0
      /\ i < 0 => h <= 0 /\ i = 10 * h - digit
      /\ i >= 0 => h >= 0 /\ i = 10 * h + digit
  BY HalvedIs
<1> HIDE DEF h, digit
<1>2. zero(h) \in 0 .. zero(i) - 1
  BY <1>1 DEF zero, Digit
<1> QED BY <1>2 DEF h

DigitsFrom(d, i) ==
    IF Halved(i, 10) = 0 THEN <<zero(Lsd(i, 10))>>
    ELSE <<zero(Lsd(i, 10))>> \o d[Halved(i, 10)]

IsDigits(d) ==
    d = [i \in Int |-> IF Halved(i, 10) = 0 THEN <<zero(Lsd(i, 10))>>
                       ELSE <<zero(Lsd(i, 10))>> \o d[Halved(i, 10)]]

\* The digits of the numbers up to n, on both sides of zero.
Ball(n) == {i \in Int : zero(i) <= n}

IsDigitsUpto(d, n) == d = [i \in Ball(n) |-> DigitsFrom(d, i)]

LEMMA BallHalved ==
    ASSUME NEW n \in Nat, NEW i \in Ball(n), Halved(i, 10) # 0
    PROVE  n >= 1 /\ Halved(i, 10) \in Ball(n - 1) /\ Halved(i, 10) \in Ball(n)
<1>1. i \in Int /\ zero(i) <= n
  BY DEF Ball
<1>2. zero(Halved(i, 10)) \in 0 .. zero(i) - 1 /\ Halved(i, 10) \in Int /\ zero(i) \in Nat
  BY <1>1, HalvedLess, HalvedIs
<1>3. n - 1 \in Nat
  BY <1>1, <1>2
<1> HIDE DEF zero
<1> QED BY <1>1, <1>2, <1>3 DEF Ball

\* The loop's recursion is over all the ints, and convert() names its solution
\* by CHOOSE: there is one on the numbers up to n for each n, and they agree.
LEMMA DigitsAgree ==
    ASSUME NEW n \in Nat, NEW m \in Nat, n <= m,
           NEW d, NEW e, IsDigitsUpto(d, n), IsDigitsUpto(e, m)
    PROVE  \A i \in Ball(n) : d[i] = e[i]
<1> DEFINE T == {k \in 0 .. n : \A i \in Ball(k) : d[i] = e[i]}
<1>1. ASSUME NEW k \in 0 .. n, NEW i \in Ball(k)
      PROVE  /\ Halved(i, 10) = 0 => d[i] = e[i]
             /\ Halved(i, 10) # 0 /\ d[Halved(i, 10)] = e[Halved(i, 10)] => d[i] = e[i]
  <2>1. i \in Ball(n) /\ i \in Ball(m)
    <3>1. i \in Int /\ zero(i) \in Nat
      BY HalvedIs DEF Ball
    <3> QED BY <3>1 DEF Ball
  <2>2. d[i] = DigitsFrom(d, i) /\ e[i] = DigitsFrom(e, i)
    BY <2>1, Zenon DEF IsDigitsUpto
  <2> QED BY <2>2 DEF DigitsFrom
<1>2. 0 \in T
  <2>1. ASSUME NEW i \in Ball(0)
        PROVE  d[i] = e[i]
    <3>1. Halved(i, 10) = 0
      BY BallHalved
    <3>2. 0 \in 0 .. n
      OBVIOUS
    <3> QED BY <1>1, <3>1, <3>2
  <2> QED BY <2>1
<1>3. ASSUME NEW k \in 1 .. n, k - 1 \in T
      PROVE  k \in T
  <2>1. ASSUME NEW i \in Ball(k)
        PROVE  d[i] = e[i]
    <3>1. k \in 0 .. n /\ k \in Nat
      OBVIOUS
    <3>2. Halved(i, 10) # 0 => Halved(i, 10) \in Ball(k - 1)
      BY <3>1, BallHalved
    <3>3. Halved(i, 10) # 0 => d[Halved(i, 10)] = e[Halved(i, 10)]
      BY <1>3, <3>2
    <3> QED BY <1>1, <3>1, <3>3
  <2> QED BY <2>1
<1>4. \A k \in 0 .. n : k \in T
  <2> HIDE DEF T
  <2> QED BY <1>2, <1>3, InductionUpTo
<1>5. n \in 0 .. n
  OBVIOUS
<1> QED BY <1>4, <1>5

LEMMA DigitsUptoExist ==
    ASSUME NEW n \in Nat
    PROVE  \E d : IsDigitsUpto(d, n)
<1> DEFINE T == {k \in 0 .. n : \E d : IsDigitsUpto(d, k)}
<1>1. 0 \in T
  <2> DEFINE d == [i \in Ball(0) |-> <<zero(Lsd(i, 10))>>]
  <2>1. ASSUME NEW i \in Ball(0)
        PROVE  d[i] = DigitsFrom(d, i)
    <3>1. Halved(i, 10) = 0
      BY BallHalved
    <3> QED BY <3>1 DEF DigitsFrom
  <2>2. d = [i \in Ball(0) |-> d[i]]
    OBVIOUS
  <2> HIDE DEF d
  <2>3. d = [i \in Ball(0) |-> DigitsFrom(d, i)]
    BY <2>1, <2>2
  <2>4. IsDigitsUpto(d, 0)
    BY <2>3 DEF IsDigitsUpto
  <2> QED BY <2>4
<1>2. ASSUME NEW k \in 1 .. n, k - 1 \in T
      PROVE  k \in T
  <2>1. PICK e : IsDigitsUpto(e, k - 1)
    BY <1>2
  <2> DEFINE d == [i \in Ball(k) |-> DigitsFrom(e, i)]
  <2>2. k \in Nat /\ k - 1 \in Nat /\ k \in 0 .. n
    OBVIOUS
  <2>3. ASSUME NEW i \in Ball(k), Halved(i, 10) # 0
        PROVE  d[Halved(i, 10)] = e[Halved(i, 10)]
    <3>1. Halved(i, 10) \in Ball(k - 1) /\ Halved(i, 10) \in Ball(k)
      BY <2>2, <2>3, BallHalved
    <3>2. e[Halved(i, 10)] = DigitsFrom(e, Halved(i, 10))
      BY <2>1, <3>1, Zenon DEF IsDigitsUpto
    <3>3. d[Halved(i, 10)] = DigitsFrom(e, Halved(i, 10))
      BY <3>1, Zenon
    <3> QED BY <3>2, <3>3
  <2>4. ASSUME NEW i \in Ball(k)
        PROVE  d[i] = DigitsFrom(d, i)
    <3>1. d[i] = DigitsFrom(e, i)
      BY Zenon
    <3> HIDE DEF d
    <3> QED BY <2>3, <3>1 DEF DigitsFrom
  <2>5. d = [i \in Ball(k) |-> d[i]]
    BY Zenon
  <2> HIDE DEF d
  <2>6. d = [i \in Ball(k) |-> DigitsFrom(d, i)]
    BY <2>4, <2>5
  <2>7. IsDigitsUpto(d, k)
    BY <2>6 DEF IsDigitsUpto
  <2> QED BY <2>2, <2>7
<1>3. n \in 0 .. n /\ \A k \in 0 .. n : k \in T
  <2> HIDE DEF T
  <2> QED BY <1>1, <1>2, InductionUpTo
<1> QED BY <1>3

LEMMA DigitsExist == \E d : IsDigits(d)
<1> DEFINE upto(n) == CHOOSE d : IsDigitsUpto(d, n)
           d == [i \in Int |-> upto(zero(i))[i]]
<1>1. \A n \in Nat : IsDigitsUpto(upto(n), n)
  BY DigitsUptoExist
<1> HIDE DEF upto
<1>2. ASSUME NEW i \in Int
      PROVE  d[i] = DigitsFrom(d, i)
  <2> DEFINE n == zero(i)
             h == Halved(i, 10)
  <2>1. n \in Nat /\ i \in Ball(n) /\ h \in Int
    BY HalvedIs DEF Ball
  <2>2. d[i] = upto(n)[i]
    OBVIOUS
  <2>3. upto(n)[i] = DigitsFrom(upto(n), i)
    <3>1. IsDigitsUpto(upto(n), n)
      BY <1>1, <2>1
    <3> HIDE DEF n
    <3> QED BY <2>1, <3>1, Zenon DEF IsDigitsUpto
  <2>4. CASE h # 0
    <3> DEFINE m == zero(h)
    <3>1. m \in 0 .. n - 1
      BY <2>4, HalvedLess
    <3>2. m \in Nat /\ m <= n /\ h \in Ball(m)
      BY <2>1, <3>1 DEF Ball
    <3>3. IsDigitsUpto(upto(m), m) /\ IsDigitsUpto(upto(n), n)
      BY <1>1, <2>1, <3>2
    <3>4. upto(m)[h] = upto(n)[h]
      <4> HIDE DEF m, n, h
      <4> QED BY <2>1, <3>2, <3>3, DigitsAgree
    <3>5. d[h] = upto(n)[h]
      BY <2>1, <3>4
    <3> HIDE DEF d
    <3> QED BY <2>2, <2>3, <3>5 DEF DigitsFrom
  <2>5. CASE h = 0
    <3> HIDE DEF d
    <3> QED BY <2>2, <2>3, <2>5 DEF DigitsFrom
  <2> QED BY <2>4, <2>5
<1>3. d = [i \in Int |-> d[i]]
  OBVIOUS
<1> HIDE DEF d
<1>4. d = [i \in Int |-> DigitsFrom(d, i)]
  BY <1>2, <1>3
<1> QED BY <1>4 DEF IsDigits, DigitsFrom

\* What the digits of a number are, for every number of any width.
LEMMA DigitsType ==
    ASSUME NEW d, IsDigits(d), NEW i \in Int
    PROVE  /\ d[i] = DigitsFrom(d, i)
           /\ d[i] \in Seq(Digit) /\ Len(d[i]) >= 1
           /\ d[i][Len(d[i])] = 0 => Len(d[i]) = 1
<1> DEFINE n == zero(i)
           Right(j) == /\ d[j] \in Seq(Digit) /\ Len(d[j]) >= 1
                       /\ j # 0 => d[j][Len(d[j])] # 0
                       /\ j = 0 => Len(d[j]) = 1
           T == {k \in 0 .. n : \A j \in Ball(k) : Right(j)}
<1>1. \A j \in Int : d[j] = DigitsFrom(d, j)
  BY DEF IsDigits, DigitsFrom
<1>2. ASSUME NEW j \in Int, Halved(j, 10) = 0
      PROVE  Right(j)
  <2> DEFINE digit == zero(Lsd(j, 10))
  <2>1. digit \in Digit /\ (j # 0 => digit # 0)
    BY <1>2, HalvedIs
  <2> HIDE DEF digit
  <2>2. d[j] = <<digit>>
    BY <1>1, <1>2 DEF DigitsFrom, digit
  <2> QED BY <2>1, <2>2
<1>3. ASSUME NEW j \in Int, Halved(j, 10) # 0, Right(Halved(j, 10))
      PROVE  Right(j)
  <2> DEFINE digit == zero(Lsd(j, 10))
             h == Halved(j, 10)
             t == d[h]
             u == <<digit>>
  <2>1. digit \in Digit /\ h \in Int /\ j # 0
    <3>1. Halved(0, 10) = 0
      BY DEF Halved
    <3> QED BY <1>3, <3>1, HalvedIs
  <2> HIDE DEF digit, h
  <2>2. t \in Seq(Digit) /\ Len(t) >= 1 /\ t[Len(t)] # 0
    BY <1>3 DEF h
  <2>3. d[j] = u \o t
    BY <1>1, <1>3 DEF DigitsFrom, digit, h
  <2>4. u \in Seq(Digit) /\ Len(u) = 1
    BY <2>1
  <2> HIDE DEF t, u
  <2>5. u \o t \in Seq(Digit) /\ Len(u \o t) = Len(u) + Len(t)
        /\ (u \o t)[Len(u) + Len(t)] = t[Len(t)]
    <3>1. u \in Seq(Digit)
      BY <2>4
    <3> QED BY <2>2, <3>1
  <2>6. Len(u) + Len(t) >= 1
    BY <2>2, <2>4
  <2> QED BY <2>1, <2>2, <2>3, <2>5, <2>6
<1>4. ASSUME NEW k \in 0 .. n, NEW j \in Ball(k), Halved(j, 10) # 0 => Right(Halved(j, 10))
      PROVE  Right(j)
  <2>1. j \in Int
    BY DEF Ball
  <2> HIDE DEF Right
  <2> QED BY <1>2, <1>3, <1>4, <2>1
<1> HIDE DEF Right
<1>5. 0 \in T
  <2>1. 0 \in 0 .. n /\ 0 \in Nat
    BY HalvedIs
  <2>2. ASSUME NEW j \in Ball(0)
        PROVE  Right(j)
    <3>1. Halved(j, 10) = 0
      BY <2>1, BallHalved
    <3> QED BY <1>4, <2>1, <3>1
  <2> QED BY <2>1, <2>2
<1>6. ASSUME NEW k \in 1 .. n, k - 1 \in T
      PROVE  k \in T
  <2>1. k \in 0 .. n /\ k \in Nat
    BY HalvedIs
  <2>2. ASSUME NEW j \in Ball(k)
        PROVE  Right(j)
    <3>1. Halved(j, 10) # 0 => Halved(j, 10) \in Ball(k - 1)
      BY <2>1, BallHalved
    <3> QED BY <1>4, <1>6, <2>1, <3>1
  <2> QED BY <2>1, <2>2
<1>7. n \in Nat /\ n \in 0 .. n /\ i \in Ball(n)
  BY HalvedIs DEF Ball
<1>8. n \in T
  <2>1. \A k \in 0 .. n : k \in T
    <3> HIDE DEF T, n
    <3> QED BY <1>5, <1>6, <1>7, InductionUpTo
  <2> QED BY <1>7, <2>1
<1>9. Right(i)
  BY <1>7, <1>8
<1> QED BY <1>1, <1>9 DEF Right

\* The number that digits denote, the first one first.
IsSum(sum, negative, digits) ==
    sum = [k \in 0 .. Len(digits) |->
              IF k = 0 THEN 0
              ELSE IF negative THEN 10 * sum[k - 1] - digits[k]
              ELSE 10 * sum[k - 1] + digits[k]]

\* What digits denote, and one digit more.
LEMMA SumSteps ==
    ASSUME NEW negative, NEW digits \in Seq(Digit), NEW sum, IsSum(sum, negative, digits)
    PROVE  /\ sum[0] = 0
           /\ \A k \in 1 .. Len(digits) :
                 sum[k] = IF negative THEN 10 * sum[k - 1] - digits[k]
                          ELSE 10 * sum[k - 1] + digits[k]
           /\ \A k \in 0 .. Len(digits) : sum[k] \in Int
<1> DEFINE n == Len(digits)
           T == {k \in 0 .. n : sum[k] \in Int}
<1>1. n \in Nat /\ \A k \in 1 .. n : digits[k] \in Int
  BY DEF Digit
<1>2. sum[0] = 0
  BY <1>1 DEF IsSum
<1>3. ASSUME NEW k \in 1 .. n
      PROVE  sum[k] = IF negative THEN 10 * sum[k - 1] - digits[k]
                      ELSE 10 * sum[k - 1] + digits[k]
  <2>1. k \in 0 .. Len(digits) /\ k # 0
    OBVIOUS
  <2> QED BY <2>1, Zenon DEF IsSum
<1>4. 0 \in T
  BY <1>1, <1>2
<1>5. ASSUME NEW k \in 1 .. n, k - 1 \in T
      PROVE  k \in T
  <2>1. sum[k - 1] \in Int /\ digits[k] \in Int /\ k \in 0 .. n
    BY <1>1, <1>5
  <2> QED BY <1>3, <2>1
<1>6. \A k \in 0 .. n : k \in T
  <2> HIDE DEF T, n
  <2> QED BY <1>1, <1>4, <1>5, InductionUpTo
<1> QED BY <1>2, <1>3, <1>6

LEMMA SumExists ==
    ASSUME NEW negative, NEW digits \in Seq(Digit)
    PROVE  \E sum : IsSum(sum, negative, digits)
<1> DEFINE n == Len(digits)
           next(k, x) == IF negative THEN 10 * x - digits[k] ELSE 10 * x + digits[k]
           step == [k \in 1 .. n |-> [x \in Int |-> next(k, x)]]
<1>1. n \in Nat /\ 0 \in Int /\ \A k \in 1 .. n : digits[k] \in Int
  BY DEF Digit
<1>2. step \in [1 .. n -> [Int -> Int]]
  BY <1>1
<1> HIDE DEF step, n
<1>3. PICK f : IsRecursion(f, Int, n, 0, step)
  BY <1>1, <1>2, RecursionExists
<1>4. ASSUME NEW k \in 1 .. n
      PROVE  f[k] = next(k, f[k - 1])
  <2>1. f[k - 1] \in Int
    BY <1>1, <1>3 DEF IsRecursion
  <2> QED BY <1>3, <2>1 DEF step, IsRecursion
<1>5. f = [k \in 0 .. n |-> IF k = 0 THEN 0 ELSE next(k, f[k - 1])]
  BY <1>1, <1>3, <1>4 DEF IsRecursion
<1> QED BY <1>5 DEF n, IsSum

LEMMA SumAppend ==
    ASSUME NEW negative, NEW digits \in Seq(Digit), NEW x \in Digit,
           NEW f, IsSum(f, negative, digits), NEW g, IsSum(g, negative, Append(digits, x))
    PROVE  g[Len(digits) + 1] = IF negative THEN 10 * f[Len(digits)] - x
                                ELSE 10 * f[Len(digits)] + x
<1> DEFINE n == Len(digits)
           longer == Append(digits, x)
           T == {k \in 0 .. n : f[k] = g[k]}
<1>1. /\ n \in Nat /\ longer \in Seq(Digit) /\ Len(longer) = n + 1 /\ longer[n + 1] = x
      /\ \A k \in 1 .. n : longer[k] = digits[k]
  OBVIOUS
<1>11. longer \in Seq(Digit) /\ IsSum(g, negative, longer)
  OBVIOUS
<1> HIDE DEF longer
<1>2. f[0] = 0 /\ g[0] = 0
  <2>1. f[0] = 0
    BY SumSteps
  <2>2. g[0] = 0
    BY <1>11, SumSteps
  <2> QED BY <2>1, <2>2
<1>3. ASSUME NEW k \in 1 .. n + 1
      PROVE  g[k] = IF negative THEN 10 * g[k - 1] - longer[k] ELSE 10 * g[k - 1] + longer[k]
  <2>1. \A j \in 1 .. Len(longer) :
           g[j] = IF negative THEN 10 * g[j - 1] - longer[j] ELSE 10 * g[j - 1] + longer[j]
    BY <1>11, SumSteps
  <2> QED BY <1>1, <2>1
<1>4. ASSUME NEW k \in 1 .. n
      PROVE  f[k] = IF negative THEN 10 * f[k - 1] - digits[k] ELSE 10 * f[k - 1] + digits[k]
  BY SumSteps
<1>5. 0 \in T
  BY <1>1, <1>2
<1>6. ASSUME NEW k \in 1 .. n, k - 1 \in T
      PROVE  k \in T
  <2>1. k \in 1 .. n + 1 /\ k \in 0 .. n
    BY <1>1
  <2> QED BY <1>1, <1>3, <1>4, <1>6, <2>1
<1>7. \A k \in 0 .. n : k \in T
  <2> HIDE DEF T, n
  <2> QED BY <1>1, <1>5, <1>6, InductionUpTo
<1>8. n \in 0 .. n /\ n + 1 \in 1 .. n + 1 /\ n + 1 - 1 = n
  BY <1>1
<1>9. g[n + 1] = IF negative THEN 10 * g[n] - x ELSE 10 * g[n] + x
  <2>1. g[n + 1] = IF negative THEN 10 * g[n + 1 - 1] - longer[n + 1]
                   ELSE 10 * g[n + 1 - 1] + longer[n + 1]
    BY <1>3, <1>8
  <2> QED BY <1>1, <1>8, <2>1
<1>10. f[n] = g[n]
  BY <1>7, <1>8
<1> QED BY <1>9, <1>10

\* The digits are written backwards, and reversed (std::reverse()).
LEMMA ReverseFirst ==
    ASSUME NEW S, NEW s \in Seq(S), NEW x \in S
    PROVE  Reverse(<<x>> \o s) = Append(Reverse(s), x)
<1> DEFINE u == <<x>>
           t == u \o s
           r == Reverse(t)
           e == Append(Reverse(s), x)
           n == Len(s)
<1>1. u \in Seq(S) /\ n \in Nat
  OBVIOUS
<1>2. Len(u) = 1 /\ u[1] = x
  OBVIOUS
<1>3. t \in Seq(S) /\ Len(t) = Len(u) + n
      /\ \A k \in 1 .. Len(u) + n : t[k] = IF k <= Len(u) THEN u[k] ELSE s[k - Len(u)]
  <2> HIDE DEF u
  <2> QED BY <1>1, ConcatProperties
<1> HIDE DEF u, t
<1>4. Len(t) = n + 1 /\ t[1] = x /\ \A k \in 1 .. n : t[k + 1] = s[k]
  BY <1>1, <1>2, <1>3
<1>5. r \in Seq(S) /\ Len(r) = n + 1 /\ \A k \in 1 .. n + 1 : r[k] = t[n + 1 - k + 1]
  BY <1>3, <1>4, ReverseIs
<1>6. Reverse(s) \in Seq(S) /\ Len(Reverse(s)) = n
      /\ \A k \in 1 .. n : Reverse(s)[k] = s[n - k + 1]
  BY ReverseIs
<1>7. e \in Seq(S) /\ Len(e) = n + 1 /\ e[n + 1] = x
      /\ \A k \in 1 .. n : e[k] = Reverse(s)[k]
  BY <1>6
<1> HIDE DEF r, e, n
<1>8. ASSUME NEW k \in 1 .. n + 1
      PROVE  r[k] = e[k]
  <2>1. CASE k = n + 1
    BY <1>1, <1>4, <1>5, <1>7, <2>1
  <2>2. CASE k # n + 1
    <3>1. k \in 1 .. n /\ n - k + 1 \in 1 .. n /\ n + 1 - k + 1 = n - k + 1 + 1
      BY <1>1, <2>2
    <3>2. t[n - k + 1 + 1] = s[n - k + 1] /\ r[k] = t[n + 1 - k + 1]
      BY <1>4, <1>5, <3>1
    <3>3. e[k] = s[n - k + 1]
      BY <1>6, <1>7, <3>1
    <3> QED BY <3>1, <3>2, <3>3
  <2> QED BY <2>1, <2>2
<1>9. r = e
  BY <1>5, <1>7, <1>8, SeqEqual
<1> QED BY <1>9 DEF r, e, t, u

\* The digits of a number denote it, for every number of any width.
LEMMA DigitsDenote ==
    ASSUME NEW d, IsDigits(d), NEW i \in Int, NEW sum, IsSum(sum, i < 0, Reverse(d[i]))
    PROVE  sum[Len(Reverse(d[i]))] = i
<1> DEFINE n == zero(i)
           Denoted(j) == \A f : IsSum(f, j < 0, Reverse(d[j])) => f[Len(Reverse(d[j]))] = j
           T == {k \in 0 .. n : \A j \in Ball(k) : Denoted(j)}
<1>1. ASSUME NEW j \in Int, Halved(j, 10) = 0
      PROVE  Denoted(j)
  <2> DEFINE digit == zero(Lsd(j, 10))
             s == Reverse(d[j])
  <2>1. digit \in Digit /\ (j < 0 => j = 0 - digit) /\ (j >= 0 => j = digit)
    <3>1. /\ digit \in Digit
          /\ j < 0 => j = 10 * Halved(j, 10) - digit
          /\ j >= 0 => j = 10 * Halved(j, 10) + digit
      BY HalvedIs
    <3> HIDE DEF digit
    <3> QED BY <1>1, <3>1 DEF Digit
  <2> HIDE DEF digit
  <2>2. d[j] = <<digit>>
    BY <1>1, DigitsType DEF DigitsFrom, digit
  <2>3. s \in Seq(Digit) /\ Len(s) = 1 /\ s[1] = digit
    BY <2>1, <2>2 DEF Reverse
  <2> HIDE DEF s
  <2>4. ASSUME NEW f, IsSum(f, j < 0, s)
        PROVE  f[1] = j
    <3>1. f[0] = 0
      BY <2>3, <2>4, SumSteps
    <3>2. f[1] = IF j < 0 THEN 10 * f[1 - 1] - s[1] ELSE 10 * f[1 - 1] + s[1]
      <4>1. 1 \in 1 .. Len(s)
        BY <2>3
      <4> DEFINE neg == j < 0
      <4>2. IsSum(f, neg, s)
        BY <2>4
      <4> HIDE DEF neg
      <4>3. f[1] = IF neg THEN 10 * f[1 - 1] - s[1] ELSE 10 * f[1 - 1] + s[1]
        BY <2>3, <4>1, <4>2, SumSteps
      <4> QED BY <4>3 DEF neg
    <3> QED BY <2>1, <2>3, <3>1, <3>2 DEF Digit
  <2> QED BY <2>3, <2>4 DEF s
<1>2. ASSUME NEW j \in Int, Halved(j, 10) # 0, Denoted(Halved(j, 10))
      PROVE  Denoted(j)
  <2> DEFINE digit == zero(Lsd(j, 10))
             h == Halved(j, 10)
             s == Reverse(d[h])
             negative == j < 0
  <2>1. /\ digit \in Digit /\ h \in Int /\ (h < 0) = negative
        /\ negative => j = 10 * h - digit
        /\ ~ negative => j = 10 * h + digit
    <3>1. /\ digit \in Digit /\ h \in Int /\ h # 0
          /\ j < 0 => h <= 0 /\ j = 10 * h - digit
          /\ j >= 0 => h >= 0 /\ j = 10 * h + digit
      BY <1>2, HalvedIs
    <3> HIDE DEF digit, h
    <3>2. h < 0 <=> j < 0
      BY <3>1
    <3>3. (h < 0) = (j < 0)
      BY <3>2
    <3> QED BY <3>1, <3>3
  <2> HIDE DEF digit, h
  <2>2. d[h] \in Seq(Digit)
    BY <2>1, DigitsType
  <2>3. d[j] = <<digit>> \o d[h]
    BY <1>2, DigitsType DEF DigitsFrom, digit, h
  <2>4. Reverse(d[j]) = Append(s, digit) /\ s \in Seq(Digit)
    BY <2>1, <2>2, <2>3, ReverseFirst, ReverseIs
  <2>5. Len(Reverse(d[j])) = Len(s) + 1
    BY <2>4
  <2>6. \A f : IsSum(f, negative, s) => f[Len(s)] = h
    BY <1>2, <2>1, Zenon DEF h
  <2> HIDE DEF s, negative
  <2>7. ASSUME NEW g, IsSum(g, negative, Append(s, digit))
        PROVE  g[Len(s) + 1] = j
    <3>1. PICK f : IsSum(f, negative, s)
      BY <2>4, SumExists
    <3>2. f[Len(s)] = h
      BY <2>6, <3>1
    <3>3. g[Len(s) + 1] = IF negative THEN 10 * f[Len(s)] - digit ELSE 10 * f[Len(s)] + digit
      BY <2>1, <2>4, <2>7, <3>1, SumAppend
    <3> QED BY <2>1, <3>2, <3>3
  <2> QED BY <2>4, <2>5, <2>7 DEF negative
<1>3. ASSUME NEW k \in 0 .. n, NEW j \in Ball(k), Halved(j, 10) # 0 => Denoted(Halved(j, 10))
      PROVE  Denoted(j)
  <2>1. j \in Int
    BY DEF Ball
  <2> HIDE DEF Denoted
  <2> QED BY <1>1, <1>2, <1>3, <2>1
<1> HIDE DEF Denoted
<1>4. 0 \in T
  <2>1. 0 \in 0 .. n /\ 0 \in Nat
    BY HalvedIs
  <2>2. ASSUME NEW j \in Ball(0)
        PROVE  Denoted(j)
    <3>1. Halved(j, 10) = 0
      BY <2>1, BallHalved
    <3> QED BY <1>3, <2>1, <3>1
  <2> QED BY <2>1, <2>2
<1>5. ASSUME NEW k \in 1 .. n, k - 1 \in T
      PROVE  k \in T
  <2>1. k \in 0 .. n /\ k \in Nat
    BY HalvedIs
  <2>2. ASSUME NEW j \in Ball(k)
        PROVE  Denoted(j)
    <3>1. Halved(j, 10) # 0 => Halved(j, 10) \in Ball(k - 1)
      BY <2>1, BallHalved
    <3> QED BY <1>3, <1>5, <2>1, <3>1
  <2> QED BY <2>1, <2>2
<1>6. n \in Nat /\ n \in 0 .. n /\ i \in Ball(n)
  BY HalvedIs DEF Ball
<1>7. n \in T
  <2>1. \A k \in 0 .. n : k \in T
    <3> HIDE DEF T, n
    <3> QED BY <1>4, <1>5, <1>6, InductionUpTo
  <2> QED BY <1>6, <2>1
<1>8. Denoted(i)
  BY <1>6, <1>7
<1> QED BY <1>8 DEF Denoted

\* Ten times larger numbers have a digit more.
LEMMA OneDigitMore ==
    ASSUME NEW d, IsDigits(d), NEW b \in Nat, NEW k \in Nat,
           \A j \in Int : zero(j) <= b => Len(d[j]) <= k
    PROVE  \A j \in Int : zero(j) <= 10 * b + 9 => Len(d[j]) <= k + 1
<1> SUFFICES ASSUME NEW j \in Int, zero(j) <= 10 * b + 9
             PROVE  Len(d[j]) <= k + 1
  OBVIOUS
<1> DEFINE digit == zero(Lsd(j, 10))
           h == Halved(j, 10)
<1>1. /\ digit \in Digit /\ h \in Int
      /\ j < 0 => h <= 0 /\ j = 10 * h - digit
      /\ j >= 0 => h >= 0 /\ j = 10 * h + digit
  BY HalvedIs
<1>2. d[j] = DigitsFrom(d, j)
  BY DigitsType
<1>3. CASE h = 0
  <2>1. d[j] = <<digit>>
    BY <1>2, <1>3 DEF DigitsFrom
  <2> HIDE DEF digit
  <2> QED BY <2>1
<1>4. CASE h # 0
  <2>1. d[j] = <<digit>> \o d[h]
    BY <1>2, <1>4 DEF DigitsFrom
  <2> HIDE DEF digit, h
  <2>2. d[h] \in Seq(Digit)
    BY <1>1, DigitsType
  <2>3. Len(d[j]) = Len(<<digit>>) + Len(d[h])
    BY <1>1, <2>1, <2>2, ConcatProperties
  <2>4. zero(h) <= b
    BY <1>1 DEF zero, Digit
  <2>5. Len(d[h]) <= k
    BY <1>1, <2>4
  <2>6. Len(<<digit>>) = 1 /\ Len(d[h]) \in Nat
    BY <2>2
  <2> QED BY <2>3, <2>5, <2>6
<1> QED BY <1>3, <1>4

\* The absolute value of the smallest int.
LargestMagnitude == 2147483648

\* So an int has ten at most.
LEMMA TenDigits ==
    ASSUME NEW d, IsDigits(d), NEW i \in Int, zero(i) <= LargestMagnitude
    PROVE  Len(d[i]) <= 10
<1> DEFINE AtMost(b, k) == \A j \in Int : zero(j) <= b => Len(d[j]) <= k
<1>1. ASSUME NEW j \in Int, zero(j) <= 9
      PROVE  Len(d[j]) <= 1
  <2> DEFINE h == Halved(j, 10)
             digit == zero(Lsd(j, 10))
  <2>3. /\ digit \in Digit /\ h \in Int
        /\ j < 0 => h <= 0 /\ j = 10 * h - digit
        /\ j >= 0 => h >= 0 /\ j = 10 * h + digit
    BY HalvedIs
  <2>1. h = 0
    <3> HIDE DEF h, digit
    <3> QED BY <1>1, <2>3 DEF zero, Digit
  <2>2. d[j] = <<zero(Lsd(j, 10))>>
    BY <2>1, DigitsType DEF DigitsFrom
  <2> QED BY <2>2
<1>2. AtMost(9, 1)
  BY <1>1
<1>3. \A b, k \in Nat : AtMost(b, k) => AtMost(10 * b + 9, k + 1)
  BY OneDigitMore
<1> HIDE DEF AtMost
<1>4. AtMost(99, 2)
  BY <1>2, <1>3, SMT
<1>5. AtMost(999, 3)
  BY <1>4, <1>3, SMT
<1>6. AtMost(9999, 4)
  BY <1>5, <1>3, SMT
<1>7. AtMost(99999, 5)
  BY <1>6, <1>3, SMT
<1>8. AtMost(999999, 6)
  BY <1>7, <1>3, SMT
<1>9. AtMost(9999999, 7)
  BY <1>8, <1>3, SMT
<1>10. AtMost(99999999, 8)
  BY <1>9, <1>3, SMT
<1>11. AtMost(999999999, 9)
  BY <1>10, <1>3, SMT
<1>12. AtMost(9999999999, 10)
  BY <1>11, <1>3, SMT
<1>13. zero(i) \in Nat
  BY HalvedIs
<1>14. LargestMagnitude \in Nat /\ zero(i) <= 9999999999
  BY <1>13, SMT DEF LargestMagnitude
<1> QED BY <1>12, <1>14, SMT DEF AtMost

\* The digits that convert() writes for an int denote it, the smallest
\* included, without a leading zero, and with the sign and the terminator they
\* fit in twelve bytes (asynlog: LogStream's convert()).
THEOREM IntegersAreWrittenAlways == Queries => []IntegersAreWritten
<1>1. ASSUME Asked, query.of = "integer"
      PROVE  IntegersAreWritten
  <2> DEFINE d == CHOOSE f : IsDigits(f)
             v == query.v
             text == convert(v)
             digits == Reverse(d[v])
             n == Len(text.digits)
             sum == CHOOSE f : IsSum(f, text.negative, text.digits)
  <2>1. v \in Numbers
    BY <1>1 DEF Asked, Nothing
  <2>2. v \in Int /\ zero(v) <= LargestMagnitude
    <3> HIDE DEF v
    <3>1. v \in Int
      BY <2>1, NumbersAssumption, SMT
    <3>2. 0 - 2147483647 - 1 <= v
      BY <2>1, NumbersAssumption, SMT
    <3>3. v <= 2147483647
      BY <2>1, NumbersAssumption, SMT
    <3> QED BY <3>1, <3>2, <3>3, SMT DEF zero, LargestMagnitude
  <2>3. IsDigits(d)
    BY DigitsExist
  <2>4. LoopDigits(10) = d
    BY Zenon DEF LoopDigits, IsDigits
  <2> HIDE DEF d, v
  <2>5. text.negative = (v < 0) /\ text.digits = digits
    BY <2>4 DEF convert
  <2>6. /\ d[v] \in Seq(Digit) /\ Len(d[v]) >= 1 /\ Len(d[v]) <= 10
        /\ d[v][Len(d[v])] = 0 => Len(d[v]) = 1
    BY <2>2, <2>3, DigitsType, TenDigits, SMT
  <2>7. /\ digits \in Seq(Digit) /\ Len(digits) = Len(d[v])
        /\ digits[1] = d[v][Len(d[v])]
    <3>1. digits \in Seq(Digit) /\ Len(digits) = Len(d[v])
          /\ \A k \in 1 .. Len(d[v]) : digits[k] = d[v][Len(d[v]) - k + 1]
      BY <2>6, ReverseIs
    <3>2. 1 \in 1 .. Len(d[v]) /\ Len(d[v]) - 1 + 1 = Len(d[v])
      BY <2>6
    <3> QED BY <3>1, <3>2
  <2>8. \E f : IsSum(f, text.negative, text.digits)
    <3> HIDE DEF text, digits
    <3> QED BY <2>5, <2>7, SumExists
  <2>9. IsSum(sum, text.negative, text.digits)
    <3> HIDE DEF text
    <3> QED BY <2>8
  <2> HIDE DEF sum
  <2>10. sum[n] = v
    <3> HIDE DEF text
    <3> QED BY <2>2, <2>3, <2>5, <2>9, DigitsDenote
  <2>11. n >= 1 /\ n + 2 <= 12 /\ (n > 1 => text.digits[1] # 0)
    <3> HIDE DEF text, digits
    <3> QED BY <2>5, <2>6, <2>7
  <2> QED BY <2>10, <2>11, Zenon DEF IntegersAreWritten, IsSum, sum, v
<1>2. Asked => IntegersAreWritten
  BY <1>1 DEF IntegersAreWritten
<1> QED BY <1>2, QueriesAsked, PTL

-----------------------------------------------------------------------------
(* Time zones: files *)

IsZoneFile(file) ==
    /\ file.types \in Seq(LocalTypes) /\ file.types # <<>>
    /\ file.times \in Seq(Int)
    /\ file.indices \in [DOMAIN file.times -> DOMAIN file.types]

\* The first n elements, when there are as many.
LEMMA FrontOf ==
    ASSUME NEW S, NEW s \in Seq(S), NEW n \in Int, n <= Len(s)
    PROVE  /\ SubSeq(s, 1, n) \in Seq(S)
           /\ n >= 0 => Len(SubSeq(s, 1, n)) = n
           /\ n <= 0 => SubSeq(s, 1, n) = <<>>
           /\ n > 0 => SubSeq(s, 1, n) # <<>>
           /\ \A k \in 1 .. n : SubSeq(s, 1, n)[k] = s[k]
           /\ IsPrefix(SubSeq(s, 1, n), s)
<1> DEFINE t == SubSeq(s, 1, n)
<1>1. t \in Seq(S)
  <2>1. \A k \in 1 .. n : s[k] \in S
    OBVIOUS
  <2> QED BY <2>1
<1>2. CASE n <= 0
  <2>1. t = <<>>
    BY <1>2
  <2>2. SubSeq(<<>>, 1, 0) = SubSeq(s, 1, 0) /\ Len(<<>>) = 0 /\ 0 <= Len(s)
    OBVIOUS
  <2>3. IsPrefix(<<>>, s)
    BY <2>2 DEF IsPrefix
  <2>4. \A k \in 1 .. n : t[k] = s[k]
    BY <1>2
  <2>5. n >= 0 => n = 0
    BY <1>2
  <2>6. IsPrefix(t, s)
    <3> HIDE DEF t
    <3> QED BY <2>1, <2>3
  <2>7. n >= 0 => Len(t) = n
    <3> HIDE DEF t
    <3> QED BY <2>1, <2>2, <2>5
  <2> QED BY <1>1, <1>2, <2>1, <2>4, <2>6, <2>7
<1>3. CASE n > 0
  <2>1. Len(t) = n /\ \A k \in 1 .. n : t[k] = s[k]
    BY <1>3
  <2> HIDE DEF t
  <2>2. t # <<>>
    BY <1>1, <1>3, <2>1
  <2>3. SubSeq(t, 1, n) = t
    BY <1>1, <1>3, <2>1
  <2>4. IsPrefix(t, s)
    <3>1. SubSeq(t, 1, n) = SubSeq(s, 1, n)
      BY <2>3 DEF t
    <3> QED BY <2>1, <3>1 DEF IsPrefix
  <2> QED BY <1>1, <1>3, <2>1, <2>2, <2>4 DEF t
<1> QED BY <1>2, <1>3

\* A file is read whole, with its types and its transitions, or its types
\* are cut and there are no transitions.
LEMMA ReadTables ==
    ASSUME NEW file, IsZoneFile(file), NEW reads \in Nat
    PROVE  LET data == readTimeZoneFile(file, reads)
               n == Len(file.times)
           IN  /\ data.localtimes = <<>> <=> reads < 1 + 2 * n + 3
               /\ IsPrefix(data.localtimes, file.types)
               /\ data.localtimes # <<>> => data.localtimes[1] = file.types[1]
               /\ AllTypesRead(file, reads) =>
                    /\ data.localtimes = file.types
                    /\ data.transitions = [k \in 1 .. n |->
                          Transition(file.types, file.times[k], file.indices[k])]
               /\ ~ AllTypesRead(file, reads) => data.transitions = <<>>
<1> DEFINE data == readTimeZoneFile(file, reads)
           n == Len(file.times)
           m == Len(file.types)
           t == TypesRead(file, reads)
           all == AllTypesRead(file, reads)
           front == IF all THEN m ELSE t
<1>1. n \in Nat /\ m \in Nat /\ m >= 1
  BY DEF IsZoneFile
<1>2. t = (reads - 1 - 2 * n) \div 3
  BY DEF TypesRead
<1> HIDE DEF n, m
<1>3. t \in Int /\ (t >= 1 <=> reads >= 1 + 2 * n + 3)
  BY <1>1, <1>2
<1>4. all <=> t >= m
  BY DEF AllTypesRead, m
<1>5. data.localtimes = SubSeq(file.types, 1, front)
  BY Zenon DEF readTimeZoneFile, m
<1>6. data.transitions = [k \in 1 .. IF all THEN n ELSE 0 |->
                            Transition(file.types, file.times[k], file.indices[k])]
  BY Zenon DEF readTimeZoneFile, n
<1> HIDE DEF data, t, all
<1>7. front \in Int /\ front <= Len(file.types) /\ (front >= 1 <=> t >= 1)
  BY <1>1, <1>3, <1>4 DEF m
<1> HIDE DEF front
<1>8. /\ file.types \in Seq(LocalTypes)
      /\ data.localtimes = <<>> <=> t < 1
      /\ IsPrefix(data.localtimes, file.types)
      /\ t >= 1 => data.localtimes[1] = file.types[1]
  <2>1. file.types \in Seq(LocalTypes)
    BY DEF IsZoneFile
  <2> DEFINE sub == SubSeq(file.types, 1, front)
  <2>2. /\ front <= 0 => sub = <<>>
        /\ front > 0 => sub # <<>>
        /\ \A k \in 1 .. front : sub[k] = file.types[k]
        /\ IsPrefix(sub, file.types)
    BY <1>7, <2>1, FrontOf
  <2> HIDE DEF sub
  <2>3. data.localtimes = sub
    BY <1>5 DEF sub
  <2> QED BY <1>3, <1>7, <2>1, <2>2, <2>3
<1>9. data.localtimes = <<>> <=> reads < 1 + 2 * n + 3
  BY <1>1, <1>3, <1>8
<1>10. all => data.localtimes = file.types
  <2>1. ASSUME all PROVE SubSeq(file.types, 1, m) = file.types
    BY <1>8 DEF m
  <2> QED BY <1>5, <2>1 DEF front
<1>11. ~ all => data.transitions = <<>>
  <2>1. ASSUME ~ all
        PROVE  data.transitions = [k \in 1 .. 0 |->
                            Transition(file.types, file.times[k], file.indices[k])]
    BY <1>6, <2>1
  <2> QED BY <2>1
<1>12. all => data.transitions = [k \in 1 .. n |->
                            Transition(file.types, file.times[k], file.indices[k])]
  BY <1>6
<1>13. data.localtimes # <<>> => data.localtimes[1] = file.types[1]
  BY <1>3, <1>8
<1> QED BY <1>8, <1>9, <1>10, <1>11, <1>12, <1>13 DEF data, n, all

\* The whole file.
LEMMA WholeFile ==
    ASSUME NEW file, IsZoneFile(file)
    PROVE  ZoneReads(file) \in Nat /\ AllTypesRead(file, ZoneReads(file))
<1> DEFINE n == Len(file.times)
           m == Len(file.types)
<1>1. n \in Nat /\ m \in Nat
  BY DEF IsZoneFile
<1> HIDE DEF n, m
<1>2. (1 + 2 * n + 3 * m + 1 - 1 - 2 * n) \div 3 >= m
  BY <1>1
<1>3. ZoneReads(file) = 1 + 2 * n + 3 * m + 1
  BY DEF ZoneReads, n, m
<1>4. ZoneReads(file) \in Nat
  BY <1>1, <1>3
<1>5. TypesRead(file, ZoneReads(file)) = (1 + 2 * n + 3 * m + 1 - 1 - 2 * n) \div 3
  <2>1. TypesRead(file, ZoneReads(file)) = (ZoneReads(file) - 1 - 2 * n) \div 3
    BY DEF TypesRead, n
  <2> QED BY <1>1, <1>3, <2>1
<1> QED BY <1>2, <1>4, <1>5 DEF AllTypesRead, m

\* Without transitions there is only the first type to convert by.
LEMMA OnlyFirstType ==
    ASSUME NEW data, data.transitions = <<>>, NEW t \in Int
    PROVE  findLocaltime(data, "gmttime", t) = data.localtimes[1]
BY DEF findLocaltime

\* A time is converted as by the whole file, or by its first type.
LEMMA ConvertedByPart ==
    ASSUME NEW file, IsZoneFile(file), NEW reads \in Nat, NEW t \in Int,
           readTimeZoneFile(file, reads).localtimes # <<>>
    PROVE  toLocalTime(readTimeZoneFile(file, reads), t).seconds - t \in
             {file.types[1].gmtOffset,
              toLocalTime(readTimeZoneFile(file, ZoneReads(file)), t).seconds - t}
<1> DEFINE data == readTimeZoneFile(file, reads)
           whole == readTimeZoneFile(file, ZoneReads(file))
<1>1. CASE AllTypesRead(file, reads)
  <2>1. data = whole
    <3>1. AllTypesRead(file, ZoneReads(file))
      BY WholeFile
    <3> QED BY <1>1, <3>1 DEF readTimeZoneFile
  <2> QED BY <2>1
<1>2. CASE ~ AllTypesRead(file, reads)
  <2>1. data.transitions = <<>> /\ data.localtimes[1] = file.types[1]
    BY <1>2, ReadTables
  <2>2. file.types[1].gmtOffset \in Int
    <3>1. file.types[1] \in LocalTypes
      BY DEF IsZoneFile
    <3> QED BY <3>1 DEF LocalTypes
  <2> HIDE DEF data
  <2>3. findLocaltime(data, "gmttime", t) = file.types[1]
    BY <2>1, OnlyFirstType
  <2>4. toLocalTime(data, t).seconds = t + file.types[1].gmtOffset
    BY <2>3 DEF toLocalTime
  <2>5. toLocalTime(data, t).seconds - t = file.types[1].gmtOffset
    BY <2>2, <2>4
  <2> QED BY <2>5 DEF data
<1> QED BY <1>1, <1>2

\* Wherever a zone's file is cut off, each transition that was read has the
\* local time of the offset it was written with, and a time is converted as by
\* the whole file or by its first type (readTimeZoneFile(), findLocaltime()).
THEOREM TablesAsWrittenAlways == Queries => []TablesAsWritten
<1>1. ASSUME Asked, query.of = "zone"
      PROVE  TablesAsWritten
  <2> DEFINE file == query.file
             reads == query.reads
             data == readTimeZoneFile(file, reads)
  <2>1. file \in ZoneFiles /\ reads \in 0 .. ZoneReads(file)
    BY <1>1 DEF Asked, Nothing
  <2>2. IsZoneFile(file)
    BY <2>1, ZonesAssumption DEF IsZoneFile
  <2> HIDE DEF file, reads
  <2>3. reads \in Nat
    BY <2>1
  <2>4. /\ data.localtimes = <<>> <=> reads < 1 + 2 * Len(file.times) + 3
        /\ IsPrefix(data.localtimes, file.types)
        /\ AllTypesRead(file, reads) =>
             /\ data.localtimes = file.types
             /\ data.transitions = [k \in 1 .. Len(file.times) |->
                   Transition(file.types, file.times[k], file.indices[k])]
        /\ ~ AllTypesRead(file, reads) => data.transitions = <<>>
    BY <2>2, <2>3, ReadTables
  <2>5. data.localtimes # <<>> => \A t \in Moments :
             toLocalTime(data, t).seconds - t \in
                 {file.types[1].gmtOffset,
                  toLocalTime(readTimeZoneFile(file, ZoneReads(file)), t).seconds - t}
    <3>1. \A t \in Moments : t \in Int
      BY ZonesAssumption
    <3> QED BY <2>2, <2>3, <3>1, ConvertedByPart
  <2> HIDE DEF data
  <2>6. ASSUME NEW k \in DOMAIN data.transitions
        PROVE  LET t == data.transitions[k]
               IN  /\ t.localtimeIdx \in DOMAIN data.localtimes
                   /\ t.localtime = file.times[k] + data.localtimes[t.localtimeIdx].gmtOffset
    <3>1. AllTypesRead(file, reads)
      BY <2>4
    <3>2. k \in 1 .. Len(file.times) /\ data.localtimes = file.types
      BY <2>4, <3>1
    <3>3. data.transitions[k] = Transition(file.types, file.times[k], file.indices[k])
      BY <2>4, <3>1, <3>2
    <3>4. file.indices[k] \in DOMAIN file.types
      BY <2>2, <3>2 DEF IsZoneFile
    <3> QED BY <3>2, <3>3, <3>4 DEF Transition
  <2> QED BY <2>4, <2>5, <2>6, Zenon DEF TablesAsWritten, data, file, reads
<1>2. Asked => TablesAsWritten
  BY <1>1 DEF TablesAsWritten
<1> QED BY <1>2, QueriesAsked, PTL

-----------------------------------------------------------------------------
(* Time zones: local time *)

Standard(zone) == zone.localtimes[1].gmtOffset

\* The offset after k changes.
OffsetAfter(zone, k) == IF k % 2 = 1 THEN Standard(zone) + 3600 ELSE Standard(zone)

TimeOf(zone, key, k) == zone.transitions[k][key]

\* t comes after k changes, in the order of key.
ChangesBefore(zone, key, t, k) ==
    /\ k \in 0 .. Len(zone.transitions)
    /\ k >= 1 => TimeOf(zone, key, k) <= t
    /\ k < Len(zone.transitions) => TimeOf(zone, key, k + 1) > t

\* What a zone of ZonesAssumption is, field by field.
LEMMA ZoneIs ==
    ASSUME NEW zone, Alternates(zone)
    PROVE  /\ Len(zone.transitions) \in Nat /\ Standard(zone) \in Int
           /\ DOMAIN zone.transitions = 1 .. Len(zone.transitions)
           /\ zone.transitions = <<>> <=> Len(zone.transitions) = 0
           /\ zone.localtimes[2].gmtOffset = Standard(zone) + 3600
           /\ ~ zone.localtimes[1].isDst /\ zone.localtimes[2].isDst
           /\ \A k \in 1 .. Len(zone.transitions) :
                /\ TimeOf(zone, "gmttime", k) \in Int
                /\ zone.transitions[k].localtimeIdx = 1 + (k % 2)
                /\ TimeOf(zone, "localtime", k) =
                      TimeOf(zone, "gmttime", k) + OffsetAfter(zone, k)
                /\ k > 1 => TimeOf(zone, "gmttime", k) - TimeOf(zone, "gmttime", k - 1) > 7200
<1> DEFINE shifts == zone.transitions
           n == Len(shifts)
           R == [gmttime : Int, localtime : Int, localtimeIdx : {1, 2}]
<1>1. /\ shifts \in Seq(R)
      /\ \A k \in DOMAIN shifts :
           /\ shifts[k] = Transition(zone.localtimes, shifts[k].gmttime, 1 + (k % 2))
           /\ k > 1 => shifts[k].gmttime - shifts[k - 1].gmttime > 7200
  BY DEF Alternates
<1>2. /\ zone.localtimes \in Seq(LocalTypes) /\ Len(zone.localtimes) = 2
      /\ zone.localtimes[2].gmtOffset = zone.localtimes[1].gmtOffset + 3600
      /\ ~ zone.localtimes[1].isDst /\ zone.localtimes[2].isDst
  BY DEF Alternates
<1>3. zone.localtimes[1].gmtOffset \in Int
  <2>1. zone.localtimes[1] \in LocalTypes
    BY <1>2
  <2> QED BY <2>1 DEF LocalTypes
<1>4. n \in Nat /\ DOMAIN shifts = 1 .. n /\ (shifts = <<>> <=> n = 0)
  BY <1>1
<1>5. ASSUME NEW k \in 1 .. n
      PROVE  /\ shifts[k].gmttime \in Int
             /\ shifts[k].localtimeIdx = 1 + (k % 2)
             /\ shifts[k].localtime = shifts[k].gmttime + OffsetAfter(zone, k)
             /\ k > 1 => shifts[k].gmttime - shifts[k - 1].gmttime > 7200
  <2> DEFINE g == shifts[k].gmttime
  <2>1. shifts[k] \in R
    <3>1. shifts \in Seq(R) /\ k \in 1 .. Len(shifts)
      BY <1>1
    <3> HIDE DEF R, shifts
    <3> QED BY <3>1
  <2>2. g \in Int
    BY <2>1
  <2>3. shifts[k] = Transition(zone.localtimes, g, 1 + (k % 2))
    <3>1. k \in DOMAIN shifts
      BY <1>4
    <3>2. shifts[k] = Transition(zone.localtimes, shifts[k].gmttime, 1 + (k % 2))
      <4>1. \A i \in DOMAIN shifts :
               shifts[i] = Transition(zone.localtimes, shifts[i].gmttime, 1 + (i % 2))
        BY <1>1
      <4> HIDE DEF shifts
      <4> QED BY <3>1, <4>1, Zenon
    <3> QED BY <3>2
  <2> HIDE DEF g
  <2>4. shifts[k].localtimeIdx = 1 + (k % 2)
        /\ shifts[k].localtime = g + zone.localtimes[1 + (k % 2)].gmtOffset
    BY <2>3 DEF Transition
  <2>5. zone.localtimes[1 + (k % 2)].gmtOffset = OffsetAfter(zone, k)
    <3>1. k % 2 = 1 \/ k % 2 = 0
      BY <1>4
    <3>2. CASE k % 2 = 1
      BY <1>2, <3>2 DEF OffsetAfter, Standard
    <3>3. CASE k % 2 = 0
      BY <1>2, <3>3 DEF OffsetAfter, Standard
    <3> QED BY <3>1, <3>2, <3>3
  <2>6. k > 1 => shifts[k].gmttime - shifts[k - 1].gmttime > 7200
    <3>1. k \in DOMAIN shifts
      BY <1>4
    <3>2. \A i \in DOMAIN shifts : i > 1 => shifts[i].gmttime - shifts[i - 1].gmttime > 7200
      BY <1>1
    <3> HIDE DEF shifts, n
    <3> QED BY <3>1, <3>2
  <2> QED BY <2>2, <2>4, <2>5, <2>6 DEF g
<1> QED BY <1>2, <1>3, <1>4, <1>5 DEF Standard, TimeOf

\* The changes are in order of time, of local time as well.
LEMMA ChangesInOrder ==
    ASSUME NEW zone, Alternates(zone), NEW key \in {"gmttime", "localtime"}
    PROVE  /\ \A k \in 1 .. Len(zone.transitions) : TimeOf(zone, key, k) \in Int
           /\ \A k \in 2 .. Len(zone.transitions) :
                 TimeOf(zone, key, k - 1) < TimeOf(zone, key, k)
<1> DEFINE n == Len(zone.transitions)
           g(k) == TimeOf(zone, "gmttime", k)
           local(k) == TimeOf(zone, "localtime", k)
<1>1. /\ n \in Nat /\ Standard(zone) \in Int
      /\ \A k \in 1 .. n : /\ g(k) \in Int /\ local(k) = g(k) + OffsetAfter(zone, k)
                           /\ k > 1 => g(k) - g(k - 1) > 7200
  BY ZoneIs
<1> HIDE DEF n, g, local
<1>2. ASSUME NEW k \in 1 .. n
      PROVE  OffsetAfter(zone, k) \in {Standard(zone), Standard(zone) + 3600}
  BY DEF OffsetAfter
<1>3. \A k \in 1 .. n : local(k) \in Int
  BY <1>1, <1>2
<1>4. ASSUME NEW k \in 2 .. n
      PROVE  g(k - 1) < g(k) /\ local(k - 1) < local(k)
  <2>1. k \in 1 .. n /\ k - 1 \in 1 .. n /\ k > 1
    BY <1>1
  <2>2. /\ g(k) \in Int /\ g(k - 1) \in Int /\ g(k) - g(k - 1) > 7200
        /\ local(k) = g(k) + OffsetAfter(zone, k)
        /\ local(k - 1) = g(k - 1) + OffsetAfter(zone, k - 1)
    BY <1>1, <2>1
  <2>3. /\ OffsetAfter(zone, k) \in {Standard(zone), Standard(zone) + 3600}
        /\ OffsetAfter(zone, k - 1) \in {Standard(zone), Standard(zone) + 3600}
    BY <1>2, <2>1
  <2> QED BY <1>1, <2>2, <2>3
<1>5. CASE key = "gmttime"
  BY <1>1, <1>4, <1>5 DEF n, g
<1>6. CASE key = "localtime"
  BY <1>3, <1>4, <1>6 DEF n, local
<1> QED BY <1>5, <1>6

LEMMA ChangesMonotone ==
    ASSUME NEW zone, Alternates(zone), NEW key \in {"gmttime", "localtime"},
           NEW j \in 1 .. Len(zone.transitions), NEW k \in 1 .. Len(zone.transitions), j <= k
    PROVE  TimeOf(zone, key, j) <= TimeOf(zone, key, k)
<1> DEFINE n == Len(zone.transitions)
           g(i) == TimeOf(zone, key, i)
           T == {i \in 0 .. k - j : g(j) <= g(j + i)}
<1>1. n \in Nat /\ (\A i \in 1 .. n : g(i) \in Int) /\ \A i \in 2 .. n : g(i - 1) < g(i)
  BY ZoneIs, ChangesInOrder
<1> HIDE DEF g
<1>2. k - j \in Nat /\ 0 \in 0 .. k - j /\ k - j \in 0 .. k - j
  BY <1>1
<1>3. 0 \in T
  BY <1>1, <1>2
<1>4. ASSUME NEW i \in 1 .. k - j, i - 1 \in T
      PROVE  i \in T
  <2>1. g(j) <= g(j + (i - 1))
    BY <1>4
  <2>2. i \in 0 .. k - j /\ j + i \in 2 .. n /\ j + (i - 1) = j + i - 1 /\ j + i - 1 \in 1 .. n
        /\ j + i \in 1 .. n
    BY <1>1
  <2>3. g(j + i - 1) < g(j + i) /\ g(j + i - 1) \in Int /\ g(j + i) \in Int /\ g(j) \in Int
    BY <1>1, <2>2
  <2> QED BY <2>1, <2>2, <2>3
<1>5. \A i \in 0 .. k - j : i \in T
  <2> HIDE DEF T
  <2> QED BY <1>2, <1>3, <1>4, InductionUpTo
<1>6. k - j \in T /\ j + (k - j) = k
  <2>1. k - j \in T
    BY <1>2, <1>5, Zenon
  <2> QED BY <1>1, <2>1
<1>7. g(j) <= g(k)
  <2>1. g(j) <= g(j + (k - j))
    BY <1>6, Zenon
  <2> QED BY <1>6, <2>1
<1> QED BY <1>7 DEF g

\* A time comes after one number of changes, and after no other.
LEMMA AfterSome ==
    ASSUME NEW zone, Alternates(zone), NEW key \in {"gmttime", "localtime"}, NEW t \in Int
    PROVE  \E k : ChangesBefore(zone, key, t, k)
<1> DEFINE n == Len(zone.transitions)
           g(k) == TimeOf(zone, key, k)
           Upto(m, k) == k \in 0 .. m /\ (k >= 1 => g(k) <= t) /\ (k < m => g(k + 1) > t)
           T == {m \in 0 .. n : \E k : Upto(m, k)}
<1>1. n \in Nat /\ 0 \in 0 .. n /\ n \in 0 .. n /\ \A k \in 1 .. n : g(k) \in Int
  BY ZoneIs, ChangesInOrder
<1> HIDE DEF g
<1>2. 0 \in T
  <2>1. Upto(0, 0)
    OBVIOUS
  <2> HIDE DEF Upto
  <2> QED BY <1>1, <2>1
<1>3. ASSUME NEW m \in 1 .. n, m - 1 \in T
      PROVE  m \in T
  <2>1. PICK k : Upto(m - 1, k)
    BY <1>3
  <2>2. m \in 0 .. n /\ g(m) \in Int
    BY <1>1
  <2>3. CASE g(m) <= t
    <3>1. Upto(m, m)
      BY <2>3
    <3> HIDE DEF Upto
    <3> QED BY <2>2, <3>1
  <2>4. CASE ~ g(m) <= t
    <3>1. k \in 0 .. m /\ (k < m => k < m - 1 \/ k + 1 = m)
      BY <2>1
    <3>2. g(m) > t
      BY <2>2, <2>4
    <3>3. Upto(m, k)
      BY <2>1, <3>1, <3>2
    <3> HIDE DEF Upto
    <3> QED BY <2>2, <3>3
  <2> QED BY <2>3, <2>4
<1>4. n \in T
  <2>1. \A m \in 0 .. n : m \in T
    <3> HIDE DEF T, n
    <3> QED BY <1>1, <1>2, <1>3, InductionUpTo
  <2> QED BY <1>1, <2>1
<1>5. PICK k : Upto(n, k)
  BY <1>4
<1>6. ChangesBefore(zone, key, t, k)
  BY <1>5 DEF ChangesBefore, g
<1> QED BY <1>6

LEMMA AfterOnly ==
    ASSUME NEW zone, Alternates(zone), NEW key \in {"gmttime", "localtime"}, NEW t \in Int,
           NEW j, ChangesBefore(zone, key, t, j), NEW k, ChangesBefore(zone, key, t, k)
    PROVE  j = k
<1> DEFINE n == Len(zone.transitions)
           g(i) == TimeOf(zone, key, i)
<1>1. n \in Nat /\ \A i \in 1 .. n : g(i) \in Int
  BY ZoneIs, ChangesInOrder
<1>2. \A a, b \in 1 .. n : a <= b => g(a) <= g(b)
  BY ChangesMonotone
<1>3. /\ j \in 0 .. n /\ (j >= 1 => g(j) <= t) /\ (j < n => g(j + 1) > t)
      /\ k \in 0 .. n /\ (k >= 1 => g(k) <= t) /\ (k < n => g(k + 1) > t)
  BY DEF ChangesBefore
<1> HIDE DEF g, n
<1>4. ASSUME NEW a \in 0 .. n, NEW b \in 0 .. n, a < b, a < n => g(a + 1) > t, b >= 1 => g(b) <= t
      PROVE  FALSE
  <2>1. a + 1 \in 1 .. n /\ b \in 1 .. n /\ a + 1 <= b /\ a < n /\ b >= 1
    BY <1>1, <1>4
  <2>2. g(a + 1) <= g(b) /\ g(a + 1) \in Int /\ g(b) \in Int
    BY <1>1, <1>2, <2>1
  <2> QED BY <1>4, <2>1, <2>2
<1>5. ~ j < k /\ ~ k < j
  BY <1>3, <1>4
<1> QED BY <1>1, <1>3, <1>5

\* findLocaltime() finds the type that is in force after that many changes.
LEMMA FindsType ==
    ASSUME NEW zone, Alternates(zone), NEW key \in {"gmttime", "localtime"}, NEW t \in Int,
           NEW k, ChangesBefore(zone, key, t, k)
    PROVE  findLocaltime(zone, key, t) = zone.localtimes[1 + (k % 2)]
<1> DEFINE n == Len(zone.transitions)
           shifts == zone.transitions
<1>1. /\ n \in Nat /\ DOMAIN shifts = 1 .. n /\ (shifts = <<>> <=> n = 0)
      /\ \A i \in 1 .. n : shifts[i].localtimeIdx = 1 + (i % 2)
  BY ZoneIs
<1>2. \A i \in 1 .. n : shifts[i][key] \in Int
  BY ChangesInOrder DEF TimeOf
<1>3. k \in 0 .. n /\ (k >= 1 => shifts[k][key] <= t) /\ (k < n => shifts[k + 1][key] > t)
  BY DEF ChangesBefore, TimeOf
<1>4. CASE k = 0
  <2>1. shifts = <<>> \/ t < shifts[1][key]
    BY <1>1, <1>2, <1>3, <1>4
  <2>2. findLocaltime(zone, key, t) = zone.localtimes[1]
    BY <2>1 DEF findLocaltime
  <2> QED BY <1>4, <2>2
<1>5. CASE k # 0
  <2>1. k \in 1 .. n /\ k >= 1 /\ 1 \in 1 .. n /\ shifts # <<>>
    BY <1>1, <1>3, <1>5
  <2>2. ~ t < shifts[1][key]
    <3>1. TimeOf(zone, key, 1) <= TimeOf(zone, key, k)
      BY <2>1, ChangesMonotone
    <3>2. shifts[1][key] <= shifts[k][key]
      BY <3>1 DEF TimeOf
    <3> QED BY <1>2, <1>3, <2>1, <3>2
  <2> DEFINE Found(i) == /\ i \in DOMAIN shifts /\ shifts[i][key] <= t
                         /\ i < Len(shifts) => shifts[i + 1][key] > t
  <2>3. Found(k)
    BY <1>1, <1>3, <2>1
  <2>4. ASSUME NEW i, Found(i)
        PROVE  i = k
    <3>1. ChangesBefore(zone, key, t, i)
      BY <1>1, <2>4 DEF ChangesBefore, TimeOf
    <3> QED BY <3>1, AfterOnly
  <2>5. LastTransition(zone, key, t) = k
    <3>1. LastTransition(zone, key, t) = CHOOSE i : Found(i)
      BY DEF LastTransition
    <3> HIDE DEF Found
    <3> QED BY <2>3, <2>4, <3>1
  <2>6. findLocaltime(zone, key, t) = zone.localtimes[shifts[k].localtimeIdx]
    BY <2>1, <2>2, <2>5 DEF findLocaltime
  <2> QED BY <1>1, <2>1, <2>6
<1> QED BY <1>4, <1>5

\* Local time is ahead by the offset of the type in force.
LEMMA LocalIs ==
    ASSUME NEW zone, Alternates(zone), NEW t \in Int, NEW k, ChangesBefore(zone, "gmttime", t, k)
    PROVE  /\ toLocalTime(zone, t).seconds = t + OffsetAfter(zone, k)
           /\ toLocalTime(zone, t).isDst <=> k % 2 = 1
<1>1. findLocaltime(zone, "gmttime", t) = zone.localtimes[1 + (k % 2)]
  BY FindsType
<1>2. k \in Nat
  BY ZoneIs DEF ChangesBefore
<1>3. k % 2 = 0 \/ k % 2 = 1
  BY <1>2
<1>4. CASE k % 2 = 0
  <2>1. findLocaltime(zone, "gmttime", t) = zone.localtimes[1]
    BY <1>1, <1>4
  <2> QED BY <1>4, <2>1, ZoneIs DEF toLocalTime, OffsetAfter, Standard
<1>5. CASE k % 2 = 1
  <2>1. findLocaltime(zone, "gmttime", t) = zone.localtimes[2]
    BY <1>1, <1>5
  <2> QED BY <1>5, <2>1, ZoneIs DEF toLocalTime, OffsetAfter, Standard
<1> QED BY <1>3, <1>4, <1>5

\* Between the local times of two changes the number of changes is the same,
\* and in the hour that comes twice isDst tells the two apart.
LEMMA RoundTrip ==
    ASSUME NEW zone, Alternates(zone), NEW t \in Int
    PROVE  fromLocalTime(zone, toLocalTime(zone, t)) = t
<1> DEFINE n == Len(zone.transitions)
           S == Standard(zone)
           g(i) == TimeOf(zone, "gmttime", i)
           local(i) == TimeOf(zone, "localtime", i)
           tm == toLocalTime(zone, t)
           L == tm.seconds
<1>1. /\ n \in Nat /\ S \in Int
      /\ zone.localtimes[1].gmtOffset = S /\ zone.localtimes[2].gmtOffset = S + 3600
      /\ ~ zone.localtimes[1].isDst /\ zone.localtimes[2].isDst
  BY ZoneIs DEF Standard
<1>2. \A i \in 1 .. n : /\ g(i) \in Int /\ local(i) = g(i) + OffsetAfter(zone, i)
                        /\ i > 1 => g(i) - g(i - 1) > 7200
  BY ZoneIs
<1>3. PICK k : ChangesBefore(zone, "gmttime", t, k)
  BY AfterSome
<1>4. k \in 0 .. n /\ (k >= 1 => g(k) <= t) /\ (k < n => g(k + 1) > t)
  BY <1>3 DEF ChangesBefore
<1>5. L = t + OffsetAfter(zone, k) /\ (tm.isDst <=> k % 2 = 1)
  BY <1>3, LocalIs
<1>6. /\ \A i \in Int : i % 2 = 0 => OffsetAfter(zone, i) = S /\ (i + 1) % 2 = 1
      /\ \A i \in Int : i % 2 = 1 => OffsetAfter(zone, i) = S + 3600 /\ (i + 1) % 2 = 0
      /\ k % 2 = 0 \/ k % 2 = 1
  BY <1>1, <1>4 DEF OffsetAfter
<1>7. L \in Int
  <2>1. OffsetAfter(zone, k) \in Int
    BY <1>1, <1>4 DEF OffsetAfter
  <2> QED BY <1>5, <2>1
<1> HIDE DEF n, S, g, local, tm
<1>8. CASE k % 2 = 0
  <2>1. L = t + S /\ ~ tm.isDst
    BY <1>5, <1>6, <1>8, <1>4
  <2>2. k >= 1 => local(k) <= L
    BY <1>1, <1>2, <1>4, <1>6, <1>8, <2>1
  <2>3. k < n => local(k + 1) > L
    <3>1. CASE k < n
      <4>1. k + 1 \in 1 .. n /\ g(k + 1) > t
        BY <1>1, <1>4, <3>1
      <4>2. local(k + 1) = g(k + 1) + S + 3600 /\ g(k + 1) \in Int
        BY <1>1, <1>2, <1>4, <1>6, <1>8, <4>1
      <4> QED BY <1>1, <2>1, <4>1, <4>2
    <3> QED BY <3>1
  <2>4. ChangesBefore(zone, "localtime", L, k)
    BY <1>4, <2>2, <2>3 DEF ChangesBefore, n, local
  <2>5. findLocaltime(zone, "localtime", L) = zone.localtimes[1]
    BY <1>7, <1>8, <2>4, FindsType
  <2>6. fromLocalTime(zone, tm) = L - S
    BY <1>1, <2>1, <2>5 DEF fromLocalTime
  <2> QED BY <1>1, <2>1, <2>6 DEF tm
<1>9. CASE k % 2 = 1
  <2>1. L = t + S + 3600 /\ tm.isDst /\ k >= 1
    <3>1. k >= 1
      BY <1>4, <1>9
    <3> QED BY <1>1, <1>4, <1>5, <1>6, <1>9, <3>1
  <2>2. k \in 1 .. n /\ local(k) <= L
    BY <1>1, <1>2, <1>4, <1>6, <1>9, <2>1
  <2>3. k < n => /\ k + 1 \in 1 .. n /\ g(k + 1) \in Int /\ local(k + 1) = g(k + 1) + S
    BY <1>1, <1>2, <1>4, <1>6, <1>9
  <2>4. CASE k < n => local(k + 1) > L
    <3>1. ChangesBefore(zone, "localtime", L, k)
      BY <1>4, <2>2, <2>4 DEF ChangesBefore, n, local
    <3>2. findLocaltime(zone, "localtime", L) = zone.localtimes[2]
      BY <1>7, <1>9, <3>1, FindsType
    <3>3. L - (S + 3600) = t
      BY <1>1, <2>1
    <3>4. toLocalTime(zone, L - (S + 3600)).isDst
      BY <1>5, <1>9, <3>3 DEF tm
    <3>5. fromLocalTime(zone, tm) = L - (S + 3600)
      BY <1>1, <3>2, <3>4 DEF fromLocalTime
    <3> QED BY <3>3, <3>5 DEF tm
  <2>5. CASE ~ (k < n => local(k + 1) > L)
    <3>1. /\ k < n /\ k + 1 \in 0 .. n /\ k + 1 \in 1 .. n /\ g(k + 1) > t
          /\ g(k + 1) \in Int /\ local(k + 1) = g(k + 1) + S
      BY <1>1, <1>4, <2>3, <2>5
    <3>2. local(k + 1) <= L /\ g(k + 1) <= t + 3600
      BY <1>1, <1>7, <2>1, <2>5, <3>1
    <3>3. k + 1 < n =>
             /\ g(k + 1 + 1) > t + 3600
             /\ local(k + 1 + 1) > L
      <4>1. CASE k + 1 < n
        <5>1. k + 1 + 1 \in 1 .. n /\ k + 1 + 1 > 1 /\ (k + 1 + 1) - 1 = k + 1
          BY <1>1, <1>4, <4>1
        <5>2. g(k + 1 + 1) \in Int /\ g(k + 1 + 1) - g(k + 1) > 7200
          BY <1>2, <5>1
        <5>3. OffsetAfter(zone, k + 1 + 1) = S + 3600
          <6>1. k \in Int /\ k + 1 \in Int /\ (k + 1) % 2 = 0
            BY <1>4, <1>6, <1>9
          <6>2. k + 1 + 1 \in Int /\ (k + 1 + 1) % 2 = 1
            BY <1>6, <6>1
          <6> QED BY <1>6, <6>2
        <5>4. local(k + 1 + 1) = g(k + 1 + 1) + (S + 3600)
          BY <1>2, <5>1, <5>3
        <5> QED BY <1>1, <2>1, <3>1, <5>2, <5>4
      <4> QED BY <4>1
    <3>4. /\ ChangesBefore(zone, "localtime", L, k + 1)
          /\ ChangesBefore(zone, "gmttime", t + 3600, k + 1)
      BY <3>1, <3>2, <3>3 DEF ChangesBefore, n, local, g
    <3>5. k + 1 \in Int /\ (k + 1) % 2 = 0 /\ OffsetAfter(zone, k + 1) = S
      BY <1>4, <1>6, <1>9
    <3>6. findLocaltime(zone, "localtime", L) = zone.localtimes[1]
      BY <1>7, <3>4, <3>5, FindsType
    <3>7. L - S = t + 3600 /\ t + 3600 \in Int
      BY <1>1, <2>1
    <3>8. /\ toLocalTime(zone, L - S).seconds = t + 3600 + S
          /\ ~ toLocalTime(zone, L - S).isDst
      BY <3>4, <3>5, <3>7, LocalIs
    <3>9. t + 3600 + S = L
      BY <1>1, <2>1
    <3>10. fromLocalTime(zone, tm) = L - 3600 - S
      BY <1>1, <2>1, <3>6, <3>8, <3>9 DEF fromLocalTime, SameMinuteOfDay
    <3>11. L - 3600 - S = t
      BY <1>1, <2>1
    <3> QED BY <3>10, <3>11 DEF tm
  <2> QED BY <2>4, <2>5
<1> QED BY <1>6, <1>8, <1>9

\* A zone of one type.
LEMMA FixedRoundTrip ==
    ASSUME NEW offset \in Int, NEW t \in Int
    PROVE  fromLocalTime(FixedZone(offset), toLocalTime(FixedZone(offset), t)) = t
<1> DEFINE zone == FixedZone(offset)
<1>1. /\ zone.transitions = <<>> /\ zone.localtimes[1].gmtOffset = offset
      /\ zone.localtimes[1].isDst = FALSE
  BY DEF FixedZone
<1> HIDE DEF zone
<1>2. \A key, s : findLocaltime(zone, key, s) = zone.localtimes[1]
  BY <1>1 DEF findLocaltime
<1>3. toLocalTime(zone, t) = [seconds |-> t + offset, isDst |-> FALSE]
  BY <1>1, <1>2 DEF toLocalTime
<1>4. fromLocalTime(zone, toLocalTime(zone, t)) = t + offset - offset
  BY <1>1, <1>2, <1>3 DEF fromLocalTime
<1> QED BY <1>4 DEF zone

\* Local time and back gives the same second, on both sides of a change and
\* in the hour that comes twice (TimeZone::toLocalTime(), fromLocalTime()).
THEOREM LocalRoundTripAlways == Queries => []LocalRoundTrip
<1>1. Asked => LocalRoundTrip
  <2>1. SUFFICES ASSUME Asked, query.of = "local"
                 PROVE  LocalRoundTrip
    BY DEF LocalRoundTrip
  <2> DEFINE zone == query.zone
             t == query.t
  <2>2. zone \in Zones /\ t \in Moments
    BY <2>1 DEF Asked, Nothing
  <2>3. Alternates(zone) /\ t \in Int
    BY <2>2, ZonesAssumption
  <2>4. zone.localtimes[1].gmtOffset \in Int
    BY <2>3, ZoneIs DEF Standard
  <2> HIDE DEF zone, t
  <2>5. fromLocalTime(zone, toLocalTime(zone, t)) = t
    BY <2>3, RoundTrip
  <2>6. fromLocalTime(FixedZone(zone.localtimes[1].gmtOffset),
                      toLocalTime(FixedZone(zone.localtimes[1].gmtOffset), t)) = t
    BY <2>3, <2>4, FixedRoundTrip
  <2> QED BY <2>5, <2>6 DEF LocalRoundTrip, zone, t
<1> QED BY <1>1, QueriesAsked, PTL

-----------------------------------------------------------------------------
(* Dates *)

\* A day is the e-th of a year that begins in March, d of its century b;
\* such a year ends with a leap day, or does not.
EndsLeap(b, d) == d % 4 = 3 /\ (d # 99 \/ b % 4 = 3)

IsDay(day, b, d, e) ==
    /\ b \in Nat /\ d \in Nat /\ d <= 99 /\ e \in Nat /\ e <= 365
    /\ e = 365 => EndsLeap(b, d)
    /\ day + 32044 = e + (1461 * d) \div 4 + (146097 * b) \div 4

DateOf(b, d, e) ==
    LET m == (5 * e + 2) \div 153
    IN  [day |-> e - (153 * m + 2) \div 5 + 1,
         month |-> m + 3 - 12 * (m \div 10),
         year |-> b * 100 + d - 4800 + m \div 10]

\* Every day number is of a century, of a year of it and of a day of that.
LEMMA DayIs ==
    ASSUME NEW day \in Nat
    PROVE  \E b, d, e : IsDay(day, b, d, e)
<1> DEFINE a == day + 32044
           b == (4 * a + 3) \div 146097
           c == a - (b * 146097) \div 4
           d == (4 * c + 3) \div 1461
           e == c - (1461 * d) \div 4
<1>1. a \in Nat
  OBVIOUS
<1> HIDE DEF a
<1>2. /\ b \in Nat /\ c \in Int /\ c >= 0
      /\ 4 * c + 3 - (b % 4) <= 146096
      /\ a = c + (146097 * b) \div 4
  BY <1>1
<1>3. b % 4 \in 0 .. 3 /\ c \in Nat /\ c <= 36524
  <2>1. b \in Nat /\ c \in Int /\ c >= 0 /\ 4 * c + 3 - (b % 4) <= 146096
    BY <1>2
  <2> HIDE DEF b, c
  <2>2. b % 4 \in 0 .. 3
    BY <2>1
  <2> QED BY <2>1, <2>2
<1> HIDE DEF b, c
<1>4. /\ d \in Nat /\ d <= 99 /\ e \in Int /\ e >= 0
      /\ 4 * e + 3 - (d % 4) <= 1460
      /\ c = e + (1461 * d) \div 4
  BY <1>3
<1> HIDE DEF d, e
<1>5. e \in Nat /\ e <= 365 /\ (e = 365 => d % 4 = 3)
  BY <1>4
<1>6. e = 365 /\ d = 99 => b % 4 = 3
  BY <1>2, <1>3, <1>4
<1>7. a = e + (1461 * d) \div 4 + (146097 * b) \div 4
  BY <1>2, <1>3, <1>4
<1>8. IsDay(day, b, d, e)
  BY <1>2, <1>4, <1>5, <1>6, <1>7 DEF IsDay, EndsLeap, a
<1> QED BY <1>8

\* getYearMonthDay() takes a day number apart that way.
LEMMA DateIs ==
    ASSUME NEW day \in Int, NEW b, NEW d, NEW e, IsDay(day, b, d, e)
    PROVE  getYearMonthDay(day) = DateOf(b, d, e)
<1> DEFINE a == day + 32044
           c == e + (1461 * d) \div 4
<1>1. /\ b \in Nat /\ d \in Nat /\ d <= 99 /\ e \in Nat /\ e <= 365
      /\ e = 365 => d % 4 = 3
      /\ e = 365 /\ d = 99 => b % 4 = 3
      /\ a = c + (146097 * b) \div 4
  BY DEF IsDay, EndsLeap
<1>2. c \in Nat /\ c <= 36524 /\ (c = 36524 => b % 4 = 3)
  BY <1>1
<1>3. (4 * c + 3) \div 1461 = d /\ e = c - (1461 * d) \div 4
  BY <1>1
<1>4. a \in Int
  OBVIOUS
<1> HIDE DEF a, c
<1>5. (4 * a + 3) \div 146097 = b /\ c = a - (b * 146097) \div 4
  BY <1>1, <1>2, <1>4
<1> DEFINE b0 == (4 * a + 3) \div 146097
           c0 == a - (b0 * 146097) \div 4
           d0 == (4 * c0 + 3) \div 1461
           e0 == c0 - (1461 * d0) \div 4
<1>6. getYearMonthDay(day) = DateOf(b0, d0, e0)
  BY DEF getYearMonthDay, DateOf, a
<1>7. b0 = b
  BY <1>5
<1> HIDE DEF b0
<1>8. c0 = c
  BY <1>5, <1>7
<1> HIDE DEF c0
<1>9. d0 = d /\ e0 = e
  BY <1>3, <1>8
<1> QED BY <1>6, <1>7, <1>9

\* The months of such a year.
MonthLength(b, d, m) ==
    IF m = 11 THEN IF EndsLeap(b, d) THEN 29 ELSE 28
    ELSE IF m \in {1, 3, 6, 8} THEN 30 ELSE 31

\* The months' first days in a year that begins in March.
LEMMA MonthIs ==
    ASSUME NEW day, NEW b, NEW d, NEW e, IsDay(day, b, d, e)
    PROVE  LET m == (5 * e + 2) \div 153
               x == e - (153 * m + 2) \div 5
           IN  /\ m \in Nat /\ m <= 11 /\ x \in Nat /\ x < MonthLength(b, d, m)
               /\ x + 1 < MonthLength(b, d, m) => (5 * (e + 1) + 2) \div 153 = m
               /\ x + 1 = MonthLength(b, d, m) /\ m < 11 =>
                    /\ (5 * (e + 1) + 2) \div 153 = m + 1
                    /\ e + 1 = (153 * (m + 1) + 2) \div 5
               /\ x + 1 = MonthLength(b, d, m) /\ m = 11 =>
                    e = IF EndsLeap(b, d) THEN 365 ELSE 364
<1> DEFINE m == (5 * e + 2) \div 153
           x == e - (153 * m + 2) \div 5
<1>1. e \in Nat /\ e <= 365 /\ (e = 365 => EndsLeap(b, d))
  BY DEF IsDay
<1>2. m \in Nat /\ m <= 11
  BY <1>1
<1>3. \/ m = 0 \/ m = 1 \/ m = 2 \/ m = 3 \/ m = 4 \/ m = 5
      \/ m = 6 \/ m = 7 \/ m = 8 \/ m = 9 \/ m = 10 \/ m = 11
  <2> HIDE DEF m
  <2> QED BY <1>2
<1> QED BY <1>1, <1>2, <1>3 DEF MonthLength

\* The day number of a date, and of the first of its year.
LEMMA NumberIs ==
    ASSUME NEW day \in Int, NEW b, NEW d, NEW e, IsDay(day, b, d, e)
    PROVE  LET date == DateOf(b, d, e)
           IN  getJulianDayNumber(date.year, date.month, date.day) = day
<1> DEFINE m == (5 * e + 2) \div 153
           date == DateOf(b, d, e)
           y == 100 * b + d
<1>1. /\ b \in Nat /\ d \in Nat /\ d <= 99 /\ e \in Nat
      /\ day = e + (1461 * d) \div 4 + (146097 * b) \div 4 - 32044
  BY DEF IsDay
<1>2. m \in Nat /\ m <= 11
  BY MonthIs
<1>3. /\ date.day = e - (153 * m + 2) \div 5 + 1 /\ date.month = m + 3 - 12 * (m \div 10)
      /\ date.year = b * 100 + d - 4800 + m \div 10
  BY DEF DateOf
<1> HIDE DEF m, date
<1>4. /\ (14 - date.month) \div 12 = m \div 10
      /\ date.month + 12 * (m \div 10) - 3 = m
  BY <1>2, <1>3
<1>5. date.year + 4800 - m \div 10 = y
  BY <1>1, <1>2, <1>3
<1>6. getJulianDayNumber(date.year, date.month, date.day) =
        date.day + (153 * m + 2) \div 5 + y * 365 + y \div 4 - y \div 100 + y \div 400 - 32045
  BY <1>4, <1>5 DEF getJulianDayNumber
<1>7. y \div 4 = 25 * b + d \div 4 /\ y \div 100 = b /\ y \div 400 = b \div 4
  BY <1>1
<1>8. (1461 * d) \div 4 = 365 * d + d \div 4 /\ (146097 * b) \div 4 = 36524 * b + b \div 4
  BY <1>1
<1> QED BY <1>1, <1>2, <1>3, <1>6, <1>7, <1>8 DEF date

\* The year ends with a 29th of February when the calendar year is a leap year.
LEMMA LeapIs ==
    ASSUME NEW b \in Nat, NEW d \in Nat, d <= 99
    PROVE  EndsLeap(b, d) <=> IsLeap(b * 100 + d - 4800 + 1)
<1> DEFINE year == b * 100 + d - 4800 + 1
<1>1. year % 4 = 0 <=> d % 4 = 3
  OBVIOUS
<1>2. year % 100 = 0 <=> d = 99
  OBVIOUS
<1>3. d = 99 => (year % 400 = 0 <=> b % 4 = 3)
  OBVIOUS
<1> HIDE DEF year
<1> QED BY <1>1, <1>2, <1>3 DEF IsLeap, EndsLeap, year

\* The months are as long as the calendar says.
LEMMA LengthIs ==
    ASSUME NEW day, NEW b, NEW d, NEW e, IsDay(day, b, d, e)
    PROVE  LET m == (5 * e + 2) \div 153
               date == DateOf(b, d, e)
           IN  DaysOfMonth(date.year, date.month) = MonthLength(b, d, m)
<1> DEFINE m == (5 * e + 2) \div 153
           date == DateOf(b, d, e)
<1>1. m \in Nat /\ m <= 11
  BY MonthIs
<1>2. date.month = m + 3 - 12 * (m \div 10) /\ date.year = b * 100 + d - 4800 + m \div 10
  BY DEF DateOf
<1>3. b \in Nat /\ d \in Nat /\ d <= 99
  BY DEF IsDay
<1> HIDE DEF m, date
<1>4. CASE m = 11
  <2>1. date.month = 2 /\ date.year = b * 100 + d - 4800 + 1
    BY <1>2, <1>3, <1>4
  <2>2. IsLeap(date.year) <=> EndsLeap(b, d)
    BY <1>3, <2>1, LeapIs
  <2> QED BY <1>4, <2>1, <2>2 DEF DaysOfMonth, MonthLength, date, m
<1>5. CASE m # 11
  <2>1. date.month # 2 /\ (date.month \in {4, 6, 9, 11} <=> m \in {1, 3, 6, 8})
    BY <1>1, <1>2, <1>5
  <2>2. CASE m \in {1, 3, 6, 8}
    <3>1. DaysOfMonth(date.year, date.month) = 30
      BY <2>1, <2>2 DEF DaysOfMonth
    <3>2. MonthLength(b, d, m) = 30
      BY <1>5, <2>2 DEF MonthLength
    <3> QED BY <3>1, <3>2 DEF date, m
  <2>3. CASE m \notin {1, 3, 6, 8}
    <3>1. DaysOfMonth(date.year, date.month) = 31
      BY <2>1, <2>3 DEF DaysOfMonth
    <3>2. MonthLength(b, d, m) = 31
      BY <1>5, <2>3 DEF MonthLength
    <3> QED BY <3>1, <3>2 DEF date, m
  <2> QED BY <2>2, <2>3
<1> QED BY <1>4, <1>5

\* The next number is the next day: of the month, of the next month, of the
\* next year that begins in March, of the next century.
LEMMA NextDay ==
    ASSUME NEW day \in Nat
    PROVE  DayFollows(day)
<1>1. PICK b, d, e : IsDay(day, b, d, e)
  BY DayIs
<1> DEFINE m == (5 * e + 2) \div 153
           x == e - (153 * m + 2) \div 5
           date == DateOf(b, d, e)
           next == getYearMonthDay(day + 1)
<1>2. getYearMonthDay(day) = date
  BY <1>1, DateIs
<1>3. getJulianDayNumber(date.year, date.month, date.day) = day
  BY <1>1, NumberIs
<1>4. /\ m \in Nat /\ m <= 11 /\ x \in Nat /\ x < MonthLength(b, d, m)
      /\ x + 1 < MonthLength(b, d, m) => (5 * (e + 1) + 2) \div 153 = m
      /\ x + 1 = MonthLength(b, d, m) /\ m < 11 =>
           /\ (5 * (e + 1) + 2) \div 153 = m + 1
           /\ e + 1 = (153 * (m + 1) + 2) \div 5
      /\ x + 1 = MonthLength(b, d, m) /\ m = 11 =>
           e = IF EndsLeap(b, d) THEN 365 ELSE 364
  BY <1>1, MonthIs
<1>5. DaysOfMonth(date.year, date.month) = MonthLength(b, d, m)
  BY <1>1, LengthIs
<1>6. /\ b \in Nat /\ d \in Nat /\ d <= 99 /\ e \in Nat /\ e <= 365
      /\ e = 365 => EndsLeap(b, d)
      /\ day + 32044 = e + (1461 * d) \div 4 + (146097 * b) \div 4
  BY <1>1 DEF IsDay
<1>7. date = [day |-> x + 1, month |-> m + 3 - 12 * (m \div 10),
              year |-> b * 100 + d - 4800 + m \div 10]
  BY DEF DateOf
<1>8. MonthLength(b, d, m) \in {28, 29, 30, 31}
  BY DEF MonthLength
<1>9. e < 365 /\ (e = 364 => EndsLeap(b, d)) => next = DateOf(b, d, e + 1)
  <2>1. SUFFICES ASSUME e < 365, e = 364 => EndsLeap(b, d)
                 PROVE  IsDay(day + 1, b, d, e + 1)
    BY DateIs
  <2> QED BY <1>6, <2>1 DEF IsDay
<1> DEFINE m1 == (5 * (e + 1) + 2) \div 153
<1>10. DateOf(b, d, e + 1) =
         [day |-> (e + 1) - (153 * m1 + 2) \div 5 + 1,
          month |-> m1 + 3 - 12 * (m1 \div 10),
          year |-> b * 100 + d - 4800 + m1 \div 10]
  BY DEF DateOf
<1>11. \/ m = 0 \/ m = 1 \/ m = 2 \/ m = 3 \/ m = 4 \/ m = 5
       \/ m = 6 \/ m = 7 \/ m = 8 \/ m = 9 \/ m = 10 \/ m = 11
  <2> HIDE DEF m
  <2> QED BY <1>4
<1>12. m < 11 => e <= 336
  BY <1>6
<1>13. m = 11 => x = e - 337
  BY <1>6
<1>14. x = e - (153 * m + 2) \div 5
  OBVIOUS
<1> DEFINE month == m + 3 - 12 * (m \div 10)
           year == b * 100 + d - 4800 + m \div 10
           firstOf == [date EXCEPT !.day = 1, !.month = @ + 1]
<1>17. month \in Int
  BY <1>4
<1>18. firstOf = [day |-> 1, month |-> date.month + 1, year |-> date.year]
  <2>1. date = [day |-> x + 1, month |-> month, year |-> year]
    BY <1>7
  <2>2. date.month = month /\ date.year = year
    BY <2>1
  <2> HIDE DEF date, month, year, x
  <2> DEFINE first == [date EXCEPT !.day = 1]
  <2>3. firstOf = [first EXCEPT !.month = @ + 1]
    OBVIOUS
  <2>4. first = [day |-> 1, month |-> month, year |-> year]
    BY <2>1
  <2>5. [first EXCEPT !.month = @ + 1] = [day |-> 1, month |-> month + 1, year |-> year]
    <3> HIDE DEF first
    <3> QED BY <1>17, <2>4
  <2> QED BY <2>2, <2>3, <2>4, <2>5
<1> HIDE DEF m, x, m1, next, date, month, year, firstOf
<1>15. CASE x + 1 < MonthLength(b, d, m)
  <2>1. e < 365 /\ (e = 364 => EndsLeap(b, d))
    <3>1. CASE m = 11
      BY <1>6, <1>13, <1>15, <3>1 DEF MonthLength
    <3>2. CASE m < 11
      BY <1>6, <1>12, <3>2
    <3> QED BY <1>4, <3>1, <3>2
  <2>2. m1 = m
    BY <1>4, <1>15 DEF m1
  <2>3. next = [day |-> x + 1 + 1, month |-> m + 3 - 12 * (m \div 10),
                year |-> b * 100 + d - 4800 + m \div 10]
    <3>1. (e + 1) - (153 * m + 2) \div 5 + 1 = x + 1 + 1
      BY <1>4, <1>6, <1>14
    <3> QED BY <1>9, <1>10, <2>1, <2>2, <3>1
  <2>4. date.day < DaysOfMonth(date.year, date.month)
    BY <1>5, <1>7, <1>15
  <2>5. next = [date EXCEPT !.day = @ + 1]
    BY <1>7, <2>3
  <2> QED BY <1>2, <1>3, <2>4, <2>5 DEF DayFollows, next
<1>16. CASE ~ x + 1 < MonthLength(b, d, m)
  <2>1. x + 1 = MonthLength(b, d, m)
    BY <1>4, <1>8, <1>16
  <2>2. ~ date.day < DaysOfMonth(date.year, date.month)
    BY <1>4, <1>5, <1>7, <1>16
  <2>3. CASE m < 11
    <3>1. e < 365 /\ (e = 364 => EndsLeap(b, d))
      BY <1>6, <1>12, <2>3
    <3>2. m1 = m + 1 /\ e + 1 = (153 * (m + 1) + 2) \div 5
      BY <1>4, <2>1, <2>3 DEF m1
    <3>3. next = [day |-> 1, month |-> (m + 1) + 3 - 12 * ((m + 1) \div 10),
                  year |-> b * 100 + d - 4800 + (m + 1) \div 10]
      <4>1. (e + 1) - (153 * m1 + 2) \div 5 + 1 = 1
        BY <1>6, <3>2
      <4> QED BY <1>9, <1>10, <3>1, <3>2, <4>1
    <3>4. CASE m = 9
      <4>1. date.month = 12 /\ date.year = b * 100 + d - 4800
        BY <1>6, <1>7, <3>4
      <4>2. next = [year |-> date.year + 1, month |-> 1, day |-> 1]
        BY <1>6, <3>3, <3>4, <4>1
      <4> QED BY <1>2, <1>3, <2>2, <4>1, <4>2 DEF DayFollows, next
    <3>5. CASE m # 9
      <4>1. /\ date.month < 12
            /\ (m + 1) + 3 - 12 * ((m + 1) \div 10) = m + 3 - 12 * (m \div 10) + 1
            /\ (m + 1) \div 10 = m \div 10
        BY <1>4, <1>7, <2>3, <3>5
      <4>2. next = [date EXCEPT !.day = 1, !.month = @ + 1]
        <5>1. next = [day |-> 1, month |-> date.month + 1, year |-> date.year]
          BY <1>7, <3>3, <4>1
        <5> QED BY <1>18, <5>1 DEF firstOf
      <4> QED BY <1>2, <1>3, <2>2, <4>1, <4>2 DEF DayFollows, next
    <3> QED BY <3>4, <3>5
  <2>4. CASE m = 11
    <3>1. e = IF EndsLeap(b, d) THEN 365 ELSE 364
      BY <1>4, <2>1, <2>4
    <3> DEFINE d1 == IF d = 99 THEN 0 ELSE d + 1
               b1 == IF d = 99 THEN b + 1 ELSE b
    <3>2. IsDay(day + 1, b1, d1, 0)
      <4>1. CASE d = 99
        <5>1. EndsLeap(b, d) <=> b % 4 = 3
          BY <4>1 DEF EndsLeap
        <5>2. (146097 * (b + 1)) \div 4 = (146097 * b) \div 4 + (IF b % 4 = 3 THEN 36525 ELSE 36524)
          BY <1>6
        <5>3. (1461 * 99) \div 4 = 36159 /\ (1461 * 0) \div 4 = 0
          OBVIOUS
        <5> QED BY <1>6, <3>1, <4>1, <5>1, <5>2, <5>3 DEF IsDay
      <4>2. CASE d # 99
        <5>1. EndsLeap(b, d) <=> d % 4 = 3
          BY <4>2 DEF EndsLeap
        <5>2. (1461 * (d + 1)) \div 4 = (1461 * d) \div 4 + (IF d % 4 = 3 THEN 366 ELSE 365)
          BY <1>6
        <5> QED BY <1>6, <3>1, <4>2, <5>1, <5>2 DEF IsDay
      <4> QED BY <4>1, <4>2
    <3>3. next = DateOf(b1, d1, 0)
      <4> HIDE DEF b1, d1
      <4> QED BY <3>2, DateIs DEF next
    <3>4. next = [day |-> 1, month |-> 3, year |-> b1 * 100 + d1 - 4800]
      <4>1. (5 * 0 + 2) \div 153 = 0 /\ (153 * 0 + 2) \div 5 = 0 /\ 0 \div 10 = 0
        OBVIOUS
      <4>2. b1 \in Nat /\ d1 \in Nat
        BY <1>6
      <4> HIDE DEF b1, d1
      <4> QED BY <3>3, <4>1, <4>2 DEF DateOf
    <3>5. date.month = 2 /\ date.year = b * 100 + d - 4800 + 1
      BY <1>6, <1>7, <2>4
    <3>6. b1 * 100 + d1 - 4800 = b * 100 + d - 4800 + 1
      BY <1>6
    <3> HIDE DEF b1, d1
    <3>7. next = [date EXCEPT !.day = 1, !.month = @ + 1]
      <4>1. next = [day |-> 1, month |-> date.month + 1, year |-> date.year]
        BY <3>4, <3>5, <3>6
      <4> QED BY <1>18, <4>1 DEF firstOf
    <3> QED BY <1>2, <1>3, <2>2, <3>5, <3>7 DEF DayFollows, next
  <2> QED BY <1>4, <2>3, <2>4
<1> QED BY <1>15, <1>16

-----------------------------------------------------------------------------
(* Seconds *)

\* The first of January is day 306 of the year that began in March.
LEMMA YearDay ==
    ASSUME NEW day \in Int, NEW b, NEW d, NEW e, IsDay(day, b, d, e)
    PROVE  LET year == DateOf(b, d, e).year
               yday == day - getJulianDayNumber(year, 1, 1)
           IN  yday \in Int /\ 0 <= yday /\ yday <= IF IsLeap(year) THEN 365 ELSE 364
<1> DEFINE m == (5 * e + 2) \div 153
           year == DateOf(b, d, e).year
           y == b * 100 + d
           yday == day - getJulianDayNumber(year, 1, 1)
<1>1. /\ b \in Nat /\ d \in Nat /\ d <= 99 /\ e \in Nat /\ e <= 365
      /\ e = 365 => EndsLeap(b, d)
      /\ day = e + (1461 * d) \div 4 + (146097 * b) \div 4 - 32044
  BY DEF IsDay
<1>2. m \in Nat /\ m <= 11 /\ (m >= 10 <=> e >= 306)
  BY <1>1
<1>3. year = y - 4800 + m \div 10
  <2>1. year = b * 100 + d - 4800 + m \div 10
    BY DEF DateOf
  <2> HIDE DEF m, year
  <2> QED BY <1>1, <1>2, <2>1
<1>4. y \in Nat /\ year \in Int
  BY <1>1, <1>2, <1>3
<1> HIDE DEF m, year
<1> DEFINE z == year + 4799
<1>5. getJulianDayNumber(year, 1, 1) =
        1 + 306 + z * 365 + z \div 4 - z \div 100 + z \div 400 - 32045
  <2>1. (14 - 1) \div 12 = 1 /\ 1 + 12 * 1 - 3 = 10 /\ (153 * 10 + 2) \div 5 = 306
    OBVIOUS
  <2>2. year + 4800 - 1 = z
    BY <1>4
  <2> HIDE DEF z
  <2> QED BY <2>1, <2>2 DEF getJulianDayNumber
<1>6. (1461 * d) \div 4 = 365 * d + d \div 4 /\ (146097 * b) \div 4 = 36524 * b + b \div 4
  BY <1>1
<1>7. y \div 4 = 25 * b + d \div 4 /\ y \div 100 = b /\ y \div 400 = b \div 4
  BY <1>1
<1>8. day = e + y * 365 + y \div 4 - y \div 100 + y \div 400 - 32044
  BY <1>1, <1>6, <1>7
<1>9. CASE m >= 10
  <2>1. m \div 10 = 1 /\ z = y
    BY <1>2, <1>3, <1>4, <1>9
  <2>2. yday = e - 306
    BY <1>1, <1>4, <1>5, <1>8, <2>1, SMTT(30)
  <2>3. e - 306 \in Int /\ 0 <= e - 306 /\ e - 306 <= 364
    BY <1>1, <1>2, <1>9
  <2> HIDE DEF yday, z
  <2>4. yday \in Int /\ 0 <= yday /\ yday <= IF IsLeap(year) THEN 365 ELSE 364
    BY <2>2, <2>3
  <2> QED BY <2>4 DEF yday, year
<1>10. CASE ~ m >= 10
  <2>1. m \div 10 = 0 /\ z = y - 1 /\ year = y - 4800
    BY <1>2, <1>3, <1>4, <1>10
  <2>2. y \div 4 = (y - 1) \div 4 + (IF year % 4 = 0 THEN 1 ELSE 0)
    BY <1>4, <2>1
  <2>3. y \div 100 = (y - 1) \div 100 + (IF year % 100 = 0 THEN 1 ELSE 0)
    BY <1>4, <2>1
  <2>4. y \div 400 = (y - 1) \div 400 + (IF year % 400 = 0 THEN 1 ELSE 0)
    BY <1>4, <2>1
  <2>5. (year % 400 = 0 => year % 100 = 0) /\ (year % 100 = 0 => year % 4 = 0)
    BY <1>4
  <2>6. yday = e + 59 + (IF year % 4 = 0 THEN 1 ELSE 0) - (IF year % 100 = 0 THEN 1 ELSE 0)
                      + (IF year % 400 = 0 THEN 1 ELSE 0)
    BY <1>1, <1>4, <1>5, <1>8, <2>1, <2>2, <2>3, <2>4
  <2>7. yday = e + 59 + (IF IsLeap(year) THEN 1 ELSE 0)
    BY <2>5, <2>6, <1>1 DEF IsLeap
  <2>8. e <= 305
    BY <1>1, <1>2, <1>10
  <2> HIDE DEF yday, z
  <2>9. yday \in Int /\ 0 <= yday /\ yday <= IF IsLeap(year) THEN 365 ELSE 364
    BY <1>1, <2>7, <2>8
  <2> QED BY <2>9 DEF yday, year
<1> QED BY <1>9, <1>10 DEF year

\* The numbers the seconds are counted by.
LEMMA EpochIs == kJulianDayOf1970_01_01 \in Int /\ kSecondsPerDay = 86400
BY DEF kJulianDayOf1970_01_01, getJulianDayNumber, kSecondsPerDay

\* A second is of its day, before 1970 as well.
LEMMA SplitIs ==
    ASSUME NEW q \in Int, NEW r \in Nat, r < 86400
    PROVE  Split(q * kSecondsPerDay + r) = [day |-> q, second |-> r]
<1> DEFINE s == q * 86400 + r
<1>1. s \in Int /\ s \div 86400 = q /\ s % 86400 = r /\ (s >= 0 <=> q >= 0)
  OBVIOUS
<1>2. s = q * 86400 + r
  OBVIOUS
<1> HIDE DEF s
<1>3. CASE q >= 0 \/ r = 0
  <2>1. Quot(s, 86400) = q
    BY <1>1, <1>3 DEF Quot
  <2>2. Rem(s, 86400) = r
    BY <1>1, <1>2, <2>1 DEF Rem
  <2> QED BY <1>1, <2>1, <2>2, EpochIs DEF Split, s
<1>4. CASE ~ (q >= 0 \/ r = 0)
  <2>1. Quot(s, 86400) = q + 1
    BY <1>1, <1>4 DEF Quot
  <2>2. Rem(s, 86400) = r - 86400
    BY <1>1, <1>2, <2>1 DEF Rem
  <2>3. r - 86400 < 0 /\ r - 86400 + 86400 = r /\ q + 1 - 1 = q
    OBVIOUS
  <2> QED BY <1>1, <2>1, <2>2, <2>3, EpochIs DEF Split, s
<1> QED BY <1>3, <1>4

\* UTC there and back, of every second of every day.
LEMMA UtcIs ==
    ASSUME NEW day \in Nat
    PROVE  UtcAgrees(day)
<1> DEFINE q == day - kJulianDayOf1970_01_01
           ymd == getYearMonthDay(day)
<1>1. q \in Int /\ q + kJulianDayOf1970_01_01 = day
  BY EpochIs
<1>2. PICK b, d, e : IsDay(day, b, d, e)
  BY DayIs
<1>3. ymd = DateOf(b, d, e)
  BY <1>2, DateIs
<1>4. getJulianDayNumber(ymd.year, ymd.month, ymd.day) = day
  BY <1>2, <1>3, NumberIs
<1> DEFINE yday == day - getJulianDayNumber(ymd.year, 1, 1)
<1>5. yday \in Int /\ 0 <= yday /\ yday <= IF IsLeap(ymd.year) THEN 365 ELSE 364
  BY <1>2, <1>3, YearDay
<1> HIDE DEF q, ymd, yday
<1>6. ASSUME NEW r \in Nat, r < 86400
      PROVE  LET s == q * kSecondsPerDay + r
                 utc == toUtcTime(s)
             IN  /\ fromUtcTime(utc) = s
                 /\ utc.hour \in 0 .. 23 /\ utc.min \in 0 .. 59 /\ utc.sec \in 0 .. 59
                 /\ utc.day = ymd.day
                 /\ utc.yday \in 0 .. IF IsLeap(utc.year) THEN 365 ELSE 364
  <2> DEFINE s == q * kSecondsPerDay + r
             utc == toUtcTime(s)
             h == r \div 3600
             mi == (r \div 60) % 60
             se == r % 60
  <2>1. Split(s) = [day |-> q, second |-> r]
    BY <1>1, <1>6, SplitIs
  <2> HIDE DEF s
  <2>2. utc = [year |-> ymd.year, month |-> ymd.month, day |-> ymd.day,
               hour |-> h, min |-> mi, sec |-> se,
               wday |-> weekDay(day), yday |-> yday]
    BY <1>1, <2>1 DEF toUtcTime, ymd, yday
  <2>3. /\ h \in 0 .. 23 /\ mi \in 0 .. 59 /\ se \in 0 .. 59
        /\ h * 3600 + mi * 60 + se = r
    BY <1>6
  <2> HIDE DEF h, mi, se, utc
  <2>4. fromUtcTime(utc) = q * kSecondsPerDay + h * 3600 + mi * 60 + se
    BY <1>4, <2>2 DEF fromUtcTime, q
  <2>5. fromUtcTime(utc) = s
    BY <1>1, <1>6, <2>3, <2>4, EpochIs DEF s
  <2>6. utc.year = ymd.year /\ utc.day = ymd.day /\ utc.hour = h /\ utc.min = mi
        /\ utc.sec = se /\ utc.yday = yday
    BY <2>2
  <2>7. yday \in 0 .. IF IsLeap(ymd.year) THEN 365 ELSE 364
    BY <1>5
  <2> QED BY <2>3, <2>5, <2>6, <2>7 DEF utc, s
<1>7. \A s \in SecondsOf(day) : \E r \in {0, 3599, 86399} : s = q * kSecondsPerDay + r
  BY DEF SecondsOf, q
<1>8. 0 < 86400 /\ 3599 < 86400 /\ 86399 < 86400
  OBVIOUS
<1>9. ASSUME NEW s \in SecondsOf(day)
      PROVE  LET utc == toUtcTime(s)
             IN  /\ fromUtcTime(utc) = s
                 /\ utc.hour \in 0 .. 23 /\ utc.min \in 0 .. 59 /\ utc.sec \in 0 .. 59
                 /\ utc.day = ymd.day
                 /\ utc.yday \in 0 .. IF IsLeap(utc.year) THEN 365 ELSE 364
  <2>1. PICK r \in {0, 3599, 86399} : s = q * kSecondsPerDay + r
    BY <1>7
  <2>2. r \in Nat /\ r < 86400
    BY <1>8
  <2> QED BY <1>6, <2>1, <2>2
<1> QED BY <1>9 DEF UtcAgrees, ymd

\* The quotient by the microseconds of a second is the only one.
LEMMA QuotientIs ==
    ASSUME NEW N \in Nat, N > 1, NEW s \in Nat, NEW u \in Nat, u < N
    PROVE  Quot(s * N + u, N) = s /\ Rem(s * N + u, N) = u
<1> DEFINE a == s * N + u
           q == a \div N
<1>1. s * N \in Nat /\ a \in Nat
  OBVIOUS
<1>2. q \in Nat /\ N * q <= a /\ a < N * q + N
  OBVIOUS
<1>3. \A i, j \in Nat : i + 1 <= j => N * i + N <= N * j
  OBVIOUS
<1>4. N * s = s * N /\ N * s <= a /\ a < N * s + N
  OBVIOUS
<1> HIDE DEF q
<1>5. ~ q + 1 <= s
  BY <1>1, <1>2, <1>3, <1>4
<1>6. ~ s + 1 <= q
  BY <1>1, <1>2, <1>3, <1>4
<1>7. q = s
  BY <1>2, <1>5, <1>6
<1>8. Quot(a, N) = s
  BY <1>1, <1>7 DEF Quot, q
<1>9. Rem(a, N) = u
  BY <1>1, <1>4, <1>8 DEF Rem
<1> QED BY <1>8, <1>9

\* A stamp's fields, at both signs of the division.
LEMMA StampsIs ==
    ASSUME NEW day \in Nat
    PROVE  StampsAgree(day)
<1> DEFINE N == kMicroSecondsPerSecond
           q == day - kJulianDayOf1970_01_01
<1>1. N \in Nat /\ N > 1
  BY TimestampAssumption, TimesAssumption
<1>2. \A s \in SecondsOf(day) : s \in Int
  BY EpochIs DEF SecondsOf
<1>3. ASSUME NEW s \in Int, NEW u \in Nat, u < N
      PROVE  LET stamp == fromUnixTime(s, u)
                 is == Fields(stamp)
                 next == Fields(addTime(stamp, 1))
             IN  /\ fromUnixTime(is.seconds, is.microseconds) = stamp
                 /\ timeDifference(addTime(stamp, u), stamp) = u
                 /\ valid(stamp) =>
                      /\ is = [seconds |-> s, microseconds |-> u]
                      /\ secondsSinceEpoch(stamp) = s
                      /\ toFormattedString(stamp) = [tm |-> toUtcTime(s), microseconds |-> u]
                      /\ \/ is.seconds = next.seconds /\ is.microseconds < next.microseconds
                         \/ is.seconds < next.seconds
  <2> DEFINE stamp == fromUnixTime(s, u)
             is == Fields(stamp)
             next == Fields(addTime(stamp, 1))
             c == Quot(stamp, N)
  <2>1. stamp = s * N + u /\ stamp \in Int
    <3>1. s * N \in Int
      BY <1>1
    <3> QED BY <1>3, <3>1 DEF fromUnixTime
  <2>2. c \in Int
    BY <1>1, <2>1 DEF Quot
  <2>3. is = [seconds |-> c, microseconds |-> stamp - N * c]
    BY DEF Fields, Rem
  <2> HIDE DEF N, stamp, c
  <2>4. fromUnixTime(is.seconds, is.microseconds) = stamp
    <3>1. c * N = N * c /\ c * N \in Int
      BY <1>1, <2>2
    <3>2. fromUnixTime(is.seconds, is.microseconds) = c * N + (stamp - N * c)
      BY <2>3 DEF fromUnixTime, N
    <3> QED BY <2>1, <3>1, <3>2
  <2>5. timeDifference(addTime(stamp, u), stamp) = u
    BY <2>1 DEF timeDifference, addTime
  <2>6. ASSUME valid(stamp)
        PROVE  /\ is = [seconds |-> s, microseconds |-> u]
               /\ secondsSinceEpoch(stamp) = s
               /\ toFormattedString(stamp) = [tm |-> toUtcTime(s), microseconds |-> u]
               /\ \/ is.seconds = next.seconds /\ is.microseconds < next.microseconds
                  \/ is.seconds < next.seconds
    <3>1. s \in Nat
      <4>1. s * N + u > 0
        BY <2>1, <2>6 DEF valid
      <4>2. s < 0 => s * N <= 0 - N
        BY <1>1
      <4>3. s * N \in Int
        BY <1>1
      <4> QED BY <1>1, <1>3, <4>1, <4>2, <4>3
    <3>2. Quot(stamp, N) = s /\ Rem(stamp, N) = u
      BY <1>1, <1>3, <2>1, <3>1, QuotientIs
    <3>3. is = [seconds |-> s, microseconds |-> u]
      BY <3>2 DEF Fields, N
    <3>4. secondsSinceEpoch(stamp) = s
      BY <3>2 DEF secondsSinceEpoch, N
    <3>5. toFormattedString(stamp) = [tm |-> toUtcTime(s), microseconds |-> u]
      BY <3>3 DEF toFormattedString
    <3>6. CASE u + 1 < N
      <4>1. addTime(stamp, 1) = s * N + (u + 1)
        <5>1. s * N \in Int
          BY <1>1
        <5> QED BY <1>3, <2>1, <5>1 DEF addTime
      <4>2. Quot(s * N + (u + 1), N) = s /\ Rem(s * N + (u + 1), N) = u + 1
        BY <1>1, <1>3, <3>1, <3>6, QuotientIs
      <4>3. next = [seconds |-> s, microseconds |-> u + 1]
        BY <4>1, <4>2 DEF Fields, N
      <4> QED BY <1>3, <3>3, <3>4, <3>5, <4>3
    <3>7. CASE ~ u + 1 < N
      <4>1. addTime(stamp, 1) = (s + 1) * N + 0
        <5>1. s * N \in Int /\ (s + 1) * N = s * N + N
          BY <1>1
        <5>2. u + 1 = N
          BY <1>1, <1>3, <3>7
        <5> QED BY <1>1, <1>3, <2>1, <5>1, <5>2 DEF addTime
      <4>2. Quot((s + 1) * N + 0, N) = s + 1
        <5>1. s + 1 \in Nat /\ 0 \in Nat /\ 0 < N
          BY <1>1, <3>1
        <5> HIDE DEF N
        <5> QED BY <1>1, <5>1, QuotientIs, Zenon
      <4>3. next.seconds = s + 1
        BY <4>1, <4>2 DEF Fields, N
      <4> QED BY <3>1, <3>3, <3>4, <3>5, <4>3
    <3> QED BY <3>6, <3>7
  <2> QED BY <2>4, <2>5, <2>6 DEF stamp
<1>4. \A u \in {0, 1, N - 1} : u \in Nat /\ u < N
  BY <1>1
<1> QED BY <1>2, <1>3, <1>4 DEF StampsAgree

\* Day numbers and dates are the same days and the next number is the next day
\* of the calendar; seconds, UTC and stamps are the same times before and after
\* 1970 (asynlog: Date's getJulianDayNumber(), getYearMonthDay(),
\* TimeZone::toUtcTime(), fromUtcTime(), Timestamp).
THEOREM TimesAgreeAlways == Queries => []TimesAgree
<1>1. ASSUME Asked, query.of = "day"
      PROVE  TimesAgree
  <2>1. query.day \in Days
    BY <1>1 DEF Asked, Nothing
  <2>2. query.day \in Nat
    BY <2>1, TimesAssumption
  <2>3. DayFollows(query.day) /\ UtcAgrees(query.day) /\ StampsAgree(query.day)
    BY <2>2, NextDay, UtcIs, StampsIs
  <2> QED BY <2>3 DEF TimesAgree
<1>2. query.of = "day" \/ TimesAgree
  BY DEF TimesAgree
<1>3. Asked => TimesAgree
  BY <1>1, <1>2
<1> QED BY <1>3, QueriesAsked, PTL

-----------------------------------------------------------------------------
(* Pieces *)

\* A search finds the first position that will do, or none.
LEMMA FirstIs ==
    ASSUME NEW T \in SUBSET Nat
    PROVE  /\ T = {} => First(T) = npos
           /\ T # {} => First(T) \in T /\ \A i \in T : First(T) <= i
BY MinIs DEF First

LEMMA FirstUnique ==
    ASSUME NEW T \in SUBSET Nat, NEW a \in T, \A i \in T : a <= i
    PROVE  First(T) = a
<1>1. T \in SUBSET Int
  OBVIOUS
<1> QED BY <1>1, MinUnique DEF First

\* Counted from the other end, the first is the last.
LEMMA MirroredIs ==
    ASSUME NEW n \in Nat, NEW T, T \subseteq 0 .. n, NEW M,
           M \subseteq 0 .. n, \A i \in 0 .. n : i \in T <=> n - i \in M
    PROVE  /\ T = {} <=> M = {}
           /\ T # {} => First(M) \in 0 .. n /\ Max(T) = n - First(M)
<1>1. \A i \in 0 .. n : n - i \in 0 .. n /\ n - (n - i) = i
  OBVIOUS
<1>2. \A i \in T : n - i \in M
  OBVIOUS
<1>3. \A i \in M : n - i \in T
  BY <1>1
<1>4. T = {} <=> M = {}
  BY <1>2, <1>3
<1>5. ASSUME T # {}
      PROVE  First(M) \in 0 .. n /\ Max(T) = n - First(M)
  <2> DEFINE a == First(M)
  <2>1. M \in SUBSET Nat /\ M # {}
    <3>1. 0 .. n \subseteq Nat
      OBVIOUS
    <3>2. M \subseteq Nat
      BY <3>1, Zenon
    <3> QED BY <1>4, <1>5, <3>2, Zenon
  <2>2. a \in M /\ \A i \in M : a <= i
    BY <2>1, FirstIs
  <2> HIDE DEF a
  <2>3. n - a \in T
    BY <1>3, <2>2
  <2>4. ASSUME NEW i \in T
        PROVE  n - a >= i
    <3>1. a <= n - i /\ i \in 0 .. n /\ a \in 0 .. n
      BY <1>2, <2>2
    <3> QED BY <3>1
  <2>5. T \in SUBSET Int
    OBVIOUS
  <2>6. Max(T) = n - a
    BY <2>3, <2>4, <2>5, MaxUnique
  <2>7. a \in 0 .. n
    BY <2>2
  <2> QED BY <2>6, <2>7 DEF a
<1> QED BY <1>4, <1>5

-----------------------------------------------------------------------------
(* Where a piece occurs *)

\* A piece occurs where it is, byte for byte.
LEMMA OccursBetween ==
    ASSUME NEW S, NEW p \in Seq(S), NEW s \in Seq(S), NEW i \in 0 .. Len(p)
    PROVE  OccursAt(s, p, i) <=>
             i + Len(s) <= Len(p) /\ \A k \in 1 .. Len(s) : p[i + k] = s[k]
<1>1. CASE i + Len(s) <= Len(p)
  <2> DEFINE part == SubSeq(p, i + 1, i + Len(s))
  <2>1. part \in Seq(S) /\ Len(part) = Len(s)
        /\ \A k \in 1 .. Len(s) : part[k] = p[i + k]
    <3>1. \A k \in 1 .. Len(s) : i + 1 + k - 1 = i + k /\ i + k \in 1 .. Len(p)
      BY <1>1
    <3>2. i + Len(s) - (i + 1) + 1 = Len(s) /\ i + 1 \in Int /\ i + Len(s) \in Int
      OBVIOUS
    <3>3. Len(part) = Len(s) /\ \A k \in 1 .. Len(s) : part[k] = p[i + 1 + k - 1]
      BY <1>1, SubSeqProperties
    <3>4. part \in Seq(S)
      BY <1>1, SubSeqProperties
    <3> QED BY <3>1, <3>3, <3>4
  <2> HIDE DEF part
  <2>2. part = s <=> \A k \in 1 .. Len(s) : p[i + k] = s[k]
    <3>1. ASSUME \A k \in 1 .. Len(s) : p[i + k] = s[k]
          PROVE  part = s
      <4>1. \A k \in 1 .. Len(part) : part[k] = s[k]
        BY <2>1, <3>1
      <4> QED BY <2>1, <4>1, SeqEqual
    <3> QED BY <2>1, <3>1
  <2> QED BY <1>1, <2>2 DEF OccursAt, part
<1>2. CASE ~ i + Len(s) <= Len(p)
  BY <1>2 DEF OccursAt
<1> QED BY <1>1, <1>2

\* A piece occurs where what is before it and what is behind it complete it.
LEMMA OccursJoins ==
    ASSUME NEW S, NEW p \in Seq(S), NEW s \in Seq(S), NEW i \in 0 .. Len(p)
    PROVE  OccursAt(s, p, i) <=>
             SubSeq(p, 1, i) \o s \o SubSeq(p, i + Len(s) + 1, Len(p)) = p
<1> DEFINE n == Len(s)
           u == SubSeq(p, 1, i)
           v == SubSeq(p, i + n + 1, Len(p))
           us == u \o s
<1>1. /\ u \in Seq(S) /\ Len(u) = i /\ \A k \in 1 .. i : u[k] = p[k]
  <2>1. /\ SubSeq(p, 0 + 1, i) \in Seq(S)
        /\ Len(SubSeq(p, 0 + 1, i)) = IF 0 <= i THEN i - 0 ELSE 0
        /\ \A k \in 1 .. i - 0 : SubSeq(p, 0 + 1, i)[k] = p[0 + k]
    BY PartIs
  <2>2. 0 + 1 = 1 /\ i - 0 = i /\ \A k \in 1 .. i : 0 + k = k
    OBVIOUS
  <2> QED BY <2>1, <2>2
<1>2. /\ v \in Seq(S) /\ Len(v) = IF i + n <= Len(p) THEN Len(p) - (i + n) ELSE 0
      /\ \A k \in 1 .. Len(p) - (i + n) : v[k] = p[i + n + k]
  <2>1. i + n \in Nat /\ Len(p) \in Nat /\ Len(p) <= Len(p)
    OBVIOUS
  <2> HIDE DEF n
  <2> QED BY <2>1, PartIs
<1>3. /\ us \in Seq(S) /\ Len(us) = i + n
      /\ \A k \in 1 .. i : us[k] = u[k]
      /\ \A k \in 1 .. n : us[i + k] = s[k]
  <2>1. us \in Seq(S) /\ Len(us) = Len(u) + Len(s)
        /\ (\A k \in 1 .. Len(u) : us[k] = u[k]) /\ \A k \in 1 .. Len(s) : us[Len(u) + k] = s[k]
    <3>1. u \in Seq(S)
      BY <1>1
    <3> HIDE DEF u
    <3> QED BY <3>1, JoinedIs
  <2> QED BY <1>1, <2>1
<1>4. n \in Nat /\ Len(p) \in Nat
  OBVIOUS
<1> HIDE DEF u, v, us
<1>5. us \o v = p <=> /\ Len(p) = Len(us) + Len(v)
                      /\ \A k \in 1 .. Len(us) : p[k] = us[k]
                      /\ \A k \in 1 .. Len(v) : p[Len(us) + k] = v[k]
  <2>1. us \in Seq(S) /\ v \in Seq(S)
    BY <1>2, <1>3
  <2> QED BY <2>1, JoinedEquals, SMTT(30)
<1>6. OccursAt(s, p, i) <=> i + n <= Len(p) /\ \A k \in 1 .. n : p[i + k] = s[k]
  BY OccursBetween
<1> HIDE DEF n
<1>7. ASSUME us \o v = p
      PROVE  OccursAt(s, p, i)
  <2>1. i + n <= Len(p)
    BY <1>2, <1>3, <1>4, <1>5, <1>7
  <2>2. ASSUME NEW k \in 1 .. n
        PROVE  p[i + k] = s[k]
    <3>1. i + k \in 1 .. i + n
      BY <1>4
    <3> QED BY <1>3, <1>5, <1>7, <3>1
  <2> QED BY <1>6, <2>1, <2>2
<1>8. ASSUME OccursAt(s, p, i)
      PROVE  us \o v = p
  <2>1. Len(p) = Len(us) + Len(v) /\ Len(v) = Len(p) - (i + n)
    <3>1. i + n <= Len(p)
      BY <1>6, <1>8
    <3>2. Len(us) = i + n /\ Len(v) = Len(p) - (i + n)
      BY <1>2, <1>3, <3>1
    <3> QED BY <1>4, <3>2
  <2>2. ASSUME NEW k \in 1 .. i + n
        PROVE  p[k] = us[k]
    <3>1. CASE k <= i
      <4>1. k \in 1 .. i
        BY <1>4, <3>1
      <4> QED BY <1>1, <1>3, <4>1
    <3>2. CASE ~ k <= i
      <4>1. k - i \in 1 .. n /\ i + (k - i) = k
        BY <1>4, <3>2
      <4> QED BY <1>3, <1>6, <1>8, <4>1
    <3> QED BY <3>1, <3>2
  <2>3. \A k \in 1 .. Len(v) : p[Len(us) + k] = v[k]
    BY <1>2, <1>3, <2>1
  <2> QED BY <1>3, <1>5, <2>1, <2>2, <2>3
<1> QED BY <1>7, <1>8 DEF u, v, us, n

-----------------------------------------------------------------------------
(* Searches upwards *)

\* find() and its kin find the first position, past their early returns.
LEMMA FindIs ==
    ASSUME NEW p \in Seq(Bytes), NEW s \in Seq(Bytes), s # <<>>, NEW pos \in Nat
    PROVE  find(p, s, pos) = First({i \in pos .. Len(p) : OccursAt(s, p, i)})
<1> DEFINE T == {i \in pos .. Len(p) : OccursAt(s, p, i)}
<1>1. Len(s) \in Nat \ {0} /\ Len(p) \in Nat /\ (p = <<>> <=> Len(p) = 0)
  OBVIOUS
<1>2. ASSUME NEW i \in T
      PROVE  i \in pos .. Len(p) - 1
  <2>1. i \in pos .. Len(p) /\ i + Len(s) <= Len(p)
    BY DEF OccursAt
  <2> QED BY <1>1, <2>1
<1>3. CASE p = <<>> \/ pos > Len(p)
  <2>1. T = {}
    BY <1>1, <1>2, <1>3
  <2>2. find(p, s, pos) = npos
    BY <1>3 DEF find
  <2> HIDE DEF T
  <2>3. First(T) = npos
    BY <2>1 DEF First
  <2> QED BY <2>2, <2>3 DEF T
<1>4. CASE ~ (p = <<>> \/ pos > Len(p))
  <2>1. T = {i \in pos .. Len(p) - 1 : OccursAt(s, p, i)}
    <3>1. pos .. Len(p) - 1 \subseteq pos .. Len(p)
      BY <1>1
    <3> QED BY <1>2, <3>1
  <2>2. find(p, s, pos) = First({i \in pos .. Len(p) - 1 : OccursAt(s, p, i)})
    BY <1>4, Zenon DEF find
  <2> QED BY <2>1, <2>2, Zenon
<1> QED BY <1>3, <1>4

LEMMA FindFirstOfIs ==
    ASSUME NEW p \in Seq(Bytes), NEW s \in Seq(Bytes), NEW pos \in Nat
    PROVE  find_first_of(p, s, pos) =
             First({i \in pos .. Len(p) - 1 : At(p, i) \in ToSet(s)})
<1> DEFINE T == {i \in pos .. Len(p) - 1 : At(p, i) \in ToSet(s)}
<1>1. CASE p = <<>> \/ s = <<>>
  <2>1. T = {}
    <3>1. CASE p = <<>>
      <4>1. pos .. Len(p) - 1 = {}
        BY <3>1
      <4> QED BY <4>1
    <3>2. CASE s = <<>>
      BY <3>2 DEF ToSet
    <3> QED BY <1>1, <3>1, <3>2
  <2>2. find_first_of(p, s, pos) = npos
    BY <1>1 DEF find_first_of
  <2> HIDE DEF T
  <2>3. First(T) = npos
    BY <2>1 DEF First
  <2> QED BY <2>2, <2>3 DEF T
<1>2. CASE ~ (p = <<>> \/ s = <<>>) /\ Len(s) = 1
  <2>1. ToSet(s) = {s[1]}
    <3>1. DOMAIN s = {1}
      BY <1>2
    <3> QED BY <3>1 DEF ToSet
  <2>2. T = {i \in pos .. Len(p) - 1 : At(p, i) = s[1]}
    BY <2>1
  <2>3. find_first_of(p, s, pos) = First({i \in pos .. Len(p) - 1 : At(p, i) = s[1]})
    BY <1>2, Zenon DEF find_first_of, findChar
  <2> QED BY <2>2, <2>3, Zenon
<1>3. CASE ~ (p = <<>> \/ s = <<>>) /\ Len(s) # 1
  BY <1>3, Zenon DEF find_first_of
<1> QED BY <1>1, <1>2, <1>3

LEMMA FindFirstNotOfIs ==
    ASSUME NEW p \in Seq(Bytes), NEW s \in Seq(Bytes), s # <<>>, NEW pos \in Nat
    PROVE  find_first_not_of(p, s, pos) =
             First({i \in pos .. Len(p) - 1 : At(p, i) \notin ToSet(s)})
<1> DEFINE T == {i \in pos .. Len(p) - 1 : At(p, i) \notin ToSet(s)}
<1>1. CASE p = <<>>
  <2>1. T = {}
    <3>1. pos .. Len(p) - 1 = {}
      BY <1>1
    <3> QED BY <3>1
  <2>2. find_first_not_of(p, s, pos) = npos
    BY <1>1 DEF find_first_not_of
  <2> HIDE DEF T
  <2>3. First(T) = npos
    BY <2>1 DEF First
  <2> QED BY <2>2, <2>3 DEF T
<1>2. CASE p # <<>>
  BY <1>2, Zenon DEF find_first_not_of
<1> QED BY <1>1, <1>2

\* The first position where any byte of a set is, of those where each is.
LEMMA FirstOfAny ==
    ASSUME NEW p \in Seq(Bytes), NEW s \in Seq(Bytes), NEW pos \in Nat, Len(p) < npos
    PROVE  First({i \in pos .. Len(p) - 1 : At(p, i) \in ToSet(s)}) =
             First({findChar(p, s[k], pos) : k \in DOMAIN s} \cup {npos})
<1> DEFINE T == {i \in pos .. Len(p) - 1 : At(p, i) \in ToSet(s)}
           Of(k) == {i \in pos .. Len(p) - 1 : At(p, i) = s[k]}
           R == {findChar(p, s[k], pos) : k \in DOMAIN s} \cup {npos}
<1>1. npos \in Nat /\ pos .. Len(p) - 1 \subseteq Nat /\ \A i \in pos .. Len(p) - 1 : i <= npos
  BY PieceAssumption
<1>2. \A k \in DOMAIN s : findChar(p, s[k], pos) = First(Of(k))
  BY DEF findChar
<1>3. \A k \in DOMAIN s : Of(k) \subseteq T /\ Of(k) \in SUBSET Nat
  BY <1>1 DEF ToSet
<1>4. \A i \in T : \E k \in DOMAIN s : i \in Of(k)
  BY DEF ToSet
<1>5. T \in SUBSET Nat /\ \A i \in T : i <= npos
  BY <1>1
<1> HIDE DEF Of, T
<1>6. \A k \in DOMAIN s : /\ Of(k) = {} => First(Of(k)) = npos
                         /\ Of(k) # {} => First(Of(k)) \in T /\ First(Of(k)) \in Of(k)
                                          /\ \A i \in Of(k) : First(Of(k)) <= i
  BY <1>3, FirstIs
<1>7. R = {First(Of(k)) : k \in DOMAIN s} \cup {npos}
  BY <1>2
<1>11. \A k \in DOMAIN s : First(Of(k)) \in T \/ First(Of(k)) = npos
  <2>1. ASSUME NEW k \in DOMAIN s
        PROVE  First(Of(k)) \in T \/ First(Of(k)) = npos
    <3>1. Of(k) \in SUBSET Nat /\ Of(k) \subseteq T
      BY <1>3
    <3>2. Of(k) = {} => First(Of(k)) = npos
      BY <3>1, FirstIs
    <3>3. Of(k) # {} => First(Of(k)) \in Of(k)
      BY <3>1, FirstIs
    <3> QED BY <3>1, <3>2, <3>3
  <2> QED BY <2>1
<1>12. ASSUME NEW i \in R
       PROVE  i \in T \/ i = npos
  <2>1. i = npos \/ \E k \in DOMAIN s : i = First(Of(k))
    BY <1>7
  <2> QED BY <1>11, <2>1, Zenon
<1>8. R \in SUBSET Nat
  <2>1. \A i \in R : i \in Nat
    BY <1>1, <1>5, <1>12
  <2> QED BY <2>1
<1> HIDE DEF R
<1>9. CASE T = {}
  <2>1. npos \in R
    BY <1>7
  <2>2. npos \in R /\ \A i \in R : npos <= i
    BY <1>1, <1>9, <1>12, <2>1
  <2>3. First(R) = npos
    BY <1>8, <2>2, FirstUnique
  <2>4. First(T) = npos
    BY <1>5, <1>9, FirstIs
  <2> QED BY <2>3, <2>4 DEF T, R
<1>10. CASE T # {}
  <2> DEFINE a == First(T)
  <2>1. a \in T /\ \A i \in T : a <= i
    BY <1>5, <1>10, FirstIs
  <2> HIDE DEF a
  <2>2. PICK k \in DOMAIN s : a \in Of(k)
    BY <1>4, <2>1
  <2>3. First(Of(k)) = a
    <3>1. First(Of(k)) \in T /\ First(Of(k)) <= a
      BY <1>6, <2>2
    <3>2. a <= First(Of(k)) /\ a \in Nat /\ First(Of(k)) \in Nat
      BY <1>5, <2>1, <3>1
    <3> QED BY <3>1, <3>2
  <2>4. a \in R
    BY <1>7, <2>3
  <2>5. ASSUME NEW i \in R
        PROVE  a <= i
    <3>1. CASE i = npos
      BY <1>5, <2>1, <3>1
    <3>2. CASE i # npos
      BY <1>12, <2>1, <3>2
    <3> QED BY <3>1, <3>2
  <2>6. First(R) = a
    BY <1>8, <2>4, <2>5, FirstUnique
  <2> QED BY <2>6 DEF a, T, R
<1> QED BY <1>9, <1>10

\* Of two neighbours one is in the set and one is not.
LEMMA FirstOrFirstNot ==
    ASSUME NEW p \in Seq(Bytes), NEW s \in Seq(Bytes), s # <<>>, NEW pos \in Nat,
           Len(p) < npos, pos < Len(p)
    PROVE  LET of == find_first_of(p, s, pos)
               notOf == find_first_not_of(p, s, pos)
           IN  of # notOf /\ Least(of, notOf) = pos
<1> DEFINE I == pos .. Len(p) - 1
           T == {i \in I : At(p, i) \in ToSet(s)}
           N == {i \in I : At(p, i) \notin ToSet(s)}
<1>1. find_first_of(p, s, pos) = First(T) /\ find_first_not_of(p, s, pos) = First(N)
  BY FindFirstOfIs, FindFirstNotOfIs
<1>2. pos \in I /\ I \subseteq Nat /\ npos \in Nat /\ pos < npos /\ \A i \in I : pos <= i
  BY PieceAssumption
<1> HIDE DEF I
<1>3. T \in SUBSET Nat /\ N \in SUBSET Nat
  BY <1>2
<1>4. (pos \in T /\ pos \notin N) \/ (pos \in N /\ pos \notin T)
  BY <1>2
<1>5. \A i \in T \cup N : pos <= i
  BY <1>2
<1> HIDE DEF T, N
<1>6. ASSUME NEW A \in SUBSET Nat, \A i \in A : pos <= i
      PROVE  /\ pos \in A => First(A) = pos
             /\ pos \notin A => First(A) \in Nat /\ First(A) > pos
  <2>1. pos \in A => First(A) = pos
    BY <1>6, FirstUnique
  <2>2. ASSUME pos \notin A
        PROVE  First(A) \in Nat /\ First(A) > pos
    <3>1. CASE A = {}
      BY <1>2, <3>1, FirstIs
    <3>2. CASE A # {}
      <4>1. First(A) \in A
        BY <3>2, FirstIs
      <4>2. pos <= First(A) /\ First(A) # pos /\ First(A) \in Nat
        BY <1>6, <2>2, <4>1
      <4> QED BY <4>2
    <3> QED BY <3>1, <3>2
  <2> QED BY <2>1, <2>2
<1>7. \/ First(T) = pos /\ First(N) \in Nat /\ First(N) > pos
      \/ First(N) = pos /\ First(T) \in Nat /\ First(T) > pos
  BY <1>3, <1>4, <1>5, <1>6
<1> QED BY <1>1, <1>7 DEF Least

\* The searches upwards.
LEMMA Upwards ==
    ASSUME query.of = "search", query.p \in Seq(Bytes), query.s \in Seq(Bytes),
           query.pos \in Nat, Len(query.p) < npos
    PROVE  SearchesUpwards
<1> DEFINE p == query.p
           s == query.s
           pos == query.pos
           At3(i) == \E v \in {SubSeq(p, i + Len(s) + 1, Len(p))} : SubSeq(p, 1, i) \o s \o v = p
<1>1. p \in Seq(Bytes) /\ s \in Seq(Bytes) /\ pos \in Nat /\ Len(p) < npos
  OBVIOUS
<1> HIDE DEF p, s, pos
<1>2. s # <<>> => find(p, s, pos) = First({i \in pos .. Len(p) : At3(i)})
  <2>1. ASSUME NEW i \in pos .. Len(p)
        PROVE  OccursAt(s, p, i) <=> At3(i)
    <3>1. i \in 0 .. Len(p)
      BY <1>1
    <3>2. OccursAt(s, p, i) <=>
             SubSeq(p, 1, i) \o s \o SubSeq(p, i + Len(s) + 1, Len(p)) = p
      BY <1>1, <3>1, OccursJoins
    <3> QED BY <3>2, Zenon
  <2> HIDE DEF At3
  <2>2. {i \in pos .. Len(p) : OccursAt(s, p, i)} = {i \in pos .. Len(p) : At3(i)}
    BY <2>1
  <2>3. s # <<>> => find(p, s, pos) = First({i \in pos .. Len(p) : OccursAt(s, p, i)})
    BY <1>1, FindIs
  <2> QED BY <2>2, <2>3, Zenon
<1>3. find_first_of(p, s, pos) = First({findChar(p, s[k], pos) : k \in DOMAIN s} \cup {npos})
  <2>1. find_first_of(p, s, pos) = First({i \in pos .. Len(p) - 1 : At(p, i) \in ToSet(s)})
    BY <1>1, FindFirstOfIs
  <2>2. First({i \in pos .. Len(p) - 1 : At(p, i) \in ToSet(s)}) =
          First({findChar(p, s[k], pos) : k \in DOMAIN s} \cup {npos})
    BY <1>1, FirstOfAny
  <2> QED BY <2>1, <2>2, Zenon
<1>4. s # <<>> /\ pos < Len(p) =>
        /\ find_first_of(p, s, pos) # find_first_not_of(p, s, pos)
        /\ Least(find_first_of(p, s, pos), find_first_not_of(p, s, pos)) = pos
  BY <1>1, FirstOrFirstNot
<1> QED BY <1>2, <1>3, <1>4, Zenon DEF SearchesUpwards, p, s, pos

-----------------------------------------------------------------------------
(* Searches downwards *)

\* Where a piece occurs, its mirror image occurs in the mirror.
LEMMA OccursMirrored ==
    ASSUME NEW S, NEW p \in Seq(S), NEW s \in Seq(S), Len(s) <= Len(p),
           NEW i \in 0 .. Len(p) - Len(s)
    PROVE  OccursAt(s, p, i) <=>
             OccursAt(Reverse(s), Reverse(p), Len(p) - Len(s) - i)
<1> DEFINE m == Len(p)
           n == Len(s)
           rp == Reverse(p)
           rs == Reverse(s)
           j == m - n - i
<1>1. /\ rp \in Seq(S) /\ Len(rp) = m /\ \A k \in 1 .. m : rp[k] = p[m - k + 1]
      /\ rs \in Seq(S) /\ Len(rs) = n /\ \A k \in 1 .. n : rs[k] = s[n - k + 1]
  BY ReverseIs
<1>2. m \in Nat /\ n \in Nat /\ i \in 0 .. m /\ i + n <= m /\ j \in 0 .. m /\ j + n <= m
      /\ j = m - n - i
  OBVIOUS
<1>3. OccursAt(s, p, i) <=> \A k \in 1 .. n : p[i + k] = s[k]
  BY <1>2, OccursBetween
<1>4. OccursAt(rs, rp, j) <=> \A k \in 1 .. n : rp[j + k] = rs[k]
  <2>1. /\ rp \in Seq(S) /\ rs \in Seq(S) /\ Len(rs) = n
        /\ j \in 0 .. Len(rp) /\ j + Len(rs) <= Len(rp)
    BY <1>1, <1>2
  <2>3. rp \in Seq(S) /\ rs \in Seq(S) /\ j \in 0 .. Len(rp)
    BY <2>1
  <2> HIDE DEF rp, rs, j, n, m
  <2>2. OccursAt(rs, rp, j) <=>
          j + Len(rs) <= Len(rp) /\ \A k \in 1 .. Len(rs) : rp[j + k] = rs[k]
    BY <2>3, OccursBetween, SMT
  <2> QED BY <2>1, <2>2
<1> HIDE DEF m, n, rp, rs, j
<1>5. \A k \in 1 .. n : /\ n - k + 1 \in 1 .. n /\ n - (n - k + 1) + 1 = k
                       /\ j + k \in 1 .. m /\ m - (j + k) + 1 = i + (n - k + 1)
  BY <1>2
<1>6. ASSUME NEW k \in 1 .. n
      PROVE  rp[j + k] = rs[k] <=> p[i + (n - k + 1)] = s[n - k + 1]
  <2>1. rp[j + k] = p[i + (n - k + 1)]
    <3>1. j + k \in 1 .. m /\ m - (j + k) + 1 = i + (n - k + 1)
      BY <1>5
    <3>2. \A x \in 1 .. m : rp[x] = p[m - x + 1]
      BY <1>1
    <3>3. rp[j + k] = p[m - (j + k) + 1]
      BY <3>1, <3>2
    <3> QED BY <3>1, <3>3
  <2>2. rs[k] = s[n - k + 1]
    BY <1>1
  <2> QED BY <2>1, <2>2
<1>7. ASSUME \A k \in 1 .. n : p[i + k] = s[k]
      PROVE  \A k \in 1 .. n : rp[j + k] = rs[k]
  BY <1>5, <1>6, <1>7
<1>8. ASSUME \A k \in 1 .. n : rp[j + k] = rs[k], NEW k \in 1 .. n
      PROVE  p[i + k] = s[k]
  <2>1. n - k + 1 \in 1 .. n /\ n - (n - k + 1) + 1 = k
    BY <1>5
  <2>2. p[i + (n - (n - k + 1) + 1)] = s[n - (n - k + 1) + 1]
    BY <1>6, <1>8, <2>1
  <2> QED BY <2>1, <2>2
<1> QED BY <1>3, <1>4, <1>7, <1>8 DEF m, n, rp, rs, j

\* A search downwards for a piece.
LEMMA RfindMirrored ==
    ASSUME NEW p \in Seq(Bytes), NEW s \in Seq(Bytes), s # <<>>, NEW pos \in Nat, Len(p) < npos
    PROVE  LET n == Len(s)
               from == IF Len(p) < n THEN 0 ELSE Len(p) - n - Least(pos, Len(p) - n)
               answer == find(Reverse(p), Reverse(s), from)
           IN  rfind(p, s, pos) = IF answer = npos THEN npos ELSE Len(p) - n - answer
<1> DEFINE m == Len(p)
           n == Len(s)
           rp == Reverse(p)
           rs == Reverse(s)
           from == IF m < n THEN 0 ELSE m - n - Least(pos, m - n)
           answer == find(rp, rs, from)
           M == {i \in from .. m : OccursAt(rs, rp, i)}
           last == Least(m - n, pos)
           T == {i \in 0 .. m : OccursAt(s, p, i) /\ i + n <= last + n}
<1>1. m \in Nat /\ n \in Nat /\ n # 0 /\ npos \in Nat /\ m < npos
  BY PieceAssumption
<1>2. rp \in Seq(Bytes) /\ rs \in Seq(Bytes) /\ Len(rp) = m /\ Len(rs) = n /\ rs # <<>>
  <2>1. rp \in Seq(Bytes) /\ rs \in Seq(Bytes) /\ Len(rp) = m /\ Len(rs) = n
    BY ReverseIs
  <2> HIDE DEF rp, rs
  <2> QED BY <1>1, <2>1
<1>3. from \in Nat
  BY <1>1 DEF Least
<1>4. answer = First(M)
  <2> HIDE DEF rp, rs, from
  <2>1. find(rp, rs, from) = First({i \in from .. Len(rp) : OccursAt(rs, rp, i)})
    BY <1>2, <1>3, FindIs
  <2> QED BY <1>2, <2>1
<1>5. M \subseteq from .. m /\ \A i \in from .. m : i \in M <=> OccursAt(rs, rp, i)
  OBVIOUS
<1>6. \A i \in M : i + n <= m
  BY <1>2 DEF OccursAt
<1>7. CASE m < n
  <2>1. M = {}
    <3>1. \A i \in M : FALSE
      BY <1>1, <1>3, <1>5, <1>6, <1>7
    <3> QED BY <3>1
  <2>2. First(M) = npos
    <3> HIDE DEF M
    <3> QED BY <2>1 DEF First
  <2>3. rfind(p, s, pos) = npos
    BY <1>7 DEF rfind
  <2> QED BY <1>4, <2>2, <2>3, Zenon
<1>8. CASE ~ m < n
  <2>1. last \in 0 .. m - n /\ from = m - n - last /\ from \in 0 .. m - n
    <3> HIDE DEF m, n
    <3>1. Least(pos, m - n) = last /\ last \in 0 .. m - n
      BY <1>1, <1>8 DEF Least
    <3>2. from = m - n - last
      BY <1>8, <3>1
    <3> HIDE DEF last, from
    <3> QED BY <1>1, <1>8, <3>1, <3>2
  <2>2. rfind(p, s, pos) = IF T = {} THEN npos ELSE Max(T)
    BY <1>1, <1>8, Zenon DEF rfind
  <2>3. \A i \in 0 .. m - n : OccursAt(s, p, i) <=> OccursAt(rs, rp, m - n - i)
    <3>1. Len(s) <= Len(p)
      BY <1>1, <1>8
    <3> QED BY <3>1, OccursMirrored
  <2>4. T \subseteq 0 .. m /\ \A i \in 0 .. m : i \in T <=> OccursAt(s, p, i) /\ i + n <= last + n
    OBVIOUS
  <2> HIDE DEF m, n, from, M, T, last, rp, rs
  <2>5. T \subseteq 0 .. m - n
    <3>1. ASSUME NEW i \in T
          PROVE  i \in 0 .. m - n
      <4>1. i \in 0 .. m /\ i + n <= last + n
        BY <2>4
      <4> QED BY <1>1, <2>1, <4>1
    <3> QED BY <3>1
  <2>6. M \subseteq 0 .. m - n
    <3>1. ASSUME NEW i \in M
          PROVE  i \in 0 .. m - n
      <4>1. i \in from .. m /\ i + n <= m
        BY <1>5, <1>6
      <4> QED BY <1>1, <2>1, <4>1
    <3> QED BY <3>1
  <2>7. ASSUME NEW i \in 0 .. m - n
        PROVE  i \in T <=> m - n - i \in M
    <3>1. i \in T <=> OccursAt(s, p, i) /\ i <= last
      <4>1. i \in 0 .. m /\ (i + n <= last + n <=> i <= last)
        BY <1>1, <2>1
      <4> QED BY <2>4, <4>1
    <3>2. m - n - i \in 0 .. m /\ (i <= last <=> m - n - i \in from .. m)
      BY <1>1, <2>1
    <3>3. m - n - i \in M <=> m - n - i \in from .. m /\ OccursAt(rs, rp, m - n - i)
      BY <1>5
    <3> QED BY <2>3, <3>1, <3>2, <3>3
  <2>8. m - n \in Nat
    BY <1>1, <1>8
  <2>9. /\ T = {} <=> M = {}
        /\ T # {} => First(M) \in 0 .. m - n /\ Max(T) = m - n - First(M)
    BY <2>5, <2>6, <2>7, <2>8, MirroredIs
  <2>10. CASE T = {}
    <3>1. First(M) = npos
      BY <2>9, <2>10 DEF First
    <3>2. rfind(p, s, pos) = npos /\ answer = npos
      BY <1>4, <2>2, <2>10, <3>1, Zenon
    <3> QED BY <3>2, Zenon DEF m, n, from, rp, rs
  <2>11. CASE T # {}
    <3>1. First(M) # npos
      BY <1>1, <2>9, <2>11
    <3>2. rfind(p, s, pos) = m - n - answer /\ answer # npos
      BY <1>4, <2>2, <2>9, <2>11, <3>1
    <3> QED BY <3>2, Zenon DEF m, n, from, rp, rs
  <2> QED BY <2>10, <2>11
<1> QED BY <1>7, <1>8

\* A search downwards for a byte of a set.
LEMMA DownwardsMirrored ==
    ASSUME NEW p \in Seq(Bytes), p # <<>>, NEW pos \in Nat, Len(p) < npos, NEW W
    PROVE  LET from == Len(p) - 1 - Least(pos, Len(p) - 1)
               hit == First({i \in from .. Len(p) - 1 : At(Reverse(p), i) \in W})
           IN  hit # npos => Downwards(p, pos, W) = {Len(p) - 1 - hit}
<1> DEFINE m == Len(p)
           rp == Reverse(p)
           last == Least(pos, m - 1)
           from == m - 1 - last
           M == {i \in from .. m - 1 : At(rp, i) \in W}
           T == {i \in 0 .. last : At(p, i) \in W}
<1>1. m \in Nat /\ m >= 1
  OBVIOUS
<1>2. \A k \in 1 .. m : rp[k] = p[m - k + 1]
  BY ReverseIs
<1>3. Downwards(p, pos, W) = IF T # {} THEN {Max(T)} ELSE {Crash} \cup m .. npos
  BY Zenon DEF Downwards
<1>4. (\A i : i \in T <=> i \in 0 .. last /\ At(p, i) \in W)
      /\ \A i : i \in M <=> i \in from .. m - 1 /\ At(rp, i) \in W
  OBVIOUS
<1> HIDE DEF m, rp, T, M
<1>5. last \in 0 .. m - 1
  BY <1>1 DEF Least
<1>6. from = m - 1 - last
  OBVIOUS
<1> HIDE DEF last, from
<1>7. from \in 0 .. m - 1
  BY <1>1, <1>5, <1>6
<1>8. ASSUME NEW i \in 0 .. m - 1
      PROVE  i \in T <=> m - 1 - i \in M
  <2>1. (m - 1 - i) + 1 \in 1 .. m /\ m - ((m - 1 - i) + 1) + 1 = i + 1
        /\ (i \in 0 .. last <=> m - 1 - i \in from .. m - 1)
    BY <1>1, <1>5, <1>6
  <2>2. At(rp, m - 1 - i) = At(p, i)
    BY <1>2, <2>1 DEF At
  <2> QED BY <1>4, <2>1, <2>2
<1>9. T \subseteq 0 .. m - 1 /\ M \subseteq 0 .. m - 1
  <2>1. ASSUME NEW i \in T
        PROVE  i \in 0 .. m - 1
    <3>1. i \in 0 .. last
      BY <1>4
    <3> QED BY <1>1, <1>5, <3>1
  <2>2. ASSUME NEW i \in M
        PROVE  i \in 0 .. m - 1
    <3>1. i \in from .. m - 1
      BY <1>4
    <3> QED BY <1>1, <1>7, <3>1
  <2> QED BY <2>1, <2>2
<1>10. m - 1 \in Nat
  BY <1>1
<1>11. /\ T = {} <=> M = {}
       /\ T # {} => First(M) \in 0 .. m - 1 /\ Max(T) = m - 1 - First(M)
  BY <1>8, <1>9, <1>10, MirroredIs
<1>12. ASSUME First(M) # npos
       PROVE  Downwards(p, pos, W) = {m - 1 - First(M)}
  <2>1. M # {}
    BY <1>12 DEF First
  <2> QED BY <1>3, <1>11, <2>1
<1> QED BY <1>12 DEF m, rp, last, from, M

\* The searches downwards.
LEMMA Downward ==
    ASSUME query.of = "search", query.p \in Seq(Bytes), query.s \in Seq(Bytes),
           query.pos \in Nat, Len(query.p) < npos
    PROVE  SearchesDownwards
<1> DEFINE p == query.p
           s == query.s
           pos == query.pos
           m == Len(p)
           rp == Reverse(p)
           from(n) == IF m < n THEN 0 ELSE m - n - Least(pos, m - n)
           of == find_first_of(rp, s, from(1))
           notOf == find_first_not_of(rp, s, from(1))
           mirrored(last, answer) == IF answer = npos THEN npos ELSE last - answer
<1>1. p \in Seq(Bytes) /\ s \in Seq(Bytes) /\ pos \in Nat /\ m < npos /\ m \in Nat
  OBVIOUS
<1> HIDE DEF p, s, pos
<1>2. /\ rp \in Seq(Bytes) /\ Len(rp) = m
      /\ \A k \in 1 .. m : rp[k] = p[m - k + 1]
  BY <1>1, ReverseIs
<1>3. s # <<>> => rfind(p, s, pos) = mirrored(m - Len(s), find(rp, Reverse(s), from(Len(s))))
  BY <1>1, RfindMirrored
<1>4. p = <<>> \/ m >= 1
  BY <1>1
<1>5. CASE p = <<>>
  <2>1. rp = <<>>
    BY <1>1, <1>2, <1>5
  <2>2. of = npos /\ notOf = npos
    BY <2>1 DEF find_first_of, find_first_not_of
  <2> QED BY <1>3, <2>2 DEF SearchesDownwards, p, s, pos
<1>6. CASE p # <<>> /\ s # <<>>
  <2> DEFINE last == Least(pos, m - 1)
             f == m - 1 - last
             Hit(W) == First({i \in f .. m - 1 : At(rp, i) \in W})
  <2>1. from(1) = f /\ f \in Nat
    <3>1. last \in 0 .. m - 1
      BY <1>1, <1>4, <1>6 DEF Least
    <3> QED BY <1>1, <1>4, <1>6, <3>1
  <2>2. \A W : Hit(W) # npos => Downwards(p, pos, W) = {m - 1 - Hit(W)}
    BY <1>1, <1>6, DownwardsMirrored
  <2>3. ASSUME NEW i \in f .. m - 1
        PROVE  At(rp, i) \in ToSet(p)
    <3>1. i + 1 \in 1 .. m /\ m - (i + 1) + 1 \in 1 .. m
      BY <1>1, <2>1
    <3>2. At(rp, i) = p[m - (i + 1) + 1]
      BY <1>2, <3>1 DEF At
    <3>3. DOMAIN p = 1 .. m
      BY <1>1
    <3> QED BY <3>1, <3>2, <3>3 DEF ToSet
  <2> HIDE DEF f, rp, m
  <2>8. rp \in Seq(Bytes) /\ s \in Seq(Bytes) /\ f \in Nat
    BY <1>1, <1>2, <2>1
  <2>4. of = Hit(ToSet(s))
    <3>1. find_first_of(rp, s, f) = First({i \in f .. Len(rp) - 1 : At(rp, i) \in ToSet(s)})
      BY <2>8, FindFirstOfIs
    <3> QED BY <1>2, <2>1, <3>1
  <2>5. notOf = Hit(ToSet(p) \ ToSet(s))
    <3>1. find_first_not_of(rp, s, f) = First({i \in f .. Len(rp) - 1 : At(rp, i) \notin ToSet(s)})
      BY <1>6, <2>8, FindFirstNotOfIs
    <3>2. {i \in f .. m - 1 : At(rp, i) \notin ToSet(s)} =
            {i \in f .. m - 1 : At(rp, i) \in ToSet(p) \ ToSet(s)}
      BY <2>3
    <3> QED BY <1>2, <2>1, <3>1, <3>2
  <2>6. of # npos => find_last_of(p, s, pos) = {m - 1 - of}
    <3>1. find_last_of(p, s, pos) = Downwards(p, pos, ToSet(s))
      BY <1>6, Zenon DEF find_last_of
    <3> QED BY <2>2, <2>4, <3>1, Zenon
  <2>7. notOf # npos => find_last_not_of(p, s, pos) = {m - 1 - notOf}
    <3>1. find_last_not_of(p, s, pos) = Downwards(p, pos, ToSet(p) \ ToSet(s))
      BY <1>6, Zenon DEF find_last_not_of
    <3> QED BY <2>2, <2>5, <3>1, Zenon
  <2> QED BY <1>3, <1>6, <2>6, <2>7, Zenon DEF SearchesDownwards, p, s, pos, m, rp
<1>7. CASE s = <<>>
  BY <1>7 DEF SearchesDownwards, s
<1> QED BY <1>5, <1>6, <1>7

-----------------------------------------------------------------------------
(* Parts *)

\* A prefix and what is consumed behind it.
LEMMA ConsumedIs ==
    ASSUME NEW S, NEW p \in Seq(S), NEW s \in Seq(S)
    PROVE  /\ starts_with(p, s) <=> s \o Consume(p, s) = p
           /\ ends_with(p, s) <=> ConsumeFromEnd(p, s) \o s = p
<1> DEFINE m == Len(p)
           n == Len(s)
<1>1. m \in Nat /\ n \in Nat
  OBVIOUS
<1>2. ASSUME starts_with(p, s)
      PROVE  s \o Consume(p, s) = p
  <2>1. n <= m /\ SubSeq(p, 1, n) = s
    <3>1. 0 + n <= m /\ SubSeq(p, 0 + 1, 0 + n) = s
      BY <1>2 DEF starts_with, OccursAt
    <3> QED BY <1>1, <3>1
  <2>2. Consume(p, s) = SubSeq(p, n + 1, m)
    BY <1>2 DEF Consume
  <2>3. SubSeq(p, 1, n) \o SubSeq(p, n + 1, m) = p
    <3>1. n \in 0 .. m
      BY <1>1, <2>1
    <3> HIDE DEF n
    <3> QED BY <3>1, CutAndJoin
  <2> QED BY <2>1, <2>2, <2>3
<1>3. ASSUME ~ starts_with(p, s)
      PROVE  s \o Consume(p, s) # p
  <2>1. Consume(p, s) = p
    BY <1>3 DEF Consume
  <2>2. ASSUME s \o p = p
        PROVE  FALSE
    <3>1. m = n + m
      BY <2>2, JoinedEquals
    <3>2. n = 0
      BY <1>1, <3>1
    <3>3. \A k \in 1 .. n : p[0 + k] = s[k]
      BY <3>2
    <3>4. 0 \in 0 .. m /\ 0 + n <= m
      BY <1>1, <3>2
    <3>5. OccursAt(s, p, 0)
      BY <3>3, <3>4, OccursBetween
    <3> QED BY <1>3, <3>5 DEF starts_with
  <2> QED BY <2>1, <2>2
<1>4. ASSUME ends_with(p, s)
      PROVE  ConsumeFromEnd(p, s) \o s = p
  <2>1. n <= m /\ SubSeq(p, (m - n) + 1, (m - n) + n) = s
    BY <1>4 DEF ends_with, OccursAt
  <2>2. (m - n) + n = m /\ m - n \in 0 .. m
    BY <1>1, <2>1
  <2>3. ConsumeFromEnd(p, s) = SubSeq(p, 1, m - n)
    BY <1>4 DEF ConsumeFromEnd
  <2>4. SubSeq(p, 1, m - n) \o SubSeq(p, (m - n) + 1, m) = p
    BY <2>2, CutAndJoin
  <2> QED BY <2>1, <2>2, <2>3, <2>4
<1>5. ASSUME ~ ends_with(p, s)
      PROVE  ConsumeFromEnd(p, s) \o s # p
  <2>1. ConsumeFromEnd(p, s) = p
    BY <1>5 DEF ConsumeFromEnd
  <2>2. ASSUME p \o s = p
        PROVE  FALSE
    <3>1. m = m + n
      BY <2>2, JoinedEquals
    <3>2. n = 0
      BY <1>1, <3>1
    <3>3. \A k \in 1 .. n : p[(m - n) + k] = s[k]
      BY <3>2
    <3>4. m - n \in 0 .. m /\ (m - n) + n <= m /\ n <= m
      BY <1>1, <3>2
    <3>5. OccursAt(s, p, m - n)
      BY <3>3, <3>4, OccursBetween
    <3> QED BY <1>5, <3>4, <3>5 DEF ends_with
  <2> QED BY <2>1, <2>2
<1> QED BY <1>2, <1>3, <1>4, <1>5

\* What is cut, consumed, or a prefix.
LEMMA Parts ==
    ASSUME query.of = "search", query.p \in Seq(Bytes), query.s \in Seq(Bytes),
           query.pos \in Nat, Len(query.p) < npos
    PROVE  PartsFit
<1> DEFINE p == query.p
           s == query.s
           pos == query.pos
           m == Len(p)
           n == Len(s)
           found == find(p, s, pos)
<1>1. /\ p \in Seq(Bytes) /\ s \in Seq(Bytes) /\ pos \in Nat
      /\ m < npos /\ m \in Nat /\ n \in Nat /\ npos \in Nat
      /\ (p = <<>> <=> m = 0) /\ (s = <<>> <=> n = 0)
  BY PieceAssumption
<1> HIDE DEF p, s, pos
<1>2. ASSUME found # npos
      PROVE  found \in 0 .. m /\ OccursAt(s, p, found)
  <2>1. CASE p = <<>> \/ pos > m
    <3>1. found = 0 /\ p = <<>> /\ s = <<>>
      BY <1>2, <2>1 DEF find
    <3>2. 0 \in 0 .. m /\ 0 + n <= m /\ \A k \in 1 .. n : p[0 + k] = s[k]
      BY <1>1, <3>1
    <3>3. OccursAt(s, p, 0)
      BY <1>1, <3>2, OccursBetween
    <3> QED BY <3>1, <3>2, <3>3
  <2>2. CASE ~ (p = <<>> \/ pos > m)
    <3> DEFINE T == {i \in pos .. m - 1 : OccursAt(s, p, i)}
    <3>1. found = First(T)
      BY <2>2, Zenon DEF find
    <3>2. T \in SUBSET Nat /\ T \subseteq 0 .. m /\ \A i \in T : OccursAt(s, p, i)
      BY <1>1
    <3> HIDE DEF T, found
    <3>3. T # {}
      BY <1>2, <3>1 DEF First
    <3> QED BY <3>1, <3>2, <3>3, FirstIs
  <2> QED BY <2>1, <2>2
<1>3. found # npos => substr(p, found, n) = s /\ SubPiece(p, found, n) = s
  <2>1. SUFFICES ASSUME found # npos
                 PROVE  substr(p, found, n) = s /\ SubPiece(p, found, n) = s
    OBVIOUS
  <2>2. found \in 0 .. m /\ found + n <= m /\ SubSeq(p, found + 1, found + n) = s
    BY <1>2, <2>1 DEF OccursAt
  <2> HIDE DEF found
  <2>3. found <= m /\ Least(found, m) = found /\ Least(n, m - found) = n
    BY <1>1, <2>2 DEF Least
  <2> QED BY <2>2, <2>3 DEF substr, SubPiece
<1>4. starts_with(p, s) <=> find(p, s, 0) = 0
  <2>1. CASE p = <<>>
    <3>1. find(p, s, 0) = 0 <=> s = <<>>
      BY <1>1, <2>1, PieceAssumption DEF find
    <3>2. 0 \in 0 .. m
      BY <1>1
    <3>3. OccursAt(s, p, 0) <=> 0 + n <= m /\ \A k \in 1 .. n : p[0 + k] = s[k]
      BY <1>1, <3>2, OccursBetween
    <3> QED BY <1>1, <2>1, <3>1, <3>3 DEF starts_with
  <2>2. CASE p # <<>>
    <3> DEFINE T == {i \in 0 .. m - 1 : OccursAt(s, p, i)}
    <3>1. find(p, s, 0) = First(T)
      <4>1. ~ (p = <<>> \/ 0 > m)
        BY <1>1, <2>2
      <4> QED BY <4>1, Zenon DEF find
    <3>2. T \in SUBSET Nat /\ (0 \in T <=> OccursAt(s, p, 0)) /\ npos # 0
      BY <1>1, <2>2, PieceAssumption
    <3> HIDE DEF T
    <3>3. 0 \in T => First(T) = 0
      <4>1. \A i \in T : 0 <= i
        BY <3>2
      <4> QED BY <3>2, <4>1, FirstUnique
    <3>4. 0 \notin T => First(T) # 0
      <4>1. T # {} => First(T) \in T
        BY <3>2, FirstIs
      <4>2. T = {} => First(T) = npos
        BY <3>2, FirstIs
      <4> QED BY <3>2, <4>1, <4>2
    <3> QED BY <3>1, <3>2, <3>3, <3>4 DEF starts_with
  <2> QED BY <2>1, <2>2
<1>5. /\ starts_with(p, s) <=> s \o Consume(p, s) = p
      /\ ends_with(p, s) <=> ConsumeFromEnd(p, s) \o s = p
  BY <1>1, ConsumedIs
<1>6. pos <= m => SubSeq(p, 1, pos) \o substr(p, pos, npos) = p
  <2>1. SUFFICES ASSUME pos <= m
                 PROVE  SubSeq(p, 1, pos) \o substr(p, pos, npos) = p
    OBVIOUS
  <2>2. Least(pos, m) = pos /\ Least(npos, m - pos) = m - pos /\ pos + (m - pos) = m
        /\ pos \in 0 .. m
    BY <1>1, <2>1 DEF Least
  <2>3. substr(p, pos, npos) = SubSeq(p, pos + 1, m)
    BY <2>2 DEF substr
  <2>4. SubSeq(p, 1, pos) \o SubSeq(p, pos + 1, m) = p
    <3>1. p \in Seq(Bytes) /\ pos \in 0 .. Len(p)
      BY <1>1, <2>2
    <3> QED BY <3>1, CutAndJoin
  <2> QED BY <2>3, <2>4
<1> QED BY <1>3, <1>4, <1>5, <1>6, Zenon DEF PartsFit, p, s, pos, found, m, n

-----------------------------------------------------------------------------
(* Comparisons *)

\* memcmp() of the shorter length, both ways round.
LEMMA MemcmpIs ==
    ASSUME NEW p \in Seq(Bytes), NEW x \in Seq(Bytes)
    PROVE  /\ memcmp(p, x) \in Int
           /\ memcmp(p, x) = 0 <=> \A k \in 1 .. Least(Len(p), Len(x)) : p[k] = x[k]
           /\ memcmp(x, p) < 0 <=> memcmp(p, x) > 0
           /\ memcmp(x, p) = 0 <=> memcmp(p, x) = 0
<1> DEFINE n == Least(Len(p), Len(x))
           T == {k \in 1 .. n : p[k] # x[k]}
           R == {k \in 1 .. Least(Len(x), Len(p)) : x[k] # p[k]}
<1>1. n \in Nat /\ n <= Len(p) /\ n <= Len(x) /\ Least(Len(x), Len(p)) = n
  BY DEF Least
<1>2. \A k \in 1 .. n : p[k] \in Int /\ x[k] \in Int
  <2>1. \A k \in 1 .. n : k \in 1 .. Len(p) /\ k \in 1 .. Len(x)
    BY <1>1
  <2>2. \A k \in 1 .. n : p[k] \in Bytes /\ x[k] \in Bytes
    BY <2>1
  <2> QED BY <2>2, PiecesAssumption
<1>3. R = T
  BY <1>1
<1>4. memcmp(p, x) = IF T = {} THEN 0 ELSE IF p[Min(T)] < x[Min(T)] THEN 0 - 1 ELSE 1
  BY Zenon DEF memcmp
<1>5. memcmp(x, p) = IF R = {} THEN 0 ELSE IF x[Min(R)] < p[Min(R)] THEN 0 - 1 ELSE 1
  BY Zenon DEF memcmp
<1>6. T \in SUBSET Nat /\ T \subseteq 1 .. n /\ (\A k \in T : p[k] # x[k])
      /\ (T = {} <=> \A k \in 1 .. n : p[k] = x[k])
  BY <1>1
<1> HIDE DEF n, T, R
<1>7. CASE T = {}
  <2>1. memcmp(p, x) = 0 /\ memcmp(x, p) = 0
    BY <1>3, <1>4, <1>5, <1>7
  <2> QED BY <1>6, <1>7, <2>1 DEF n
<1>8. CASE T # {}
  <2>1. Min(T) \in T
    BY <1>6, <1>8, MinIs
  <2> DEFINE a == p[Min(T)]
             b == x[Min(T)]
  <2>2. a \in Int /\ b \in Int /\ a # b
    BY <1>2, <1>6, <2>1
  <2>3. /\ memcmp(p, x) = IF a < b THEN 0 - 1 ELSE 1
        /\ memcmp(x, p) = IF b < a THEN 0 - 1 ELSE 1
    BY <1>3, <1>4, <1>5, <1>8
  <2> HIDE DEF a, b
  <2>4. ~ \A k \in 1 .. n : p[k] = x[k]
    BY <1>6, <1>8
  <2> QED BY <2>2, <2>3, <2>4 DEF n
<1> QED BY <1>7, <1>8

\* compare() and the predicates are one total order, prefixes first.
LEMMA OrderIs ==
    ASSUME NEW p \in Seq(Bytes), NEW s \in Seq(Bytes)
    PROVE  LET is == compare(p, s)
           IN  /\ Predicates(p, s) =
                     [lt |-> is < 0, le |-> is <= 0, ge |-> is >= 0, gt |-> is > 0]
               /\ less(p, s) <=> is < 0
               /\ less(s, p) <=> is > 0
               /\ is = 0 <=> p = s
               /\ equal(p, s) <=> p = s
               /\ starts_with(p, s) => is >= 0
<1> DEFINE r == memcmp(p, s)
           q == memcmp(s, p)
           m == Len(p)
           n == Len(s)
           is == compare(p, s)
<1>1. /\ r \in Int /\ m \in Nat /\ n \in Nat
      /\ (r = 0 <=> \A k \in 1 .. Least(m, n) : p[k] = s[k])
      /\ (q < 0 <=> r > 0) /\ (q = 0 <=> r = 0)
  BY MemcmpIs
<1>2. is = IF r # 0 THEN r ELSE IF m < n THEN 0 - 1 ELSE IF m > n THEN 1 ELSE 0
  BY DEF compare, LengthsCompared
<1>3. r = 0 /\ m = n <=> p = s
  <2>1. ASSUME r = 0, m = n
        PROVE  p = s
    <3>1. Least(m, n) = Len(p) /\ Len(p) = Len(s)
      BY <1>1, <2>1 DEF Least
    <3>2. \A k \in 1 .. Len(p) : p[k] = s[k]
      BY <1>1, <2>1, <3>1
    <3> QED BY <3>1, <3>2, SeqEqual
  <2>2. ASSUME p = s
        PROVE  r = 0 /\ m = n
    BY <1>1, <2>2
  <2> QED BY <2>1, <2>2
<1>4. starts_with(p, s) => n <= m /\ r = 0
  <2>1. SUFFICES ASSUME starts_with(p, s)
                 PROVE  n <= m /\ r = 0
    OBVIOUS
  <2>2. OccursAt(s, p, 0) /\ 0 \in 0 .. m
    BY <1>1, <2>1 DEF starts_with
  <2>3. 0 + n <= m /\ \A k \in 1 .. n : p[0 + k] = s[k]
    BY <2>2, OccursBetween
  <2>4. n <= m /\ Least(m, n) = n
    BY <1>1, <2>3 DEF Least
  <2>5. \A k \in 1 .. n : p[k] = s[k]
    <3>1. \A k \in 1 .. n : 0 + k = k
      OBVIOUS
    <3> QED BY <2>3, <3>1
  <2> QED BY <1>1, <2>4, <2>5
<1>5. /\ less(p, s) <=> r < 0 \/ (r = 0 /\ m < n)
      /\ less(s, p) <=> q < 0 \/ (q = 0 /\ n < m)
      /\ equal(p, s) <=> m = n /\ r = 0
  BY DEF less, equal
<1>6. Predicates(p, s) =
        [lt |-> r < 0 \/ (r = 0 /\ m < n), le |-> r < 0 \/ (r = 0 /\ m <= n),
         ge |-> r > 0 \/ (r = 0 /\ m >= n), gt |-> r > 0 \/ (r = 0 /\ m > n)]
  BY Zenon DEF Predicates
<1> HIDE DEF r, q, m, n, is
<1>7. /\ (r < 0 \/ (r = 0 /\ m < n)) <=> is < 0
      /\ (r < 0 \/ (r = 0 /\ m <= n)) <=> is <= 0
      /\ (r > 0 \/ (r = 0 /\ m >= n)) <=> is >= 0
      /\ (r > 0 \/ (r = 0 /\ m > n)) <=> is > 0
      /\ is = 0 <=> r = 0 /\ m = n
      /\ n <= m /\ r = 0 => is >= 0
  BY <1>1, <1>2
<1>8. Predicates(p, s) = [lt |-> is < 0, le |-> is <= 0, ge |-> is >= 0, gt |-> is > 0]
  <2>1. /\ (r < 0 \/ (r = 0 /\ m < n)) = (is < 0)
        /\ (r < 0 \/ (r = 0 /\ m <= n)) = (is <= 0)
        /\ (r > 0 \/ (r = 0 /\ m >= n)) = (is >= 0)
        /\ (r > 0 \/ (r = 0 /\ m > n)) = (is > 0)
    BY <1>7
  <2> QED BY <1>6, <2>1, Zenon
<1>9. less(s, p) <=> is > 0
  BY <1>1, <1>5, <1>7
<1> QED BY <1>3, <1>4, <1>5, <1>7, <1>8, <1>9 DEF is

\* The name between the first ( and the last ).
LEMMA NameBetween ==
    ASSUME NEW p \in Seq(Int), NEW t \in Seq(Int), \A k \in 1 .. Len(t) : t[k] = 3
    PROVE  procname(<<3, 1>> \o p \o <<2, 3>> \o t, 1, 2) = p
<1> DEFINE a == <<3, 1>>
           c == <<2, 3>>
           m == Len(p)
           n == Len(t)
           ap == a \o p
           apc == ap \o c
           stat == apc \o t
           left == {i \in DOMAIN stat : stat[i] = 1}
           right == {i \in DOMAIN stat : stat[i] = 2}
<1>1. /\ a \in Seq(Int) /\ Len(a) = 2 /\ a[1] = 3 /\ a[2] = 1
      /\ c \in Seq(Int) /\ Len(c) = 2 /\ c[1] = 2 /\ c[2] = 3
      /\ m \in Nat /\ n \in Nat
  OBVIOUS
<1> HIDE DEF a, c
<1>2. a \in Seq(Int) /\ c \in Seq(Int)
  BY <1>1
<1>3. /\ ap \in Seq(Int) /\ Len(ap) = Len(a) + Len(p)
      /\ \A k \in 1 .. Len(a) : ap[k] = a[k]
      /\ \A k \in 1 .. Len(p) : ap[Len(a) + k] = p[k]
  BY <1>2, JoinedIs
<1> HIDE DEF ap
<1>4. ap \in Seq(Int)
  BY <1>3
<1>5. /\ apc \in Seq(Int) /\ Len(apc) = Len(ap) + Len(c)
      /\ \A k \in 1 .. Len(ap) : apc[k] = ap[k]
      /\ \A k \in 1 .. Len(c) : apc[Len(ap) + k] = c[k]
  BY <1>2, <1>4, JoinedIs
<1> HIDE DEF apc
<1>6. apc \in Seq(Int)
  BY <1>5
<1>7. /\ stat \in Seq(Int) /\ Len(stat) = Len(apc) + Len(t)
      /\ \A k \in 1 .. Len(apc) : stat[k] = apc[k]
      /\ \A k \in 1 .. Len(t) : stat[Len(apc) + k] = t[k]
  BY <1>6, JoinedIs
<1> HIDE DEF stat, m, n
<1>8. Len(ap) = m + 2 /\ Len(apc) = m + 4 /\ Len(stat) = m + n + 4
  <2>1. Len(ap) = 2 + m /\ Len(apc) = Len(ap) + 2 /\ Len(stat) = Len(apc) + n
    BY <1>1, <1>3, <1>5, <1>7 DEF m, n
  <2> QED BY <1>1, <2>1
<1>9. \A k \in 1 .. m : stat[2 + k] = p[k]
  <2>1. ASSUME NEW k \in 1 .. m
        PROVE  stat[2 + k] = p[k]
    <3>1. ap[2 + k] = p[k]
      BY <1>1, <1>3 DEF m
    <3>2. 2 + k \in 1 .. m + 2 /\ 2 + k \in 1 .. m + 4
      BY <1>1
    <3>3. apc[2 + k] = ap[2 + k]
      BY <1>5, <1>8, <3>2
    <3>4. stat[2 + k] = apc[2 + k]
      BY <1>7, <1>8, <3>2
    <3> QED BY <3>1, <3>3, <3>4
  <2> QED BY <2>1
<1>10. stat[1] = 3 /\ stat[2] = 1
  <2>1. 1 \in 1 .. m + 2 /\ 2 \in 1 .. m + 2 /\ 1 \in 1 .. m + 4 /\ 2 \in 1 .. m + 4
        /\ 1 \in 1 .. 2 /\ 2 \in 1 .. 2
    BY <1>1
  <2>2. ap[1] = 3 /\ ap[2] = 1
    BY <1>1, <1>3, <2>1
  <2>3. apc[1] = 3 /\ apc[2] = 1
    BY <1>5, <1>8, <2>1, <2>2
  <2> QED BY <1>7, <1>8, <2>1, <2>3
<1>11. stat[m + 3] = 2 /\ stat[m + 4] = 3
  <2>1. 1 \in 1 .. 2 /\ 2 \in 1 .. 2 /\ m + 2 + 1 = m + 3 /\ m + 2 + 2 = m + 4
        /\ m + 3 \in 1 .. m + 4 /\ m + 4 \in 1 .. m + 4
    BY <1>1
  <2>2. apc[m + 2 + 1] = 2 /\ apc[m + 2 + 2] = 3
    BY <1>1, <1>5, <1>8, <2>1
  <2>3. apc[m + 3] = 2 /\ apc[m + 4] = 3
    BY <2>1, <2>2
  <2> QED BY <1>7, <1>8, <2>1, <2>3
<1>12. \A k \in 1 .. n : stat[m + 4 + k] = 3
  BY <1>7, <1>8 DEF n
<1>13. DOMAIN stat = 1 .. m + n + 4
  BY <1>7, <1>8
<1>14. Min(left) = 2 /\ left # {}
  <2>1. 2 \in left
    BY <1>1, <1>10, <1>13
  <2>2. ASSUME NEW i \in left
        PROVE  2 <= i
    <3>1. i \in 1 .. m + n + 4 /\ stat[i] = 1
      BY <1>13
    <3>2. i # 1
      BY <1>10, <3>1
    <3> QED BY <1>1, <3>1, <3>2
  <2>3. left \in SUBSET Int
    BY <1>13
  <2> HIDE DEF left
  <2> QED BY <2>1, <2>2, <2>3, MinUnique
<1>15. Max(right) = m + 3 /\ right # {}
  <2>1. m + 3 \in right
    BY <1>1, <1>11, <1>13
  <2>2. ASSUME NEW i \in right
        PROVE  m + 3 >= i
    <3>1. i \in 1 .. m + n + 4 /\ stat[i] = 2
      BY <1>13
    <3>2. i # m + 4
      BY <1>11, <3>1
    <3>3. ASSUME i > m + 4
          PROVE  FALSE
      <4>1. i - (m + 4) \in 1 .. n /\ m + 4 + (i - (m + 4)) = i
        BY <1>1, <3>1, <3>3
      <4> QED BY <1>12, <3>1, <4>1
    <3> QED BY <1>1, <3>1, <3>2, <3>3
  <2>3. right \in SUBSET Int
    BY <1>13
  <2> HIDE DEF right
  <2> QED BY <2>1, <2>2, <2>3, MaxUnique
<1>16. procname(stat, 1, 2) = SubSeq(stat, 2 + 1, m + 3 - 1)
  <2>1. procname(stat, 1, 2) =
          IF left # {} /\ right # {} /\ Min(left) < Max(right)
          THEN SubSeq(stat, Min(left) + 1, Max(right) - 1) ELSE <<>>
    BY Zenon DEF procname
  <2> HIDE DEF left, right
  <2>2. Min(left) < Max(right)
    BY <1>1, <1>14, <1>15
  <2>3. procname(stat, 1, 2) = SubSeq(stat, Min(left) + 1, Max(right) - 1)
    BY <1>14, <1>15, <2>1, <2>2, Zenon
  <2>4. Min(left) + 1 = 2 + 1 /\ Max(right) - 1 = m + 3 - 1
    BY <1>1, <1>14, <1>15
  <2> QED BY <2>3, <2>4
<1>17. SubSeq(stat, 2 + 1, 2 + m) = p
  <2> HIDE DEF left, right
  <2>1. stat \in Seq(Int) /\ 2 \in 0 .. Len(stat) /\ 2 + m <= Len(stat)
    BY <1>1, <1>7, <1>8
  <2>2. OccursAt(p, stat, 2) <=> 2 + m <= Len(stat) /\ \A k \in 1 .. m : stat[2 + k] = p[k]
    BY <2>1, OccursBetween DEF m
  <2>3. OccursAt(p, stat, 2)
    BY <1>9, <2>1, <2>2
  <2> QED BY <2>3, Zenon DEF OccursAt, m
<1>18. m + 3 - 1 = 2 + m
  BY <1>1
<1> QED BY <1>16, <1>17, <1>18 DEF stat, apc, ap, a, c

\* The name behind the last slash.
LEMMA NameBehind ==
    ASSUME NEW p \in Seq(Int), NEW s \in Seq(Int), 1 \notin ToSet(s)
    PROVE  SourceFile(p \o <<1>> \o s, 1) = s /\ SourceFile(s, 1) = s
<1> DEFINE c == <<1>>
           m == Len(p)
           n == Len(s)
           marked == p \o c
           file == marked \o s
           slashes == {i \in DOMAIN file : file[i] = 1}
<1>1. c \in Seq(Int) /\ Len(c) = 1 /\ c[1] = 1 /\ m \in Nat /\ n \in Nat
  OBVIOUS
<1>2. \A k \in 1 .. n : s[k] # 1
  <2>1. DOMAIN s = 1 .. n
    OBVIOUS
  <2> QED BY <2>1 DEF ToSet
<1> HIDE DEF c
<1>3. c \in Seq(Int)
  BY <1>1
<1>4. /\ marked \in Seq(Int) /\ Len(marked) = Len(p) + Len(c)
      /\ \A k \in 1 .. Len(c) : marked[Len(p) + k] = c[k]
  BY <1>3, JoinedIs
<1> HIDE DEF marked
<1>5. marked \in Seq(Int)
  BY <1>4
<1>6. /\ file \in Seq(Int) /\ Len(file) = Len(marked) + Len(s)
      /\ \A k \in 1 .. Len(marked) : file[k] = marked[k]
      /\ \A k \in 1 .. Len(s) : file[Len(marked) + k] = s[k]
  BY <1>5, JoinedIs
<1> HIDE DEF file, m, n
<1>7. Len(marked) = m + 1 /\ Len(file) = m + 1 + n
  <2>1. Len(marked) = m + 1 /\ Len(file) = Len(marked) + n
    BY <1>1, <1>4, <1>6 DEF m, n
  <2> QED BY <2>1
<1>8. file[m + 1] = 1 /\ \A k \in 1 .. n : file[m + 1 + k] = s[k]
  <2>1. 1 \in 1 .. 1 /\ m + 1 \in 1 .. m + 1
    BY <1>1
  <2>2. marked[m + 1] = 1
    BY <1>1, <1>4, <2>1 DEF m
  <2>3. file[m + 1] = 1
    BY <1>6, <1>7, <2>1, <2>2
  <2> QED BY <1>6, <1>7, <2>3 DEF n
<1>9. DOMAIN file = 1 .. m + 1 + n
  BY <1>6, <1>7
<1>10. Max(slashes) = m + 1 /\ slashes # {}
  <2>1. m + 1 \in slashes
    BY <1>1, <1>8, <1>9
  <2>2. ASSUME NEW i \in slashes
        PROVE  m + 1 >= i
    <3>1. i \in 1 .. m + 1 + n /\ file[i] = 1
      BY <1>9
    <3>2. ASSUME i > m + 1
          PROVE  FALSE
      <4>1. i - (m + 1) \in 1 .. n /\ m + 1 + (i - (m + 1)) = i
        BY <1>1, <3>1, <3>2
      <4>2. file[i] = s[i - (m + 1)]
        BY <1>8, <4>1
      <4> QED BY <1>2, <3>1, <4>1, <4>2
    <3> QED BY <1>1, <3>1, <3>2
  <2>3. slashes \in SUBSET Int
    BY <1>9
  <2> HIDE DEF slashes
  <2> QED BY <2>1, <2>2, <2>3, MaxUnique
<1>11. SourceFile(file, 1) = SubSeq(file, m + 1 + 1, Len(file))
  <2>1. SourceFile(file, 1) =
          SubSeq(file, (IF slashes = {} THEN 0 ELSE Max(slashes)) + 1, Len(file))
    BY Zenon DEF SourceFile
  <2> HIDE DEF slashes
  <2> QED BY <1>10, <2>1
<1>12. SubSeq(file, m + 1 + 1, Len(file)) = s
  <2> DEFINE l == Len(file)
             b == m + 1
             part == SubSeq(file, b + 1, l)
  <2>1. /\ part \in Seq(Int) /\ Len(part) = IF b <= l THEN l - b ELSE 0
        /\ \A k \in 1 .. l - b : part[k] = file[b + k]
    <3>1. file \in Seq(Int) /\ b \in Nat /\ l \in Nat /\ l <= Len(file)
      BY <1>1, <1>6, <1>7
    <3> HIDE DEF b
    <3> QED BY <3>1, PartIs
  <2>2. l - b = n /\ b <= l
    BY <1>1, <1>7
  <2> HIDE DEF part, l
  <2>3. Len(part) = Len(s)
    BY <2>1, <2>2 DEF n
  <2>4. \A k \in 1 .. Len(part) : part[k] = s[k]
    BY <1>8, <2>1, <2>2, <2>3 DEF n
  <2>5. part = s
    BY <2>1, <2>3, <2>4, SeqEqual
  <2> QED BY <2>5, Zenon DEF part, l, b
<1>13. SourceFile(s, 1) = s
  <2>1. {i \in DOMAIN s : s[i] = 1} = {}
    <3>1. DOMAIN s = 1 .. n
      BY DEF n
    <3> QED BY <1>2, <3>1
  <2>2. SourceFile(s, 1) = SubSeq(s, 0 + 1, Len(s))
    BY <2>1 DEF SourceFile
  <2>3. SubSeq(s, 0 + 1, Len(s)) = s
    OBVIOUS
  <2> QED BY <2>2, <2>3
<1> QED BY <1>11, <1>12, <1>13 DEF file, marked, c

LEMMA BytesAreInts ==
    ASSUME NEW p \in Seq(Bytes)
    PROVE  p \in Seq(Int)
<1>1. \A k \in 1 .. Len(p) : p[k] \in Int
  <2>1. \A k \in 1 .. Len(p) : p[k] \in Bytes
    OBVIOUS
  <2> QED BY <2>1, PiecesAssumption
<1>2. SubSeq(p, 1, Len(p)) = p
  OBVIOUS
<1>3. SubSeq(p, 1, Len(p)) \in Seq(Int)
  <2>1. 1 \in Int /\ Len(p) \in Int
    OBVIOUS
  <2> QED BY <1>1, <2>1, SubSeqProperties
<1> QED BY <1>2, <1>3

\* The comparisons, and what is cut out between marks.
LEMMA Orders ==
    ASSUME query.of = "search", query.p \in Seq(Bytes), query.s \in Seq(Bytes)
    PROVE  OrdersAgree
<1> DEFINE p == query.p
           s == query.s
           t == [k \in DOMAIN s |-> 3]
<1>1. p \in Seq(Bytes) /\ s \in Seq(Bytes) /\ Bytes \subseteq Int
  BY PiecesAssumption
<1> HIDE DEF p, s
<1>2. p \in Seq(Int) /\ s \in Seq(Int)
  BY <1>1, BytesAreInts
<1>3. t \in Seq(Int) /\ \A k \in 1 .. Len(t) : t[k] = 3
  BY <1>1
<1> HIDE DEF t
<1>4. procname(<<3, 1>> \o p \o <<2, 3>> \o t, 1, 2) = p
  BY <1>2, <1>3, NameBetween
<1>5. 1 \notin ToSet(s) => SourceFile(p \o <<1>> \o s, 1) = s /\ SourceFile(s, 1) = s
  BY <1>2, NameBehind
<1> DEFINE is == compare(p, s)
<1>6. /\ Predicates(p, s) = [lt |-> is < 0, le |-> is <= 0, ge |-> is >= 0, gt |-> is > 0]
      /\ less(p, s) <=> is < 0
      /\ less(s, p) <=> is > 0
      /\ is = 0 <=> p = s
      /\ equal(p, s) <=> p = s
      /\ starts_with(p, s) => is >= 0
  BY <1>1, OrderIs
<1> QED BY <1>4, <1>5, <1>6, Zenon DEF OrdersAgree, p, s, t

\* For all pieces and positions: searches upwards find the first position that
\* will do and searches downwards are their mirror image, what is found can be
\* cut out, what is consumed and what is left make the piece, and both classes
\* order pieces the same way (slog and asynlog StringPiece, procname(),
\* SourceFile).
THEOREM PiecesAgreeAlways == Queries => []PiecesAgree
<1>1. ASSUME Asked, query.of = "search"
      PROVE  PiecesAgree
  <2>1. query.p \in Pieces /\ query.s \in Patterns /\ query.pos \in Positions
    BY <1>1 DEF Asked, Nothing
  <2>2. /\ query.p \in Seq(Bytes) /\ query.s \in Seq(Bytes) /\ query.pos \in Nat
        /\ Len(query.p) < npos
    BY <2>1, PiecesAssumption, PieceAssumption DEF Sizes
  <2> QED BY <1>1, <2>2, Upwards, Downward, Parts, Orders DEF PiecesAgree
<1>2. query.of = "search" \/ PiecesAgree
  BY DEF PiecesAgree, SearchesUpwards, SearchesDownwards, PartsFit, OrdersAgree
<1>3. Asked => PiecesAgree
  BY <1>1, <1>2
<1> QED BY <1>3, QueriesAsked, PTL
=============================================================================
