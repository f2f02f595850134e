--------------------------- MODULE HarnessRun_proofs ---------------------------
(***************************************************************************)
(* Proofs about the event queue and the flow windows of a run, for every   *)
(* command line, number of packets and choice of times.                    *)
(*                                                                         *)
(* Scheduling keeps every event, in time order and by age among equals.    *)
(* What a window counts is read at two instants, so its invariant ties the *)
(* counters it took when it opened to where the packets are now: received  *)
(* and in flight, less sent, never grows, whatever is sent, delivered,     *)
(* lost or given up on.                                                    *)
(***************************************************************************)
EXTENDS HarnessRun, RankingLemmas

-----------------------------------------------------------------------------
(* Where the elements of a concatenation come from. *)
Joined(r, T, s, t) ==
  /\ r \in Seq(T) /\ Len(r) = Len(s) + Len(t)
  /\ \A k \in 1..Len(r) : \/ k \in 1..Len(s) /\ r[k] = s[k]
                          \/ k - Len(s) \in 1..Len(t) /\ r[k] = t[k - Len(s)]
  /\ \A i \in 1..Len(t) : Len(s) + i \in 1..Len(r) /\ r[Len(s) + i] = t[i]

LEMMA Concatenated ==
  ASSUME NEW T, NEW s \in Seq(T), NEW t \in Seq(T)
  PROVE  Joined(s \o t, T, s, t)
BY DEF Joined

EventNames == {"begin", "swept", "stop", "on", "off", "settle", "open", "close", "poll"}
EventArgs == Int \cup {"none", "armed", "safety", "sweep", "drain"}
Events == [at : Int, what : EventNames, arg : EventArgs]

(* r is all, rearranged by o: by time, and by index at the same time. *)
Arranged(r, all, o) ==
  /\ o \in [1..Len(all) -> 1..Len(all)]
  /\ r = [k \in 1..Len(all) |-> all[o[k]]]
  /\ \A i \in 1..Len(all) : \E k \in 1..Len(all) : o[k] = i
  /\ \A k, l \in 1..Len(all) : k < l =>
       all[o[k]].at < all[o[l]].at \/ (all[o[k]].at = all[o[l]].at /\ o[k] < o[l])

LEMMA ScheduleAllArranges ==
  ASSUME NEW q \in Seq(Events), NEW events \in Seq(Events)
  PROVE  \E o : Arranged(ScheduleAll(q, events), q \o events, o)
<1> DEFINE all == q \o events
           n == Len(all)
           S == 1..n
           key == [i \in S |-> all[i].at]
           order == StableOrder(key)
           r == ScheduleAll(q, events)
<1>1. n \in Nat /\ all \in Seq(Events) /\ DOMAIN all = S
  OBVIOUS
<1> HIDE DEF all
<1>2. \A i \in S : all[i] \in Events
  BY <1>1
<1> HIDE DEF n
<1>3. S \in SUBSET Int /\ IsFiniteSet(S) /\ Cardinality(S) = n
  BY <1>1, FS_Interval
<1>4. key \in [S -> Int]
  BY <1>2 DEF Events
<1> HIDE DEF S
<1>5. /\ order \in [1..n -> S]
      /\ \A i \in S : \E k \in 1..n : order[k] = i
      /\ \A k, l \in 1..n : k < l => order[k] \in Before(key, order[l])
  <2> HIDE DEF key
  <2> QED
    BY <1>3, <1>4, OrderLists, OrderIsOnto, OrderIsSorted
<1>6. ScheduleAll(q, events) = [k \in DOMAIN order |-> all[order[k]]]
  BY <1>1 DEF ScheduleAll, all
<1> HIDE DEF order, r
<1>7. r = [k \in 1..n |-> all[order[k]]]
  BY <1>5, <1>6 DEF r
<1>8. ASSUME NEW k \in 1..n, NEW l \in 1..n, k < l
      PROVE  \/ all[order[k]].at < all[order[l]].at
             \/ all[order[k]].at = all[order[l]].at /\ order[k] < order[l]
  <2>1. order[k] \in S /\ order[l] \in S /\ order[k] \in Before(key, order[l])
    BY <1>5, <1>8
  <2> QED
    BY <2>1 DEF Before
<1>9. Arranged(r, all, order)
  BY <1>5, <1>7, <1>8 DEF Arranged, S, n
<1> QED
  BY <1>9 DEF r, all

(* A queue r that holds the events of q and the new ones, by time. *)
Scheduled(r, q, events) ==
  /\ r \in Seq(Events)
  /\ \A k, l \in 1..Len(r) : k < l => r[k].at <= r[l].at
  /\ \A k \in 1..Len(r) : \/ \E i \in 1..Len(q) : r[k] = q[i]
                          \/ \E i \in 1..Len(events) : r[k] = events[i]
  /\ \A i \in 1..Len(q) : \E k \in 1..Len(r) : r[k] = q[i]
  /\ \A i \in 1..Len(events) : \E k \in 1..Len(r) : r[k] = events[i]

LEMMA ScheduleAllSorts ==
  ASSUME NEW q \in Seq(Events), NEW events \in Seq(Events)
  PROVE  Scheduled(ScheduleAll(q, events), q, events)
<1> DEFINE all == q \o events
           n == Len(all)
           r == ScheduleAll(q, events)
<1>1. PICK o : Arranged(r, all, o)
  BY ScheduleAllArranges
<1>2. Joined(all, Events, q, events)
  BY Concatenated
<1> HIDE DEF all, r
<1>12. all \in Seq(Events)
  BY <1>2 DEF Joined
<1>13. n \in Nat /\ \A i \in 1..n : all[i] \in Events
  BY <1>12
<1>14. /\ o \in [1..n -> 1..n] /\ r = [k \in 1..n |-> all[o[k]]]
       /\ \A i \in 1..n : \E k \in 1..n : o[k] = i
  BY <1>1 DEF Arranged
<1> HIDE DEF n
<1>3. /\ n \in Nat /\ o \in [1..n -> 1..n] /\ r = [k \in 1..n |-> all[o[k]]]
      /\ \A i \in 1..n : \E k \in 1..n : o[k] = i
  BY <1>13, <1>14
<1>4. /\ \A i \in 1..n : all[i] \in Events
      /\ \A i \in 1..n : all[i].at \in Int
  BY <1>13 DEF Events
<1>15. \A k \in 1..n : all[o[k]] \in Events
  BY <1>3, <1>4
<1>5. r \in Seq(Events) /\ Len(r) = n
  <2> DEFINE e == [k \in 1..n |-> all[o[k]]]
  <2>1. e \in Seq(Events) /\ Len(e) = n
    BY <1>3, <1>15
  <2> QED
    BY <1>3, <2>1
<1>6. ASSUME NEW k \in 1..n, NEW l \in 1..n, k < l PROVE r[k].at <= r[l].at
  <2>1. /\ r[k] = all[o[k]] /\ r[l] = all[o[l]]
        /\ all[o[k]].at \in Int /\ all[o[l]].at \in Int
    BY <1>3, <1>4
  <2>2. all[o[k]].at < all[o[l]].at \/ all[o[k]].at = all[o[l]].at
    BY <1>1, <1>6 DEF Arranged, n
  <2> QED
    BY <2>1, <2>2
<1>7. ASSUME NEW k \in 1..n
      PROVE  (\E i \in 1..Len(q) : r[k] = q[i]) \/ (\E i \in 1..Len(events) : r[k] = events[i])
  <2>1. r[k] = all[o[k]] /\ o[k] \in 1..n
    BY <1>3
  <2>2. CASE o[k] \in 1..Len(q)
    <3>1. all[o[k]] = q[o[k]]
      BY <1>2, <2>2 DEF Joined
    <3> QED
      BY <2>1, <2>2, <3>1
  <2>3. CASE ~(o[k] \in 1..Len(q))
    <3>1. /\ o[k] - Len(q) \in 1..Len(events)
          /\ Len(q) + (o[k] - Len(q)) = o[k]
      BY <1>2, <2>1, <2>3 DEF Joined, n
    <3>2. all[o[k]] = events[o[k] - Len(q)]
      BY <1>2, <3>1 DEF Joined
    <3> QED
      BY <2>1, <3>1, <3>2
  <2> QED
    BY <2>2, <2>3
<1>8. ASSUME NEW i \in 1..n PROVE \E k \in 1..n : r[k] = all[i]
  BY <1>3
<1>9. ASSUME NEW i \in 1..Len(q) PROVE \E k \in 1..n : r[k] = q[i]
  <2>1. i \in 1..n /\ all[i] = q[i]
    BY DEF all, n
  <2> QED
    BY <1>8, <2>1
<1>10. ASSUME NEW i \in 1..Len(events) PROVE \E k \in 1..n : r[k] = events[i]
  <2>1. Len(q) + i \in 1..n /\ all[Len(q) + i] = events[i]
    BY <1>2 DEF Joined, n
  <2> QED
    BY <1>8, <2>1
<1>11. Scheduled(r, q, events)
  BY <1>5, <1>6, <1>7, <1>9, <1>10 DEF Scheduled
<1> QED
  BY <1>11 DEF r

(* The windows' lengths are a sequence of numbers. *)
LEMMA WinLensTyped ==
  args \in Runs => WinLens \in Seq(Nat) /\ \A w \in 1..Len(WinLens) : WinLens[w] > 0
<1> SUFFICES ASSUME args \in Runs
             PROVE  WinLens \in Seq(Nat) /\ \A w \in 1..Len(WinLens) : WinLens[w] > 0
  OBVIOUS
<1> DEFINE m == args.measure
           fits == {i \in DOMAIN m : 0 < m[i] /\ m[i] <= TrafficSec}
           key == [i \in fits |-> -m[i]]
           order == StableOrder(key)
<1>1. m \in Seq(Nat)
  BY RunsAssumption
<1> HIDE DEF m
<1>2. /\ Len(m) \in Nat /\ fits \in SUBSET (1..Len(m)) /\ fits \in SUBSET Int
      /\ \A i \in fits : m[i] \in Nat /\ m[i] > 0
  BY <1>1
<1>3. IsFiniteSet(1..Len(m))
  BY <1>2, FS_Interval
<1>4. IsFiniteSet(fits)
  BY <1>2, <1>3, FS_Subset
<1> HIDE DEF fits
<1>5. key \in [fits -> Int]
  BY <1>2
<1> HIDE DEF key
<1>6. Cardinality(fits) \in Nat /\ order \in [1..Cardinality(fits) -> fits]
  BY <1>2, <1>4, <1>5, OrderLists
<1> HIDE DEF order
<1>7. WinLens = [k \in 1..Cardinality(fits) |-> m[order[k]]]
  BY <1>6 DEF WinLens, order, key, fits, m
<1>8. \A k \in 1..Cardinality(fits) : m[order[k]] \in Nat /\ m[order[k]] > 0
  BY <1>2, <1>6
<1> QED
  BY <1>6, <1>7, <1>8

-----------------------------------------------------------------------------
(* What an event loop can work with: a queue of events, sorted by time. *)
QueueOK ==
  /\ queue \in Seq(Events)
  /\ \A k, l \in 1..Len(queue) : k < l => queue[k].at <= queue[l].at

ClockOK == args \in Runs /\ clock \in Int /\ sentAt \in [Packets -> Int]

FlagsOK == sourcing \in BOOLEAN /\ stop \in BOOLEAN

Holds(q, what) == \E k \in 1..Len(q) : q[k].what = what

(* The events a run schedules are events. *)
LEMMA EventTyped ==
  ASSUME NEW at \in Int, NEW what \in EventNames, NEW arg \in EventArgs
  PROVE  Event(at, what, arg) \in Events
BY DEF Event, Events

LEMMA NamesTyped ==
  /\ \A what \in {"begin", "swept", "stop", "on", "off", "settle", "open", "close", "poll"} :
       what \in EventNames
  /\ \A arg \in {"none", "armed", "safety", "sweep", "drain"} : arg \in EventArgs
BY Zenon DEF EventArgs, EventNames

LEMMA HeadTyped ==
  ASSUME NEW q \in Seq(Events), q # <<>>
  PROVE  Head(q) \in Events /\ Head(q).at \in Int
<1>1. Head(q) \in Events
  OBVIOUS
<1> QED
  BY <1>1 DEF Events

LEMMA SweptEdgesTyped == args \in Runs => SweptEdges \in Int /\ SweptEdges >= 0
<1> SUFFICES ASSUME args \in Runs PROVE SweptEdges \in Int /\ SweptEdges >= 0
  OBVIOUS
<1> DEFINE w == args.gridWidth
<1>1. w \in Nat /\ args.sampleEdges \in Nat
  BY RunsAssumption
<1>2. BuildEdgeListGeometric \in Int /\ BuildEdgeListGeometric >= 0
  <2>1. BuildEdgeListGeometric = 2 * (w * (w - 1))
    BY <1>1 DEF BuildEdgeListGeometric
  <2> HIDE DEF w
  <2>2. w * (w - 1) \in Int /\ w * (w - 1) >= 0
    <3>1. CASE w = 0
      BY <3>1
    <3>2. CASE w >= 1
      BY <1>1, <3>2
    <3> QED
      BY <1>1, <3>1, <3>2
  <2> QED
    BY <2>1, <2>2
<1> QED
  BY <1>1, <1>2 DEF SweptEdges

LEMMA SafetyStopTyped == args \in Runs => SafetyStop \in Int
<1> SUFFICES ASSUME args \in Runs PROVE SafetyStop \in Int
  OBVIOUS
<1> DEFINE e == SweptEdges
<1>1. e \in Int /\ MaxRounds \in Int
  BY SweptEdgesTyped, TimesAssumption
<1> HIDE DEF e
<1>2. e * 10 * 2 * (MaxRounds + 1) + 2 * 2 \in Int
  BY <1>1
<1> QED
  BY <1>2 DEF SafetyStop, One, e

LEMMA SliceTestTyped ==
  /\ SliceTestEvents \in Seq(Events)
  /\ \A k \in 1..Len(SliceTestEvents) :
       SliceTestEvents[k].what = "on" => SliceTestEvents[k].at = WarmupStart
  /\ \E k \in 1..Len(SliceTestEvents) :
       /\ SliceTestEvents[k].what = "stop"
       /\ SliceTestEvents[k].at = WarmupStart + TrafficSec + 2 * One
<1> DEFINE off == WarmupStart + TrafficSec
<1>1. off \in Int /\ off + 2 * One \in Int /\ WarmupStart \in Int
  BY TimesAssumption DEF One
<1> HIDE DEF off
<1>2. /\ Event(off + 2 * One, "stop", "armed") \in Events
      /\ Event(WarmupStart, "on", "none") \in Events
      /\ Event(off, "off", "none") \in Events
  BY <1>1, NamesTyped, EventTyped, Zenon
<1>3. SliceTestEvents = <<Event(off + 2 * One, "stop", "armed"), Event(WarmupStart, "on", "none"),
                          Event(off, "off", "none")>>
  BY DEF SliceTestEvents, off
<1>4. SliceTestEvents \in Seq(Events) /\ Len(SliceTestEvents) = 3
  BY <1>2, <1>3
<1>5. \A k \in 1..3 : SliceTestEvents[k].what = "on" => SliceTestEvents[k].at = WarmupStart
  BY <1>3 DEF Event
<1>6. SliceTestEvents[1].what = "stop" /\ SliceTestEvents[1].at = off + 2 * One
  BY <1>3 DEF Event
<1> QED
  BY <1>4, <1>5, <1>6 DEF off

(* What main queues for the traffic: the poll that settles the queues, the *)
(* windows' openings, their close, and what comes after it.                *)
LEMMA TrafficLayout ==
  ASSUME args \in Runs, clock \in Int
  PROVE  LET n == Len(WinLens) IN
         /\ WinLens \in Seq(Nat)
         /\ SourcesStart \in Int /\ SourcesStop \in Int /\ ArmedStop \in Int
         /\ TrafficEvents \in Seq(Events) /\ Len(TrafficEvents) = n + 6
         /\ TrafficEvents[1] = Event(SourcesStart, "settle", "none")
         /\ \A w \in 1..n : TrafficEvents[w + 1] = Event(SourcesStop - WinLens[w], "open", w)
         /\ TrafficEvents[n + 2] = Event(SourcesStop, "close", "none")
         /\ TrafficEvents[n + 3] = Event(SourcesStop, "poll", "none")
         /\ TrafficEvents[n + 4] = Event(ArmedStop, "stop", "armed")
         /\ TrafficEvents[n + 5] = Event(SourcesStart, "on", "none")
         /\ TrafficEvents[n + 6] = Event(SourcesStop, "off", "none")
<1> DEFINE settle == <<Event(SourcesStart, "settle", "none")>>
           opens == OpenEvents
           rest == <<Event(SourcesStop, "close", "none"), Event(SourcesStop, "poll", "none"),
                     Event(ArmedStop, "stop", "armed"),
                     Event(SourcesStart, "on", "none"), Event(SourcesStop, "off", "none")>>
           n == Len(WinLens)
<1>1. SourcesStart \in Int /\ SourcesStop \in Int /\ ArmedStop \in Int
  BY TimesAssumption DEF SourcesStart, SourcesStop, ArmedStop, One
<1>2. /\ Event(SourcesStart, "settle", "none") \in Events
      /\ Event(SourcesStop, "close", "none") \in Events
      /\ Event(SourcesStop, "poll", "none") \in Events
      /\ Event(ArmedStop, "stop", "armed") \in Events
      /\ Event(SourcesStart, "on", "none") \in Events
      /\ Event(SourcesStop, "off", "none") \in Events
  BY <1>1, NamesTyped, EventTyped, Zenon
<1>3. /\ settle \in Seq(Events) /\ Len(settle) = 1
      /\ settle[1] = Event(SourcesStart, "settle", "none")
  BY <1>2
<1>4. /\ rest \in Seq(Events) /\ Len(rest) = 5
      /\ rest[1] = Event(SourcesStop, "close", "none")
      /\ rest[2] = Event(SourcesStop, "poll", "none")
      /\ rest[3] = Event(ArmedStop, "stop", "armed")
      /\ rest[4] = Event(SourcesStart, "on", "none")
      /\ rest[5] = Event(SourcesStop, "off", "none")
  BY <1>2
<1>5. WinLens \in Seq(Nat) /\ n \in Nat
  BY WinLensTyped
<1>6. /\ opens \in Seq(Events) /\ Len(opens) = n
      /\ \A w \in 1..n : opens[w] = Event(SourcesStop - WinLens[w], "open", w)
  <2>1. ASSUME NEW w \in 1..n PROVE Event(SourcesStop - WinLens[w], "open", w) \in Events
    <3>1. SourcesStop - WinLens[w] \in Int
      BY <1>1, <1>5
    <3>2. w \in EventArgs
      <4>1. w \in Int
        BY <1>5
      <4> QED
        BY <4>1, Zenon DEF EventArgs
    <3> QED
      BY <3>1, <3>2, NamesTyped, EventTyped, Zenon
  <2>2. opens = [w \in 1..n |-> Event(SourcesStop - WinLens[w], "open", w)]
    BY <1>5 DEF OpenEvents
  <2> QED
    BY <1>5, <2>1, <2>2
<1>7. TrafficEvents = (settle \o opens) \o rest
  BY DEF TrafficEvents
<1> HIDE DEF settle, opens, rest, n
<1> DEFINE front == settle \o opens
<1>8. Joined(front, Events, settle, opens)
  BY <1>3, <1>6, Concatenated
<1> HIDE DEF front
<1>9. /\ front \in Seq(Events) /\ Len(front) = n + 1 /\ front[1] = settle[1]
      /\ \A w \in 1..n : w + 1 \in 1..Len(front) /\ front[w + 1] = opens[w]
  BY <1>3, <1>5, <1>6, <1>8 DEF Joined
<1>10. Joined(TrafficEvents, Events, front, rest)
  <2>1. TrafficEvents = front \o rest /\ front \in Seq(Events) /\ rest \in Seq(Events)
    BY <1>4, <1>7, <1>9 DEF front
  <2> QED
    BY <2>1, Concatenated
<1>11. /\ TrafficEvents \in Seq(Events) /\ Len(TrafficEvents) = n + 6
       /\ \A k \in 1..n + 1 : TrafficEvents[k] = front[k]
       /\ \A i \in 1..5 : TrafficEvents[n + 1 + i] = rest[i]
  BY <1>4, <1>5, <1>9, <1>10 DEF Joined
<1>12. TrafficEvents[1] = settle[1] /\ \A w \in 1..n : TrafficEvents[w + 1] = opens[w]
  BY <1>5, <1>9, <1>11
<1>13. /\ TrafficEvents[n + 2] = rest[1] /\ TrafficEvents[n + 3] = rest[2]
       /\ TrafficEvents[n + 4] = rest[3] /\ TrafficEvents[n + 5] = rest[4]
       /\ TrafficEvents[n + 6] = rest[5]
  BY <1>5, <1>11
<1> QED
  BY <1>1, <1>3, <1>4, <1>5, <1>6, <1>11, <1>12, <1>13, Zenon DEF n

LEMMA TrafficTyped ==
  ASSUME args \in Runs, clock \in Int
  PROVE  /\ TrafficEvents \in Seq(Events)
         /\ \A k \in 1..Len(TrafficEvents) :
              TrafficEvents[k].what = "on" => TrafficEvents[k].at = clock + One
         /\ \E k \in 1..Len(TrafficEvents) :
              /\ TrafficEvents[k].what = "stop"
              /\ TrafficEvents[k].at = clock + One + TrafficSec + DrainSec
<1> DEFINE n == Len(WinLens)
           t == TrafficEvents
<1>1. n \in Nat
  BY TrafficLayout
<1>2. /\ t \in Seq(Events) /\ Len(t) = n + 6
      /\ t[1].what = "settle" /\ \A w \in 1..n : t[w + 1].what = "open"
      /\ t[n + 2].what = "close" /\ t[n + 3].what = "poll"
      /\ t[n + 4].what = "stop" /\ t[n + 4].at = ArmedStop
      /\ t[n + 5].what = "on" /\ t[n + 5].at = SourcesStart /\ t[n + 6].what = "off"
  <2>1. /\ t \in Seq(Events) /\ Len(t) = n + 6
        /\ t[1] = Event(SourcesStart, "settle", "none")
        /\ \A w \in 1..n : t[w + 1] = Event(SourcesStop - WinLens[w], "open", w)
        /\ t[n + 2] = Event(SourcesStop, "close", "none")
        /\ t[n + 3] = Event(SourcesStop, "poll", "none")
        /\ t[n + 4] = Event(ArmedStop, "stop", "armed")
        /\ t[n + 5] = Event(SourcesStart, "on", "none")
        /\ t[n + 6] = Event(SourcesStop, "off", "none")
    BY TrafficLayout, Zenon
  <2> HIDE DEF n, t
  <2>2. ASSUME NEW at, NEW what, NEW arg
        PROVE  Event(at, what, arg).at = at /\ Event(at, what, arg).what = what
    BY DEF Event
  <2>3. t[1].what = "settle" /\ \A w \in 1..n : t[w + 1].what = "open"
    BY <2>1, <2>2
  <2>4. /\ t[n + 2].what = "close" /\ t[n + 3].what = "poll"
        /\ t[n + 4].what = "stop" /\ t[n + 4].at = ArmedStop
        /\ t[n + 5].what = "on" /\ t[n + 5].at = SourcesStart /\ t[n + 6].what = "off"
    BY <2>1, <2>2
  <2> QED
    BY <2>1, <2>3, <2>4
<1> HIDE DEF n, t
<1>3. ASSUME NEW k \in 1..Len(t), t[k].what = "on" PROVE t[k].at = SourcesStart
  <2>1. \/ k = 1 \/ k \in 2..n + 1 \/ k = n + 2 \/ k = n + 3 \/ k = n + 4 \/ k = n + 5 \/ k = n + 6
    BY <1>1, <1>2
  <2>2. k \notin 2..n + 1
    <3>1. ASSUME k \in 2..n + 1 PROVE k - 1 \in 1..n /\ k = (k - 1) + 1
      BY <1>1, <3>1
    <3> QED
      BY <1>2, <1>3, <3>1
  <2> QED
    BY <1>2, <1>3, <2>1, <2>2
<1>4. n + 4 \in 1..Len(t)
  BY <1>1, <1>2
<1>5. SourcesStart = clock + One /\ ArmedStop = clock + One + TrafficSec + DrainSec
  BY DEF SourcesStart, ArmedStop
<1> QED
  BY <1>2, <1>3, <1>4, <1>5 DEF t

LEMMA ClockStep ==
  ASSUME QueueOK, ClockOK, [Next]_vars
  PROVE  ClockOK'
<1> USE DEF ClockOK
<1>1. args \in Runs /\ clock \in Int /\ sentAt \in [Packets -> Int] /\ Tick \in Int
  BY TimesAssumption
<1>2. CASE UNCHANGED <<args, clock, sentAt>>
  BY <1>1, <1>2
<1>3. CASE Advance
  <2>1. /\ queue \in Seq(Events) /\ queue # <<>> /\ args' = args /\ sentAt' = sentAt
        /\ clock' = Minimum(clock + Tick, Head(queue).at)
    BY <1>3 DEF Advance, QueueOK
  <2>2. Head(queue).at \in Int
    BY <2>1, HeadTyped
  <2> QED
    BY <1>1, <2>1, <2>2 DEF Minimum
<1>4. ASSUME NEW p \in Packets, Emit(p) \/ Deliver(p) \/ Lose(p) PROVE ClockOK'
  <2>1. args' = args /\ clock' = clock
    BY <1>4 DEF Emit, Deliver, Lose
  <2>2. sentAt' = sentAt \/ \E t \in Int : sentAt' = [sentAt EXCEPT ![p] = t]
    BY <1>1, <1>4 DEF Emit, Deliver, Lose
  <2> QED
    BY <1>1, <2>1, <2>2
<1>5. CASE UNCHANGED vars
  BY <1>2, <1>5 DEF vars, traffic
<1>6. CASE Simulator
  BY <1>2, <1>3, <1>6 DEF Simulator, BeginWarmup, SweepEnds, SourcesSwitch, SettlePoll,
     OpenFlowWindow, CloseFlowWindows, DrainPoll, StopFires, Return, Fire, traffic
<1>7. CASE Main
  BY <1>2, <1>7 DEF Main, Start, RouteAndSetUp, EmptyFront, PrintSliceResults, traffic
<1> QED
  BY <1>4, <1>5, <1>6, <1>7 DEF Next, Medium

LEMMA FlagsStep ==
  ASSUME FlagsOK, [Next]_vars
  PROVE  FlagsOK'
<1>1. CASE UNCHANGED vars
  BY <1>1, Zenon DEF vars, traffic, FlagsOK
<1>2. CASE Simulator
  BY <1>2, Zenon DEF Simulator, BeginWarmup, SweepEnds, SourcesSwitch, SettlePoll,
     OpenFlowWindow, CloseFlowWindows, DrainPoll, StopFires, Advance, Return, traffic, FlagsOK
<1>3. CASE Main
  BY <1>3, Zenon DEF Main, Start, RouteAndSetUp, EmptyFront, PrintSliceResults, traffic, FlagsOK
<1>4. CASE Medium
  BY <1>4, Zenon DEF Medium, Emit, Deliver, Lose, FlagsOK
<1> QED
  BY <1>1, <1>2, <1>3, <1>4 DEF Next

(* What an event may cause. *)
Caused(what, causes) ==
  \A k \in 1..Len(causes) :
    \/ what = "begin" /\ causes[k].what \in {"swept", "stop"}
    \/ what = "swept" /\ causes[k].what = "stop"
    \/ what = "settle" /\ causes[k].what = "settle"
    \/ what = "poll" /\ causes[k].what \in {"poll", "stop"}

Fired(what, causes) == Fire(what, causes) /\ causes \in Seq(Events) /\ Caused(what, causes)

(* Every call of the simulator is one of its events, or lets time pass, or *)
(* returns to main.                                                        *)
LEMMA EventsFired ==
  ASSUME QueueOK, ClockOK
  PROVE  /\ BeginWarmup => \E causes : Fired("begin", causes)
         /\ SweepEnds => \E causes : Fired("swept", causes)
         /\ SourcesSwitch => \E what \in {"on", "off"} :
                               Fired(what, <<>>) /\ sourcing' = (what = "on")
         /\ SettlePoll => \E causes : Fired("settle", causes)
         /\ OpenFlowWindow => Fired("open", <<>>)
         /\ CloseFlowWindows => Fired("close", <<>>)
         /\ DrainPoll => \E causes : Fired("poll", causes)
         /\ StopFires => Fired("stop", <<>>)
<1>1. /\ clock \in Int /\ args \in Runs /\ queue \in Seq(Events) /\ One = 2 /\ Half = 1
      /\ PollSec \in Int
  BY TimesAssumption DEF ClockOK, QueueOK, One, Half
<1>2. ASSUME BeginWarmup PROVE \E causes : Fired("begin", causes)
  <2>1. PICK took \in SweepTimes :
          Fire("begin", <<Event(clock + SafetyStop, "stop", "safety"),
                          Event(clock + took, "swept", "none")>>)
    BY <1>2 DEF BeginWarmup
  <2> DEFINE causes == <<Event(clock + SafetyStop, "stop", "safety"),
                         Event(clock + took, "swept", "none")>>
  <2>2. clock + SafetyStop \in Int /\ clock + took \in Int
    BY <1>1, SafetyStopTyped, TimesAssumption
  <2>3. causes \in Seq(Events)
    <3>1. /\ Event(clock + SafetyStop, "stop", "safety") \in Events
          /\ Event(clock + took, "swept", "none") \in Events
      BY <2>2, NamesTyped, EventTyped, Zenon
    <3> QED
      BY <3>1
  <2>4. Caused("begin", causes)
    BY DEF Caused, Event
  <2> HIDE DEF causes
  <2> QED
    BY <2>1, <2>3, <2>4 DEF Fired, causes
<1>3. ASSUME SweepEnds PROVE \E causes : Fired("swept", causes)
  <2> DEFINE causes == <<Event(clock + Half, "stop", "sweep")>>
  <2>1. Fire("swept", causes)
    BY <1>3 DEF SweepEnds
  <2>2. causes \in Seq(Events)
    <3>1. clock + Half \in Int
      BY <1>1
    <3>2. Event(clock + Half, "stop", "sweep") \in Events
      BY <3>1, NamesTyped, EventTyped, Zenon
    <3> QED
      BY <3>2
  <2>3. Caused("swept", causes)
    BY DEF Caused, Event
  <2> HIDE DEF causes
  <2> QED
    BY <2>1, <2>2, <2>3 DEF Fired
<1>4. \A what : Fire(what, <<>>) => Fired(what, <<>>)
  BY DEF Fired, Caused
<1>5. ASSUME SourcesSwitch
      PROVE  \E what \in {"on", "off"} : Fired(what, <<>>) /\ sourcing' = (what = "on")
  <2>1. PICK what \in {"on", "off"} : Fire(what, <<>>) /\ sourcing' = (what = "on")
    BY <1>5, Zenon DEF SourcesSwitch
  <2> QED
    BY <1>4, <2>1, Zenon
<1>6. ASSUME SettlePoll PROVE \E causes : Fired("settle", causes)
  <2> DEFINE causes == IF watching THEN <<Event(clock + SettleDelay, "settle", "none")>> ELSE <<>>
  <2>1. Fire("settle", causes)
    BY <1>6 DEF SettlePoll
  <2>2. causes \in Seq(Events)
    <3>1. clock + SettleDelay \in Int
      BY <1>1 DEF SettleDelay
    <3>2. Event(clock + SettleDelay, "settle", "none") \in Events
      BY <3>1, NamesTyped, EventTyped, Zenon
    <3> QED
      BY <3>2
  <2>3. Caused("settle", causes)
    BY DEF Caused, Event
  <2> HIDE DEF causes
  <2> QED
    BY <2>1, <2>2, <2>3 DEF Fired
<1>7. ASSUME DrainPoll PROVE \E causes : Fired("poll", causes)
  <2> DEFINE last == <<Event(clock, "stop", "drain")>>
             again == <<Event(clock + PollSec, "poll", "none")>>
  <2>1. Fire("poll", last) \/ Fire("poll", again)
    BY <1>7 DEF DrainPoll
  <2>2. last \in Seq(Events) /\ again \in Seq(Events)
    <3>1. clock + PollSec \in Int
      BY <1>1
    <3>2. /\ Event(clock, "stop", "drain") \in Events
          /\ Event(clock + PollSec, "poll", "none") \in Events
      BY <1>1, <3>1, NamesTyped, EventTyped, Zenon
    <3> QED
      BY <3>2
  <2>3. Caused("poll", last) /\ Caused("poll", again)
    BY DEF Caused, Event
  <2> HIDE DEF last, again
  <2> QED
    BY <2>1, <2>2, <2>3 DEF Fired
<1>8. (OpenFlowWindow => Fired("open", <<>>)) /\ (CloseFlowWindows => Fired("close", <<>>))
  BY <1>4 DEF OpenFlowWindow, CloseFlowWindows
<1>9. StopFires => Fired("stop", <<>>)
  BY <1>4 DEF StopFires
<1> QED
  BY <1>2, <1>3, <1>5, <1>6, <1>7, <1>8, <1>9, Zenon

(* main schedules a whole phase at once. *)
LEMMA MainSchedules ==
  ASSUME ClockOK, Main
  PROVE  \/ queue' = queue
         \/ \E events \in {<<>>, SliceTestEvents, ScheduleWarmup, TrafficEvents} :
              events \in Seq(Events) /\ queue' = ScheduleAll(queue, events)
<1>1. /\ <<>> \in Seq(Events) /\ SliceTestEvents \in Seq(Events) /\ TrafficEvents \in Seq(Events)
      /\ clock + WarmupStart \in Int
  BY SliceTestTyped, TrafficTyped, TimesAssumption DEF ClockOK
<1>2. Event(clock + WarmupStart, "begin", "none") \in Events
  BY <1>1, NamesTyped, EventTyped, Zenon
<1>3. ScheduleWarmup \in Seq(Events)
  BY <1>2 DEF ScheduleWarmup
<1>4. CASE Start
  BY <1>1, <1>3, <1>4 DEF Start
<1>5. CASE RouteAndSetUp \/ EmptyFront \/ PrintSliceResults
  BY <1>1, <1>5 DEF RouteAndSetUp, EmptyFront, PrintSliceResults
<1> QED
  BY <1>4, <1>5 DEF Main

LEMMA QueueStep ==
  ASSUME QueueOK, ClockOK, [Next]_vars
  PROVE  QueueOK'
<1>1. CASE queue' = queue
  BY <1>1 DEF QueueOK
<1>2. ASSUME NEW q \in Seq(Events), NEW events \in Seq(Events), queue' = ScheduleAll(q, events)
      PROVE  QueueOK'
  BY <1>2, ScheduleAllSorts DEF QueueOK, Scheduled
<1>3. ASSUME NEW what, NEW causes, Fired(what, causes) PROVE QueueOK'
  <2>1. queue # <<>> /\ queue' = ScheduleAll(Tail(queue), causes) /\ causes \in Seq(Events)
    BY <1>3 DEF Fired, Fire, Due
  <2>2. Tail(queue) \in Seq(Events)
    BY <2>1 DEF QueueOK
  <2> QED
    BY <1>2, <2>1, <2>2
<1>4. CASE Simulator
  <2>1. CASE Advance \/ Return
    BY <1>1, <2>1 DEF Advance, Return
  <2> QED
    BY <1>3, <1>4, <2>1, EventsFired DEF Simulator
<1>5. CASE Main
  BY <1>1, <1>2, <1>5, MainSchedules DEF QueueOK
<1>6. CASE Medium
  BY <1>1, <1>6 DEF Medium, Emit, Deliver, Lose
<1>7. CASE UNCHANGED vars
  BY <1>1, <1>7 DEF vars
<1> QED
  BY <1>4, <1>5, <1>6, <1>7 DEF Next

LEMMA QueueInit == Init => QueueOK /\ ClockOK /\ FlagsOK
<1> SUFFICES ASSUME Init PROVE QueueOK /\ ClockOK /\ FlagsOK
  OBVIOUS
<1>1. QueueOK
  BY DEF Init, QueueOK
<1>2. ClockOK
  BY DEF Init, ClockOK
<1>3. FlagsOK
  BY DEF Init, FlagsOK
<1> QED
  BY <1>1, <1>2, <1>3

(* The simulator's queue is a queue: events, earliest first. *)
THEOREM QueueIsSorted == Spec => [](QueueOK /\ ClockOK /\ FlagsOK)
<1>1. QueueOK /\ ClockOK /\ FlagsOK /\ [Next]_vars => (QueueOK /\ ClockOK /\ FlagsOK)'
  BY QueueStep, ClockStep, FlagsStep
<1> QED
  BY <1>1, QueueInit, PTL DEF Spec

-----------------------------------------------------------------------------

(* A window's fields, and those of them that are counts. *)
IsWindow(r) ==
  /\ r = [opened |-> r.opened, closed |-> r.closed, tx |-> r.tx, rx |-> r.rx,
          heldOpen |-> r.heldOpen, heldClose |-> r.heldClose]
  /\ r.tx \in Nat /\ r.rx \in Nat /\ r.heldOpen \in Nat

(* FlowMonitor counts received only what arrived. *)
PlacesOK ==
  /\ place \in [Packets -> {"source", "air", "got", "dropped"}]
  /\ rx \subseteq At({"got"})

WindowsOK ==
  /\ windows = [w \in DOMAIN windows |-> windows[w]]
  /\ \A w \in DOMAIN windows : IsWindow(windows[w])

(* No more was received or is in flight than was sent. *)
Balance == Cardinality(rx) + Cardinality(InFlight) <= Cardinality(Sent)

(* The same since a window opened, with what was in flight as it did. *)
WindowBalance ==
  \A w \in DOMAIN windows :
    Cardinality(rx) + Cardinality(InFlight) + windows[w].tx
      <= Cardinality(Sent) + windows[w].rx + windows[w].heldOpen

(* The report is the last thing that happens, and still matches. *)
ReportIsLast ==
  report # Unreported =>
    /\ phase = "written"
    /\ report.windows = [w \in DOMAIN windows |-> Windowed(w)]

IInv == PlacesOK /\ WindowsOK /\ Balance /\ WindowBalance /\ ReportIsLast

-----------------------------------------------------------------------------
LEMMA PacketCounts ==
  ASSUME NEW S \in SUBSET Packets
  PROVE  IsFiniteSet(S) /\ Cardinality(S) \in Nat
BY PacketsAssumption, FS_Subset, FS_CardinalityType

LEMMA CountsFinite ==
  ASSUME PlacesOK
  PROVE  /\ IsFiniteSet(rx) /\ IsFiniteSet(InFlight) /\ IsFiniteSet(Sent)
         /\ Cardinality(rx) \in Nat /\ Cardinality(InFlight) \in Nat /\ Cardinality(Sent) \in Nat
<1>1. rx \in SUBSET Packets /\ InFlight \in SUBSET Packets /\ Sent \in SUBSET Packets
  BY DEF PlacesOK, InFlight, Sent, At
<1> QED
  BY <1>1, PacketCounts

(* What a step does to packets, in sets. *)
LEMMA PacketSteps ==
  ASSUME PlacesOK, [Next]_vars
  PROVE  \/ UNCHANGED <<place, rx>>
         \/ \E p \in Packets : Emit(p) \/ Deliver(p) \/ Lose(p)
<1>1. CASE UNCHANGED vars
  BY <1>1 DEF vars, traffic
<1>2. CASE Simulator
  BY <1>2 DEF Simulator, BeginWarmup, SweepEnds, SourcesSwitch, SettlePoll, OpenFlowWindow,
              CloseFlowWindows, DrainPoll, StopFires, Advance, Return, traffic
<1>3. CASE Main
  BY <1>3 DEF Main, Start, RouteAndSetUp, EmptyFront, PrintSliceResults, traffic
<1>4. CASE Medium
  BY <1>4 DEF Medium
<1> QED
  BY <1>1, <1>2, <1>3, <1>4 DEF Next

LEMMA PlacesStep ==
  ASSUME PlacesOK, [Next]_vars
  PROVE  PlacesOK'
<1>1. CASE UNCHANGED <<place, rx>>
  BY <1>1 DEF PlacesOK, At
<1>2. ASSUME NEW p \in Packets, Emit(p) PROVE PlacesOK'
  BY <1>2 DEF PlacesOK, At, Emit
<1>3. ASSUME NEW p \in Packets, Deliver(p) PROVE PlacesOK'
  BY <1>3 DEF PlacesOK, At, Deliver
<1>4. ASSUME NEW p \in Packets, Lose(p) PROVE PlacesOK'
  BY <1>4 DEF PlacesOK, At, Lose
<1> QED
  BY <1>1, <1>2, <1>3, <1>4, PacketSteps

(* Received and in flight, less sent, never grows. *)
LEMMA NeverGrows ==
  ASSUME PlacesOK, [Next]_vars
  PROVE  Cardinality(rx)' + Cardinality(InFlight)' + Cardinality(Sent)
           <= Cardinality(rx) + Cardinality(InFlight) + Cardinality(Sent)'
<1> USE CountsFinite
<1>1. CASE UNCHANGED <<place, rx>>
  <2>1. rx' = rx /\ InFlight' = InFlight /\ Sent' = Sent
    BY <1>1 DEF InFlight, Sent, At
  <2> QED
    BY <2>1
<1>2. ASSUME NEW p \in Packets, Emit(p)
      PROVE  Cardinality(rx)' + Cardinality(InFlight)' + Cardinality(Sent)
               <= Cardinality(rx) + Cardinality(InFlight) + Cardinality(Sent)'
  <2>1. rx' = rx /\ InFlight' = InFlight \cup {p} /\ Sent' = Sent \cup {p} /\ p \notin Sent
    BY <1>2 DEF Emit, PlacesOK, InFlight, Sent, At
  <2>2. p \notin InFlight
    BY <1>2 DEF Emit, InFlight, At
  <2>3. Cardinality(InFlight \cup {p}) = Cardinality(InFlight) + 1
    BY <2>2, FS_AddElement
  <2>4. Cardinality(Sent \cup {p}) = Cardinality(Sent) + 1
    BY <2>1, FS_AddElement
  <2> QED
    BY <2>1, <2>3, <2>4
<1>3. ASSUME NEW p \in Packets, Deliver(p)
      PROVE  Cardinality(rx)' + Cardinality(InFlight)' + Cardinality(Sent)
               <= Cardinality(rx) + Cardinality(InFlight) + Cardinality(Sent)'
  <2>1. InFlight' = InFlight \ {p} /\ Sent' = Sent /\ p \in InFlight
    BY <1>3 DEF Deliver, PlacesOK, InFlight, Sent, At
  <2>2. rx' = rx \/ rx' = rx \cup {p}
    BY <1>3 DEF Deliver
  <2>3. Cardinality(InFlight \ {p}) = Cardinality(InFlight) - 1
    BY <2>1, FS_RemoveElement
  <2>4. Cardinality(rx') \in Nat /\ Cardinality(rx') <= Cardinality(rx) + 1
    <3>1. CASE rx' = rx
      BY <3>1
    <3>2. CASE rx' = rx \cup {p}
      <4>1. Cardinality(rx \cup {p}) = IF p \in rx THEN Cardinality(rx) ELSE Cardinality(rx) + 1
        BY FS_AddElement
      <4> QED
        BY <3>2, <4>1
    <3> QED
      BY <2>2, <3>1, <3>2
  <2> QED
    BY <2>1, <2>3, <2>4
<1>4. ASSUME NEW p \in Packets, Lose(p)
      PROVE  Cardinality(rx)' + Cardinality(InFlight)' + Cardinality(Sent)
               <= Cardinality(rx) + Cardinality(InFlight) + Cardinality(Sent)'
  <2>1. rx' = rx /\ InFlight' = InFlight \ {p} /\ Sent' = Sent /\ p \in InFlight
    BY <1>4 DEF Lose, PlacesOK, InFlight, Sent, At
  <2>2. Cardinality(InFlight \ {p}) = Cardinality(InFlight) - 1
    BY <2>1, FS_RemoveElement
  <2> QED
    BY <2>1, <2>2
<1> QED
  BY <1>1, <1>2, <1>3, <1>4, PacketSteps

-----------------------------------------------------------------------------
(* What a step does to the windows: lays them out, opens one of them,      *)
(* closes them all, or leaves them.                                        *)
LayOut == windows' = [w \in DOMAIN WinLens |-> Unopened] /\ UNCHANGED <<place, rx>>
OpenOne == \E v : windows' = [windows EXCEPT ![v] = Opened(v)] /\ UNCHANGED <<place, rx>>
CloseAll ==
  windows' = [w \in DOMAIN windows |->
    [windows[w] EXCEPT !.closed = clock, !.heldClose = Cardinality(InFlight)]]

LEMMA WindowSteps ==
  ASSUME [Next]_vars
  PROVE  (windows' = windows) \/ LayOut \/ OpenOne \/ CloseAll
<1>1. CASE UNCHANGED vars
  BY <1>1 DEF vars, measures
<1>2. CASE OpenFlowWindow
  BY <1>2 DEF OpenFlowWindow, OpenOne, traffic
<1>3. CASE CloseFlowWindows
  BY <1>3 DEF CloseFlowWindows, CloseAll
<1>4. CASE RouteAndSetUp
  BY <1>4 DEF RouteAndSetUp, LayOut, measures, traffic
<1>5. CASE BeginWarmup \/ SweepEnds \/ SourcesSwitch \/ SettlePoll \/ DrainPoll \/ StopFires
             \/ Advance \/ Return
  BY <1>5 DEF BeginWarmup, SweepEnds, SourcesSwitch, SettlePoll, DrainPoll, StopFires, Advance,
              Return, measures
<1>6. CASE Start \/ EmptyFront \/ PrintSliceResults
  BY <1>6 DEF Start, EmptyFront, PrintSliceResults, measures
<1>7. CASE Medium
  BY <1>7 DEF Medium, Emit, Deliver, Lose, measures
<1> QED
  BY <1>1, <1>2, <1>3, <1>4, <1>5, <1>6, <1>7 DEF Next, Simulator, Main

(* Once the report is written nothing moves. *)
LEMMA WrittenIsLast ==
  ASSUME [Next]_vars, phase = "written"
  PROVE  UNCHANGED vars
<1>1. ~Running
  BY DEF Running
<1>2. ~Simulator
  BY <1>1 DEF Simulator, BeginWarmup, SweepEnds, SourcesSwitch, SettlePoll, OpenFlowWindow,
              CloseFlowWindows, DrainPoll, StopFires, Advance, Return, Fire, Due
<1>3. ~Main
  BY DEF Main, Start, RouteAndSetUp, EmptyFront, PrintSliceResults
<1>4. ~Medium
  BY <1>1 DEF Medium, Emit, Deliver, Lose
<1> QED
  BY <1>2, <1>3, <1>4 DEF Next

LEMMA ReportSteps ==
  ASSUME [Next]_vars
  PROVE  report' = report \/ PrintSliceResults
<1>1. CASE Simulator
  BY <1>1 DEF Simulator, BeginWarmup, SweepEnds, SourcesSwitch, SettlePoll, OpenFlowWindow,
              CloseFlowWindows, DrainPoll, StopFires, Advance, Return
<1>2. CASE Main
  BY <1>2 DEF Main, Start, RouteAndSetUp, EmptyFront
<1>3. CASE Medium
  BY <1>3 DEF Medium, Emit, Deliver, Lose
<1> QED
  BY <1>1, <1>2, <1>3 DEF Next, vars

-----------------------------------------------------------------------------
LEMMA InvInit == Init => IInv
<1> SUFFICES ASSUME Init PROVE IInv
  OBVIOUS
<1>1. PlacesOK /\ InFlight = {} /\ Sent = {} /\ rx = {}
  BY DEF Init, PlacesOK, InFlight, Sent, At
<1>2. Balance
  BY <1>1, FS_EmptySet DEF Balance
<1>3. DOMAIN windows = {} /\ windows = [w \in {} |-> windows[w]]
  BY DEF Init
<1>4. WindowsOK /\ WindowBalance
  BY <1>3 DEF WindowsOK, WindowBalance
<1>5. ReportIsLast
  BY DEF Init, ReportIsLast
<1> QED
  BY <1>1, <1>2, <1>4, <1>5 DEF IInv

LEMMA CountsLater ==
  ASSUME PlacesOK, [Next]_vars
  PROVE  /\ Cardinality(rx)' \in Nat /\ Cardinality(InFlight)' \in Nat
         /\ Cardinality(Sent)' \in Nat
<1>1. PlacesOK'
  BY PlacesStep
<1>2. rx' \in SUBSET Packets /\ InFlight' \in SUBSET Packets /\ Sent' \in SUBSET Packets
  BY <1>1 DEF PlacesOK, InFlight, Sent, At
<1> QED
  BY <1>2, PacketCounts

LEMMA BalanceStep ==
  ASSUME PlacesOK, Balance, [Next]_vars
  PROVE  Balance'
BY NeverGrows, CountsFinite, CountsLater DEF Balance

LEMMA OpenedIsWindow ==
  ASSUME PlacesOK, NEW w, IsWindow(windows[w])
  PROVE  /\ IsWindow(Opened(w))
         /\ Opened(w).tx = Cardinality(Sent) /\ Opened(w).rx = Cardinality(rx)
         /\ Opened(w).heldOpen = Cardinality(InFlight)
<1> DEFINE fields == {"opened", "closed", "tx", "rx", "heldOpen", "heldClose"}
           r == windows[w]
           o == Opened(w)
<1>1. r = [f \in fields |-> r[f]]
  BY DEF IsWindow
<1>2. o = [f \in fields |->
             IF f = "opened" THEN clock ELSE IF f = "tx" THEN Cardinality(Sent)
             ELSE IF f = "rx" THEN Cardinality(rx)
             ELSE IF f = "heldOpen" THEN Cardinality(InFlight) ELSE r[f]]
  BY <1>1 DEF Opened
<1> HIDE DEF o
<1>3. /\ o.tx = Cardinality(Sent) /\ o.rx = Cardinality(rx)
      /\ o.heldOpen = Cardinality(InFlight)
  BY <1>2
<1>4. o = [opened |-> o.opened, closed |-> o.closed, tx |-> o.tx, rx |-> o.rx,
           heldOpen |-> o.heldOpen, heldClose |-> o.heldClose]
  BY <1>2
<1>5. IsWindow(o)
  BY <1>3, <1>4, CountsFinite DEF IsWindow
<1> QED
  BY <1>3, <1>5 DEF o

LEMMA WindowsStep ==
  ASSUME PlacesOK, WindowsOK, [Next]_vars
  PROVE  WindowsOK'
<1>1. CASE windows' = windows
  BY <1>1 DEF WindowsOK
<1>2. CASE LayOut
  BY <1>2 DEF LayOut, WindowsOK, Unopened, IsWindow
<1>3. CASE OpenOne
  <2>1. PICK v : windows' = [windows EXCEPT ![v] = Opened(v)]
    BY <1>3 DEF OpenOne
  <2>2. \A w \in DOMAIN windows : IsWindow(windows'[w])
    BY <2>1, OpenedIsWindow DEF WindowsOK
  <2> QED
    BY <2>1, <2>2 DEF WindowsOK
<1>4. CASE CloseAll
  <2>1. windows' = [w \in DOMAIN windows' |-> windows'[w]] /\ DOMAIN windows' = DOMAIN windows
    BY <1>4 DEF CloseAll
  <2>2. ASSUME NEW w \in DOMAIN windows PROVE IsWindow(windows'[w])
    <3>1. windows'[w] = [windows[w] EXCEPT !.closed = clock, !.heldClose = Cardinality(InFlight)]
      BY <1>4 DEF CloseAll
    <3>2. IsWindow(windows[w])
      BY DEF WindowsOK
    <3> QED
      BY <3>1, <3>2 DEF IsWindow
  <2> QED
    BY <2>1, <2>2 DEF WindowsOK
<1> QED
  BY <1>1, <1>2, <1>3, <1>4, WindowSteps

(* Counters a window already took only make the balance easier to keep;    *)
(* one that opens now starts with it exactly.                              *)
LEMMA WindowBalanceStep ==
  ASSUME PlacesOK, WindowsOK, Balance, WindowBalance, [Next]_vars
  PROVE  WindowBalance'
<1> USE CountsFinite, CountsLater
<1> SUFFICES ASSUME NEW w \in DOMAIN windows'
             PROVE  Cardinality(rx)' + Cardinality(InFlight)' + windows'[w].tx
                      <= Cardinality(Sent)' + windows'[w].rx + windows'[w].heldOpen
  BY DEF WindowBalance
<1>1. ASSUME w \in DOMAIN windows, windows'[w].tx = windows[w].tx,
             windows'[w].rx = windows[w].rx, windows'[w].heldOpen = windows[w].heldOpen
      PROVE  Cardinality(rx)' + Cardinality(InFlight)' + windows'[w].tx
               <= Cardinality(Sent)' + windows'[w].rx + windows'[w].heldOpen
  <2>1. /\ windows[w].tx \in Nat /\ windows[w].rx \in Nat /\ windows[w].heldOpen \in Nat
        /\ Cardinality(rx) + Cardinality(InFlight) + windows[w].tx
             <= Cardinality(Sent) + windows[w].rx + windows[w].heldOpen
    BY <1>1 DEF WindowsOK, IsWindow, WindowBalance
  <2> QED
    BY <1>1, <2>1, NeverGrows
<1>2. CASE windows' = windows
  BY <1>1, <1>2
<1>3. CASE LayOut
  <2>1. windows'[w] = Unopened
    BY <1>3 DEF LayOut
  <2>2. Balance'
    BY BalanceStep
  <2> QED
    BY <2>1, <2>2 DEF Balance, Unopened
<1>4. CASE OpenOne
  <2>1. PICK v : windows' = [windows EXCEPT ![v] = Opened(v)] /\ UNCHANGED <<place, rx>>
    BY <1>4 DEF OpenOne
  <2>2. w \in DOMAIN windows
    BY <2>1
  <2>3. CASE w = v
    <3>1. windows'[w] = Opened(w) /\ IsWindow(windows[w])
      BY <2>1, <2>2, <2>3 DEF WindowsOK
    <3>2. rx' = rx /\ InFlight' = InFlight /\ Sent' = Sent
      BY <2>1 DEF InFlight, Sent, At
    <3> QED
      BY <3>1, <3>2, OpenedIsWindow
  <2>4. CASE w # v
    BY <1>1, <2>1, <2>2, <2>4
  <2> QED
    BY <2>3, <2>4
<1>5. CASE CloseAll
  <2>1. w \in DOMAIN windows /\ IsWindow(windows[w])
    BY <1>5 DEF CloseAll, WindowsOK
  <2>2. windows'[w] = [windows[w] EXCEPT !.closed = clock, !.heldClose = Cardinality(InFlight)]
    BY <1>5, <2>1 DEF CloseAll
  <2> QED
    BY <1>1, <2>1, <2>2 DEF IsWindow
<1> QED
  BY <1>2, <1>3, <1>4, <1>5, WindowSteps

LEMMA ReportStep ==
  ASSUME ReportIsLast, [Next]_vars
  PROVE  ReportIsLast'
<1>1. CASE report = Unreported /\ report' = report
  BY <1>1 DEF ReportIsLast
<1>2. CASE report # Unreported
  <2>1. UNCHANGED vars
    BY <1>2, WrittenIsLast DEF ReportIsLast
  <2> QED
    BY <2>1 DEF ReportIsLast, Windowed, Sent, At, vars, traffic, measures
<1>3. CASE PrintSliceResults
  BY <1>3 DEF PrintSliceResults, ReportIsLast, Windowed, Sent, At, measures
<1> QED
  BY <1>1, <1>2, <1>3, ReportSteps

(* The invariant of the windows' bookkeeping. *)
THEOREM Bookkeeping == Spec => []IInv
<1>1. Init => IInv
  BY InvInit
<1>2. IInv /\ [Next]_vars => IInv'
  BY PlacesStep, WindowsStep, BalanceStep, WindowBalanceStep, ReportStep DEF IInv
<1> QED
  BY <1>1, <1>2, PTL DEF Spec

LEMMA BalancedReport == IInv => RxBoundedByInFlight
<1> SUFFICES ASSUME IInv, report # Unreported, NEW w \in DOMAIN windows
             PROVE  report.windows[w].rx <= report.windows[w].tx + windows[w].heldOpen
  BY DEF RxBoundedByInFlight
<1>1. report.windows[w] = Windowed(w)
  BY DEF IInv, ReportIsLast
<1>2. /\ windows[w].tx \in Nat /\ windows[w].rx \in Nat /\ windows[w].heldOpen \in Nat
      /\ Cardinality(rx) + Cardinality(InFlight) + windows[w].tx
           <= Cardinality(Sent) + windows[w].rx + windows[w].heldOpen
  BY DEF IInv, WindowsOK, IsWindow, WindowBalance
<1>3. PlacesOK
  BY DEF IInv
<1> QED
  BY <1>1, <1>2, <1>3, CountsFinite DEF Windowed

(* applications.cc:216-227.  Whatever is sent, delayed, lost or given up   *)
(* on, a window counts at most what was in flight when it opened more      *)
(* received than sent.                                                     *)
THEOREM WindowsBounded == Spec => []RxBoundedByInFlight
BY Bookkeeping, BalancedReport, PTL

-----------------------------------------------------------------------------
(* Nothing a window sent is left unresolved: no window opens with more     *)
(* received than sent, and once the accounts are settled all that was sent *)
(* was received or is lost.                                                *)
AccountsOK ==
  /\ lost \subseteq Packets
  /\ \A w \in DOMAIN windows : windows[w].rx <= windows[w].tx
  /\ report # Unreported =>
       /\ Sent \subseteq rx \cup lost
       /\ report.lost \in Int /\ Cardinality(lost) <= report.lost

LEMMA LostStep ==
  ASSUME lost \subseteq Packets, PlacesOK, [Next]_vars
  PROVE  lost' \subseteq Packets
<1>1. Tracked \subseteq Packets
  BY DEF Tracked, Sent
<1>2. CASE Advance \/ PrintSliceResults
  BY <1>1, <1>2 DEF Advance, PrintSliceResults, Settled
<1>3. CASE \/ BeginWarmup \/ SweepEnds \/ SourcesSwitch \/ SettlePoll \/ OpenFlowWindow
           \/ CloseFlowWindows \/ DrainPoll \/ StopFires \/ Return
  BY <1>3 DEF BeginWarmup, SweepEnds, SourcesSwitch, SettlePoll, OpenFlowWindow,
     CloseFlowWindows, DrainPoll, StopFires, Return, traffic
<1>4. CASE Start \/ RouteAndSetUp \/ EmptyFront \/ UNCHANGED vars
  BY <1>4 DEF Start, RouteAndSetUp, EmptyFront, vars, traffic
<1>5. CASE Medium
  BY <1>5 DEF Medium, Emit, Deliver, Lose
<1> QED
  BY <1>2, <1>3, <1>4, <1>5 DEF Next, Simulator, Main

LEMMA OpeningsStep ==
  ASSUME IInv, AccountsOK, [Next]_vars, NEW w \in DOMAIN windows'
  PROVE  windows'[w].rx <= windows'[w].tx
<1>1. PlacesOK /\ WindowsOK /\ Balance /\ \A v \in DOMAIN windows : windows[v].rx <= windows[v].tx
  BY DEF IInv, AccountsOK
<1>2. CASE windows' = windows
  BY <1>1, <1>2
<1>3. CASE LayOut
  BY <1>3 DEF LayOut, Unopened
<1>4. CASE OpenOne
  <2>1. PICK v : windows' = [windows EXCEPT ![v] = Opened(v)]
    BY <1>4 DEF OpenOne
  <2>2. w \in DOMAIN windows
    BY <2>1
  <2>3. CASE w = v
    <3>1. windows'[w] = Opened(w) /\ IsWindow(windows[w])
      BY <1>1, <2>1, <2>2, <2>3 DEF WindowsOK
    <3>2. Cardinality(rx) <= Cardinality(Sent)
      BY <1>1, CountsFinite DEF Balance
    <3> QED
      BY <1>1, <3>1, <3>2, OpenedIsWindow
  <2>4. CASE w # v
    BY <1>1, <2>1, <2>2, <2>4
  <2> QED
    BY <2>3, <2>4
<1>5. CASE CloseAll
  <2>1. w \in DOMAIN windows /\ IsWindow(windows[w])
    BY <1>1, <1>5 DEF CloseAll, WindowsOK
  <2>2. windows'[w] = [windows[w] EXCEPT !.closed = clock, !.heldClose = Cardinality(InFlight)]
    BY <1>5, <2>1 DEF CloseAll
  <2> QED
    BY <1>1, <2>1, <2>2 DEF IsWindow
<1> QED
  BY <1>2, <1>3, <1>4, <1>5, WindowSteps

LEMMA SettlingStep ==
  ASSUME IInv, AccountsOK, [Next]_vars, report' # Unreported
  PROVE  /\ Sent' \subseteq rx' \cup lost'
         /\ report'.lost \in Int /\ Cardinality(lost') <= report'.lost
<1>1. CASE report # Unreported
  <2>1. phase = "written"
    BY <1>1 DEF IInv, ReportIsLast
  <2>2. UNCHANGED vars
    BY <2>1, WrittenIsLast
  <2> QED
    BY <1>1, <2>2 DEF AccountsOK, Sent, At, vars, traffic
<1>2. CASE PrintSliceResults
  <2>1. PICK unheard \in 0..Cardinality(Intruders) : report'.lost = Cardinality(lost') + unheard
    BY <1>2 DEF PrintSliceResults
  <2>2. lost' = lost \cup Tracked /\ UNCHANGED <<place, rx>>
    BY <1>2 DEF PrintSliceResults, Settled
  <2>3. Cardinality(lost') \in Nat
    <3>1. lost' \in SUBSET Packets
      BY <2>2 DEF AccountsOK, Tracked, Sent
    <3> QED
      BY <3>1, PacketCounts
  <2>4. unheard \in Int /\ unheard >= 0
    BY <2>1
  <2>5. Sent' \subseteq rx' \cup lost'
    BY <2>2 DEF Tracked, Sent, At
  <2> QED
    BY <2>1, <2>3, <2>4, <2>5
<1> QED
  BY <1>1, <1>2, ReportSteps

LEMMA SettledReport == IInv /\ AccountsOK => NothingUnresolved
<1> SUFFICES ASSUME IInv, AccountsOK, report # Unreported, NEW w \in DOMAIN windows
             PROVE  report.windows[w].tx <= report.windows[w].rx + report.lost
  BY DEF NothingUnresolved
<1>1. report.windows[w] = Windowed(w)
  BY DEF IInv, ReportIsLast
<1>2. windows[w].tx \in Nat /\ windows[w].rx \in Nat /\ windows[w].rx <= windows[w].tx
  BY DEF IInv, WindowsOK, IsWindow, AccountsOK
<1>3. IsFiniteSet(rx) /\ IsFiniteSet(lost) /\ Cardinality(rx) \in Nat /\ Cardinality(lost) \in Nat
      /\ Cardinality(Sent) \in Nat
  BY CountsFinite, PacketCounts DEF IInv, AccountsOK
<1>4. Cardinality(Sent) <= Cardinality(rx) + Cardinality(lost)
  <2>1. /\ IsFiniteSet(rx \cup lost) /\ Cardinality(rx \cup lost) \in Nat
        /\ Cardinality(rx \cup lost) <= Cardinality(rx) + Cardinality(lost)
    <3>1. IsFiniteSet(rx \cap lost)
      BY <1>3, FS_Intersection
    <3>2. Cardinality(rx \cap lost) \in Nat
      BY <3>1, FS_CardinalityType
    <3>3. /\ IsFiniteSet(rx \cup lost)
          /\ Cardinality(rx \cup lost)
               = Cardinality(rx) + Cardinality(lost) - Cardinality(rx \cap lost)
      BY <1>3, FS_Union
    <3>4. Cardinality(rx \cup lost) \in Nat
      BY <3>3, FS_CardinalityType
    <3> QED
      BY <1>3, <3>2, <3>3, <3>4
  <2>2. Cardinality(Sent) <= Cardinality(rx \cup lost)
    BY <2>1, FS_Subset DEF AccountsOK
  <2> QED
    BY <1>3, <2>1, <2>2
<1>5. report.lost \in Int /\ Cardinality(lost) <= report.lost
  BY DEF AccountsOK
<1>6. Windowed(w).tx = Cardinality(Sent) - windows[w].tx
      /\ Windowed(w).rx = Cardinality(rx) - windows[w].rx
  BY DEF Windowed
<1> QED
  BY <1>1, <1>2, <1>3, <1>4, <1>5, <1>6

(* applications.cc:251-254.  For every command line, packets and times, no *)
(* window reports more sent than received by the end or lost: the          *)
(* unresolved remainder is never printed.                                  *)
THEOREM WindowsResolved == Spec => []NothingUnresolved
<1>1. Init => AccountsOK
  BY DEF Init, AccountsOK
<1>2. IInv /\ AccountsOK /\ [Next]_vars => AccountsOK'
  <2> SUFFICES ASSUME IInv, AccountsOK, [Next]_vars PROVE AccountsOK'
    OBVIOUS
  <2>1. lost' \subseteq Packets
    BY LostStep DEF IInv, AccountsOK
  <2>2. \A w \in DOMAIN windows' : windows'[w].rx <= windows'[w].tx
    BY OpeningsStep
  <2>3. report' # Unreported => /\ Sent' \subseteq rx' \cup lost'
                                /\ report'.lost \in Int /\ Cardinality(lost') <= report'.lost
    BY SettlingStep
  <2> QED
    BY <2>1, <2>2, <2>3 DEF AccountsOK
<1> QED
  BY <1>1, <1>2, Bookkeeping, SettledReport, PTL DEF Spec

-----------------------------------------------------------------------------
(***************************************************************************)
(* Every window that is reported is the one asked for (main.cc:669-707),   *)
(* for every command line, packets and times, provided the sweep's safety  *)
(* Stop, which outlives the sweep, is behind the close of the windows.     *)
(*                                                                         *)
(* A window is opened and closed by two events of a queue that also holds  *)
(* what the sweep left, the drain's polls and the armed Stop.  The         *)
(* invariant says what the queue holds at each stage of a run: up to the   *)
(* close, all that can end the run is behind it, and a window that is not  *)
(* open has its opening ahead.                                             *)
(*                                                                         *)
(* From there, a run is an experiment: every step of HarnessRun is a step  *)
(* of Experiment or leaves it alone, however events, packets and time      *)
(* interleave, when the loss window outlasts the run.                      *)
(***************************************************************************)
(* The traffic's close comes this long after the sweep's return to main. *)
Span == One + TrafficSec

(* A sweep that traffic follows. *)
Sweeps == args.gaRoute /\ ~args.linkTable /\ MembersFit

(* Its safety Stop is behind the close of that traffic. *)
SweepInTime ==
  Sweeps =>
    \A took \in SweepTimes : took + Half + Span < SafetyStop

OnlyStops(q, t) == \A k \in 1..Len(q) : q[k].what = "stop" /\ q[k].at > t

(* What a sweep has queued: its start; its end and the safety Stop; its    *)
(* own Stop and the safety Stop; the safety Stop.                          *)
SweepStage ==
  \/ stop = FALSE /\ Len(queue) = 1 /\ queue[1].what = "begin"
  \/ /\ stop = FALSE /\ Len(queue) = 2 /\ queue[1].what = "swept" /\ queue[2].what = "stop"
     /\ queue[2].at > queue[1].at + Half + Span
  \/ /\ stop = FALSE /\ Len(queue) = 2 /\ queue[1].what = "stop" /\ queue[2].what = "stop"
     /\ queue[2].at > queue[1].at + Span
  \/ stop = TRUE /\ OnlyStops(queue, clock + Span)

(* Before the close, at c in the queue: what can end the run comes after   *)
(* it, and every window is open since its own length before, or will be.   *)
ClosesAt(c) ==
  /\ stop = FALSE /\ queue[c].what = "close"
  /\ \A k \in 1..Len(queue) :
       /\ queue[k].what \notin {"begin", "swept"}
       /\ queue[k].what \in {"stop", "poll"} => c < k
       /\ queue[k].what = "close" => k = c
       /\ queue[k].what = "open" => /\ queue[k].arg \in DOMAIN windows
                                    /\ queue[k].at = queue[c].at - WinLens[queue[k].arg]
  /\ \A w \in DOMAIN windows :
       \/ windows[w].opened = queue[c].at - WinLens[w]
       \/ \E k \in 1..Len(queue) : queue[k].what = "open" /\ queue[k].arg = w

AsAsked ==
  \A w, v \in DOMAIN windows :
    /\ windows[w].closed - windows[w].opened = WinLens[w]
    /\ windows[w].closed = windows[v].closed

TrafficStage ==
  \/ \E c \in 1..Len(queue) : ClosesAt(c)
  \/ AsAsked /\ \A k \in 1..Len(queue) : queue[k].what \notin {"open", "close"}

Reported == phase = "reports" \/ (phase = "written" /\ report # Unreported)

StagesOK ==
  /\ phase = "args" => queue = <<>> /\ stop = FALSE
  /\ phase = "sweeping" /\ args.gaRoute => Sweeps /\ SweepStage
  /\ phase = "routing" => stop = FALSE /\ OnlyStops(queue, clock + Span)
  /\ phase = "testing" => ~args.gaRoute
  /\ phase = "traffic" => TrafficStage
  /\ Reported /\ args.gaRoute => AsAsked
  /\ phase = "traffic" \/ (Reported /\ args.gaRoute) => DOMAIN windows = DOMAIN WinLens

-----------------------------------------------------------------------------
LEMMA StagesInit == Init => StagesOK
<1> SUFFICES ASSUME Init PROVE StagesOK
  OBVIOUS
<1>1. phase = "args" /\ queue = <<>> /\ stop = FALSE
  BY DEF Init
<1>2. ~Reported
  BY <1>1 DEF Reported
<1> QED
  BY <1>1, <1>2 DEF StagesOK

LEMMA SameRun ==
  ASSUME args' = args
  PROVE  WinLens' = WinLens /\ (Sweeps' <=> Sweeps) /\ Span' = Span
BY DEF WinLens, Sweeps, MembersFit, Members, Nodes, Slices, Span, One

(* What neither fires an event nor enters a phase. *)
LEMMA StagesStay ==
  ASSUME StagesOK, UNCHANGED <<args, phase, queue, stop, windows, report>>,
         clock' = clock \/ (phase # "routing" /\ stop = FALSE)
  PROVE  StagesOK'
<1>1. WinLens' = WinLens
  BY DEF WinLens
<1>2. /\ args' = args /\ phase' = phase /\ queue' = queue /\ stop' = stop
      /\ windows' = windows /\ report' = report
  OBVIOUS
<1>3. phase = "sweeping" /\ args.gaRoute => SweepStage'
  <2>1. CASE clock' = clock
    BY <1>2, <2>1 DEF StagesOK, SweepStage, OnlyStops
  <2>2. CASE stop = FALSE
    BY <1>2, <2>2 DEF StagesOK, SweepStage
  <2> QED
    BY <2>1, <2>2
<1>4. phase = "traffic" => TrafficStage'
  <2>1. \A c : ClosesAt(c) => ClosesAt(c)'
    BY <1>1, <1>2 DEF ClosesAt
  <2>2. AsAsked => AsAsked'
    BY <1>1, <1>2 DEF AsAsked
  <2> QED
    BY <1>2, <2>1, <2>2 DEF StagesOK, TrafficStage
<1>5. phase = "routing" => stop' = FALSE /\ OnlyStops(queue, clock + Span)'
  BY <1>2 DEF StagesOK, OnlyStops
<1>6. /\ Reported' <=> Reported
      /\ AsAsked => AsAsked'
  BY <1>1, <1>2 DEF Reported, AsAsked
<1> QED
  BY <1>1, <1>2, <1>3, <1>4, <1>5, <1>6, SameRun DEF StagesOK

LEMMA ElementTyped ==
  ASSUME NEW q \in Seq(Events), NEW k \in 1..Len(q)
  PROVE  q[k] \in Events /\ q[k].at \in Int
<1>1. q[k] \in Events
  OBVIOUS
<1> QED
  BY <1>1 DEF Events

(* Two events that the simulator turns round. *)
LEMMA TurnedRound ==
  ASSUME NEW all \in Seq(Events), Len(all) = 2, all[2].at < all[1].at,
         NEW r, NEW o, Arranged(r, all, o)
  PROVE  Len(r) = 2 /\ r[1] = all[2] /\ r[2] = all[1]
<1>1. /\ o[1] \in 1..2 /\ o[2] \in 1..2 /\ r = [k \in 1..2 |-> all[o[k]]]
      /\ \E k \in 1..2 : o[k] = 1
      /\ \E k \in 1..2 : o[k] = 2
      /\ \/ all[o[1]].at < all[o[2]].at
         \/ all[o[1]].at = all[o[2]].at /\ o[1] < o[2]
  BY DEF Arranged
<1>2. all[1].at \in Int /\ all[2].at \in Int
  <2>1. 1 \in 1..Len(all) /\ 2 \in 1..Len(all)
    OBVIOUS
  <2> QED
    BY <2>1, ElementTyped
<1>3. o[1] = 2 /\ o[2] = 1
  BY <1>1, <1>2
<1> QED
  BY <1>1, <1>3

(* The queue after an event: its tail's events and those it causes. *)
LEMMA TailTyped ==
  ASSUME QueueOK, NEW what, NEW causes, Fired(what, causes)
  PROVE  /\ queue # <<>> /\ queue \in Seq(Events) /\ causes \in Seq(Events)
         /\ Tail(queue) \in Seq(Events)
         /\ Len(Tail(queue)) = Len(queue) - 1 /\ 1 \in 1..Len(queue)
         /\ \A i \in 1..Len(Tail(queue)) : i + 1 \in 1..Len(queue) /\ Tail(queue)[i] = queue[i + 1]
         /\ queue' = ScheduleAll(Tail(queue), causes)
         /\ Head(queue) = queue[1] /\ queue[1].what = what /\ queue[1].at = clock
         /\ UNCHANGED <<args, phase, clock>>
<1>1. /\ queue # <<>> /\ queue \in Seq(Events) /\ causes \in Seq(Events)
      /\ queue' = ScheduleAll(Tail(queue), causes)
      /\ Head(queue).what = what /\ Head(queue).at = clock
      /\ UNCHANGED <<args, phase, clock>>
  BY DEF Fired, Fire, Due, QueueOK
<1>2. /\ Tail(queue) \in Seq(Events)
      /\ Len(Tail(queue)) = Len(queue) - 1 /\ 1 \in 1..Len(queue)
      /\ \A i \in 1..Len(Tail(queue)) : i + 1 \in 1..Len(queue) /\ Tail(queue)[i] = queue[i + 1]
      /\ Head(queue) = queue[1]
  BY <1>1
<1> QED
  BY <1>1, <1>2

(* The sweep begins: its end is queued before its safety Stop. *)
LEMMA SweepBegins ==
  ASSUME QueueOK, ClockOK, SweepInTime, StagesOK, phase = "sweeping", BeginWarmup,
         args.gaRoute
  PROVE  SweepStage'
<1>1. PICK took \in SweepTimes :
        Fire("begin", <<Event(clock + SafetyStop, "stop", "safety"),
                        Event(clock + took, "swept", "none")>>)
  BY DEF BeginWarmup
<1>2. stop' = stop
  BY DEF BeginWarmup
<1>3. /\ queue # <<>> /\ queue \in Seq(Events) /\ Head(queue) = queue[1] /\ queue[1].what = "begin"
      /\ stop = FALSE
  <2>1. queue # <<>> /\ queue \in Seq(Events) /\ Head(queue).what = "begin"
    BY <1>1 DEF Fire, Due, QueueOK
  <2>2. stop = FALSE
    BY <1>1, Zenon DEF Fire, Due, StagesOK, SweepStage
  <2> QED
    BY <2>1, <2>2
<1>4. Len(queue) = 1
  BY <1>3 DEF StagesOK, SweepStage
<1> DEFINE safety == Event(clock + SafetyStop, "stop", "safety")
           end == Event(clock + took, "swept", "none")
           causes == <<safety, end>>
<1>5. clock + SafetyStop \in Int /\ clock + took \in Int /\ SafetyStop \in Int /\ took \in Int
      /\ clock \in Int
  BY SafetyStopTyped, TimesAssumption DEF ClockOK
<1>6. safety \in Events /\ end \in Events
  BY <1>5, NamesTyped, EventTyped, Zenon
<1>7. /\ safety.at = clock + SafetyStop /\ safety.what = "stop"
      /\ end.at = clock + took /\ end.what = "swept"
  BY DEF Event
<1> HIDE DEF safety, end
<1> DEFINE rest == Tail(queue)
           all == rest \o causes
<1>8. all \in Seq(Events) /\ Len(all) = 2 /\ all[1] = safety /\ all[2] = end
  <2>1. causes \in Seq(Events) /\ Len(causes) = 2 /\ causes[1] = safety /\ causes[2] = end
    BY <1>6
  <2>2. queue \in Seq(Events) /\ queue # <<>> /\ Len(queue) = 1
    BY <1>3, <1>4
  <2>3. rest \in Seq(Events) /\ Len(rest) = 0
    BY <2>2
  <2> HIDE DEF rest, causes
  <2>4. Joined(all, Events, rest, causes)
    BY <2>1, <2>3, Concatenated
  <2> HIDE DEF all
  <2>5. all \in Seq(Events) /\ Len(all) = 2
    BY <2>1, <2>3, <2>4 DEF Joined
  <2> QED
    BY <2>1, <2>3, <2>4, <2>5 DEF Joined
<1>9. queue' = ScheduleAll(rest, causes)
  BY <1>1 DEF Fire, safety, end
<1>10. rest \in Seq(Events) /\ causes \in Seq(Events)
  <2>1. queue \in Seq(Events) /\ queue # <<>>
    BY <1>3
  <2> QED
    BY <1>6, <2>1
<1> HIDE DEF causes, rest
<1>11. PICK o : Arranged(queue', all, o)
  BY <1>9, <1>10, ScheduleAllArranges
<1> HIDE DEF all
<1>12. took + Half + Span < SafetyStop
  BY DEF SweepInTime, StagesOK
<1>13. Half \in Int /\ Span \in Int /\ Half > 0 /\ Span > 0
  BY TimesAssumption DEF Half, Span, One
<1>14. end.at < safety.at
  BY <1>5, <1>7, <1>12, <1>13
<1>15. Len(queue') = 2 /\ queue'[1] = end /\ queue'[2] = safety
  BY <1>8, <1>11, <1>14, TurnedRound
<1>16. queue'[2].at > queue'[1].at + Half + Span
  BY <1>5, <1>7, <1>12, <1>13, <1>15
<1> QED
  BY <1>2, <1>3, <1>7, <1>15, <1>16 DEF SweepStage

(* The sweep ends: its own Stop comes half a second later, the safety Stop *)
(* only after the traffic's close.                                         *)
LEMMA SweepStops ==
  ASSUME QueueOK, ClockOK, StagesOK, phase = "sweeping", args.gaRoute, SweepEnds
  PROVE  SweepStage'
<1> DEFINE last == Event(clock + Half, "stop", "sweep")
           causes == <<last>>
<1>1. Fire("swept", causes) /\ stop' = stop
  BY DEF SweepEnds
<1>2. /\ queue # <<>> /\ queue \in Seq(Events) /\ Head(queue) = queue[1] /\ queue[1].what = "swept"
      /\ queue[1].at = clock /\ stop = FALSE
  <2>1. queue # <<>> /\ queue \in Seq(Events) /\ Head(queue).what = "swept" /\ Head(queue).at = clock
    BY <1>1 DEF Fire, Due, QueueOK
  <2>2. stop = FALSE
    BY <1>1, Zenon DEF Fire, Due, StagesOK, SweepStage
  <2> QED
    BY <2>1, <2>2
<1>3. Len(queue) = 2 /\ queue[2].what = "stop" /\ queue[2].at > clock + Half + Span
  BY <1>2 DEF StagesOK, SweepStage
<1>4. clock + Half \in Int /\ Half \in Int /\ Span \in Int /\ clock \in Int /\ Span > 0
  BY TimesAssumption DEF ClockOK, Half, Span, One
<1>5. last \in Events
  BY <1>4, NamesTyped, EventTyped, Zenon
<1>6. last.at = clock + Half /\ last.what = "stop"
  BY DEF Event
<1> HIDE DEF last
<1> DEFINE rest == Tail(queue)
           all == rest \o causes
<1>7. /\ rest \in Seq(Events) /\ causes \in Seq(Events)
      /\ all \in Seq(Events) /\ Len(all) = 2 /\ all[1] = queue[2] /\ all[2] = last
  <2>5. queue \in Seq(Events) /\ queue # <<>> /\ Len(queue) = 2
    BY <1>2, <1>3
  <2>1. rest \in Seq(Events) /\ Len(rest) = 1 /\ rest[1] = queue[2]
    BY <2>5
  <2>2. causes \in Seq(Events) /\ Len(causes) = 1 /\ causes[1] = last
    BY <1>5
  <2> HIDE DEF rest, causes
  <2>3. Joined(all, Events, rest, causes)
    BY <2>1, <2>2, Concatenated
  <2> HIDE DEF all
  <2>4. Len(all) = 2 /\ 1 \in 1..Len(all)
    BY <2>1, <2>2, <2>3 DEF Joined
  <2> QED
    BY <2>1, <2>2, <2>3, <2>4 DEF Joined
<1>8. queue' = ScheduleAll(rest, causes)
  BY <1>1 DEF Fire
<1> HIDE DEF causes, rest
<1>9. PICK o : Arranged(queue', all, o)
  BY <1>7, <1>8, ScheduleAllArranges
<1> HIDE DEF all
<1>10. queue[2].at \in Int
  <2>1. 2 \in 1..Len(queue)
    BY <1>3
  <2> QED
    BY <1>2, <2>1, ElementTyped
<1>11. all[2].at < all[1].at
  BY <1>3, <1>4, <1>6, <1>7, <1>10
<1>12. Len(queue') = 2 /\ queue'[1] = last /\ queue'[2] = queue[2]
  BY <1>7, <1>9, <1>11, TurnedRound
<1>13. queue'[2].at > queue'[1].at + Span
  BY <1>3, <1>4, <1>6, <1>10, <1>12
<1> QED
  BY <1>1, <1>2, <1>3, <1>6, <1>12, <1>13 DEF SweepStage

(* It stops, and what is left in the queue is behind the next close. *)
LEMMA SweepStopped ==
  ASSUME QueueOK, ClockOK, StagesOK, phase = "sweeping", args.gaRoute, StopFires
  PROVE  SweepStage'
<1>1. Fire("stop", <<>>) /\ stop' = TRUE
  BY DEF StopFires
<1>2. Fired("stop", <<>>)
  BY <1>1, EventsFired
<1>3. stop = FALSE
  BY <1>1, Zenon DEF Fire, Due, StagesOK, SweepStage
<1>4. /\ Len(queue) = 2 /\ queue[2].what = "stop" /\ queue[2].at > clock + Span
  BY <1>2, <1>3, TailTyped DEF StagesOK, SweepStage
<1> DEFINE rest == Tail(queue)
<1>5. /\ rest \in Seq(Events) /\ Len(rest) = 1 /\ rest[1] = queue[2]
      /\ queue' = ScheduleAll(rest, <<>>) /\ clock' = clock
  <2>1. queue \in Seq(Events) /\ queue # <<>>
    BY <1>2, TailTyped
  <2>2. rest \in Seq(Events) /\ Len(rest) = 1 /\ rest[1] = queue[2]
    BY <1>4, <2>1
  <2>3. queue' = ScheduleAll(rest, <<>>) /\ clock' = clock
    BY <1>1 DEF Fire
  <2> QED
    BY <2>2, <2>3
<1> HIDE DEF rest
<1>6. Scheduled(queue', rest, <<>>)
  <2>1. <<>> \in Seq(Events)
    OBVIOUS
  <2> QED
    BY <1>5, <2>1, ScheduleAllSorts
<1>7. ASSUME NEW k \in 1..Len(queue') PROVE queue'[k] = queue[2]
  <2>1. PICK i \in 1..Len(rest) : queue'[k] = rest[i]
    BY <1>6 DEF Scheduled
  <2> QED
    BY <1>5, <2>1
<1>8. OnlyStops(queue, clock + Span)'
  <2>1. Span' = Span
    BY DEF Span, One
  <2> QED
    BY <1>4, <1>5, <1>7, <2>1 DEF OnlyStops
<1> QED
  BY <1>1, <1>8 DEF SweepStage

(* Nothing else fires in a sweep. *)
LEMMA SweepOnly ==
  ASSUME QueueOK, StagesOK, phase = "sweeping", args.gaRoute, NEW what, NEW causes, Fired(what, causes)
  PROVE  what \in {"begin", "swept", "stop"}
<1>1. stop = FALSE
  BY Zenon DEF Fired, Fire, Due, StagesOK, SweepStage
<1> QED
  BY <1>1, TailTyped DEF StagesOK, SweepStage

-----------------------------------------------------------------------------
(* Before the close, only what belongs before it happens, and it stays     *)
(* ahead of all that can end the run.                                      *)
LEMMA TrafficPending ==
  ASSUME QueueOK, WindowsOK, phase = "traffic", NEW c \in 1..Len(queue), ClosesAt(c),
         NEW what, NEW causes, Fired(what, causes), what # "close", stop' = stop,
         what = "open" => windows' = [windows EXCEPT ![Head(queue).arg] = Opened(Head(queue).arg)],
         what # "open" => windows' = windows
  PROVE  DOMAIN windows' = DOMAIN windows /\ \E d \in 1..Len(queue') : ClosesAt(d)'
<1> DEFINE rest == Tail(queue)
           n == Len(rest)
           all == rest \o causes
           m == Len(all)
<1>1. /\ queue \in Seq(Events) /\ rest \in Seq(Events) /\ causes \in Seq(Events)
      /\ Len(queue) = n + 1 /\ n \in Nat /\ 1 \in 1..Len(queue)
      /\ \A i \in 1..n : i + 1 \in 1..Len(queue) /\ rest[i] = queue[i + 1]
      /\ queue' = ScheduleAll(rest, causes)
      /\ Head(queue) = queue[1] /\ queue[1].what = what /\ queue[1].at = clock
      /\ args' = args /\ clock' = clock
  BY TailTyped
<1>2. Joined(all, Events, rest, causes)
  BY <1>1, Concatenated
<1>3. PICK o : Arranged(queue', all, o)
  BY <1>1, ScheduleAllArranges
<1> HIDE DEF rest, all
<1>4. /\ all \in Seq(Events) /\ m \in Nat /\ Len(queue') = m
      /\ \A k \in 1..m : o[k] \in 1..m /\ queue'[k] = all[o[k]]
      /\ \A i \in 1..m : \E k \in 1..m : o[k] = i
      /\ \A i \in 1..n : i \in 1..m /\ all[i] = queue[i + 1]
      /\ \A i \in 1..m : \/ i \in 1..n /\ all[i] = queue[i + 1]
                         \/ \E j \in 1..Len(causes) : all[i] = causes[j]
  <2>1. all \in Seq(Events) /\ m \in Nat /\ m = n + Len(causes) /\ Len(causes) \in Nat
    BY <1>1, <1>2 DEF Joined
  <2>2. /\ o \in [1..m -> 1..m] /\ queue' = [k \in 1..m |-> all[o[k]]]
        /\ \A i \in 1..m : \E k \in 1..m : o[k] = i
    BY <1>3 DEF Arranged
  <2> HIDE DEF m, n
  <2>3. Len(queue') = m /\ \A k \in 1..m : o[k] \in 1..m /\ queue'[k] = all[o[k]]
    BY <2>1, <2>2
  <2>4. ASSUME NEW i \in 1..n PROVE i \in 1..m /\ all[i] = queue[i + 1]
    <3>1. i \in 1..m /\ ((i \in 1..n /\ all[i] = rest[i]) \/ i - n \in 1..Len(causes))
      BY <1>1, <1>2, <2>1 DEF Joined, m, n
    <3> QED
      BY <1>1, <3>1
  <2>5. ASSUME NEW i \in 1..m
        PROVE  \/ i \in 1..n /\ all[i] = queue[i + 1]
               \/ \E j \in 1..Len(causes) : all[i] = causes[j]
    <3>1. \/ i \in 1..n /\ all[i] = rest[i]
          \/ i - n \in 1..Len(causes) /\ all[i] = causes[i - n]
      BY <1>2 DEF Joined, m, n
    <3> QED
      BY <1>1, <3>1
  <2> QED
    BY <2>1, <2>2, <2>3, <2>4, <2>5
<1>5. \A k, l \in 1..m : k < l =>
        all[o[k]].at < all[o[l]].at \/ (all[o[k]].at = all[o[l]].at /\ o[k] < o[l])
  BY <1>3 DEF Arranged
<1> HIDE DEF m, n
<1>6. c # 1 /\ what \notin {"stop", "poll", "begin", "swept"}
  BY <1>1 DEF ClosesAt
<1>7. \A j \in 1..Len(causes) : causes[j].what = "settle"
  BY <1>6 DEF Fired, Caused
<1>8. c - 1 \in 1..n /\ all[c - 1] = queue[c] /\ c - 1 \in 1..m
  <2>1. c - 1 \in 1..n /\ (c - 1) + 1 = c
    BY <1>1, <1>6
  <2> QED
    BY <1>4, <2>1
<1>9. PICK d \in 1..m : o[d] = c - 1
  BY <1>4, <1>8
<1>10. queue'[d] = queue[c]
  BY <1>4, <1>8, <1>9
(* An event of the new queue that no settle poll asked for was in the old. *)
<1>11. ASSUME NEW k \in 1..m, queue'[k].what # "settle"
       PROVE  o[k] \in 1..n /\ o[k] + 1 \in 1..Len(queue) /\ queue'[k] = queue[o[k] + 1]
  <2>1. o[k] \in 1..m /\ queue'[k] = all[o[k]]
    BY <1>4
  <2>2. \/ o[k] \in 1..n /\ all[o[k]] = queue[o[k] + 1]
        \/ \E j \in 1..Len(causes) : all[o[k]] = causes[j]
    BY <1>4, <2>1
  <2>3. o[k] \in 1..n /\ all[o[k]] = queue[o[k] + 1]
    BY <1>7, <1>11, <2>1, <2>2
  <2>4. \A i \in 1..n : i + 1 \in 1..Len(queue)
    BY <1>1
  <2> QED
    BY <2>1, <2>3, <2>4
<1>12. \A i \in 1..m : all[i].at \in Int
  BY <1>4, ElementTyped DEF m
<1>13. WinLens' = WinLens
  BY <1>1 DEF WinLens
<1>14. DOMAIN windows' = DOMAIN windows
  BY DEF WindowsOK
<1>15. ASSUME NEW k \in 1..m
       PROVE  /\ queue'[k].what \notin {"begin", "swept"}
              /\ queue'[k].what \in {"stop", "poll"} => d < k
              /\ queue'[k].what = "close" => k = d
              /\ queue'[k].what = "open" =>
                   /\ queue'[k].arg \in DOMAIN windows
                   /\ queue'[k].at = queue[c].at - WinLens[queue'[k].arg]
  <2>1. CASE queue'[k].what = "settle"
    BY <2>1
  <2> DEFINE j == o[k] + 1
  <2>2. CASE queue'[k].what # "settle"
    <3>1. o[k] \in 1..n /\ j \in 1..Len(queue) /\ queue'[k] = queue[j]
      BY <1>11, <2>2
    <3> HIDE DEF j
    <3>2. /\ queue[j].what \notin {"begin", "swept"}
          /\ queue[j].what \in {"stop", "poll"} => c < j
          /\ queue[j].what = "close" => j = c
          /\ queue[j].what = "open" => /\ queue[j].arg \in DOMAIN windows
                                       /\ queue[j].at = queue[c].at - WinLens[queue[j].arg]
      BY <3>1 DEF ClosesAt
    <3>3. ASSUME queue[j].what \in {"stop", "poll"} PROVE d < k
      <4>1. c < j /\ queue[c].at <= queue[j].at
        BY <3>1, <3>2, <3>3 DEF QueueOK
      <4>0. c \in Int /\ o[k] \in Int /\ o[d] = c - 1 /\ j = o[k] + 1
        <5>1. 1..Len(queue) \subseteq Int /\ 1..n \subseteq Int
          OBVIOUS
        <5> QED
          BY <1>9, <3>1, <5>1 DEF j
      <4>2. o[d] < o[k]
        BY <4>0, <4>1
      <4>3. all[o[d]].at = queue[c].at /\ all[o[k]].at = queue[j].at
        BY <1>4, <1>8, <1>9, <3>1
      <4>4. ~(k < d)
        <5>1. /\ o[d] \in Int /\ o[k] \in Int /\ o[k] \in 1..m /\ o[d] \in 1..m
              /\ queue[c].at \in Int /\ queue[j].at \in Int
          <6>1. o[d] \in 1..m /\ o[k] \in 1..m /\ c \in 1..Len(queue) /\ j \in 1..Len(queue)
            BY <1>4, <3>1
          <6>2. queue[c].at \in Int /\ queue[j].at \in Int
            BY <1>1, <6>1, ElementTyped
          <6>3. o[d] \in Int /\ o[k] \in Int
            BY <6>1
          <6> QED
            BY <6>1, <6>2, <6>3
        <5> QED
          BY <1>5, <4>1, <4>2, <4>3, <5>1
      <4>5. k # d
        BY <1>4, <4>2
      <4> QED
        BY <1>4, <4>4, <4>5
    <3>4. ASSUME queue[j].what = "close" PROVE k = d
      <4>0. o[k] \in 1..m /\ o[k] \in Int /\ c \in Int
        <5>1. o[k] \in 1..m /\ c \in 1..Len(queue)
          BY <1>4
        <5> QED
          BY <5>1
      <4>5. j = c /\ j = o[k] + 1
        BY <3>2, <3>4 DEF j
      <4>1. o[k] = o[d]
        BY <1>9, <4>0, <4>5
      <4>2. all[o[k]].at \in Int /\ o[k] \in Int
        BY <1>12, <4>0
      <4>3. ~(k < d) /\ ~(d < k)
        BY <1>5, <4>1, <4>2
      <4> QED
        BY <1>4, <4>3
    <3> QED
      BY <3>1, <3>2, <3>3, <3>4
  <2> QED
    BY <2>1, <2>2
<1>16. ASSUME NEW w \in DOMAIN windows
       PROVE  \/ windows'[w].opened = queue[c].at - WinLens[w]
              \/ \E k \in 1..m : queue'[k].what = "open" /\ queue'[k].arg = w
  <2>1. CASE what = "open" /\ queue[1].arg = w
    <3>1. windows'[w] = Opened(w)
      BY <1>1, <2>1
    <3>2. IsWindow(windows[w])
      BY DEF WindowsOK
    <3>3. Opened(w).opened = clock
      BY <3>2 DEF Opened, IsWindow
    <3>4. clock = queue[c].at - WinLens[w]
      BY <1>1, <2>1 DEF ClosesAt
    <3> QED
      BY <3>1, <3>3, <3>4
  <2>2. CASE ~(what = "open" /\ queue[1].arg = w)
    <3>1. windows'[w] = windows[w]
      BY <1>1, <2>2
    <3>2. CASE windows[w].opened = queue[c].at - WinLens[w]
      BY <3>1, <3>2
    <3>3. CASE \E k \in 1..Len(queue) : queue[k].what = "open" /\ queue[k].arg = w
      <4>1. PICK k \in 1..Len(queue) : queue[k].what = "open" /\ queue[k].arg = w
        BY <3>3
      <4>2. k # 1
        BY <1>1, <2>2, <4>1
      <4>3. k - 1 \in 1..n /\ (k - 1) + 1 = k
        BY <1>1, <4>2
      <4>4. k - 1 \in 1..m /\ all[k - 1] = queue[k]
        BY <1>4, <4>3
      <4>5. PICK l \in 1..m : o[l] = k - 1
        BY <1>4, <4>4
      <4>6. queue'[l] = queue[k]
        BY <1>4, <4>4, <4>5
      <4> QED
        BY <4>1, <4>6
    <3> QED
      BY <3>2, <3>3 DEF ClosesAt
  <2> QED
    BY <2>1, <2>2
<1>17. stop' = FALSE /\ queue'[d].what = "close"
  BY <1>10 DEF ClosesAt
<1>18. ClosesAt(d)'
  BY <1>4, <1>10, <1>13, <1>14, <1>15, <1>16, <1>17 DEF ClosesAt
<1> QED
  BY <1>4, <1>14, <1>18

(* The close finds every window open since its own length before: what has *)
(* not opened by then has an event before it.                              *)
LEMMA TrafficClosing ==
  ASSUME QueueOK, ClockOK, WindowsOK, NEW c \in 1..Len(queue), ClosesAt(c),
         Fired("close", <<>>), CloseAll, DOMAIN windows = DOMAIN WinLens
  PROVE  /\ DOMAIN windows' = DOMAIN windows
         /\ AsAsked'
         /\ \A k \in 1..Len(queue') : queue'[k].what \notin {"open", "close"}
<1> DEFINE rest == Tail(queue)
<1>1. /\ queue \in Seq(Events) /\ rest \in Seq(Events)
      /\ 1 \in 1..Len(queue)
      /\ \A i \in 1..Len(rest) : i + 1 \in 1..Len(queue) /\ rest[i] = queue[i + 1]
      /\ queue' = ScheduleAll(rest, <<>>) /\ <<>> \in Seq(Events)
      /\ queue[1].what = "close" /\ queue[1].at = clock
      /\ args' = args /\ clock' = clock
  BY TailTyped
<1> HIDE DEF rest
<1>2. c = 1
  BY <1>1 DEF ClosesAt
<1>3. /\ \A w \in DOMAIN windows : WinLens[w] \in Nat /\ WinLens[w] > 0
      /\ clock \in Int
  <2>1. WinLens \in Seq(Nat) /\ \A w \in 1..Len(WinLens) : WinLens[w] > 0
    BY WinLensTyped DEF ClockOK
  <2>2. clock \in Int
    BY DEF ClockOK
  <2>3. \A w \in DOMAIN WinLens : WinLens[w] \in Nat /\ WinLens[w] > 0
    BY <2>1
  <2> QED
    BY <2>2, <2>3
<1>4. ASSUME NEW k \in 1..Len(queue) PROVE queue[k].what # "open"
  <2> SUFFICES ASSUME queue[k].what = "open" PROVE FALSE
    OBVIOUS
  <2>1. /\ queue[k].arg \in DOMAIN windows
        /\ queue[k].at = queue[c].at - WinLens[queue[k].arg]
    BY DEF ClosesAt
  <2>2. queue[k].at < clock
    BY <1>1, <1>2, <1>3, <2>1
  <2>3. k # 1
    BY <1>1
  <2>4. 1 < k
    <3>1. k \in Int /\ k >= 1
      OBVIOUS
    <3> QED
      BY <2>3, <3>1
  <2>5. queue[1].at <= queue[k].at
    BY <1>1, <2>4 DEF QueueOK
  <2>6. queue[k].at \in Int
    BY <1>1, ElementTyped
  <2> QED
    BY <1>1, <1>3, <2>2, <2>5, <2>6
<1>5. ASSUME NEW w \in DOMAIN windows PROVE windows[w].opened = clock - WinLens[w]
  BY <1>1, <1>2, <1>4 DEF ClosesAt
<1>6. /\ DOMAIN windows' = DOMAIN windows
      /\ \A w \in DOMAIN windows :
           windows'[w] = [windows[w] EXCEPT !.closed = clock, !.heldClose = Cardinality(InFlight)]
  BY DEF CloseAll
<1>7. ASSUME NEW w \in DOMAIN windows
      PROVE  windows'[w].closed = clock /\ windows'[w].opened = clock - WinLens[w]
  <2>1. IsWindow(windows[w])
    BY DEF WindowsOK
  <2> DEFINE r == windows[w]
             fields == {"opened", "closed", "tx", "rx", "heldOpen", "heldClose"}
  <2>2. r = [f \in fields |-> r[f]]
    BY <2>1 DEF IsWindow
  <2>3. windows'[w].closed = clock /\ windows'[w].opened = r.opened
    BY <1>6, <2>2
  <2> QED
    BY <1>5, <2>3
<1>8. WinLens' = WinLens
  BY <1>1 DEF WinLens
<1>9. AsAsked'
  <2>1. ASSUME NEW w \in DOMAIN windows
        PROVE  windows'[w].closed - windows'[w].opened = WinLens[w]
    BY <1>3, <1>7
  <2> QED
    BY <1>6, <1>7, <1>8, <2>1 DEF AsAsked
<1>10. Scheduled(queue', rest, <<>>)
  BY <1>1, ScheduleAllSorts
<1>11. ASSUME NEW k \in 1..Len(queue') PROVE queue'[k].what \notin {"open", "close"}
  <2>1. PICK i \in 1..Len(rest) : queue'[k] = rest[i]
    BY <1>10 DEF Scheduled
  <2>2. i + 1 \in 1..Len(queue) /\ queue'[k] = queue[i + 1] /\ i + 1 # c
    BY <1>1, <1>2, <2>1
  <2>3. queue[i + 1].what # "close"
    BY <2>2 DEF ClosesAt
  <2> QED
    BY <1>4, <2>2, <2>3
<1> QED
  BY <1>6, <1>9, <1>11

(* After it, no event opens or closes a window any more. *)
LEMMA TrafficClosed ==
  ASSUME QueueOK, AsAsked, \A k \in 1..Len(queue) : queue[k].what \notin {"open", "close"},
         NEW what, NEW causes, Fired(what, causes)
  PROVE  /\ what \notin {"open", "close"}
         /\ windows' = windows => AsAsked'
         /\ \A k \in 1..Len(queue') : queue'[k].what \notin {"open", "close"}
<1> DEFINE rest == Tail(queue)
<1>1. /\ queue \in Seq(Events) /\ rest \in Seq(Events) /\ causes \in Seq(Events)
      /\ 1 \in 1..Len(queue)
      /\ \A i \in 1..Len(rest) : i + 1 \in 1..Len(queue) /\ rest[i] = queue[i + 1]
      /\ queue' = ScheduleAll(rest, causes)
      /\ queue[1].what = what /\ args' = args
  BY TailTyped
<1> HIDE DEF rest
<1>2. WinLens' = WinLens
  BY <1>1 DEF WinLens
<1>3. windows' = windows => AsAsked'
  BY <1>2 DEF AsAsked
<1>4. Scheduled(queue', rest, causes)
  BY <1>1, ScheduleAllSorts
<1>5. \A j \in 1..Len(causes) : causes[j].what \notin {"open", "close"}
  BY DEF Fired, Caused
<1>6. ASSUME NEW k \in 1..Len(queue') PROVE queue'[k].what \notin {"open", "close"}
  <2>1. \/ \E i \in 1..Len(rest) : queue'[k] = rest[i]
        \/ \E j \in 1..Len(causes) : queue'[k] = causes[j]
    BY <1>4 DEF Scheduled
  <2> QED
    BY <1>1, <1>5, <2>1
<1> QED
  BY <1>1, <1>3, <1>6

(* Places in an arranged queue. *)
LEMMA ArrangedPlaces ==
  ASSUME NEW all \in Seq(Events), NEW r, NEW o, Arranged(r, all, o),
         NEW d \in 1..Len(all), NEW k \in 1..Len(all)
  PROVE  /\ o[d] = o[k] => k = d
         /\ o[d] < o[k] /\ all[o[d]].at <= all[o[k]].at => d < k
         /\ all[o[d]].at < all[o[k]].at => d < k
<1>1. o[d] \in 1..Len(all) /\ o[k] \in 1..Len(all)
  BY DEF Arranged
<1>2. all[o[d]].at \in Int /\ all[o[k]].at \in Int
  BY <1>1, ElementTyped
<1>3. o[d] \in Int /\ o[k] \in Int /\ d \in Int /\ k \in Int
  BY <1>1
<1>4. /\ d < k => all[o[d]].at < all[o[k]].at
                  \/ (all[o[d]].at = all[o[k]].at /\ o[d] < o[k])
      /\ k < d => all[o[k]].at < all[o[d]].at
                  \/ (all[o[k]].at = all[o[d]].at /\ o[k] < o[d])
  BY DEF Arranged
<1> QED
  BY <1>2, <1>3, <1>4

(* main queues the traffic: the close comes before what can end the run,   *)
(* the Stops the sweep left among it, and each window is to be opened.     *)
LEMMA TrafficBegins ==
  ASSUME QueueOK, ClockOK, stop = FALSE, OnlyStops(queue, clock + Span),
         args' = args, stop' = stop, clock' = clock,
         queue' = ScheduleAll(queue, TrafficEvents),
         windows' = [w \in DOMAIN WinLens |-> Unopened]
  PROVE  DOMAIN windows' = DOMAIN WinLens /\ \E d \in 1..Len(queue') : ClosesAt(d)'
<1> DEFINE t == TrafficEvents
           n == Len(WinLens)
           m == Len(queue)
           all == queue \o t
<1>1. /\ queue \in Seq(Events) /\ m \in Nat /\ t \in Seq(Events)
      /\ Len(t) = n + 6 /\ n \in Nat
      /\ WinLens \in Seq(Nat) /\ DOMAIN WinLens = 1..n
      /\ SourcesStart \in Int /\ SourcesStop \in Int /\ ArmedStop \in Int
      /\ t[1] = Event(SourcesStart, "settle", "none")
      /\ \A w \in 1..n : t[w + 1] = Event(SourcesStop - WinLens[w], "open", w)
      /\ t[n + 2] = Event(SourcesStop, "close", "none")
      /\ t[n + 3] = Event(SourcesStop, "poll", "none")
      /\ t[n + 4] = Event(ArmedStop, "stop", "armed")
      /\ t[n + 5] = Event(SourcesStart, "on", "none")
      /\ t[n + 6] = Event(SourcesStop, "off", "none")
  <2>1. args \in Runs /\ clock \in Int /\ queue \in Seq(Events)
    BY DEF ClockOK, QueueOK
  <2>2. n \in Nat /\ m \in Nat /\ DOMAIN WinLens = 1..n
    BY <2>1, WinLensTyped
  <2> QED
    BY <2>1, <2>2, TrafficLayout
<1> HIDE DEF t
<1>2. Joined(all, Events, queue, t)
  BY <1>1, Concatenated
<1>3. PICK o : Arranged(queue', all, o)
  BY <1>1, ScheduleAllArranges DEF t
<1> HIDE DEF all, m, n
<1> DEFINE l == Len(all)
<1>4. all \in Seq(Events) /\ l \in Nat /\ l = m + (n + 6)
  BY <1>1, <1>2 DEF Joined, m
<1>5. /\ Len(queue') = l
      /\ \A k \in 1..l : o[k] \in 1..l /\ queue'[k] = all[o[k]]
      /\ \A i \in 1..l : \E k \in 1..l : o[k] = i
  BY <1>3, <1>4 DEF Arranged
<1>6. \A i \in 1..l : \/ i \in 1..m /\ all[i] = queue[i]
                      \/ i - m \in 1..n + 6 /\ all[i] = t[i - m]
  <2> SUFFICES ASSUME NEW i \in 1..Len(all)
               PROVE  \/ i \in 1..m /\ all[i] = queue[i]
                      \/ i - m \in 1..n + 6 /\ all[i] = t[i - m]
    OBVIOUS
  <2>1. Len(t) = n + 6 /\ Len(queue) = m
    BY <1>1 DEF m
  <2>2. \/ i \in 1..Len(queue) /\ all[i] = queue[i]
        \/ i - Len(queue) \in 1..Len(t) /\ all[i] = t[i - Len(queue)]
    BY <1>2 DEF Joined
  <2> QED
    BY <2>1, <2>2, Zenon
<1>7. \A i \in 1..n + 6 : m + i \in 1..l /\ all[m + i] = t[i]
  BY <1>1, <1>2 DEF Joined, m
<1> HIDE DEF l
<1> DEFINE c == m + (n + 2)
<1>8. c \in 1..l /\ all[c] = Event(SourcesStop, "close", "none") /\ c \in Int
  <2>1. n + 2 \in 1..n + 6
    BY <1>1
  <2>2. c \in 1..l /\ all[c] = t[n + 2]
    BY <1>7, <2>1
  <2> QED
    BY <1>1, <2>2
<1> HIDE DEF c
<1>9. PICK d \in 1..l : o[d] = c
  BY <1>5, <1>8
<1>10. queue'[d] = Event(SourcesStop, "close", "none")
  BY <1>5, <1>8, <1>9
<1>11. queue'[d].at = SourcesStop /\ queue'[d].what = "close" /\ all[o[d]].at = SourcesStop
  BY <1>8, <1>9, <1>10 DEF Event
<1>12. WinLens' = WinLens
  BY DEF WinLens
<1>13. ASSUME NEW k \in 1..l
       PROVE  /\ queue'[k].what \notin {"begin", "swept"}
              /\ queue'[k].what \in {"stop", "poll"} => d < k
              /\ queue'[k].what = "close" => k = d
              /\ queue'[k].what = "open" =>
                   /\ queue'[k].arg \in 1..n
                   /\ queue'[k].at = SourcesStop - WinLens[queue'[k].arg]
  <2>1. o[k] \in 1..l /\ queue'[k] = all[o[k]] /\ o[k] \in Int
    BY <1>5
  <2>2. CASE o[k] \in 1..m /\ all[o[k]] = queue[o[k]]
    <3>1. queue'[k].what = "stop" /\ queue'[k].at > clock + Span
      BY <2>1, <2>2 DEF OnlyStops, m
    <3>2. clock + Span = SourcesStop
      BY TimesAssumption DEF Span, SourcesStop, ClockOK, One
    <3>3. all[o[d]].at < all[o[k]].at
      <4>1. queue'[k].at \in Int
        BY <1>4, <2>1, ElementTyped DEF l
      <4> QED
        BY <1>1, <1>11, <2>1, <3>1, <3>2, <4>1
    <3>4. d < k
      BY <1>3, <1>4, <3>3, ArrangedPlaces DEF l
    <3> QED
      BY <3>1, <3>4
  <2> DEFINE i == o[k] - m
  <2>3. CASE i \in 1..n + 6 /\ all[o[k]] = t[i]
    <3>1. i \in Int /\ queue'[k] = t[i] /\ o[k] = m + i
      BY <1>1, <2>1, <2>3
    <3> HIDE DEF i
    <3>2. ASSUME i > n + 2, all[o[k]].at >= SourcesStop PROVE d < k
      <4>1. o[d] < o[k]
        BY <1>1, <1>9, <3>1, <3>2 DEF c
      <4>2. all[o[d]].at <= all[o[k]].at
        <5>1. all[o[k]].at \in Int
          BY <1>4, <2>1, ElementTyped DEF l
        <5> QED
          BY <1>1, <1>11, <3>2, <5>1
      <4> QED
        BY <1>3, <1>4, <4>1, <4>2, ArrangedPlaces DEF l
    <3>3. CASE i = 1
      <4>1. queue'[k].what = "settle"
        BY <1>1, <3>1, <3>3 DEF Event
      <4> QED
        BY <4>1
    <3>4. CASE i - 1 \in 1..n
      <4>1. queue'[k] = Event(SourcesStop - WinLens[i - 1], "open", i - 1)
        BY <1>1, <3>1, <3>4
      <4>2. queue'[k].what = "open" /\ queue'[k].arg = i - 1
            /\ queue'[k].at = SourcesStop - WinLens[i - 1]
        BY <4>1 DEF Event
      <4> QED
        BY <3>4, <4>2
    <3>5. CASE i = n + 2
      <4>1. o[k] = o[d]
        BY <1>9, <3>1, <3>5 DEF c
      <4>2. k = d
        BY <1>3, <1>4, <4>1, ArrangedPlaces DEF l
      <4> QED
        BY <1>11, <4>2
    <3>6. CASE i = n + 3
      <4>1. queue'[k].what = "poll" /\ queue'[k].at = SourcesStop
        BY <1>1, <3>1, <3>6 DEF Event
      <4>2. d < k
        BY <1>1, <2>1, <3>2, <3>6, <4>1
      <4> QED
        BY <4>1, <4>2
    <3>7. CASE i = n + 4
      <4>1. queue'[k].what = "stop" /\ queue'[k].at = ArmedStop
        BY <1>1, <3>1, <3>7 DEF Event
      <4>2. ArmedStop >= SourcesStop
        BY TimesAssumption DEF ArmedStop, SourcesStop, One, ClockOK
      <4>3. d < k
        BY <1>1, <2>1, <3>2, <3>7, <4>1, <4>2
      <4> QED
        BY <4>1, <4>3
    <3>8. CASE i = n + 5 \/ i = n + 6
      <4>1. queue'[k].what \in {"on", "off"}
        BY <1>1, <3>1, <3>8 DEF Event
      <4> QED
        BY <4>1
    <3>9. \/ i = 1 \/ i - 1 \in 1..n \/ i = n + 2 \/ i = n + 3 \/ i = n + 4
          \/ i = n + 5 \/ i = n + 6
      <4>1. n \in Nat /\ i \in 1..n + 6
        BY <1>1, <2>3
      <4> QED
        BY <4>1
    <3> QED
      BY <3>3, <3>4, <3>5, <3>6, <3>7, <3>8, <3>9
  <2> QED
    BY <1>6, <2>1, <2>2, <2>3
<1>14. ASSUME NEW w \in 1..n
       PROVE  \E k \in 1..l : queue'[k].what = "open" /\ queue'[k].arg = w
  <2>1. w + 1 \in 1..n + 6
    BY <1>1
  <2>2. m + (w + 1) \in 1..l /\ all[m + (w + 1)] = t[w + 1]
    BY <1>7, <2>1
  <2>3. PICK k \in 1..l : o[k] = m + (w + 1)
    BY <1>5, <2>2
  <2>4. queue'[k] = Event(SourcesStop - WinLens[w], "open", w)
    BY <1>1, <1>5, <2>2, <2>3
  <2> QED
    BY <2>4 DEF Event
<1>15. DOMAIN windows' = 1..n /\ DOMAIN WinLens = 1..n
  BY <1>1
<1>16. ClosesAt(d)'
  <2>1. Len(queue') = l /\ DOMAIN windows' = 1..n /\ stop' = FALSE
    BY <1>5, <1>15
  <2>2. queue'[d].at = SourcesStop /\ queue'[d].what = "close"
    BY <1>11
  <2> QED
    <3>1. \A k \in 1..l :
            /\ queue'[k].what \notin {"begin", "swept"}
            /\ queue'[k].what \in {"stop", "poll"} => d < k
            /\ queue'[k].what = "close" => k = d
            /\ queue'[k].what = "open" =>
                 /\ queue'[k].arg \in DOMAIN windows'
                 /\ queue'[k].at = queue'[d].at - WinLens'[queue'[k].arg]
      BY <1>12, <1>13, <2>1, <2>2
    <3>2. \A w \in DOMAIN windows' :
            \E k \in 1..Len(queue') : queue'[k].what = "open" /\ queue'[k].arg = w
      BY <1>14, <2>1
    <3> QED
      BY <2>1, <2>2, <3>1, <3>2 DEF ClosesAt
<1> QED
  BY <1>5, <1>15, <1>16

LEMMA TrafficStep ==
  ASSUME QueueOK, ClockOK, WindowsOK, StagesOK, phase = "traffic",
         NEW what, NEW causes, Fired(what, causes),
         what = "open" => windows' = [windows EXCEPT ![Head(queue).arg] = Opened(Head(queue).arg)],
         what = "close" => CloseAll /\ causes = <<>>,
         what \notin {"open", "close"} => windows' = windows,
         what # "stop" => stop' = stop
  PROVE  TrafficStage' /\ DOMAIN windows' = DOMAIN WinLens
<1>1. TrafficStage /\ DOMAIN windows = DOMAIN WinLens
  BY DEF StagesOK
<1>2. ASSUME NEW c \in 1..Len(queue), ClosesAt(c)
      PROVE  TrafficStage' /\ DOMAIN windows' = DOMAIN WinLens
  <2>1. CASE what = "close"
    <3>1. /\ DOMAIN windows' = DOMAIN windows /\ AsAsked'
          /\ \A k \in 1..Len(queue') : queue'[k].what \notin {"open", "close"}
      BY <1>1, <1>2, <2>1, TrafficClosing
    <3> QED
      BY <1>1, <3>1, Zenon DEF TrafficStage
  <2>2. CASE what # "close"
    <3>1. 1 \in 1..Len(queue) /\ queue[1].what = what
      BY TailTyped
    <3>2. what # "stop"
      BY <1>2, <3>1 DEF ClosesAt
    <3>3. DOMAIN windows' = DOMAIN windows /\ \E d \in 1..Len(queue') : ClosesAt(d)'
      BY <1>2, <2>2, <3>2, TrafficPending
    <3> QED
      BY <1>1, <3>3, Zenon DEF TrafficStage
  <2> QED
    BY <2>1, <2>2
<1>3. CASE AsAsked /\ \A k \in 1..Len(queue) : queue[k].what \notin {"open", "close"}
  <2>1. /\ what \notin {"open", "close"}
        /\ windows' = windows => AsAsked'
        /\ \A k \in 1..Len(queue') : queue'[k].what \notin {"open", "close"}
    BY <1>3, TrafficClosed
  <2>2. windows' = windows
    BY <2>1
  <2> QED
    BY <1>1, <2>1, <2>2, Zenon DEF TrafficStage
<1> QED
  BY <1>1, <1>2, <1>3 DEF TrafficStage

(* An event of the run is one of the sweep's, the traffic's or the test's. *)
LEMMA EventStages ==
  ASSUME StagesOK, Running, args' = args, phase' = phase, report' = report,
         phase = "sweeping" /\ args.gaRoute => SweepStage',
         phase = "traffic" => TrafficStage' /\ DOMAIN windows' = DOMAIN WinLens
  PROVE  StagesOK'
<1>1. WinLens' = WinLens
  BY DEF WinLens
<1>2. phase' \in {"sweeping", "testing", "traffic"} /\ ~Reported'
  BY DEF Running, Reported
<1>3. Sweeps' <=> Sweeps
  BY SameRun
<1> QED
  BY <1>1, <1>2, <1>3 DEF StagesOK

(* What an event does that the stages depend on. *)
Does(what, causes) ==
  /\ Fired(what, causes)
  /\ what = "open" => windows' = [windows EXCEPT ![Head(queue).arg] = Opened(Head(queue).arg)]
  /\ what = "close" => CloseAll /\ causes = <<>>
  /\ what \notin {"open", "close"} => windows' = windows
  /\ what # "stop" => stop' = stop
  /\ what = "begin" => BeginWarmup
  /\ what = "swept" => SweepEnds
  /\ what = "stop" => StopFires
  /\ report' = report

LEMMA EventsDo ==
  ASSUME QueueOK, ClockOK,
         \/ BeginWarmup \/ SweepEnds \/ SourcesSwitch \/ SettlePoll \/ OpenFlowWindow
         \/ CloseFlowWindows \/ DrainPoll \/ StopFires
  PROVE  \E what, causes : Does(what, causes)
<1>1. CASE BeginWarmup
  <2>1. PICK causes : Fired("begin", causes)
    BY <1>1, EventsFired
  <2>2. Does("begin", causes)
    BY <1>1, <2>1, Zenon DEF Does, BeginWarmup, measures
  <2> QED
    BY <2>2
<1>2. CASE SweepEnds
  <2>1. PICK causes : Fired("swept", causes)
    BY <1>2, EventsFired
  <2>2. Does("swept", causes)
    BY <1>2, <2>1, Zenon DEF Does, SweepEnds, measures
  <2> QED
    BY <2>2
<1>3. CASE SourcesSwitch
  <2>1. PICK what \in {"on", "off"} : Fired(what, <<>>)
    BY <1>3, EventsFired
  <2>2. windows' = windows /\ stop' = stop /\ report' = report
    BY <1>3 DEF SourcesSwitch, measures
  <2>3. Does(what, <<>>)
    BY <2>1, <2>2 DEF Does
  <2> QED
    BY <2>3
<1>4. CASE SettlePoll
  <2>1. PICK causes : Fired("settle", causes)
    BY <1>4, EventsFired
  <2>2. Does("settle", causes)
    BY <1>4, <2>1, Zenon DEF Does, SettlePoll, measures
  <2> QED
    BY <2>2
<1>5. CASE OpenFlowWindow
  <2>1. Fired("open", <<>>)
    BY <1>5, EventsFired
  <2>2. Does("open", <<>>)
    BY <1>5, <2>1, Zenon DEF Does, OpenFlowWindow
  <2> QED
    BY <2>2
<1>6. CASE CloseFlowWindows
  <2>1. Fired("close", <<>>)
    BY <1>6, EventsFired
  <2>2. Does("close", <<>>)
    BY <1>6, <2>1, Zenon DEF Does, CloseFlowWindows, CloseAll
  <2> QED
    BY <2>2
<1>7. CASE DrainPoll
  <2>1. PICK causes : Fired("poll", causes)
    BY <1>7, EventsFired
  <2>2. Does("poll", causes)
    BY <1>7, <2>1, Zenon DEF Does, DrainPoll, measures
  <2> QED
    BY <2>2
<1>8. CASE StopFires
  <2>1. Fired("stop", <<>>)
    BY <1>8, EventsFired
  <2>2. Does("stop", <<>>)
    BY <1>8, <2>1, Zenon DEF Does, StopFires, measures
  <2> QED
    BY <2>2
<1> QED
  BY <1>1, <1>2, <1>3, <1>4, <1>5, <1>6, <1>7, <1>8

LEMMA EventsKeepStages ==
  ASSUME QueueOK, ClockOK, WindowsOK, SweepInTime, StagesOK,
         NEW what, NEW causes, Does(what, causes)
  PROVE  StagesOK'
<1>1. Fired(what, causes) /\ report' = report
  BY DEF Does
<1>2. args' = args /\ phase' = phase
  BY <1>1, TailTyped
<1>3. Running
  BY <1>1 DEF Fired, Fire, Due
<1>4. ASSUME phase = "sweeping", args.gaRoute PROVE SweepStage'
  <2>1. what \in {"begin", "swept", "stop"}
    BY <1>1, <1>4, SweepOnly
  <2>2. CASE what = "begin"
    BY <1>4, <2>2, SweepBegins DEF Does
  <2>3. CASE what = "swept"
    BY <1>4, <2>3, SweepStops DEF Does
  <2>4. CASE what = "stop"
    BY <1>4, <2>4, SweepStopped DEF Does
  <2> QED
    BY <2>1, <2>2, <2>3, <2>4
<1>5. phase = "traffic" => TrafficStage' /\ DOMAIN windows' = DOMAIN WinLens
  BY TrafficStep DEF Does
<1> QED
  BY <1>1, <1>2, <1>3, <1>4, <1>5, EventStages

(* main up to its mode finds the simulator's queue empty. *)
LEMMA StartStages ==
  ASSUME StagesOK, ClockOK, Start, report = Unreported
  PROVE  StagesOK'
<1>1. /\ queue = <<>> /\ stop' = FALSE /\ args' = args /\ clock' = clock /\ report' = Unreported
      /\ phase' \in {"refused", "routing", "testing", "sweeping"}
      /\ phase' = "routing" => queue' = ScheduleAll(queue, <<>>)
      /\ phase' = "testing" => ~args.gaRoute
      /\ phase' = "sweeping" /\ args.gaRoute =>
           Sweeps /\ queue' = ScheduleAll(queue, ScheduleWarmup)
  BY DEF Start, StagesOK, Sweeps
<1>2. queue \in Seq(Events) /\ Len(queue) = 0
  BY <1>1
<1>3. phase' = "routing" => OnlyStops(queue, clock + Span)'
  <2>1. ASSUME phase' = "routing" PROVE Scheduled(queue', queue, <<>>)
    BY <1>1, <1>2, <2>1, ScheduleAllSorts
  <2>2. ASSUME phase' = "routing", NEW k \in 1..Len(queue') PROVE FALSE
    BY <1>1, <2>1, <2>2 DEF Scheduled
  <2> QED
    BY <2>2 DEF OnlyStops
<1>4. ASSUME phase' = "sweeping", args.gaRoute PROVE SweepStage'
  <2> DEFINE e == Event(clock + WarmupStart, "begin", "none")
             t == <<e>>
             all == queue \o t
  <2>1. clock + WarmupStart \in Int
    BY TimesAssumption DEF ClockOK
  <2>2. e \in Events
    BY <2>1, NamesTyped, EventTyped, Zenon
  <2>3. e.what = "begin"
    BY DEF Event
  <2>4. queue' = ScheduleAll(queue, t)
    BY <1>1, <1>4 DEF ScheduleWarmup
  <2> HIDE DEF e
  <2>5. t \in Seq(Events) /\ Len(t) = 1 /\ t[1] = e
    BY <2>2
  <2> HIDE DEF t
  <2>6. PICK o : Arranged(queue', all, o)
    BY <1>2, <2>4, <2>5, ScheduleAllArranges
  <2>7. Joined(all, Events, queue, t)
    BY <1>2, <2>5, Concatenated
  <2> HIDE DEF all
  <2>8. Len(all) = 1 /\ all[1] = e
    BY <1>2, <2>5, <2>7 DEF Joined
  <2>9. /\ o[1] \in 1..1 /\ queue' = [k \in 1..1 |-> all[o[k]]]
    BY <2>6, <2>8 DEF Arranged
  <2>10. Len(queue') = 1 /\ queue'[1] = e
    BY <2>8, <2>9
  <2> QED
    BY <1>1, <2>3, <2>10 DEF SweepStage
<1>5. ~Reported'
  BY <1>1 DEF Reported
<1>6. Sweeps' <=> Sweeps
  BY <1>1, SameRun
<1> QED
  BY <1>1, <1>3, <1>4, <1>5, <1>6 DEF StagesOK

(* Run returns: from the sweep by its own Stop, from the traffic only      *)
(* after the close.                                                        *)
LEMMA ReturnStages ==
  ASSUME StagesOK, FlagsOK, Return, report = Unreported
  PROVE  StagesOK'
<1>1. /\ args' = args /\ clock' = clock /\ queue' = queue /\ windows' = windows
      /\ report' = report
      /\ Running
      /\ phase' = IF phase # "sweeping" THEN "reports"
                  ELSE IF args.gaRoute THEN "routing" ELSE "written"
  BY DEF Return, measures
<1>2. stop' = FALSE
  BY DEF Return
<1>3. queue = <<>> \/ stop = TRUE
  BY Zenon DEF Return, FlagsOK
<1>4. WinLens' = WinLens /\ Span' = Span
  BY <1>1 DEF WinLens, Span, One
<1>5. CASE phase = "sweeping"
  <2>1. ASSUME args.gaRoute PROVE OnlyStops(queue, clock + Span)'
    <3>1. SweepStage
      BY <1>5, <2>1 DEF StagesOK
    <3>2. OnlyStops(queue, clock + Span)
      BY <1>3, <3>1 DEF SweepStage, OnlyStops
    <3> QED
      BY <1>1, <1>4, <3>2 DEF OnlyStops
  <2>2. phase' = (IF args.gaRoute THEN "routing" ELSE "written") /\ ~Reported'
    BY <1>1, <1>5 DEF Reported
  <2> QED
    BY <1>1, <1>2, <2>1, <2>2 DEF StagesOK
<1>6. CASE phase = "traffic"
  <2>1. TrafficStage /\ DOMAIN windows = DOMAIN WinLens
    BY <1>6 DEF StagesOK
  <2>2. ASSUME NEW c \in 1..Len(queue), ClosesAt(c) PROVE FALSE
    BY <1>3, <2>2 DEF ClosesAt
  <2>3. AsAsked
    BY <2>1, <2>2 DEF TrafficStage
  <2>4. AsAsked'
    BY <1>1, <1>4, <2>3 DEF AsAsked
  <2>5. phase' = "reports"
    BY <1>1, <1>6
  <2> QED
    BY <1>1, <1>4, <2>1, <2>4, <2>5 DEF StagesOK
<1>7. CASE phase = "testing"
  <2>1. ~args.gaRoute /\ phase' = "reports"
    BY <1>1, <1>7 DEF StagesOK
  <2> QED
    BY <1>1, <2>1 DEF StagesOK
<1> QED
  BY <1>1, <1>5, <1>6, <1>7 DEF Running

LEMMA MainStages ==
  ASSUME QueueOK, ClockOK, StagesOK, RouteAndSetUp \/ EmptyFront \/ PrintSliceResults,
         report # Unreported => phase = "written"
  PROVE  StagesOK'
<1>1. args' = args /\ clock' = clock /\ stop' = stop
  BY DEF RouteAndSetUp, EmptyFront, PrintSliceResults
<1>2. WinLens' = WinLens
  BY <1>1 DEF WinLens
<1>3. CASE PrintSliceResults
  <2>1. phase = "reports" /\ phase' = "written" /\ windows' = windows
    BY <1>3 DEF PrintSliceResults, measures
  <2>2. args.gaRoute => AsAsked' /\ DOMAIN windows' = DOMAIN WinLens
    BY <1>1, <1>2, <2>1 DEF StagesOK, Reported, AsAsked
  <2> QED
    BY <1>1, <1>2, <2>1, <2>2 DEF StagesOK
<1>4. CASE EmptyFront
  <2>1. phase' = "written" /\ report' = Unreported
    BY <1>4 DEF EmptyFront
  <2> QED
    BY <2>1 DEF StagesOK, Reported
<1>5. CASE RouteAndSetUp
  <2>1. report' = Unreported /\ phase = "routing"
    BY <1>5 DEF RouteAndSetUp
  <2>2. CASE WinLens = <<>>
    <3>1. phase' = "aborted"
      BY <1>5, <2>2 DEF RouteAndSetUp
    <3> QED
      BY <3>1 DEF StagesOK, Reported
  <2>3. CASE WinLens # <<>>
    <3>1. /\ phase' = "traffic" /\ queue' = ScheduleAll(queue, TrafficEvents)
          /\ windows' = [w \in DOMAIN WinLens |-> Unopened]
      BY <1>5, <2>3 DEF RouteAndSetUp
    <3>2. stop = FALSE /\ OnlyStops(queue, clock + Span)
      BY <2>1 DEF StagesOK
    <3>3. DOMAIN windows' = DOMAIN WinLens /\ \E d \in 1..Len(queue') : ClosesAt(d)'
      BY <1>1, <3>1, <3>2, TrafficBegins
    <3>4. TrafficStage'
      BY <3>3, Zenon DEF TrafficStage
    <3>5. ~Reported'
      BY <3>1 DEF Reported
    <3> QED
      BY <1>1, <1>2, <3>1, <3>3, <3>4, <3>5 DEF StagesOK
  <2> QED
    BY <2>2, <2>3
<1> QED
  BY <1>3, <1>4, <1>5

LEMMA StagesStep ==
  ASSUME QueueOK, ClockOK, FlagsOK, IInv, SweepInTime, StagesOK, [Next]_vars
  PROVE  StagesOK'
<1>1. WindowsOK /\ (report # Unreported => phase = "written")
  BY DEF IInv, ReportIsLast
<1>2. CASE Simulator
  <2>1. CASE Advance
    <3>1. /\ UNCHANGED <<args, phase, queue, stop, windows, report>>
          /\ phase # "routing"
      BY <2>1 DEF Advance, measures, Running
    <3>2. stop = FALSE
      BY <2>1, Zenon DEF Advance, FlagsOK
    <3> QED
      BY <3>1, <3>2, StagesStay
  <2>2. CASE Return
    <3>1. report = Unreported
      BY <1>1, <2>2 DEF Return, Running
    <3> QED
      BY <2>2, <3>1, ReturnStages
  <2>3. CASE \/ BeginWarmup \/ SweepEnds \/ SourcesSwitch \/ SettlePoll \/ OpenFlowWindow
             \/ CloseFlowWindows \/ DrainPoll \/ StopFires
    <3>1. PICK what, causes : Does(what, causes)
      BY <2>3, EventsDo
    <3> QED
      BY <1>1, <3>1, EventsKeepStages
  <2> QED
    BY <1>2, <2>1, <2>2, <2>3 DEF Simulator
<1>3. CASE Main
  <2>1. CASE Start
    <3>1. report = Unreported
      BY <1>1, <2>1 DEF Start
    <3> QED
      BY <2>1, <3>1, StartStages
  <2> QED
    BY <1>1, <1>3, <2>1, MainStages DEF Main
<1>4. CASE Medium
  <2>1. UNCHANGED <<args, phase, clock, queue, stop, windows, report>>
    BY <1>4 DEF Medium, Emit, Deliver, Lose, measures
  <2> QED
    BY <2>1, StagesStay
<1>5. CASE UNCHANGED vars
  <2>1. UNCHANGED <<args, phase, clock, queue, stop, windows, report>>
    BY <1>5 DEF vars, measures
  <2> QED
    BY <2>1, StagesStay
<1> QED
  BY <1>2, <1>3, <1>4, <1>5 DEF Next

(* A command line is kept for the whole run. *)
LEMMA ArgsKept ==
  ASSUME [Next]_vars
  PROVE  args' = args
BY DEF Next, Simulator, Main, Medium, vars, BeginWarmup, SweepEnds, SourcesSwitch, SettlePoll,
   OpenFlowWindow, CloseFlowWindows, DrainPoll, StopFires, Advance, Return, Start,
   RouteAndSetUp, EmptyFront, PrintSliceResults, Emit, Deliver, Lose, Fire

LEMMA AskedIsReported ==
  ASSUME QueueOK, ClockOK, IInv, StagesOK
  PROVE  EveryWindowReported
<1> SUFFICES ASSUME phase = "written", report # Unreported, args.gaRoute
             PROVE  /\ Len(windows) = Len(WinLens)
                    /\ \A w, v \in DOMAIN windows :
                         /\ windows[w].closed - windows[w].opened = WinLens[w]
                         /\ windows[w].closed = windows[v].closed
  BY DEF EveryWindowReported
<1>1. AsAsked /\ DOMAIN windows = DOMAIN WinLens
  BY DEF StagesOK, Reported
<1>2. WinLens \in Seq(Nat)
  BY WinLensTyped DEF ClockOK
<1>3. windows = [w \in DOMAIN windows |-> windows[w]]
  BY DEF IInv, WindowsOK
<1>4. Len(windows) = Len(WinLens)
  <2>1. Len(WinLens) \in Nat /\ DOMAIN windows = 1..Len(WinLens)
    BY <1>1, <1>2
  <2> DEFINE n == Len(WinLens)
  <2> HIDE DEF n
  <2>2. n \in Nat /\ windows = [w \in 1..n |-> windows[w]]
    BY <1>3, <2>1 DEF n
  <2>3. Len(windows) = n
    BY <2>2
  <2> QED
    BY <2>3 DEF n
<1> QED
  BY <1>1, <1>4 DEF AsAsked

(* Whatever the sweep, the drain and the packets do, each reported window  *)
(* opened its own length before it closed, all closed at one instant, and  *)
(* none of those asked for is missing.                                     *)
THEOREM WindowsReported == Spec /\ SweepInTime => []EveryWindowReported
<1>1. Init => StagesOK
  BY StagesInit
<1>2. SweepInTime /\ [Next]_vars => SweepInTime'
  <2> SUFFICES ASSUME SweepInTime, [Next]_vars PROVE SweepInTime'
    OBVIOUS
  <2>1. args' = args
    BY ArgsKept
  <2> QED
    <3>1. (Sweeps' <=> Sweeps) /\ Span' = Span /\ Half' = Half /\ SafetyStop' = SafetyStop
      BY <2>1, SameRun DEF Half, SafetyStop, SweptEdges, BuildEdgeListGeometric, One
    <3> QED
      BY <3>1 DEF SweepInTime
<1>3. QueueOK /\ ClockOK /\ FlagsOK /\ IInv /\ SweepInTime /\ StagesOK /\ [Next]_vars
        => StagesOK'
  BY StagesStep
<1>4. QueueOK /\ ClockOK /\ IInv /\ StagesOK => EveryWindowReported
  BY AskedIsReported
<1> QED
  BY <1>1, <1>2, <1>3, <1>4, QueueIsSorted, Bookkeeping, PTL DEF Spec

-----------------------------------------------------------------------------
(* Until the report, FlowMonitor's counts are what happened. *)
CountsTrue == phase # "written" => rx = At({"got"}) /\ lost \subseteq At({"dropped"})

StopsBefore(q, t) == \E k \in 1..Len(q) : q[k].what = "stop" /\ q[k].at < t

(* Nothing is sent before the phases that send. *)
QuietBefore ==
  phase \in {"args", "sweeping", "routing"} =>
    sourcing = FALSE /\ InFlight = {} /\ ~Holds(queue, "on")

(* Whatever is sent, the run stops before FlowMonitor gives up on it. *)
StopsInTime ==
  phase \in {"testing", "traffic"} /\ stop = FALSE =>
    /\ \A k \in 1..Len(queue) :
         queue[k].what = "on" => StopsBefore(queue, queue[k].at + LossWindow)
    /\ sourcing = TRUE => StopsBefore(queue, clock + LossWindow)
    /\ \A p \in InFlight : StopsBefore(queue, sentAt[p] + LossWindow)

Timed == QueueOK /\ ClockOK /\ FlagsOK
CInv == Timed /\ CountsTrue /\ QuietBefore /\ StopsInTime

(* The loss window outlasts the traffic run from its first packet to its   *)
(* last possible Stop, and the slice test likewise.                        *)
LossWindowSpans == TrafficSec + DrainSec < LossWindow /\ TrafficSec + 2 * One < LossWindow

(* The probes of all rounds end below the first slice's ports. *)
PortsApart == 2 * SweptEdges * MaxRounds <= FirstPort[1] - FirstProbePort

ProbedOK == probed \in Nat /\ probed <= FirstPort[1] - FirstProbePort

(* The window main derives spans both when the drain is longer than the    *)
(* second by which the slice test's Stop follows its last packet.          *)
LEMMA DerivedWindowSpans == MaxPerHopDelay = 0 /\ DrainSec > One => LossWindowSpans
BY TimesAssumption DEF LossWindow, LossWindowSpans, One

LEMMA LossWindowTyped == LossWindow \in Int
BY TimesAssumption DEF LossWindow, One

LEMMA CInvInit == Init => CInv
<1> SUFFICES ASSUME Init PROVE CInv
  OBVIOUS
<1>1. queue = <<>> /\ InFlight = {} /\ rx = {} /\ lost = {}
  BY DEF Init, InFlight, At
<1>2. CountsTrue
  BY <1>1 DEF Init, CountsTrue, At
<1>3. QuietBefore
  BY <1>1 DEF Init, QuietBefore, Holds
<1>4. StopsInTime
  BY DEF Init, StopsInTime
<1> QED
  BY <1>2, <1>3, <1>4, QueueInit DEF CInv, Timed

(* What firing the head of a queue leaves of it. *)
LEMMA AfterFire ==
  ASSUME NEW q \in Seq(Events), q # <<>>, NEW causes \in Seq(Events),
         NEW r, r = ScheduleAll(Tail(q), causes)
  PROVE  /\ r \in Seq(Events)
         /\ \A k, l \in 1..Len(r) : k < l => r[k].at <= r[l].at
         /\ \A k \in 1..Len(r) : \/ \E i \in 1..Len(q) : r[k] = q[i]
                                 \/ \E i \in 1..Len(causes) : r[k] = causes[i]
         /\ q[1].what # "stop" => \A t : StopsBefore(q, t) => StopsBefore(r, t)
<1> DEFINE rest == Tail(q)
<1>1. /\ rest \in Seq(Events) /\ Len(q) \in Nat
      /\ \A i \in 1..Len(rest) : i + 1 \in 1..Len(q) /\ rest[i] = q[i + 1]
      /\ \A k \in 1..Len(q) : k # 1 => k - 1 \in 1..Len(rest) /\ rest[k - 1] = q[k]
  OBVIOUS
<1> HIDE DEF rest
<1>3. Scheduled(r, rest, causes)
  BY <1>1, ScheduleAllSorts DEF rest
<1> USE DEF Scheduled
<1>4. ASSUME q[1].what # "stop", NEW t, StopsBefore(q, t) PROVE StopsBefore(r, t)
  <2>1. PICK k \in 1..Len(q) : q[k].what = "stop" /\ q[k].at < t
    BY <1>4 DEF StopsBefore
  <2>2. k - 1 \in 1..Len(rest) /\ rest[k - 1] = q[k]
    BY <1>1, <1>4, <2>1
  <2> QED
    BY <1>3, <2>1, <2>2 DEF StopsBefore
<1>5. ASSUME NEW k \in 1..Len(r)
      PROVE  (\E i \in 1..Len(q) : r[k] = q[i]) \/ (\E i \in 1..Len(causes) : r[k] = causes[i])
  <2>1. CASE \E i \in 1..Len(rest) : r[k] = rest[i]
    BY <1>1, <2>1
  <2> QED
    BY <1>3, <2>1
<1> QED
  BY <1>3, <1>4, <1>5

(* Events that switch nothing on leave the promise as it was. *)
LEMMA FireKeeps ==
  ASSUME CInv, NEW what, NEW causes, Fired(what, causes), what # "stop",
         UNCHANGED <<place, sentAt, stop>>,
         sourcing' \in BOOLEAN, sourcing' = TRUE => sourcing = TRUE \/ what = "on"
  PROVE  QueueOK' /\ QuietBefore' /\ StopsInTime'
<1>1. /\ causes \in Seq(Events) /\ ~Holds(causes, "on")
      /\ queue \in Seq(Events) /\ queue # <<>> /\ queue' = ScheduleAll(Tail(queue), causes)
      /\ queue[1].what = what /\ queue[1].at = clock /\ 1 \in 1..Len(queue)
      /\ phase' = phase /\ clock' = clock
  <2>1. queue \in Seq(Events) /\ queue # <<>> /\ queue' = ScheduleAll(Tail(queue), causes)
    BY DEF CInv, Timed, QueueOK, Fired, Fire, Due
  <2>2. Head(queue) = queue[1] /\ 1 \in 1..Len(queue)
    BY <2>1
  <2>3. causes \in Seq(Events) /\ ~Holds(causes, "on")
    BY DEF Fired, Caused, Holds
  <2> QED
    BY <2>1, <2>2, <2>3 DEF Fired, Fire, Due
<1>2. /\ QueueOK'
      /\ \A k \in 1..Len(queue') : \/ \E i \in 1..Len(queue) : queue'[k] = queue[i]
                                   \/ \E i \in 1..Len(causes) : queue'[k] = causes[i]
      /\ \A t : StopsBefore(queue, t) => StopsBefore(queue', t)
  <2>1. queue[1].what # "stop"
    BY <1>1
  <2> QED
    BY <1>1, <2>1, AfterFire DEF QueueOK
<1>3. InFlight' = InFlight
  BY DEF InFlight, At
<1>4. ASSUME NEW k \in 1..Len(queue'), queue'[k].what = "on"
      PROVE  \E i \in 1..Len(queue) : queue'[k] = queue[i] /\ queue[i].what = "on"
  BY <1>1, <1>2, <1>4 DEF Holds
<1>5. QuietBefore'
  <2> SUFFICES ASSUME phase' \in {"args", "sweeping", "routing"}
               PROVE  sourcing' = FALSE /\ InFlight' = {} /\ ~Holds(queue', "on")
    BY DEF QuietBefore
  <2>1. sourcing = FALSE /\ InFlight = {} /\ ~Holds(queue, "on")
    BY <1>1 DEF CInv, QuietBefore
  <2>2. ~Holds(queue', "on")
    BY <1>4, <2>1 DEF Holds
  <2>3. what # "on"
    BY <1>1, <2>1 DEF Holds
  <2>4. sourcing' = FALSE
    BY <2>1, <2>3
  <2> QED
    BY <1>3, <2>1, <2>2, <2>4
<1>6. StopsInTime'
  <2> SUFFICES ASSUME phase' \in {"testing", "traffic"}, stop' = FALSE
               PROVE  /\ \A k \in 1..Len(queue') : queue'[k].what = "on" =>
                            StopsBefore(queue', queue'[k].at + LossWindow)
                      /\ sourcing' = TRUE => StopsBefore(queue', clock' + LossWindow)
                      /\ \A p \in InFlight' : StopsBefore(queue', sentAt'[p] + LossWindow)
    BY DEF StopsInTime
  <2>1. /\ \A k \in 1..Len(queue) : queue[k].what = "on" =>
             StopsBefore(queue, queue[k].at + LossWindow)
        /\ sourcing = TRUE => StopsBefore(queue, clock + LossWindow)
        /\ \A p \in InFlight : StopsBefore(queue, sentAt[p] + LossWindow)
    BY <1>1 DEF CInv, StopsInTime
  <2>2. ASSUME NEW k \in 1..Len(queue'), queue'[k].what = "on"
        PROVE  StopsBefore(queue', queue'[k].at + LossWindow)
    BY <1>2, <1>4, <2>1, <2>2
  <2>3. ASSUME sourcing' = TRUE PROVE StopsBefore(queue', clock' + LossWindow)
    <3>1. CASE sourcing = TRUE
      BY <1>1, <1>2, <2>1, <3>1
    <3>2. CASE what = "on"
      BY <1>1, <1>2, <2>1, <3>2
    <3> QED
      BY <2>3, <3>1, <3>2
  <2>4. ASSUME NEW p \in InFlight' PROVE StopsBefore(queue', sentAt'[p] + LossWindow)
    BY <1>2, <1>3, <2>1
  <2> QED
    BY <2>2, <2>3, <2>4
<1> QED
  BY <1>2, <1>5, <1>6

-----------------------------------------------------------------------------
(* As time passes, no packet in the air has been there for too long: the   *)
(* run's Stop is still queued, and time does not pass the queue's head.    *)
LEMMA AirIsKept ==
  ASSUME CInv, Advance, NEW p \in InFlight
  PROVE  ~(clock' - sentAt[p] >= LossWindow)
<1>1. /\ Running /\ queue # <<>> /\ Head(queue).at > clock
      /\ clock' = Minimum(clock + Tick, Head(queue).at)
  BY DEF Advance
<1>2. /\ queue \in Seq(Events) /\ clock \in Int /\ sentAt[p] \in Int /\ Tick \in Int
      /\ LossWindow \in Int
  BY LossWindowTyped, TimesAssumption DEF CInv, Timed, QueueOK, ClockOK, InFlight, At
<1>3. Head(queue) = queue[1] /\ 1 \in 1..Len(queue) /\ queue[1] \in Events
  BY <1>1, <1>2
<1>4. clock' <= queue[1].at /\ clock' \in Int /\ queue[1].at \in Int
  BY <1>1, <1>2, <1>3 DEF Minimum, Events
<1>5. stop = FALSE
  BY Zenon DEF Advance, CInv, Timed, FlagsOK
<1>6. phase \in {"testing", "traffic"}
  <2>1. phase # "sweeping"
    BY DEF CInv, QuietBefore
  <2> QED
    BY <1>1, <2>1 DEF Running
<1>7. StopsBefore(queue, sentAt[p] + LossWindow)
  BY <1>5, <1>6 DEF CInv, StopsInTime
<1>8. PICK k \in 1..Len(queue) : queue[k].at < sentAt[p] + LossWindow
  BY <1>7 DEF StopsBefore
<1>9. queue[1].at <= queue[k].at /\ queue[k].at \in Int
  <2>1. queue[k] \in Events
    BY <1>2
  <2>2. CASE k = 1
    BY <1>4, <2>2
  <2>3. CASE k # 1
    BY <1>3, <2>1, <2>3 DEF CInv, Timed, QueueOK, Events
  <2> QED
    BY <2>2, <2>3
<1> QED
  BY <1>2, <1>4, <1>8, <1>9

LEMMA CountsStep ==
  ASSUME CInv, PlacesOK, [Next]_vars
  PROVE  CountsTrue'
<1> SUFFICES ASSUME phase' # "written"
             PROVE  rx' = At({"got"})' /\ lost' \subseteq At({"dropped"})'
  BY DEF CountsTrue
<1>1. rx = At({"got"}) /\ lost \subseteq At({"dropped"})
  <2>1. CASE phase = "written"
    BY <2>1, WrittenIsLast DEF vars
  <2> QED
    BY <2>1 DEF CInv, CountsTrue
<1>2. CASE UNCHANGED <<place, rx, lost>>
  BY <1>1, <1>2 DEF At
<1>3. CASE Advance
  <2>1. UNCHANGED <<place, rx>>
    BY <1>3 DEF Advance
  <2>2. lost' = lost \cup {p \in Tracked : clock' - sentAt[p] >= LossWindow}
    BY <1>3 DEF Advance
  <2>3. ASSUME NEW p \in lost', p \notin lost PROVE place[p] = "dropped"
    <3>1. p \in Tracked /\ clock' - sentAt[p] >= LossWindow
      BY <2>2, <2>3
    <3>2. p \notin InFlight
      BY <1>3, <3>1, AirIsKept
    <3> QED
      BY <1>1, <3>1, <3>2 DEF Tracked, Sent, InFlight, At, PlacesOK
  <2> QED
    BY <1>1, <2>1, <2>2, <2>3 DEF At, Tracked, Sent
<1>4. ASSUME NEW p \in Packets, Emit(p)
      PROVE  rx' = At({"got"})' /\ lost' \subseteq At({"dropped"})'
  BY <1>1, <1>4 DEF Emit, PlacesOK, At
<1>5. ASSUME NEW p \in Packets, Deliver(p)
      PROVE  rx' = At({"got"})' /\ lost' \subseteq At({"dropped"})'
  <2>1. p \notin lost
    BY <1>1, <1>5 DEF Deliver, At
  <2> QED
    BY <1>1, <1>5, <2>1 DEF Deliver, PlacesOK, At
<1>6. ASSUME NEW p \in Packets, Lose(p)
      PROVE  rx' = At({"got"})' /\ lost' \subseteq At({"dropped"})'
  BY <1>1, <1>6 DEF Lose, PlacesOK, At
<1>7. CASE UNCHANGED vars
  BY <1>2, <1>7 DEF vars, traffic
<1>8. CASE Simulator
  BY <1>2, <1>3, <1>8 DEF Simulator, BeginWarmup, SweepEnds, SourcesSwitch, SettlePoll,
     OpenFlowWindow, CloseFlowWindows, DrainPoll, StopFires, Return, traffic
<1>9. CASE Main
  <2>1. ~PrintSliceResults
    BY DEF PrintSliceResults
  <2> QED
    BY <1>2, <1>9, <2>1 DEF Main, Start, RouteAndSetUp, EmptyFront, traffic
<1> QED
  BY <1>4, <1>5, <1>6, <1>7, <1>8, <1>9 DEF Next, Medium

(* One of the simulator's events, and its own time's passing. *)
LEMMA SimulatorKeeps ==
  ASSUME CInv, Simulator
  PROVE  QueueOK' /\ QuietBefore' /\ StopsInTime'
<1>1. /\ clock \in Int /\ queue \in Seq(Events) /\ LossWindow \in Int /\ Tick \in Int
      /\ QueueOK /\ ClockOK
  BY TimesAssumption, LossWindowTyped DEF CInv, Timed, ClockOK, QueueOK
<1>2. ASSUME NEW what, NEW causes, Fired(what, causes), what # "stop", what # "on",
             UNCHANGED <<place, sentAt, stop, sourcing>>
      PROVE  QueueOK' /\ QuietBefore' /\ StopsInTime'
  <2>1. sourcing' \in BOOLEAN /\ (sourcing' = TRUE => sourcing = TRUE)
    BY <1>2, Zenon DEF CInv, Timed, FlagsOK
  <2> QED
    BY <1>2, <2>1, FireKeeps
<1>3. CASE BeginWarmup \/ SweepEnds \/ SettlePoll \/ OpenFlowWindow \/ CloseFlowWindows \/ DrainPoll
  <2>1. UNCHANGED <<place, sentAt, stop, sourcing>>
    BY <1>3 DEF BeginWarmup, SweepEnds, SettlePoll, OpenFlowWindow, CloseFlowWindows, DrainPoll,
                traffic
  <2>2. PICK what \in {"begin", "swept", "settle", "open", "close", "poll"} :
          \E causes : Fired(what, causes)
    BY <1>1, <1>3, EventsFired, Zenon
  <2>3. PICK causes : Fired(what, causes)
    BY <2>2
  <2>4. what # "stop" /\ what # "on"
    OBVIOUS
  <2> QED
    BY <1>2, <2>1, <2>3, <2>4
<1>4. CASE SourcesSwitch
  <2>1. PICK what \in {"on", "off"} : Fired(what, <<>>) /\ sourcing' = (what = "on")
    BY <1>1, <1>4, EventsFired
  <2>2. UNCHANGED <<place, sentAt, stop>>
    BY <1>4 DEF SourcesSwitch
  <2>3. sourcing' \in BOOLEAN /\ (sourcing' = TRUE => what = "on")
    BY <2>1, Zenon
  <2>4. what # "stop"
    OBVIOUS
  <2> QED
    BY <2>1, <2>2, <2>3, <2>4, FireKeeps
<1>9. CASE StopFires
  <2>1. /\ UNCHANGED <<phase, place, sourcing>> /\ queue # <<>>
        /\ queue' = ScheduleAll(Tail(queue), <<>>)
    BY <1>9 DEF StopFires, Fire, Due, traffic
  <2>2. Tail(queue) \in Seq(Events) /\ <<>> \in Seq(Events)
    BY <1>1, <2>1
  <2>3. Scheduled(queue', Tail(queue), <<>>)
    BY <2>1, <2>2, ScheduleAllSorts
  <2>4. QueueOK'
    BY <2>3 DEF QueueOK, Scheduled
  <2>5. stop' = TRUE
    BY <1>9 DEF StopFires
  <2>6. StopsInTime'
    BY <2>5, Zenon DEF StopsInTime
  <2>7. Holds(queue', "on") => Holds(queue, "on")
    <3>1. ASSUME NEW k \in 1..Len(queue') PROVE \E i \in 1..Len(queue) : queue'[k] = queue[i]
      <4>1. PICK i \in 1..Len(Tail(queue)) : queue'[k] = Tail(queue)[i]
        BY <2>3 DEF Scheduled
      <4>2. i + 1 \in 1..Len(queue) /\ Tail(queue)[i] = queue[i + 1]
        BY <1>1, <2>1
      <4> QED
        BY <4>1, <4>2
    <3> QED
      BY <3>1 DEF Holds
  <2>8. InFlight' = InFlight
    BY <2>1 DEF InFlight, At
  <2>9. sourcing' = sourcing /\ phase' = phase
    BY <2>1
  <2>10. QuietBefore'
    BY <2>7, <2>8, <2>9, Zenon DEF CInv, QuietBefore
  <2> QED
    BY <2>4, <2>6, <2>10
<1>10. CASE Advance
  <2>1. /\ queue' = queue /\ phase' = phase /\ sourcing' = sourcing /\ stop' = stop
        /\ place' = place /\ sentAt' = sentAt
    BY <1>10 DEF Advance
  <2>2. clock <= clock' /\ clock' \in Int
    <3>1. /\ queue # <<>> /\ Head(queue).at > clock
          /\ clock' = Minimum(clock + Tick, Head(queue).at)
      BY <1>10 DEF Advance
    <3>2. Head(queue).at \in Int /\ Tick > 0
      BY <1>1, <3>1, HeadTyped, TimesAssumption
    <3> QED
      BY <1>1, <3>1, <3>2 DEF Minimum
  <2>3. InFlight' = InFlight
    BY <2>1 DEF InFlight, At
  <2>4. StopsBefore(queue, clock + LossWindow) => StopsBefore(queue, clock' + LossWindow)
    <3>1. ASSUME NEW k \in 1..Len(queue), queue[k].at < clock + LossWindow
          PROVE  queue[k].at < clock' + LossWindow
      <4>1. queue[k] \in Events
        BY <1>1
      <4>2. queue[k].at \in Int
        BY <4>1 DEF Events
      <4> QED
        BY <1>1, <2>2, <3>1, <4>2
    <3> QED
      BY <3>1 DEF StopsBefore
  <2>5. QueueOK' /\ QuietBefore'
    BY <2>1, <2>3, Zenon DEF CInv, Timed, QueueOK, QuietBefore
  <2>6. StopsInTime'
    BY <2>1, <2>3, <2>4, Zenon DEF CInv, StopsInTime
  <2> QED
    BY <2>5, <2>6
<1>11. CASE Return
  <2>1. /\ queue' = queue /\ sourcing' = sourcing /\ place' = place
        /\ phase' \in {"routing", "reports", "written"}
        /\ phase' = "routing" => phase = "sweeping"
    BY <1>11 DEF Return, traffic, Running
  <2>2. InFlight' = InFlight
    BY <2>1 DEF InFlight, At
  <2>3. QueueOK' /\ StopsInTime'
    BY <2>1 DEF CInv, Timed, QueueOK, StopsInTime
  <2>4. QuietBefore'
    BY <2>1, <2>2 DEF CInv, QuietBefore
  <2> QED
    BY <2>3, <2>4
<1> QED
  BY <1>3, <1>4, <1>9, <1>10, <1>11 DEF Simulator

(* A phase that starts quiet may switch sources on where it also stops in  *)
(* time for them.                                                          *)
LEMMA SetUpKeeps ==
  ASSUME CInv, phase \in {"args", "routing"}, UNCHANGED <<place, sourcing>>,
         NEW events \in Seq(Events), queue' = ScheduleAll(queue, events),
         NEW t \in Int, NEW u \in Int, u < t + LossWindow,
         \A k \in 1..Len(events) : events[k].what = "on" => events[k].at = t,
         Holds(events, "on") =>
           /\ \E k \in 1..Len(events) : events[k].what = "stop" /\ events[k].at = u
           /\ phase' \notin {"args", "sweeping", "routing"}
  PROVE  QueueOK' /\ QuietBefore' /\ StopsInTime'
<1>1. /\ queue \in Seq(Events) /\ sourcing = FALSE /\ InFlight = {} /\ ~Holds(queue, "on")
      /\ LossWindow \in Int
  BY LossWindowTyped DEF CInv, Timed, QueueOK, QuietBefore
<1>2. Scheduled(queue', queue, events)
  BY <1>1, ScheduleAllSorts
<1>3. sourcing' = FALSE /\ InFlight' = {}
  BY <1>1 DEF InFlight, At
<1>4. QueueOK'
  BY <1>2 DEF QueueOK, Scheduled
<1>5. ASSUME NEW k \in 1..Len(queue'), queue'[k].what = "on"
      PROVE  \E i \in 1..Len(events) : queue'[k] = events[i] /\ events[i].what = "on"
  BY <1>1, <1>2, <1>5 DEF Holds, Scheduled
<1>6. QuietBefore'
  <2> SUFFICES ASSUME phase' \in {"args", "sweeping", "routing"} PROVE ~Holds(queue', "on")
    BY <1>3 DEF QuietBefore
  <2> QED
    BY <1>5 DEF Holds
<1>7. ASSUME NEW k \in 1..Len(queue'), queue'[k].what = "on"
      PROVE  StopsBefore(queue', queue'[k].at + LossWindow)
  <2>1. queue'[k].at = t /\ Holds(events, "on")
    BY <1>5, <1>7 DEF Holds
  <2>2. PICK i \in 1..Len(events) : events[i].what = "stop" /\ events[i].at = u
    BY <2>1
  <2>3. PICK l \in 1..Len(queue') : queue'[l] = events[i]
    BY <1>2 DEF Scheduled
  <2>4. queue'[l].what = "stop" /\ queue'[l].at < queue'[k].at + LossWindow
    BY <1>1, <2>1, <2>2, <2>3
  <2> QED
    BY <2>4 DEF StopsBefore
<1>8. StopsInTime'
  BY <1>3, <1>7, Zenon DEF StopsInTime
<1> QED
  BY <1>4, <1>6, <1>8

LEMMA MainKeeps ==
  ASSUME CInv, LossWindowSpans, Main
  PROVE  QueueOK' /\ QuietBefore' /\ StopsInTime'
<1>1. /\ clock \in Int /\ args \in Runs /\ LossWindow \in Int /\ One = 2
      /\ WarmupStart \in Int /\ TrafficSec \in Int /\ DrainSec \in Int
  BY TimesAssumption, LossWindowTyped DEF CInv, Timed, ClockOK, One
<1>2. ASSUME NEW events \in Seq(Events), ~Holds(events, "on"), phase \in {"args", "routing"},
             queue' = ScheduleAll(queue, events), UNCHANGED <<place, sourcing>>
      PROVE  QueueOK' /\ QuietBefore' /\ StopsInTime'
  <2>1. LossWindow - 1 \in Int /\ 0 \in Int /\ LossWindow - 1 < 0 + LossWindow
    BY <1>1
  <2>2. \A k \in 1..Len(events) : events[k].what = "on" => events[k].at = 0
    BY <1>2 DEF Holds
  <2> QED
    BY <1>2, <2>1, <2>2, SetUpKeeps
<1>3. ASSUME queue' = queue, UNCHANGED <<place, sourcing>>,
             phase \in {"routing", "reports"}, phase' \notin {"args", "sweeping", "routing", "testing", "traffic"}
      PROVE  QueueOK' /\ QuietBefore' /\ StopsInTime'
  BY <1>3 DEF CInv, Timed, QueueOK, QuietBefore, StopsInTime
<1>4. CASE Start
  <2>1. phase = "args" /\ UNCHANGED <<place, sourcing>>
    BY <1>4 DEF Start, traffic
  <2>2. \/ queue' = ScheduleAll(queue, <<>>)
        \/ queue' = ScheduleAll(queue, SliceTestEvents) /\ phase' = "testing"
        \/ queue' = ScheduleAll(queue, ScheduleWarmup)
    BY <1>4 DEF Start
  <2>3. CASE queue' = ScheduleAll(queue, <<>>)
    <3> DEFINE none == <<>>
    <3>1. none \in Seq(Events) /\ ~Holds(none, "on")
      BY DEF Holds
    <3> HIDE DEF none
    <3> QED
      BY <1>2, <2>1, <2>3, <3>1 DEF none
  <2>4. CASE queue' = ScheduleAll(queue, SliceTestEvents) /\ phase' = "testing"
    <3> DEFINE u == WarmupStart + TrafficSec + 2 * One
    <3>1. u \in Int /\ u < WarmupStart + LossWindow
      BY <1>1 DEF LossWindowSpans
    <3>2. \E k \in 1..Len(SliceTestEvents) : SliceTestEvents[k].what = "stop" /\ SliceTestEvents[k].at = u
      BY SliceTestTyped
    <3> HIDE DEF u
    <3> QED
      BY <1>1, <2>1, <2>4, <3>1, <3>2, SliceTestTyped, SetUpKeeps
  <2>5. CASE queue' = ScheduleAll(queue, ScheduleWarmup)
    <3>1. clock + WarmupStart \in Int
      BY <1>1
    <3>2. Event(clock + WarmupStart, "begin", "none") \in Events
      BY <3>1, NamesTyped, EventTyped, Zenon
    <3>3. ScheduleWarmup \in Seq(Events) /\ ~Holds(ScheduleWarmup, "on")
      BY <3>2 DEF ScheduleWarmup, Holds, Event
    <3> QED
      BY <1>2, <2>1, <2>5, <3>3
  <2> QED
    BY <2>2, <2>3, <2>4, <2>5
<1>5. CASE RouteAndSetUp
  <2>1. phase = "routing" /\ UNCHANGED <<place, sourcing>>
    BY <1>5 DEF RouteAndSetUp, traffic
  <2>2. \/ phase' = "aborted" /\ queue' = queue
        \/ phase' = "traffic" /\ queue' = ScheduleAll(queue, TrafficEvents)
    BY <1>5 DEF RouteAndSetUp
  <2>3. CASE phase' = "aborted" /\ queue' = queue
    BY <1>3, <2>1, <2>3
  <2>4. CASE phase' = "traffic" /\ queue' = ScheduleAll(queue, TrafficEvents)
    <3> DEFINE t == clock + One
               u == clock + One + TrafficSec + DrainSec
    <3>1. t \in Int /\ u \in Int /\ u < t + LossWindow
      BY <1>1 DEF LossWindowSpans
    <3>2. /\ TrafficEvents \in Seq(Events)
          /\ \A k \in 1..Len(TrafficEvents) :
               TrafficEvents[k].what = "on" => TrafficEvents[k].at = t
          /\ \E k \in 1..Len(TrafficEvents) :
               TrafficEvents[k].what = "stop" /\ TrafficEvents[k].at = u
      BY <1>1, TrafficTyped
    <3> HIDE DEF t, u
    <3> QED
      BY <2>1, <2>4, <3>1, <3>2, SetUpKeeps
  <2> QED
    BY <2>2, <2>3, <2>4
<1>6. CASE EmptyFront
  <2>1. /\ phase = "routing" /\ phase' = "written" /\ queue' = queue
        /\ UNCHANGED <<place, sourcing>>
    BY <1>6 DEF EmptyFront, traffic
  <2> QED
    BY <1>3, <2>1
<1>7. CASE PrintSliceResults
  <2>1. /\ phase = "reports" /\ phase' = "written" /\ queue' = queue
        /\ UNCHANGED <<place, sourcing>>
    BY <1>7 DEF PrintSliceResults
  <2> QED
    BY <1>3, <2>1
<1> QED
  BY <1>4, <1>5, <1>6, <1>7 DEF Main

(* A packet is sent only while the run still stops in time for it. *)
LEMMA MediumKeeps ==
  ASSUME CInv, PlacesOK, NEW p \in Packets, Emit(p) \/ Deliver(p) \/ Lose(p)
  PROVE  QueueOK' /\ QuietBefore' /\ StopsInTime'
<1>1. /\ queue' = queue /\ phase' = phase /\ clock' = clock
      /\ Running /\ p \notin {}
  BY DEF Emit, Deliver, Lose
<1>2. sourcing' = sourcing /\ stop' = stop
  BY Zenon DEF Emit, Deliver, Lose
<1>3. phase # "args" /\ phase # "routing"
  BY <1>1 DEF Running
<1>4. phase # "sweeping"
  <2>1. CASE Emit(p)
    BY <2>1, Zenon DEF Emit, CInv, Timed, QuietBefore, FlagsOK
  <2>2. CASE Deliver(p) \/ Lose(p)
    BY <2>2 DEF Deliver, Lose, CInv, QuietBefore, InFlight, At
  <2> QED
    BY <2>1, <2>2
<1>5. QueueOK' /\ QuietBefore'
  BY <1>1, <1>3, <1>4 DEF CInv, Timed, QueueOK, QuietBefore
<1>6. ASSUME NEW o \in InFlight', phase \in {"testing", "traffic"}, stop = FALSE
      PROVE  StopsBefore(queue, sentAt'[o] + LossWindow)
  <2>1. sentAt \in [Packets -> Int] /\ o \in Packets
    BY DEF CInv, Timed, ClockOK, InFlight, At
  <2>2. CASE o \in InFlight /\ o # p
    <3>1. sentAt'[o] = sentAt[o]
      BY <2>1, <2>2 DEF Emit, Deliver, Lose
    <3> QED
      BY <1>6, <2>2, <3>1 DEF CInv, StopsInTime
  <2>3. CASE ~(o \in InFlight /\ o # p)
    <3>1. Emit(p) /\ o = p
      BY <2>1, <2>3 DEF PlacesOK, InFlight, At, Emit, Deliver, Lose
    <3>2. sentAt'[o] = clock
      BY <2>1, <3>1 DEF Emit
    <3>3. sourcing = TRUE
      BY <3>1, Zenon DEF Emit, CInv, Timed, FlagsOK
    <3> QED
      BY <1>6, <3>2, <3>3 DEF CInv, StopsInTime
  <2> QED
    BY <2>2, <2>3
<1>7. StopsInTime'
  BY <1>1, <1>2, <1>6, Zenon DEF CInv, StopsInTime
<1> QED
  BY <1>5, <1>7

LEMMA CInvStep ==
  ASSUME CInv, PlacesOK, LossWindowSpans, [Next]_vars
  PROVE  CInv'
<1>1. CountsTrue' /\ ClockOK' /\ FlagsOK'
  BY CountsStep, ClockStep, FlagsStep DEF CInv, Timed
<1>2. QueueOK' /\ QuietBefore' /\ StopsInTime'
  <2>1. CASE Simulator
    BY <2>1, SimulatorKeeps
  <2>2. CASE Main
    BY <2>2, MainKeeps
  <2>3. CASE Medium
    BY <2>3, MediumKeeps DEF Medium
  <2>4. CASE UNCHANGED vars
    BY <2>4 DEF vars, traffic, CInv, Timed, QueueOK, QuietBefore, StopsInTime, InFlight, At
  <2> QED
    BY <2>1, <2>2, <2>3, <2>4 DEF Next
<1> QED
  BY <1>1, <1>2 DEF CInv, Timed

-----------------------------------------------------------------------------
LEMMA ProbedSteps ==
  ASSUME [Next]_vars
  PROVE  probed' = probed \/ BeginWarmup
BY DEF Next, Simulator, Main, Medium, vars, SweepEnds, SourcesSwitch, SettlePoll,
   OpenFlowWindow, CloseFlowWindows, DrainPoll, StopFires, Advance, Return, Start,
   RouteAndSetUp, EmptyFront, PrintSliceResults, Emit, Deliver, Lose, Fire

LEMMA ProbedStep ==
  ASSUME PortsApart, ClockOK, ProbedOK, [Next]_vars
  PROVE  ProbedOK'
<1>1. CASE probed' = probed
  BY <1>1 DEF ProbedOK, FirstPort, FirstProbePort
<1>2. CASE BeginWarmup
  <2> DEFINE e == SweptEdges
             m == MaxRounds
  <2>1. e \in Int /\ m \in Nat /\ m # 0 /\ 2 * e * m <= 5000
    BY SweptEdgesTyped, TimesAssumption DEF ClockOK, PortsApart, FirstPort, FirstProbePort
  <2>2. PICK again \in (IF MaxRounds > 1 THEN Retried ELSE {0}) :
          again <= e * (m - 1) /\ probed' = 2 * (e + again)
    BY <1>2 DEF BeginWarmup
  <2>3. again \in Nat
    BY <2>2, TimesAssumption
  <2>4. e >= 0
    BY SweptEdgesTyped DEF ClockOK
  <2> HIDE DEF e, m
  <2>5. e * (m - 1) = e * m - e /\ 2 * e * m = 2 * (e * m) /\ e * m \in Int
    BY <2>1
  <2>6. probed' \in Nat /\ probed' <= 5000
    BY <2>1, <2>2, <2>3, <2>4, <2>5
  <2> QED
    BY <2>6 DEF ProbedOK, FirstPort, FirstProbePort
<1> QED
  BY <1>1, <1>2, ProbedSteps

LEMMA NobodyIntrudes ==
  ASSUME ProbedOK
  PROVE  Intruders = {} /\ Cardinality(Intruders) = 0
<1>1. ASSUME NEW i \in Slices, NEW k \in ProbesAmong(i) PROVE FALSE
  <2>1. k \in Int /\ 0 <= k /\ k < 5000
    BY <1>1 DEF ProbesAmong, ProbedOK, FirstPort, FirstProbePort
  <2>2. (5000 + k) % 65536 = 5000 + k
    BY <2>1
  <2>3. FirstPort[i] >= 10000 /\ FirstPort[i] \in Int
    BY DEF Slices, FirstPort
  <2>4. (FirstProbePort + k) % 65536 >= FirstPort[i]
    BY <1>1, <2>3 DEF ProbesAmong
  <2> QED
    BY <2>1, <2>2, <2>3, <2>4 DEF FirstProbePort
<1>2. Intruders = {}
  BY <1>1 DEF Intruders
<1> QED
  BY <1>2, FS_EmptySet

-----------------------------------------------------------------------------
LEMMA ContractInit == Init => E!Init
BY DEF Init, E!Init, Sent, At, Counted

LEMMA ContractStep ==
  ASSUME CInv, PlacesOK, ProbedOK, ReportIsLast, [Next]_vars
  PROVE  [E!Next]_E!vars
<1>1. CASE UNCHANGED <<place, report>>
  BY <1>1 DEF E!vars, Sent, At, Counted
<1>2. CASE Simulator
  BY <1>1, <1>2 DEF Simulator, BeginWarmup, SweepEnds, SourcesSwitch, SettlePoll,
     OpenFlowWindow, CloseFlowWindows, DrainPoll, StopFires, Advance, Return, traffic
<1>3. CASE Start \/ RouteAndSetUp \/ EmptyFront
  BY <1>1, <1>3 DEF Start, RouteAndSetUp, EmptyFront, traffic
<1>4. CASE UNCHANGED vars
  BY <1>1, <1>4 DEF vars, traffic
<1>5. ASSUME Running PROVE report = Unreported
  BY <1>5 DEF ReportIsLast, Running
<1>6. ASSUME NEW p \in Packets, Emit(p) PROVE E!Send(p)
  <2>1. Sent' = Sent \cup {p} /\ p \notin Sent /\ At({"got"})' = At({"got"})
    BY <1>6 DEF Emit, PlacesOK, Sent, At
  <2>2. report = Unreported /\ report' = report
    BY <1>5, <1>6 DEF Emit, measures
  <2> QED
    BY <2>1, <2>2 DEF E!Send, Counted
<1>7. ASSUME NEW p \in Packets, Deliver(p) PROVE E!Receive(p)
  <2>1. /\ Sent' = Sent /\ p \in Sent \ At({"got"})
        /\ At({"got"})' = At({"got"}) \cup {p}
    BY <1>7 DEF Deliver, PlacesOK, Sent, At
  <2>2. report = Unreported /\ report' = report
    BY <1>5, <1>7 DEF Deliver, measures
  <2> QED
    BY <2>1, <2>2 DEF E!Receive, Counted
<1>8. ASSUME NEW p \in Packets, Lose(p) PROVE UNCHANGED E!vars
  <2>1. Sent' = Sent /\ At({"got"})' = At({"got"})
    BY <1>8 DEF Lose, PlacesOK, Sent, At
  <2>2. report' = report
    BY <1>8 DEF Lose, measures
  <2> QED
    BY <2>1, <2>2 DEF E!vars, Counted
<1>9. CASE PrintSliceResults
  <2>1. rx = At({"got"}) /\ lost \subseteq At({"dropped"}) /\ report = Unreported
    BY <1>9 DEF PrintSliceResults, CInv, CountsTrue, ReportIsLast
  <2>2. lost' = Sent \ At({"got"})
    BY <1>9, <2>1 DEF PrintSliceResults, Settled, Tracked, Sent, At, PlacesOK
  <2>3. Sent' = Sent /\ At({"got"})' = At({"got"})
    BY <1>9 DEF PrintSliceResults, Sent, At
  <2>4. report'.tx = Cardinality(Sent) /\ report'.lost = Cardinality(Sent \ At({"got"}))
    <3> DEFINE missing == Sent \ At({"got"})
    <3>1. Cardinality(Intruders) = 0
      BY NobodyIntrudes
    <3>2. Cardinality(Sent) \in Nat /\ Cardinality(missing) \in Nat
      BY PacketCounts DEF Sent
    <3>3. /\ report'.tx = Cardinality(Sent) + 0
          /\ \E unheard \in 0..0 : report'.lost = Cardinality(missing) + unheard
      BY <1>9, <2>2, <3>1 DEF PrintSliceResults
    <3> HIDE DEF missing
    <3>4. report'.tx = Cardinality(Sent) /\ report'.lost = Cardinality(missing)
      BY <3>2, <3>3
    <3> QED
      BY <3>4 DEF missing
  <2>5. CASE report' = Unreported
    BY <2>1, <2>3, <2>5 DEF E!vars, Counted
  <2>6. CASE report' # Unreported
    <3>1. Counted' = [tx |-> Cardinality(Sent), lost |-> Cardinality(Sent \ At({"got"}))]
      BY <2>4, <2>6 DEF Counted
    <3>2. Counted = Unreported
      BY <2>1 DEF Counted
    <3>3. E!Report
      <4>1. ASSUME NEW S PROVE E!Cardinality(S) = Cardinality(S)
        BY DEF E!Cardinality, Cardinality
      <4> QED
        BY <2>3, <3>1, <3>2, <4>1 DEF E!Report
    <3> QED
      BY <3>3 DEF E!Next
  <2> QED
    BY <2>5, <2>6
<1> QED
  BY <1>2, <1>3, <1>4, <1>6, <1>7, <1>8, <1>9 DEF Next, Main, Medium, E!Next

(* FlowMonitor's counts are true up to the report, on every interleaving,  *)
(* for every command line and choice of times: no packet still on its way  *)
(* is called lost (main.cc, the loss window of the run's span).            *)
THEOREM CountsAreTrue ==
  ASSUME LossWindowSpans
  PROVE  Spec => []CInv
<1>1. Init => CInv
  BY CInvInit
<1>2. IInv => PlacesOK
  BY DEF IInv
<1>3. IInv /\ CInv /\ [Next]_vars => CInv'
  BY <1>2, CInvStep
<1> QED
  BY <1>1, <1>3, Bookkeeping, PTL DEF Spec

(* The run implements the experiment while the probes' ports end below the *)
(* slices': what is reported sent is what was sent, and what is reported   *)
(* lost is what did not arrive.                                            *)
THEOREM KeepsContract ==
  ASSUME LossWindowSpans
  PROVE  Spec /\ PortsApart => Contract
<1>1. Init => E!Init
  BY ContractInit
<1>2. Init => ProbedOK
  BY DEF Init, ProbedOK, FirstPort, FirstProbePort
<1>3. PortsApart /\ [Next]_vars => PortsApart'
  <2> SUFFICES ASSUME PortsApart, [Next]_vars PROVE PortsApart'
    OBVIOUS
  <2>1. SweptEdges' = SweptEdges
    BY ArgsKept DEF SweptEdges, BuildEdgeListGeometric
  <2> QED
    BY <2>1 DEF PortsApart, FirstPort, FirstProbePort
<1>4. PortsApart /\ ClockOK /\ ProbedOK /\ [Next]_vars => ProbedOK'
  BY ProbedStep
<1>5. CInv => ClockOK
  BY DEF CInv, Timed
<1>6. IInv /\ CInv /\ ProbedOK /\ [Next]_vars => [E!Next]_E!vars
  BY ContractStep DEF IInv
<1> QED
  BY <1>1, <1>2, <1>3, <1>4, <1>5, <1>6, Bookkeeping, CountsAreTrue, PTL DEF Spec, Contract, E!Spec
=============================================================================
