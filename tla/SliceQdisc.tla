----------------------------- MODULE SliceQdisc -----------------------------
(***************************************************************************)
(* One radio's slice queue disc (harness/traffic-control.cc, .h): a strict *)
(* priority root that classifies on the ToS byte over an uncapped control  *)
(* band and one token bucket per slice, the counters read off it, and the  *)
(* radio below, which stops the disc while its queue is full.              *)
(*                                                                         *)
(* A bucket short of tokens sets itself a timer and, when it fires, sends  *)
(* to the device itself, around the root: the install wires it for that.   *)
(* How the root and a bucket dequeue is ns-3's.  The disc is one record,   *)
(* since each of its steps is a whole Run: it goes on until the radio is   *)
(* full or nothing may go.  Lengths are in units of half a packet.         *)
(***************************************************************************)
EXTENDS Integers, Sequences

CONSTANTS
  Kinds,       \* packets looked at: [slice, ipv4, tos], slice 0 sends control
  Aqm,         \* g_sliceAqm: "fifo" or "cobalt"
  Limits,      \* limits the allocator may hand to a bucket, units per tick
  MinLimit,    \* g_minLimitMbps
  Depth,       \* packets a band holds
  RadioCap,    \* packets the radio queue holds
  MaxArrivals, MaxRetunes  \* bounds

ASSUME QdiscAssumption ==
  /\ Aqm \in {"fifo", "cobalt"} /\ Limits \subseteq Nat /\ MinLimit \in Nat \ {0}
  /\ Depth \in Nat \ {0} /\ RadioCap \in Nat \ {0}
  /\ MaxArrivals \in Nat /\ MaxRetunes \in Nat
  /\ \A k \in Kinds : k.slice \in 0..3 /\ k.ipv4 \in BOOLEAN /\ k.tos \in 0..255

VARIABLES
  disc,        \* the disc: see Installed
  arrived,     \* history: packets each slice brought here, 0 for control
  excess,      \* history: what each slice sent beyond the highest limit
  retunes      \* bound: retunes so far

vars == <<disc, arrived, excess, retunes>>

Slices == 1..3                      \* eMBB, URLLC, mMTC
Bands == 0..3
SliceTos == <<100, 104, 108>>
SLICE_BAND_CTRL == 0
SLICE_BAND == <<2, 1, 3>>
SLICE_ID_BAND_InOrder == <<0, 1, 2, 3, 0, 0, 0, 0>>
SLICE_ID_BAND == <<0, 2, 1, 3, 0, 0, 0, 0>>
SliceIdFromTos(tos) == (tos \div 4) % 8

Size == 2
MTU_BYTES == 4                      \* two packets
Burst_Fat == 3 * MTU_BYTES
Burst == MTU_BYTES
MaxLimit == CHOOSE r \in Limits : \A q \in Limits : q <= r
Never == -1
Least(a, b) == IF a < b THEN a ELSE b
RoundUp(a, b) == (a + b - 1) \div b

(* The filter takes IPv4 only; what it declines the priomap sends to 0. *)
PRIOMAP_Last == 3
PRIOMAP == 0
DoClassify(k) == IF k.ipv4 THEN SLICE_ID_BAND[SliceIdFromTos(k.tos) + 1] ELSE PRIOMAP

(* The sources mark a slice's packets, and nothing else carries a mark.    *)
ASSUME MarksAssumption ==
  \A k \in Kinds : IF k.slice \in Slices THEN k.ipv4 /\ k.tos = SliceTos[k.slice]
                                         ELSE k.ipv4 => SliceIdFromTos(k.tos) \notin Slices
(* There is a highest limit, and it is above the floor.                    *)
ASSUME LimitsAssumption ==
  \E r \in Limits : r >= MinLimit /\ \A q \in Limits : q <= r

-----------------------------------------------------------------------------
(* InstallSliceQdiscs: a full bucket per slice, rates a placeholder.       *)
(* idle is how long ago a bucket last let a packet through, timer how long *)
(* until it tries again by itself.                                         *)
Installed(rate) ==
  [held |-> [b \in Bands |-> 0], received |-> [b \in Bands |-> 0],
   dropped |-> [b \in Bands |-> 0], sent |-> [b \in Bands |-> 0],
   rate |-> [s \in Slices |-> rate], tokens |-> [s \in Slices |-> Burst],
   idle |-> [s \in Slices |-> 0], timer |-> [s \in Slices |-> Never], radio |-> 0]

Stopped(d) == d.radio >= RadioCap
Tokens(d, s) == Least(Burst, d.tokens[s] + d.rate[s] * d.idle[s])
Waiting(d, s) == d.held[SLICE_BAND[s]] > 0
Ready(d, s) == Waiting(d, s) /\ Tokens(d, s) >= Size

HandOver(d, b) ==
  [d EXCEPT !.held[b] = @ - 1, !.sent[b] = @ + 1, !.radio = @ + 1]
(* A bucket lets its head through, or wakes itself once tokens suffice. *)
Pass(d, s) ==
  [HandOver(d, SLICE_BAND[s]) EXCEPT !.tokens[s] = Tokens(d, s) - Size, !.idle[s] = 0]
Await(d, s) ==
  IF Waiting(d, s) /\ ~Ready(d, s) /\ d.timer[s] = Never
    THEN [d EXCEPT !.timer[s] = RoundUp(Size - Tokens(d, s), d.rate[s])] ELSE d

(* The root asks its bands in order, control, URLLC, eMBB, mMTC, for one   *)
(* packet; a bucket asked in vain sets its timer.                          *)
ServeRoot(d) ==
  LET url == Await(d, 2)
      emb == Await(url, 1) IN
  IF Stopped(d) THEN d
  ELSE IF d.held[SLICE_BAND_CTRL] > 0 THEN HandOver(d, SLICE_BAND_CTRL)
  ELSE IF Ready(d, 2) THEN Pass(d, 2)
  ELSE IF Ready(url, 1) THEN Pass(url, 1)
  ELSE IF Ready(emb, 3) THEN Pass(emb, 3)
  ELSE Await(emb, 3)

(* A bucket asked by itself, by the callback and the device it was given.  *)
ServeBucket_Unwired(d, s) == IF Ready(d, s) THEN Pass(d, s) ELSE Await(d, s)
ServeBucket_NoCallback(d, s) == d
ServeBucket(d, s) == IF Stopped(d) THEN d ELSE ServeBucket_Unwired(d, s)

(* A Run asks until nothing changes any more.  Every answer but the last   *)
(* is a packet for the radio, so it asks no more often than packets fit.   *)
RunRoot(d) ==
  LET run[n \in 0..RadioCap] == IF n = 0 THEN d ELSE ServeRoot(run[n - 1])
  IN  run[RadioCap]
RunBucket(d, s) ==
  LET run[n \in 0..RadioCap] == IF n = 0 THEN d ELSE ServeBucket(run[n - 1], s)
  IN  run[RadioCap]

-----------------------------------------------------------------------------
(* Counters read off the bands. *)
SliceOfferedBytes(s) == Size * disc.received[SLICE_BAND[s]]
SliceBacklogBytes(s) == Size * disc.held[SLICE_BAND[s]]
(* What PrintSliceQdiscStats sums over the nodes. *)
Enqueued(b) == disc.received[b]
Policed(b) == disc.dropped[b]

-----------------------------------------------------------------------------
Init ==
  /\ \E rate \in Limits : rate >= MinLimit /\ disc = Installed(rate)
  /\ arrived = [s \in 0..3 |-> 0]
  /\ excess = [s \in Slices |-> 0]
  /\ retunes = 0

(* What a step sent above what the highest limit drained meanwhile. *)
Sent(s, after) == Size * (after.sent[SLICE_BAND[s]] - disc.sent[SLICE_BAND[s]])
Becomes(after) ==
  /\ disc' = after
  /\ excess' = [s \in Slices |-> excess[s] + Sent(s, after)]

(* A packet is classified and counted, queued or dropped, and the root run. *)
Enqueue(k) ==
  LET b == DoClassify(k)
      seen == [disc EXCEPT !.received[b] = @ + 1] IN
  /\ arrived[0] + arrived[1] + arrived[2] + arrived[3] < MaxArrivals
  /\ arrived' = [arrived EXCEPT ![k.slice] = @ + 1]
  /\ Becomes(RunRoot(IF disc.held[b] < Depth THEN [seen EXCEPT !.held[b] = @ + 1]
                     ELSE [seen EXCEPT !.dropped[b] = @ + 1]))
  /\ UNCHANGED retunes

(* A packet leaves the radio; if that makes room, the root is woken. *)
Transmit ==
  LET less == [disc EXCEPT !.radio = @ - 1] IN
  /\ disc.radio > 0
  /\ Becomes(IF Stopped(disc) THEN RunRoot(less) ELSE less)
  /\ UNCHANGED <<arrived, retunes>>

TimerFires(s) ==
  /\ disc.timer[s] = 0
  /\ Becomes(RunBucket([disc EXCEPT !.timer[s] = Never], s))
  /\ UNCHANGED <<arrived, retunes>>

(* Time passes once the timers that are due have fired. *)
Tick ==
  /\ \A s \in Slices : disc.timer[s] # 0
  /\ disc' = [disc EXCEPT !.idle = [s \in Slices |-> Least(Burst, @[s] + 1)],
                          !.timer = [s \in Slices |-> IF @[s] = Never THEN Never ELSE @[s] - 1]]
  /\ excess' = [s \in Slices |-> IF excess[s] > MaxLimit THEN excess[s] - MaxLimit ELSE 0]
  /\ UNCHANGED <<arrived, retunes>>

(* SetSliceRatesOn: new rates under the tokens and timers of the old ones. *)
Floored(limit) == IF limit > MinLimit THEN limit ELSE MinLimit
SetSliceRatesOn(limits) ==
  /\ retunes < MaxRetunes
  /\ disc' = [disc EXCEPT !.rate = [s \in Slices |-> Floored(limits[s])]]
  /\ retunes' = retunes + 1
  /\ UNCHANGED <<arrived, excess>>

(* Cobalt may drop what has queued for longer than its target. *)
Discard(s) ==
  LET b == SLICE_BAND[s] IN
  /\ Aqm = "cobalt" /\ disc.held[b] > 0
  /\ disc' = [disc EXCEPT !.held[b] = @ - 1, !.dropped[b] = @ + 1]
  /\ UNCHANGED <<arrived, excess, retunes>>

Next ==
  \/ \E k \in Kinds : Enqueue(k)
  \/ Transmit \/ Tick
  \/ \E s \in Slices : TimerFires(s) \/ Discard(s)
  \/ \E limits \in [Slices -> Limits] : SetSliceRatesOn(limits)

(* Time passes, timers fire, the radio gets its turns; traffic need not come. *)
Fairness == WF_vars(Tick) /\ WF_vars(Transmit) /\ \A s \in Slices : WF_vars(TimerFires(s))
Spec == Init /\ [][Next]_vars /\ Fairness

-----------------------------------------------------------------------------
(* traffic-control.h:60-63.  What carries no slice mark, ARP above all, is *)
(* never rate limited: all of it takes the control band, and there it      *)
(* waits for the radio and for nothing else.                               *)
ControlWaitsForRadioOnly ==
  /\ Enqueued(SLICE_BAND_CTRL) = arrived[0]
  /\ disc.held[SLICE_BAND_CTRL] > 0 => Stopped(disc)

(* traffic-control.cc:74-86, 190-206.  Whichever way its packets leave, by *)
(* the root or around it, over no stretch of time does a slice send more   *)
(* than one MTU above the highest limit it may be handed, whatever the     *)
(* retunes do to tokens already counted.                                   *)
RateHonoured == \A s \in Slices : excess[s] <= MTU_BYTES

(* traffic-control.cc:198.  A bucket that sends around the root still      *)
(* heeds the device: the radio is never handed more than it has room for.  *)
RadioNotOverrun == disc.radio <= RadioCap

(* traffic-control.h:66-70, 142-148.  The demand signal counts all that a  *)
(* slice brought, policed or not, and nothing of another slice; what it    *)
(* brought was sent, was dropped or is in the backlog the controller sees. *)
OfferedIsOwnTraffic ==
  \A s \in Slices :
    LET b == SLICE_BAND[s] IN
    /\ SliceOfferedBytes(s) = Size * arrived[s]
    /\ SliceOfferedBytes(s) = Size * (disc.sent[b] + Policed(b)) + SliceBacklogBytes(s)

(* traffic-control.cc:190-206, 251.  Only the root is woken by the radio   *)
(* and only a timer wakes a bucket; between them nothing accepted is ever  *)
(* left behind, at whatever limits.                                        *)
NothingStranded == <>[](\A b \in Bands : disc.held[b] = 0)
=============================================================================
