------------------------- MODULE SliceQdisc_proofs -------------------------
(***************************************************************************)
(* Proofs about one radio's slice disc, for every set of packet kinds and  *)
(* limits, every depth and every radio.  A Run is followed turn by turn:   *)
(* it only moves packets from the bands to the radio, while there is room, *)
(* and what it sends of a slice it takes off the slice's credit, that is   *)
(* what the bucket could let through had its rate been the highest limit   *)
(* ever since it last let something through.  Excess and credit together   *)
(* never exceed a burst, whatever the retunes do to tokens not yet counted.*)
(***************************************************************************)
EXTENDS SliceQdisc, WellFoundedInduction, TLAPS

(* The highest limit is one. *)
LEMMA MaxLimitIs ==
  /\ MaxLimit \in Limits /\ MaxLimit \in Nat /\ MinLimit <= MaxLimit
  /\ \A q \in Limits : q <= MaxLimit
<1>1. \E r \in Limits : \A q \in Limits : q <= r
  BY LimitsAssumption
<1>2. MaxLimit \in Limits /\ \A q \in Limits : q <= MaxLimit
  BY <1>1 DEF MaxLimit
<1>3. Limits \subseteq Nat /\ MinLimit \in Nat
  BY QdiscAssumption
<1>4. PICK r \in Limits : r >= MinLimit
  BY LimitsAssumption
<1> QED
  BY <1>2, <1>3, <1>4

LEMMA HasLeast ==
  ASSUME NEW S \in SUBSET Nat, S # {}
  PROVE  \E m \in S : \A n \in S : m <= n
<1>1. PICK m \in S : \A n \in S : ~(<<n, m>> \in OpToRel(<, Nat))
  BY NatLessThanWellFounded, WFMin, Zenon
<1>2. \A n \in S : ~(n < m)
  BY <1>1 DEF OpToRel
<1> QED
  BY <1>2

(* What holds at 0 and goes from each number to the next holds up to N. *)
LEMMA UpTo ==
  ASSUME NEW N \in Nat, NEW G, 0 \in G, \A n \in 0..N : n # N /\ n \in G => n + 1 \in G
  PROVE  0..N \subseteq G
<1> DEFINE bad == (0..N) \ G
<1>1. SUFFICES ASSUME bad # {} PROVE FALSE
  OBVIOUS
<1>2. PICK m \in bad : \A n \in bad : m <= n
  <2>1. bad \in SUBSET Nat
    OBVIOUS
  <2> HIDE DEF bad
  <2> QED
    BY <1>1, <2>1, HasLeast
<1>3. m \in Nat /\ m # 0 /\ m \in 0..N
  OBVIOUS
<1>4. m - 1 \in 0..N /\ m - 1 # N /\ m - 1 + 1 = m
  BY <1>3
<1>5. m - 1 \notin bad
  BY <1>2, <1>3
<1> QED
  BY <1>4, <1>5

(* A step taken again and again from d. *)
LEMMA Iterates ==
  ASSUME NEW S, NEW d \in S, NEW F \in [S -> S], NEW N \in Nat
  PROVE  \E g \in [0..N -> S] : \A n \in 0..N : g[n] = IF n = 0 THEN d ELSE F[g[n - 1]]
<1> DEFINE Goes(m, g) == \A n \in 0..m : g[n] = IF n = 0 THEN d ELSE F[g[n - 1]]
           G == {m \in 0..N : \E g \in [0..m -> S] : Goes(m, g)}
<1>1. 0 \in G
  <2> DEFINE g == [n \in 0..0 |-> d]
  <2>1. g \in [0..0 -> S]
    OBVIOUS
  <2>2. Goes(0, g)
    OBVIOUS
  <2>3. 0 \in 0..N
    OBVIOUS
  <2> HIDE DEF g, Goes
  <2> QED
    BY <2>1, <2>2, <2>3
<1>2. ASSUME NEW m \in 0..N, m # N, m \in G PROVE m + 1 \in G
  <2>1. PICK g \in [0..m -> S] : Goes(m, g)
    BY <1>2
  <2> DEFINE h == [n \in 0..(m + 1) |-> IF n = m + 1 THEN F[g[m]] ELSE g[n]]
  <2>2. h \in [0..(m + 1) -> S]
    <3>1. F[g[m]] \in S
      OBVIOUS
    <3>2. \A n \in 0..(m + 1) : n # m + 1 => g[n] \in S
      OBVIOUS
    <3> QED
      BY <3>1, <3>2
  <2>3. ASSUME NEW n \in 0..(m + 1) PROVE h[n] = IF n = 0 THEN d ELSE F[h[n - 1]]
    <3>1. CASE n = m + 1
      <4>1. h[n] = F[g[m]] /\ n - 1 = m /\ n # 0 /\ m \in 0..(m + 1) /\ m # m + 1
        BY <3>1
      <4>2. h[m] = g[m]
        BY <4>1
      <4> QED
        BY <4>1, <4>2
    <3>2. CASE n # m + 1
      <4>1. n \in 0..m /\ h[n] = g[n]
        BY <3>2
      <4>2. g[n] = IF n = 0 THEN d ELSE F[g[n - 1]]
        BY <2>1, <4>1
      <4>3. n # 0 => n - 1 \in 0..(m + 1) /\ n - 1 # m + 1
        BY <4>1
      <4>4. n # 0 => h[n - 1] = g[n - 1]
        BY <4>3
      <4> QED
        BY <4>1, <4>2, <4>4
    <3> QED
      BY <3>1, <3>2
  <2>4. Goes(m + 1, h)
    BY <2>3
  <2>5. m + 1 \in 0..N
    BY <1>2
  <2> HIDE DEF h, Goes
  <2> QED
    BY <2>2, <2>4, <2>5
<1>3. 0..N \subseteq G
  <2> HIDE DEF G
  <2> QED
    BY <1>1, <1>2, UpTo
<1>4. N \in G
  <2> HIDE DEF G
  <2> QED
    BY <1>3
<1> QED
  BY <1>4

-----------------------------------------------------------------------------
Discs ==
  [held : [Bands -> Nat], received : [Bands -> Nat], dropped : [Bands -> Nat],
   sent : [Bands -> Nat], rate : [Slices -> 1..MaxLimit], tokens : [Slices -> 0..Burst],
   idle : [Slices -> 0..Burst], timer : [Slices -> Nat \cup {Never}], radio : 0..RadioCap]

(* What a bucket could let through had the highest limit been its rate     *)
(* since it last let something through.                                    *)
Credit(d, s) == Least(Burst, d.tokens[s] + MaxLimit * d.idle[s])

(* A Run moves packets from the bands to the radio, while there is room,   *)
(* and what it sends of a slice it takes off the slice's credit.           *)
Ran(d, e) ==
  /\ e \in Discs
  /\ e.received = d.received /\ e.dropped = d.dropped
  /\ \A b \in Bands : e.held[b] + e.sent[b] = d.held[b] + d.sent[b] /\ e.held[b] <= d.held[b]
  /\ \A s \in Slices :
       Size * (e.sent[SLICE_BAND[s]] - d.sent[SLICE_BAND[s]]) + Credit(e, s) <= Credit(d, s)

LEMMA BandsApart ==
  /\ \A s \in Slices : SLICE_BAND[s] \in Bands /\ SLICE_BAND[s] # SLICE_BAND_CTRL
  /\ \A s, z \in Slices : SLICE_BAND[s] = SLICE_BAND[z] => s = z
  /\ SLICE_BAND_CTRL \in Bands
BY DEF Slices, Bands, SLICE_BAND, SLICE_BAND_CTRL

(* Two packets make a burst. *)
LEMMA BurstIs == Burst = 4 /\ Size = 2
BY DEF Burst, MTU_BYTES, Size

LEMMA TokensWithinCredit ==
  ASSUME NEW d \in Discs, NEW s \in Slices
  PROVE  Tokens(d, s) \in 0..Credit(d, s) /\ Credit(d, s) \in 0..Burst
<1> DEFINE t == d.tokens[s]
           i == d.idle[s]
           r == d.rate[s]
<1>1. t \in 0..4 /\ i \in Nat /\ r \in Nat /\ r <= MaxLimit /\ MaxLimit \in Nat
  BY MaxLimitIs, BurstIs DEF Discs
<1> HIDE DEF t, i, r
<1>2. r * i \in Nat /\ MaxLimit * i \in Nat /\ r * i <= MaxLimit * i
  <2>1. r * i \in Nat /\ MaxLimit * i \in Nat
    BY <1>1
  <2>2. (MaxLimit - r) * i \in Nat /\ (MaxLimit - r) * i = MaxLimit * i - r * i
    BY <1>1
  <2> QED
    BY <2>1, <2>2
<1> DEFINE x == r * i
           y == MaxLimit * i
<1>3. x \in Nat /\ y \in Nat /\ x <= y
  BY <1>2
<1>4. Tokens(d, s) = Least(4, t + x) /\ Credit(d, s) = Least(4, t + y)
  BY BurstIs DEF Tokens, Credit, t, i, r
<1> HIDE DEF x, y
<1> QED
  BY <1>1, <1>3, <1>4, BurstIs DEF Least

(* What one packet handed to the radio changes. *)
LEMMA Handed ==
  ASSUME NEW d \in Discs, NEW b \in Bands, ~Stopped(d), d.held[b] > 0
  PROVE  LET e == HandOver(d, b) IN
         /\ e \in Discs
         /\ e.held = [d.held EXCEPT ![b] = d.held[b] - 1]
         /\ e.sent = [d.sent EXCEPT ![b] = d.sent[b] + 1]
         /\ e.radio = d.radio + 1
         /\ e.received = d.received /\ e.dropped = d.dropped /\ e.rate = d.rate
         /\ e.tokens = d.tokens /\ e.idle = d.idle /\ e.timer = d.timer
<1> DEFINE e == HandOver(d, b)
<1>1. d.held \in [Bands -> Nat] /\ d.sent \in [Bands -> Nat] /\ d.radio \in 0..RadioCap
  BY DEF Discs
<1>2. d.held[b] - 1 \in Nat /\ d.sent[b] + 1 \in Nat /\ d.radio + 1 \in 0..RadioCap
  BY <1>1, QdiscAssumption DEF Stopped
<1>3. /\ e.held = [d.held EXCEPT ![b] = d.held[b] - 1]
      /\ e.sent = [d.sent EXCEPT ![b] = d.sent[b] + 1]
      /\ e.radio = d.radio + 1
      /\ e.received = d.received /\ e.dropped = d.dropped /\ e.rate = d.rate
      /\ e.tokens = d.tokens /\ e.idle = d.idle /\ e.timer = d.timer
  BY <1>1 DEF HandOver, Discs
<1>4. e = [d EXCEPT !.held = e.held, !.sent = e.sent, !.radio = e.radio]
  BY DEF HandOver, Discs
<1> HIDE DEF e
<1>5. e.held \in [Bands -> Nat] /\ e.sent \in [Bands -> Nat] /\ e.radio \in 0..RadioCap
  BY <1>1, <1>2, <1>3
<1>6. e \in Discs
  BY <1>4, <1>5 DEF Discs
<1> QED
  BY <1>3, <1>6 DEF e

LEMMA RanSelf == ASSUME NEW d \in Discs PROVE Ran(d, d)
<1>1. \A s \in Slices : d.sent[SLICE_BAND[s]] \in Nat /\ Credit(d, s) \in Nat
  BY BandsApart, TokensWithinCredit, BurstIs DEF Discs
<1>2. \A b \in Bands : d.held[b] \in Nat
  BY DEF Discs
<1> QED
  BY <1>1, <1>2, BurstIs DEF Ran

LEMMA RanOn ==
  ASSUME NEW d \in Discs, NEW e, NEW f, Ran(d, e), Ran(e, f)
  PROVE  Ran(d, f)
<1>1. e \in Discs /\ f \in Discs /\ f.received = d.received /\ f.dropped = d.dropped
  BY DEF Ran
<1>2. ASSUME NEW b \in Bands
      PROVE  f.held[b] + f.sent[b] = d.held[b] + d.sent[b] /\ f.held[b] <= d.held[b]
  <2>1. /\ d.held[b] \in Nat /\ e.held[b] \in Nat /\ f.held[b] \in Nat
        /\ d.sent[b] \in Nat /\ e.sent[b] \in Nat /\ f.sent[b] \in Nat
    BY <1>1 DEF Discs
  <2>2. /\ e.held[b] + e.sent[b] = d.held[b] + d.sent[b] /\ e.held[b] <= d.held[b]
        /\ f.held[b] + f.sent[b] = e.held[b] + e.sent[b] /\ f.held[b] <= e.held[b]
    BY DEF Ran
  <2> QED
    BY <2>1, <2>2
<1>3. ASSUME NEW s \in Slices
      PROVE  Size * (f.sent[SLICE_BAND[s]] - d.sent[SLICE_BAND[s]]) + Credit(f, s) <= Credit(d, s)
  <2>1. /\ Credit(d, s) \in Int /\ Credit(e, s) \in Int /\ Credit(f, s) \in Int
        /\ d.sent[SLICE_BAND[s]] \in Nat /\ e.sent[SLICE_BAND[s]] \in Nat
        /\ f.sent[SLICE_BAND[s]] \in Nat
    BY <1>1, BandsApart, TokensWithinCredit, BurstIs DEF Discs
  <2>2. /\ Size * (e.sent[SLICE_BAND[s]] - d.sent[SLICE_BAND[s]]) + Credit(e, s) <= Credit(d, s)
        /\ Size * (f.sent[SLICE_BAND[s]] - e.sent[SLICE_BAND[s]]) + Credit(f, s) <= Credit(e, s)
    BY DEF Ran
  <2> QED
    BY <2>1, <2>2, BurstIs
<1> QED
  BY <1>1, <1>2, <1>3 DEF Ran

LEMMA ControlHanded ==
  ASSUME NEW d \in Discs, ~Stopped(d), d.held[SLICE_BAND_CTRL] > 0
  PROVE  Ran(d, HandOver(d, SLICE_BAND_CTRL)) /\ HandOver(d, SLICE_BAND_CTRL).radio = d.radio + 1
<1> DEFINE e == HandOver(d, SLICE_BAND_CTRL)
<1>1. /\ e \in Discs
      /\ e.held = [d.held EXCEPT ![SLICE_BAND_CTRL] = d.held[SLICE_BAND_CTRL] - 1]
      /\ e.sent = [d.sent EXCEPT ![SLICE_BAND_CTRL] = d.sent[SLICE_BAND_CTRL] + 1]
      /\ e.radio = d.radio + 1
      /\ e.received = d.received /\ e.dropped = d.dropped
      /\ e.tokens = d.tokens /\ e.idle = d.idle
  BY Handed, BandsApart
<1>2. d.held \in [Bands -> Nat] /\ d.sent \in [Bands -> Nat]
  BY DEF Discs
<1> HIDE DEF e
<1>3. ASSUME NEW b \in Bands
      PROVE  e.held[b] + e.sent[b] = d.held[b] + d.sent[b] /\ e.held[b] <= d.held[b]
  BY <1>1, <1>2, BandsApart
<1>4. ASSUME NEW s \in Slices
      PROVE  Size * (e.sent[SLICE_BAND[s]] - d.sent[SLICE_BAND[s]]) + Credit(e, s) <= Credit(d, s)
  <2>1. e.sent[SLICE_BAND[s]] = d.sent[SLICE_BAND[s]] /\ d.sent[SLICE_BAND[s]] \in Nat
    BY <1>1, <1>2, BandsApart
  <2>2. Credit(e, s) = Credit(d, s)
    BY <1>1 DEF Credit
  <2> QED
    BY <2>1, <2>2, TokensWithinCredit, BurstIs
<1> QED
  BY <1>1, <1>3, <1>4 DEF Ran, e

LEMMA SlicePassed ==
  ASSUME NEW d \in Discs, NEW s \in Slices, ~Stopped(d), Ready(d, s)
  PROVE  Ran(d, Pass(d, s)) /\ Pass(d, s).radio = d.radio + 1
<1> DEFINE c == SLICE_BAND[s]
           h == HandOver(d, c)
           e == Pass(d, s)
           t == Tokens(d, s)
<1>1. c \in Bands /\ d.held[c] > 0 /\ t >= 2
  BY BandsApart, BurstIs DEF Ready, Waiting
<1>2. /\ h \in Discs
      /\ h.held = [d.held EXCEPT ![c] = d.held[c] - 1]
      /\ h.sent = [d.sent EXCEPT ![c] = d.sent[c] + 1]
      /\ h.radio = d.radio + 1
      /\ h.received = d.received /\ h.dropped = d.dropped
      /\ h.tokens = d.tokens /\ h.idle = d.idle
  BY <1>1, Handed
<1>3. t \in 0..Credit(d, s) /\ Credit(d, s) \in 0..4
  BY TokensWithinCredit, BurstIs
<1>4. d.held \in [Bands -> Nat] /\ d.sent \in [Bands -> Nat]
      /\ d.tokens \in [Slices -> 0..Burst] /\ d.idle \in [Slices -> 0..Burst]
  BY DEF Discs
<1>5. e = [h EXCEPT !.tokens[s] = t - 2, !.idle[s] = 0]
  BY BurstIs DEF Pass
<1> HIDE DEF c, t, h, e
<1>6. /\ e = [h EXCEPT !.tokens = [d.tokens EXCEPT ![s] = t - 2],
                      !.idle = [d.idle EXCEPT ![s] = 0]]
      /\ [d.tokens EXCEPT ![s] = t - 2] \in [Slices -> 0..Burst]
      /\ [d.idle EXCEPT ![s] = 0] \in [Slices -> 0..Burst]
  <2>1. [d.tokens EXCEPT ![s] = t - 2] \in [Slices -> 0..Burst]
    BY <1>1, <1>3, <1>4, BurstIs
  <2>2. [d.idle EXCEPT ![s] = 0] \in [Slices -> 0..Burst]
    BY <1>4, BurstIs
  <2>3. e = [h EXCEPT !.tokens = [d.tokens EXCEPT ![s] = t - 2],
                      !.idle = [d.idle EXCEPT ![s] = 0]]
    BY <1>2, <1>5 DEF Discs
  <2> QED
    BY <2>1, <2>2, <2>3
<1>7. /\ e \in Discs
      /\ e.held = h.held /\ e.sent = h.sent /\ e.radio = h.radio
      /\ e.received = d.received /\ e.dropped = d.dropped
      /\ e.tokens = [d.tokens EXCEPT ![s] = t - 2] /\ e.idle = [d.idle EXCEPT ![s] = 0]
  BY <1>2, <1>6 DEF Discs
<1>8. ASSUME NEW b \in Bands
      PROVE  e.held[b] + e.sent[b] = d.held[b] + d.sent[b] /\ e.held[b] <= d.held[b]
  BY <1>2, <1>4, <1>7
<1>9. Credit(e, s) = t - 2
  <2>1. e.tokens[s] = t - 2 /\ e.idle[s] = 0
    BY <1>4, <1>7
  <2>2. MaxLimit * 0 = 0
    BY MaxLimitIs
  <2> QED
    BY <1>1, <1>3, <2>1, <2>2, BurstIs DEF Credit, Least
<1>10. ASSUME NEW z \in Slices
       PROVE  Size * (e.sent[SLICE_BAND[z]] - d.sent[SLICE_BAND[z]]) + Credit(e, z) <= Credit(d, z)
  <2>1. CASE z = s
    <3>1. e.sent[c] = d.sent[c] + 1 /\ d.sent[c] \in Nat
      BY <1>1, <1>2, <1>4, <1>7
    <3> QED
      BY <1>1, <1>3, <1>9, <2>1, <3>1, BurstIs DEF c
  <2>2. CASE z # s
    <3>1. SLICE_BAND[z] # c /\ SLICE_BAND[z] \in Bands
      BY <2>2, BandsApart DEF c
    <3>2. e.sent[SLICE_BAND[z]] = d.sent[SLICE_BAND[z]] /\ d.sent[SLICE_BAND[z]] \in Nat
      BY <1>2, <1>4, <1>7, <3>1
    <3>3. Credit(e, z) = Credit(d, z)
      BY <1>4, <1>7, <2>2 DEF Credit
    <3> QED
      BY <3>2, <3>3, TokensWithinCredit, BurstIs
  <2> QED
    BY <2>1, <2>2
<1>11. Ran(d, e)
  BY <1>7, <1>8, <1>10 DEF Ran
<1> QED
  BY <1>2, <1>7, <1>11 DEF e

LEMMA Awaited ==
  ASSUME NEW d \in Discs, NEW s \in Slices
  PROVE  Ran(d, Await(d, s)) /\ Await(d, s).radio = d.radio
<1>1. CASE Waiting(d, s) /\ ~Ready(d, s) /\ d.timer[s] = Never
  <2> DEFINE e == Await(d, s)
             a == Size - Tokens(d, s)
             r == d.rate[s]
             t == [d.timer EXCEPT ![s] = RoundUp(a, r)]
  <2>1. a \in 1..2
    BY <1>1, TokensWithinCredit, BurstIs DEF Ready
  <2>2. r \in Nat /\ r >= 1
    BY MaxLimitIs DEF Discs
  <2>3. RoundUp(a, r) \in Nat
    <3> HIDE DEF a, r
    <3>1. a + r - 1 \in Nat
      BY <2>1, <2>2
    <3> DEFINE n == a + r - 1
    <3>2. n \in Nat
      BY <3>1
    <3> HIDE DEF n
    <3>3. n \div r \in Nat
      BY <2>2, <3>2
    <3> QED
      BY <3>3 DEF RoundUp, n
  <2>4. t \in [Slices -> Nat \cup {Never}]
    BY <2>3 DEF Discs
  <2>5. e = [d EXCEPT !.timer = t]
    BY <1>1 DEF Await, Discs
  <2> HIDE DEF e, t
  <2>6. /\ e \in Discs /\ e.radio = d.radio /\ e.held = d.held /\ e.sent = d.sent
        /\ e.received = d.received /\ e.dropped = d.dropped
        /\ e.tokens = d.tokens /\ e.idle = d.idle
    BY <2>4, <2>5 DEF Discs
  <2>7. Ran(d, e)
    BY <2>6, RanSelf DEF Ran, Credit
  <2> QED
    BY <2>6, <2>7 DEF e
<1>2. CASE ~(Waiting(d, s) /\ ~Ready(d, s) /\ d.timer[s] = Never)
  BY <1>2, RanSelf DEF Await
<1> QED
  BY <1>1, <1>2

(* One answer of the root or of a bucket. *)
LEMMA RootServes ==
  ASSUME NEW d \in Discs
  PROVE  /\ Ran(d, ServeRoot(d))
         /\ Stopped(d) => ServeRoot(d) = d
         /\ ~Stopped(d) /\ d.held[SLICE_BAND_CTRL] > 0 => ServeRoot(d).radio = d.radio + 1
<1>1. CASE Stopped(d)
  BY <1>1, RanSelf DEF ServeRoot
<1>2. CASE ~Stopped(d) /\ d.held[SLICE_BAND_CTRL] > 0
  BY <1>2, ControlHanded DEF ServeRoot
<1>3. CASE ~Stopped(d) /\ ~(d.held[SLICE_BAND_CTRL] > 0)
  <2> DEFINE url == Await(d, 2)
             emb == Await(url, 1)
             mmt == Await(emb, 3)
  <2>1. Ran(d, url) /\ url \in Discs /\ url.radio = d.radio
    BY Awaited DEF Slices, Ran
  <2> HIDE DEF url
  <2>2. Ran(url, emb) /\ emb \in Discs /\ emb.radio = d.radio
    BY <2>1, Awaited DEF Slices, Ran
  <2> HIDE DEF emb
  <2>3. Ran(emb, mmt)
    BY <2>2, Awaited DEF Slices, Ran
  <2>4. ~Stopped(url) /\ ~Stopped(emb)
    BY <1>3, <2>1, <2>2 DEF Stopped
  <2> HIDE DEF mmt
  <2>5. Ready(d, 2) => Ran(d, Pass(d, 2))
    BY <1>3, SlicePassed DEF Slices
  <2>6. Ready(url, 1) => Ran(d, Pass(url, 1))
    BY <2>1, <2>4, SlicePassed, RanOn DEF Slices
  <2>7. Ran(d, emb)
    BY <2>1, <2>2, RanOn
  <2>8. Ready(emb, 3) => Ran(d, Pass(emb, 3))
    BY <2>2, <2>4, <2>7, SlicePassed, RanOn DEF Slices
  <2>9. Ran(d, mmt)
    BY <2>3, <2>7, RanOn
  <2>10. ServeRoot(d) = IF Ready(d, 2) THEN Pass(d, 2)
                        ELSE IF Ready(url, 1) THEN Pass(url, 1)
                        ELSE IF Ready(emb, 3) THEN Pass(emb, 3) ELSE mmt
    BY <1>3 DEF ServeRoot, url, emb, mmt
  <2> QED
    BY <1>3, <2>5, <2>6, <2>8, <2>9, <2>10
<1> QED
  BY <1>1, <1>2, <1>3

LEMMA BucketServes ==
  ASSUME NEW d \in Discs, NEW s \in Slices
  PROVE  /\ Ran(d, ServeBucket(d, s))
         /\ Stopped(d) => ServeBucket(d, s) = d
BY RanSelf, SlicePassed, Awaited DEF ServeBucket, ServeBucket_Unwired

(* A whole Run, by its turns. *)
LEMMA RootRuns ==
  ASSUME NEW d \in Discs
  PROVE  /\ Ran(d, RunRoot(d))
         /\ RunRoot(d).held[SLICE_BAND_CTRL] > 0 => Stopped(RunRoot(d))
<1> DEFINE Is(run) == run = [n \in 0..RadioCap |-> IF n = 0 THEN d ELSE ServeRoot(run[n - 1])]
           run == CHOOSE run : Is(run)
<1>1. RunRoot(d) = run[RadioCap]
  BY DEF RunRoot
<1>2. \E f : Is(f)
  <2> DEFINE F == [x \in Discs |-> ServeRoot(x)]
  <2>1. F \in [Discs -> Discs]
    BY RootServes DEF Ran
  <2>2. PICK g \in [0..RadioCap -> Discs] :
          \A n \in 0..RadioCap : g[n] = IF n = 0 THEN d ELSE F[g[n - 1]]
    <3>1. RadioCap \in Nat
      BY QdiscAssumption
    <3> HIDE DEF F
    <3> QED
      BY <2>1, <3>1, Iterates
  <2>3. \A n \in 0..RadioCap : n # 0 => g[n - 1] \in Discs
    BY QdiscAssumption
  <2>4. \A n \in 0..RadioCap : g[n] = IF n = 0 THEN d ELSE ServeRoot(g[n - 1])
    BY <2>2, <2>3
  <2>5. Is(g)
    BY <2>4
  <2> QED
    BY <2>5
<1>3. Is(run)
  <2> HIDE DEF Is
  <2> QED
    BY <1>2
<1> HIDE DEF run
<1>4. /\ RadioCap \in Nat /\ run[0] = d
      /\ \A n \in 0..RadioCap : n # RadioCap => run[n + 1] = ServeRoot(run[n])
  <2>1. RadioCap \in Nat
    BY QdiscAssumption
  <2>2. run[0] = d
    BY <1>3, <2>1
  <2>3. ASSUME NEW n \in 0..RadioCap, n # RadioCap PROVE run[n + 1] = ServeRoot(run[n])
    <3>1. n + 1 \in 0..RadioCap /\ n + 1 # 0 /\ n + 1 - 1 = n
      BY <2>1, <2>3
    <3> QED
      BY <1>3, <3>1
  <2> QED
    BY <2>1, <2>2, <2>3
<1> HIDE DEF Is
(* As long as control waits and there is room, each turn fills the radio.  *)
<1> DEFINE Turned(n) ==
             /\ Ran(d, run[n])
             /\ Stopped(run[n]) \/ run[n].held[SLICE_BAND_CTRL] = 0 \/ run[n].radio >= n
           G == {n \in 0..RadioCap : Turned(n)}
<1>5. 0 \in G
  BY <1>4, RanSelf DEF Discs
<1>6. ASSUME NEW n \in 0..RadioCap, n # RadioCap, n \in G PROVE n + 1 \in G
  <2> DEFINE x == run[n]
             y == run[n + 1]
  <2>1. Ran(d, x) /\ x \in Discs
    BY <1>6 DEF Ran
  <2>2. y = ServeRoot(x)
    BY <1>4, <1>6
  <2>3. /\ Ran(x, y) /\ (Stopped(x) => y = x)
        /\ ~Stopped(x) /\ x.held[SLICE_BAND_CTRL] > 0 => y.radio = x.radio + 1
    BY <2>1, <2>2, RootServes
  <2>4. Stopped(x) \/ x.held[SLICE_BAND_CTRL] = 0 \/ x.radio >= n
    BY <1>6
  <2> HIDE DEF x, y
  <2>5. y.held[SLICE_BAND_CTRL] <= x.held[SLICE_BAND_CTRL] /\ y \in Discs
    BY <2>3, BandsApart DEF Ran
  <2>6. x.held[SLICE_BAND_CTRL] \in Nat /\ y.held[SLICE_BAND_CTRL] \in Nat /\ x.radio \in Nat
    BY <2>1, <2>5, BandsApart DEF Discs
  <2>7. Stopped(y) \/ y.held[SLICE_BAND_CTRL] = 0 \/ y.radio >= n + 1
    BY <2>3, <2>4, <2>5, <2>6
  <2>8. Ran(d, y)
    BY <2>1, <2>3, RanOn
  <2>9. n + 1 \in 0..RadioCap
    BY <1>4, <1>6
  <2> QED
    BY <2>7, <2>8, <2>9 DEF y
<1>7. RadioCap \in G
  <2> HIDE DEF G
  <2>1. 0..RadioCap \subseteq G
    BY <1>4, <1>5, <1>6, UpTo
  <2> QED
    BY <1>4, <2>1
<1>8. Turned(RadioCap)
  BY <1>7
<1> QED
  BY <1>1, <1>4, <1>8 DEF Stopped

LEMMA BucketRuns ==
  ASSUME NEW d \in Discs, NEW s \in Slices
  PROVE  Ran(d, RunBucket(d, s)) /\ (Stopped(d) => RunBucket(d, s) = d)
<1> DEFINE Is(run) == run = [n \in 0..RadioCap |-> IF n = 0 THEN d ELSE ServeBucket(run[n - 1], s)]
           run == CHOOSE run : Is(run)
<1>1. RunBucket(d, s) = run[RadioCap]
  BY DEF RunBucket
<1>2. \E f : Is(f)
  <2> DEFINE F == [x \in Discs |-> ServeBucket(x, s)]
  <2>1. F \in [Discs -> Discs]
    BY BucketServes DEF Ran
  <2>2. PICK g \in [0..RadioCap -> Discs] :
          \A n \in 0..RadioCap : g[n] = IF n = 0 THEN d ELSE F[g[n - 1]]
    <3>1. RadioCap \in Nat
      BY QdiscAssumption
    <3> HIDE DEF F
    <3> QED
      BY <2>1, <3>1, Iterates
  <2>3. \A n \in 0..RadioCap : n # 0 => g[n - 1] \in Discs
    BY QdiscAssumption
  <2>4. \A n \in 0..RadioCap : g[n] = IF n = 0 THEN d ELSE ServeBucket(g[n - 1], s)
    BY <2>2, <2>3
  <2>5. Is(g)
    BY <2>4
  <2> QED
    BY <2>5
<1>3. Is(run)
  <2> HIDE DEF Is
  <2> QED
    BY <1>2
<1> HIDE DEF run
<1>4. /\ RadioCap \in Nat /\ run[0] = d
      /\ \A n \in 0..RadioCap : n # RadioCap => run[n + 1] = ServeBucket(run[n], s)
  <2>1. RadioCap \in Nat
    BY QdiscAssumption
  <2>2. run[0] = d
    BY <1>3, <2>1
  <2>3. ASSUME NEW n \in 0..RadioCap, n # RadioCap PROVE run[n + 1] = ServeBucket(run[n], s)
    <3>1. n + 1 \in 0..RadioCap /\ n + 1 # 0 /\ n + 1 - 1 = n
      BY <2>1, <2>3
    <3> QED
      BY <1>3, <3>1
  <2> QED
    BY <2>1, <2>2, <2>3
<1> HIDE DEF Is
<1> DEFINE G == {n \in 0..RadioCap : Ran(d, run[n]) /\ (Stopped(d) => run[n] = d)}
<1>5. 0 \in G
  BY <1>4, RanSelf
<1>6. ASSUME NEW n \in 0..RadioCap, n # RadioCap, n \in G PROVE n + 1 \in G
  <2> DEFINE x == run[n]
             y == run[n + 1]
  <2>1. Ran(d, x) /\ x \in Discs /\ (Stopped(d) => x = d)
    BY <1>6 DEF Ran
  <2>2. y = ServeBucket(x, s)
    BY <1>4, <1>6
  <2> HIDE DEF x, y
  <2>3. Ran(x, y) /\ (Stopped(x) => y = x)
    BY <2>1, <2>2, BucketServes
  <2>4. Ran(d, y) /\ (Stopped(d) => y = d)
    BY <2>1, <2>3, RanOn
  <2>5. n + 1 \in 0..RadioCap
    BY <1>4, <1>6
  <2> QED
    BY <2>4, <2>5 DEF y
<1>7. RadioCap \in G
  <2> HIDE DEF G
  <2>1. 0..RadioCap \subseteq G
    BY <1>4, <1>5, <1>6, UpTo
  <2> QED
    BY <1>4, <2>1
<1> QED
  BY <1>1, <1>7

-----------------------------------------------------------------------------
TypeOK ==
  /\ disc \in Discs
  /\ arrived \in [0..3 -> Nat]
  /\ excess \in [Slices -> Nat]
  /\ retunes \in Nat

(* What a band took in was sent, was dropped or is held. *)
AccountedFor(d) == \A b \in Bands : d.received[b] = d.sent[b] + d.dropped[b] + d.held[b]

(* A band takes in one slice's packets, or control's. *)
CountedApart ==
  /\ disc.received[SLICE_BAND_CTRL] = arrived[0]
  /\ \A s \in Slices : disc.received[SLICE_BAND[s]] = arrived[s]

ControlGoes(d) == d.held[SLICE_BAND_CTRL] > 0 => Stopped(d)

(* What a slice has sent in excess and may send at once is one burst.      *)
WithinBurst == \A s \in Slices : excess[s] + Credit(disc, s) <= Burst

IInv == TypeOK /\ AccountedFor(disc) /\ CountedApart /\ ControlGoes(disc) /\ WithinBurst

(* By its mark a packet takes its slice's band, control its own. *)
LEMMA Classified ==
  ASSUME NEW k \in Kinds
  PROVE  /\ k.slice \in 0..3
         /\ DoClassify(k) = IF k.slice = 0 THEN SLICE_BAND_CTRL ELSE SLICE_BAND[k.slice]
         /\ DoClassify(k) \in Bands
<1>1. k.slice \in 0..3 /\ k.ipv4 \in BOOLEAN /\ k.tos \in 0..255
  BY QdiscAssumption
<1>2. CASE k.slice = 0
  <2>1. k.ipv4 => SliceIdFromTos(k.tos) \notin Slices
    BY <1>2, MarksAssumption DEF Slices
  <2>2. SliceIdFromTos(k.tos) \in 0..7
    BY <1>1 DEF SliceIdFromTos
  <2>3. k.ipv4 => SLICE_ID_BAND[SliceIdFromTos(k.tos) + 1] = 0
    BY <2>1, <2>2 DEF SLICE_ID_BAND, Slices
  <2> QED
    BY <1>2, <2>3 DEF DoClassify, PRIOMAP, SLICE_BAND_CTRL, Bands
<1>3. CASE k.slice # 0
  <2>1. k.slice \in Slices /\ k.ipv4 /\ k.tos = SliceTos[k.slice]
    BY <1>1, <1>3, MarksAssumption DEF Slices
  <2>2. SliceIdFromTos(k.tos) = k.slice
    BY <2>1 DEF SliceTos, SliceIdFromTos, Slices
  <2>3. SLICE_ID_BAND[k.slice + 1] = SLICE_BAND[k.slice]
    BY <2>1 DEF SLICE_ID_BAND, SLICE_BAND, Slices
  <2> QED
    BY <1>1, <1>3, <2>1, <2>2, <2>3, BandsApart DEF DoClassify
<1> QED
  BY <1>1, <1>2, <1>3

LEMMA Initially == Init => IInv
<1>1. SUFFICES ASSUME Init PROVE IInv
  OBVIOUS
<1>2. PICK rate \in Limits : rate >= MinLimit /\ disc = Installed(rate)
  BY <1>1 DEF Init
<1>3. rate \in 1..MaxLimit
  BY <1>2, MaxLimitIs, QdiscAssumption
<1>4. disc \in Discs
  BY <1>2, <1>3, BurstIs, QdiscAssumption DEF Installed, Discs
<1>5. arrived = [s \in 0..3 |-> 0] /\ excess = [s \in Slices |-> 0] /\ retunes = 0
  BY <1>1 DEF Init
<1>6. AccountedFor(disc) /\ CountedApart /\ ControlGoes(disc)
  BY <1>2, <1>5, BandsApart DEF AccountedFor, CountedApart, ControlGoes, Installed, Slices
<1>7. WithinBurst
  BY <1>4, <1>5, TokensWithinCredit, BurstIs DEF WithinBurst
<1> QED
  BY <1>4, <1>5, <1>6, <1>7 DEF IInv, TypeOK

(* A step that ends in a Run from d, where d has sent nothing yet.         *)
LEMMA RunSteps ==
  ASSUME IInv, NEW d \in Discs, NEW e, Ran(d, e), Becomes(e), AccountedFor(d),
         d.sent = disc.sent, d.tokens = disc.tokens, d.idle = disc.idle
  PROVE  /\ disc' = e /\ disc' \in Discs /\ disc'.received = d.received
         /\ AccountedFor(disc')
         /\ excess' \in [Slices -> Nat] /\ WithinBurst'
<1>1. /\ disc' = e /\ e \in Discs /\ e.received = d.received /\ e.dropped = d.dropped
      /\ excess' = [s \in Slices |-> excess[s] + Sent(s, e)]
      /\ disc \in Discs /\ excess \in [Slices -> Nat]
  BY DEF Becomes, Ran, IInv, TypeOK
<1>2. AccountedFor(e)
  <2>1. ASSUME NEW b \in Bands PROVE e.received[b] = e.sent[b] + e.dropped[b] + e.held[b]
    <3>1. /\ d.held[b] \in Nat /\ d.sent[b] \in Nat /\ d.dropped[b] \in Nat
          /\ e.held[b] \in Nat /\ e.sent[b] \in Nat
      BY <1>1 DEF Discs
    <3>2. /\ d.received[b] = d.sent[b] + d.dropped[b] + d.held[b]
          /\ e.held[b] + e.sent[b] = d.held[b] + d.sent[b]
      BY DEF AccountedFor, Ran
    <3> QED
      BY <1>1, <3>1, <3>2
  <2> QED
    BY <2>1 DEF AccountedFor
<1>3. ASSUME NEW s \in Slices
      PROVE  excess[s] + Sent(s, e) \in Nat /\ excess[s] + Sent(s, e) + Credit(e, s) <= Burst
  <2> DEFINE c == SLICE_BAND[s]
             m == e.sent[c] - d.sent[c]
  <2>1. c \in Bands
    BY BandsApart
  <2> HIDE DEF c
  <2>2. /\ e.held[c] \in Nat /\ e.sent[c] \in Nat /\ d.held[c] \in Nat /\ d.sent[c] \in Nat
        /\ e.held[c] + e.sent[c] = d.held[c] + d.sent[c] /\ e.held[c] <= d.held[c]
    BY <1>1, <2>1 DEF Discs, Ran
  <2>3. m \in Nat /\ Sent(s, e) = Size * m
    BY <2>2 DEF Sent, c
  <2>4. Size * m + Credit(e, s) <= Credit(d, s)
    BY DEF Ran, c
  <2>5. Credit(d, s) = Credit(disc, s)
    BY DEF Credit
  <2>6. excess[s] + Credit(disc, s) <= Burst
    BY DEF IInv, WithinBurst
  <2>7. Credit(e, s) \in Nat /\ Credit(disc, s) \in Nat /\ excess[s] \in Nat
    BY <1>1, TokensWithinCredit, BurstIs
  <2> HIDE DEF m
  <2> QED
    BY <2>3, <2>4, <2>5, <2>6, <2>7, BurstIs
<1>4. excess' \in [Slices -> Nat]
  BY <1>1, <1>3
<1>5. WithinBurst'
  <2>1. \A s \in Slices : excess'[s] = excess[s] + Sent(s, e) /\ Credit(disc', s) = Credit(e, s)
    BY <1>1
  <2> QED
    BY <1>3, <2>1 DEF WithinBurst
<1> QED
  BY <1>1, <1>2, <1>4, <1>5

LEMMA EnqueueSteps ==
  ASSUME IInv, NEW k \in Kinds, Enqueue(k)
  PROVE  IInv'
<1> DEFINE b == DoClassify(k)
           seen == [disc EXCEPT !.received[b] = @ + 1]
           d == IF disc.held[b] < Depth THEN [seen EXCEPT !.held[b] = @ + 1]
                ELSE [seen EXCEPT !.dropped[b] = @ + 1]
           e == RunRoot(d)
<1>1. b \in Bands /\ k.slice \in 0..3
      /\ b = IF k.slice = 0 THEN SLICE_BAND_CTRL ELSE SLICE_BAND[k.slice]
  BY Classified
<1>2. /\ Becomes(e) /\ UNCHANGED retunes
      /\ arrived' = [arrived EXCEPT ![k.slice] = @ + 1]
  BY DEF Enqueue
<1>3. disc \in Discs /\ AccountedFor(disc) /\ arrived \in [0..3 -> Nat] /\ retunes \in Nat
      /\ CountedApart
  BY DEF IInv, TypeOK
<1> HIDE DEF b
<1>4. /\ d \in Discs
      /\ d.sent = disc.sent /\ d.tokens = disc.tokens /\ d.idle = disc.idle
      /\ d.received = [disc.received EXCEPT ![b] = disc.received[b] + 1]
      /\ AccountedFor(d)
  <2>1. /\ disc.held \in [Bands -> Nat] /\ disc.received \in [Bands -> Nat]
        /\ disc.dropped \in [Bands -> Nat] /\ disc.sent \in [Bands -> Nat]
    BY <1>3 DEF Discs
  <2> DEFINE received == [disc.received EXCEPT ![b] = disc.received[b] + 1]
             held == [disc.held EXCEPT ![b] = disc.held[b] + 1]
             dropped == [disc.dropped EXCEPT ![b] = disc.dropped[b] + 1]
  <2>2. /\ received \in [Bands -> Nat] /\ held \in [Bands -> Nat] /\ dropped \in [Bands -> Nat]
    BY <1>1, <2>1
  <2>3. seen = [disc EXCEPT !.received = received]
    BY <1>3 DEF Discs
  <2>4. CASE disc.held[b] < Depth
    <3>1. d = [disc EXCEPT !.received = received, !.held = held]
      BY <1>3, <2>3, <2>4 DEF Discs
    <3> HIDE DEF d, received, held
    <3>2. /\ d \in Discs /\ d.received = received /\ d.held = held /\ d.dropped = disc.dropped
          /\ d.sent = disc.sent /\ d.tokens = disc.tokens /\ d.idle = disc.idle
      BY <1>3, <2>2, <3>1 DEF Discs
    <3>3. ASSUME NEW c \in Bands PROVE d.received[c] = d.sent[c] + d.dropped[c] + d.held[c]
      <4>1. /\ d.received[c] = IF c = b THEN disc.received[c] + 1 ELSE disc.received[c]
            /\ d.held[c] = IF c = b THEN disc.held[c] + 1 ELSE disc.held[c]
        BY <1>1, <2>1, <3>2 DEF received, held
      <4>2. /\ disc.received[c] = disc.sent[c] + disc.dropped[c] + disc.held[c]
            /\ disc.sent[c] \in Nat /\ disc.dropped[c] \in Nat /\ disc.held[c] \in Nat
        BY <1>3, <2>1 DEF AccountedFor
      <4> QED
        BY <3>2, <4>1, <4>2
    <3>4. AccountedFor(d)
      BY <3>3 DEF AccountedFor
    <3> QED
      BY <3>2, <3>4 DEF received
  <2>5. CASE ~(disc.held[b] < Depth)
    <3>1. d = [disc EXCEPT !.received = received, !.dropped = dropped]
      BY <1>3, <2>3, <2>5 DEF Discs
    <3> HIDE DEF d, received, dropped
    <3>2. /\ d \in Discs /\ d.received = received /\ d.held = disc.held /\ d.dropped = dropped
          /\ d.sent = disc.sent /\ d.tokens = disc.tokens /\ d.idle = disc.idle
      BY <1>3, <2>2, <3>1 DEF Discs
    <3>3. ASSUME NEW c \in Bands PROVE d.received[c] = d.sent[c] + d.dropped[c] + d.held[c]
      <4>1. /\ d.received[c] = IF c = b THEN disc.received[c] + 1 ELSE disc.received[c]
            /\ d.dropped[c] = IF c = b THEN disc.dropped[c] + 1 ELSE disc.dropped[c]
        BY <1>1, <2>1, <3>2 DEF received, dropped
      <4>2. /\ disc.received[c] = disc.sent[c] + disc.dropped[c] + disc.held[c]
            /\ disc.sent[c] \in Nat /\ disc.dropped[c] \in Nat /\ disc.held[c] \in Nat
        BY <1>3, <2>1 DEF AccountedFor
      <4> QED
        BY <3>2, <4>1, <4>2
    <3>4. AccountedFor(d)
      BY <3>3 DEF AccountedFor
    <3> QED
      BY <3>2, <3>4 DEF received
  <2> QED
    BY <2>4, <2>5
<1> HIDE DEF d
<1>5. Ran(d, e) /\ ControlGoes(e)
  BY <1>4, RootRuns DEF ControlGoes
<1> HIDE DEF e
<1>6. /\ disc' = e /\ disc' \in Discs /\ disc'.received = d.received
      /\ AccountedFor(disc')
      /\ excess' \in [Slices -> Nat] /\ WithinBurst'
  BY <1>2, <1>4, <1>5, RunSteps
<1>7. arrived' \in [0..3 -> Nat]
  BY <1>1, <1>2, <1>3
<1>8. CountedApart'
  <2>1. disc.received \in [Bands -> Nat]
    BY <1>3 DEF Discs
  <2>2. disc'.received[SLICE_BAND_CTRL] = arrived'[0]
    BY <1>1, <1>2, <1>3, <1>4, <1>6, <2>1, BandsApart DEF CountedApart, Slices
  <2>3. ASSUME NEW s \in Slices PROVE disc'.received[SLICE_BAND[s]] = arrived'[s]
    <3>1. s \in 0..3 /\ s # 0 /\ (k.slice # 0 => k.slice \in Slices)
      BY <1>1 DEF Slices
    <3>2. b = SLICE_BAND[s] <=> k.slice = s
      BY <1>1, <3>1, BandsApart
    <3>3. disc.received[SLICE_BAND[s]] = arrived[s] /\ SLICE_BAND[s] \in Bands
      BY <1>3, BandsApart DEF CountedApart
    <3> QED
      BY <1>1, <1>2, <1>3, <1>4, <1>6, <2>1, <3>1, <3>2, <3>3
  <2> QED
    BY <2>2, <2>3 DEF CountedApart
<1> QED
  BY <1>2, <1>3, <1>5, <1>6, <1>7, <1>8 DEF IInv, TypeOK

LEMMA TransmitSteps ==
  ASSUME IInv, Transmit
  PROVE  IInv'
<1> DEFINE d == [disc EXCEPT !.radio = @ - 1]
           e == IF Stopped(disc) THEN RunRoot(d) ELSE d
<1>1. /\ disc.radio > 0 /\ Becomes(e) /\ arrived' = arrived /\ retunes' = retunes
  BY DEF Transmit
<1>2. disc \in Discs /\ AccountedFor(disc) /\ CountedApart /\ ControlGoes(disc)
      /\ arrived \in [0..3 -> Nat] /\ retunes \in Nat
  BY DEF IInv, TypeOK
<1>3. disc.radio - 1 \in 0..RadioCap
  BY <1>1, <1>2, QdiscAssumption DEF Discs
<1>4. /\ d \in Discs /\ d.radio = disc.radio - 1 /\ d.held = disc.held
      /\ d.sent = disc.sent /\ d.tokens = disc.tokens /\ d.idle = disc.idle
      /\ d.received = disc.received /\ d.dropped = disc.dropped
  BY <1>2, <1>3 DEF Discs
<1> HIDE DEF d
<1>5. AccountedFor(d)
  BY <1>2, <1>4 DEF AccountedFor
<1>6. Ran(d, e) /\ ControlGoes(e)
  BY <1>2, <1>4, RootRuns, RanSelf DEF ControlGoes
<1> HIDE DEF e
<1>7. /\ disc' = e /\ disc' \in Discs /\ disc'.received = d.received
      /\ AccountedFor(disc')
      /\ excess' \in [Slices -> Nat] /\ WithinBurst'
  BY <1>1, <1>4, <1>5, <1>6, RunSteps
<1>8. CountedApart'
  BY <1>1, <1>2, <1>4, <1>7 DEF CountedApart
<1> QED
  BY <1>1, <1>2, <1>6, <1>7, <1>8 DEF IInv, TypeOK

LEMMA TimerSteps ==
  ASSUME IInv, NEW s \in Slices, TimerFires(s)
  PROVE  IInv'
<1> DEFINE d == [disc EXCEPT !.timer[s] = Never]
           e == RunBucket(d, s)
<1>1. Becomes(e) /\ arrived' = arrived /\ retunes' = retunes
  BY DEF TimerFires
<1>2. disc \in Discs /\ AccountedFor(disc) /\ CountedApart /\ ControlGoes(disc)
      /\ arrived \in [0..3 -> Nat] /\ retunes \in Nat
  BY DEF IInv, TypeOK
<1> DEFINE timer == [disc.timer EXCEPT ![s] = Never]
<1>3. timer \in [Slices -> Nat \cup {Never}] /\ d = [disc EXCEPT !.timer = timer]
  BY <1>2 DEF Discs
<1> HIDE DEF timer, d
<1>4. /\ d \in Discs /\ d.radio = disc.radio /\ d.held = disc.held
      /\ d.sent = disc.sent /\ d.tokens = disc.tokens /\ d.idle = disc.idle
      /\ d.received = disc.received /\ d.dropped = disc.dropped
  BY <1>2, <1>3 DEF Discs
<1>5. AccountedFor(d)
  BY <1>2, <1>4 DEF AccountedFor
<1>6. Ran(d, e) /\ (Stopped(d) => e = d)
  BY <1>4, BucketRuns
<1> HIDE DEF e
<1>7. /\ disc' = e /\ disc' \in Discs /\ disc'.received = d.received
      /\ AccountedFor(disc')
      /\ excess' \in [Slices -> Nat] /\ WithinBurst'
  BY <1>1, <1>4, <1>5, <1>6, RunSteps
<1>8. ControlGoes(e)
  <2>1. e.held[SLICE_BAND_CTRL] <= d.held[SLICE_BAND_CTRL]
    BY <1>6, BandsApart DEF Ran
  <2>2. d.held[SLICE_BAND_CTRL] \in Nat /\ e.held[SLICE_BAND_CTRL] \in Nat
    BY <1>4, <1>7, BandsApart DEF Discs
  <2>3. d.held[SLICE_BAND_CTRL] > 0 => Stopped(d) /\ e = d
    BY <1>2, <1>4, <1>6 DEF ControlGoes, Stopped
  <2> QED
    BY <2>1, <2>2, <2>3 DEF ControlGoes
<1>9. CountedApart'
  BY <1>1, <1>2, <1>4, <1>7 DEF CountedApart
<1> QED
  BY <1>1, <1>2, <1>7, <1>8, <1>9 DEF IInv, TypeOK

(* A tick adds no more to a slice's credit than it takes off its excess,   *)
(* unless the credit is a full burst, when there is no excess left.        *)
LEMMA TickSteps ==
  ASSUME IInv, Tick
  PROVE  IInv'
<1>1. disc \in Discs /\ AccountedFor(disc) /\ CountedApart /\ ControlGoes(disc) /\ WithinBurst
      /\ arrived \in [0..3 -> Nat] /\ retunes \in Nat /\ excess \in [Slices -> Nat]
  BY DEF IInv, TypeOK
<1> DEFINE idle == [s \in Slices |-> Least(Burst, disc.idle[s] + 1)]
           timer == [s \in Slices |-> IF disc.timer[s] = Never THEN Never ELSE disc.timer[s] - 1]
<1>2. /\ \A s \in Slices : disc.timer[s] # 0
      /\ disc' = [disc EXCEPT !.idle = idle, !.timer = timer]
      /\ excess' = [s \in Slices |-> IF excess[s] > MaxLimit THEN excess[s] - MaxLimit ELSE 0]
      /\ arrived' = arrived /\ retunes' = retunes
  BY <1>1 DEF Tick, Discs
<1>3. idle \in [Slices -> 0..Burst] /\ timer \in [Slices -> Nat \cup {Never}]
  BY <1>1, <1>2, BurstIs DEF Discs, Least
<1> HIDE DEF timer
<1>4. /\ disc' \in Discs /\ disc'.radio = disc.radio /\ disc'.held = disc.held
      /\ disc'.sent = disc.sent /\ disc'.tokens = disc.tokens /\ disc'.idle = idle
      /\ disc'.received = disc.received /\ disc'.dropped = disc.dropped
  BY <1>1, <1>2, <1>3 DEF Discs
<1>5. excess' \in [Slices -> Nat]
  <2>1. \A s \in Slices : excess[s] \in Nat
    BY <1>1
  <2> QED
    BY <1>2, <2>1, MaxLimitIs
<1>6. ASSUME NEW s \in Slices PROVE excess'[s] + Credit(disc', s) <= Burst
  <2> DEFINE t == disc.tokens[s]
             i == disc.idle[s]
             x == MaxLimit * i
             y == MaxLimit * idle[s]
  <2>1. /\ t \in Nat /\ i \in 0..4 /\ excess[s] \in Nat /\ MaxLimit \in Nat /\ MaxLimit >= 1
        /\ idle[s] = IF i < 4 THEN i + 1 ELSE 4
    BY <1>1, MaxLimitIs, QdiscAssumption, BurstIs DEF Discs, Least
  <2>2. Credit(disc, s) = Least(4, t + x) /\ Credit(disc', s) = Least(4, t + y)
    BY <1>4, BurstIs DEF Credit
  <2>3. x \in Nat /\ y \in Nat /\ IF i < 4 THEN y = x + MaxLimit ELSE y = x /\ x >= 4
    <3> HIDE DEF i, idle
    <3>1. CASE i = 0
      BY <2>1, <3>1
    <3>2. CASE i = 1
      BY <2>1, <3>2
    <3>3. CASE i = 2
      BY <2>1, <3>3
    <3>4. CASE i = 3
      BY <2>1, <3>4
    <3>5. CASE i = 4
      BY <2>1, <3>5
    <3> QED
      BY <2>1, <3>1, <3>2, <3>3, <3>4, <3>5
  <2>4. excess[s] + Credit(disc, s) <= 4
    BY <1>1, BurstIs DEF WithinBurst
  <2>5. excess'[s] = IF excess[s] > MaxLimit THEN excess[s] - MaxLimit ELSE 0
    BY <1>2
  <2> HIDE DEF t, i, x, y
  <2> QED
    BY <2>1, <2>2, <2>3, <2>4, <2>5, BurstIs DEF Least
<1>7. AccountedFor(disc') /\ CountedApart' /\ ControlGoes(disc')
  BY <1>1, <1>2, <1>4 DEF AccountedFor, CountedApart, ControlGoes, Stopped
<1>8. WithinBurst'
  BY <1>6 DEF WithinBurst
<1> QED
  BY <1>1, <1>2, <1>4, <1>5, <1>7, <1>8 DEF IInv, TypeOK

LEMMA RetuneSteps ==
  ASSUME IInv, NEW limits \in [Slices -> Limits], SetSliceRatesOn(limits)
  PROVE  IInv'
<1>1. disc \in Discs /\ AccountedFor(disc) /\ CountedApart /\ ControlGoes(disc) /\ WithinBurst
      /\ arrived \in [0..3 -> Nat] /\ retunes \in Nat /\ excess \in [Slices -> Nat]
  BY DEF IInv, TypeOK
<1> DEFINE rate == [s \in Slices |-> Floored(limits[s])]
<1>2. /\ disc' = [disc EXCEPT !.rate = rate]
      /\ arrived' = arrived /\ retunes' = retunes + 1 /\ excess' = excess
  BY DEF SetSliceRatesOn
<1>3. rate \in [Slices -> 1..MaxLimit]
  <2>1. ASSUME NEW r \in Limits PROVE Floored(r) \in 1..MaxLimit
    BY MaxLimitIs, QdiscAssumption DEF Floored
  <2> QED
    BY <2>1
<1> HIDE DEF rate
<1>4. /\ disc' \in Discs /\ disc'.radio = disc.radio /\ disc'.held = disc.held
      /\ disc'.sent = disc.sent /\ disc'.tokens = disc.tokens /\ disc'.idle = disc.idle
      /\ disc'.received = disc.received /\ disc'.dropped = disc.dropped
  BY <1>1, <1>2, <1>3 DEF Discs
<1>5. AccountedFor(disc') /\ CountedApart' /\ ControlGoes(disc') /\ WithinBurst'
  BY <1>1, <1>2, <1>4 DEF AccountedFor, CountedApart, ControlGoes, WithinBurst, Credit, Stopped
<1> QED
  BY <1>1, <1>2, <1>4, <1>5 DEF IInv, TypeOK

LEMMA DiscardSteps ==
  ASSUME IInv, NEW s \in Slices, Discard(s)
  PROVE  IInv'
<1> DEFINE c == SLICE_BAND[s]
           held == [disc.held EXCEPT ![c] = disc.held[c] - 1]
           dropped == [disc.dropped EXCEPT ![c] = disc.dropped[c] + 1]
<1>1. disc \in Discs /\ AccountedFor(disc) /\ CountedApart /\ ControlGoes(disc) /\ WithinBurst
      /\ arrived \in [0..3 -> Nat] /\ retunes \in Nat /\ excess \in [Slices -> Nat]
  BY DEF IInv, TypeOK
<1>2. /\ disc.held[c] > 0 /\ disc' = [disc EXCEPT !.held = held, !.dropped = dropped]
      /\ arrived' = arrived /\ retunes' = retunes /\ excess' = excess
  BY <1>1 DEF Discard, Discs
<1>3. c \in Bands /\ c # SLICE_BAND_CTRL /\ SLICE_BAND_CTRL \in Bands
      /\ disc.held \in [Bands -> Nat] /\ disc.dropped \in [Bands -> Nat]
      /\ disc.sent \in [Bands -> Nat]
  BY <1>1, BandsApart DEF Discs
<1> HIDE DEF c
<1>4. held \in [Bands -> Nat] /\ dropped \in [Bands -> Nat]
  BY <1>2, <1>3
<1>5. \A b \in Bands : /\ held[b] = IF b = c THEN disc.held[b] - 1 ELSE disc.held[b]
                       /\ dropped[b] = IF b = c THEN disc.dropped[b] + 1 ELSE disc.dropped[b]
  BY <1>3
<1> HIDE DEF held, dropped
<1>6. /\ disc' \in Discs /\ disc'.radio = disc.radio /\ disc'.held = held
      /\ disc'.sent = disc.sent /\ disc'.tokens = disc.tokens /\ disc'.idle = disc.idle
      /\ disc'.received = disc.received /\ disc'.dropped = dropped
  BY <1>1, <1>2, <1>4 DEF Discs
<1>7. AccountedFor(disc')
  <2>1. ASSUME NEW b \in Bands
        PROVE  disc'.received[b] = disc'.sent[b] + disc'.dropped[b] + disc'.held[b]
    <3>1. disc.received[b] = disc.sent[b] + disc.dropped[b] + disc.held[b]
          /\ disc.sent[b] \in Nat /\ disc.dropped[b] \in Nat /\ disc.held[b] \in Nat
      BY <1>1, <1>3 DEF AccountedFor
    <3> QED
      BY <1>5, <1>6, <3>1
  <2> QED
    BY <2>1 DEF AccountedFor
<1>8. CountedApart' /\ ControlGoes(disc') /\ WithinBurst'
  BY <1>1, <1>2, <1>3, <1>5, <1>6 DEF CountedApart, ControlGoes, WithinBurst, Credit, Stopped
<1> QED
  BY <1>1, <1>2, <1>6, <1>7, <1>8 DEF IInv, TypeOK

(* Every action keeps the inductive invariant. *)
THEOREM Invariance == Spec => []IInv
<1>1. ASSUME IInv, [Next]_vars PROVE IInv'
  <2>1. CASE UNCHANGED vars
    <3>1. disc' = disc /\ arrived' = arrived /\ excess' = excess /\ retunes' = retunes
      BY <2>1 DEF vars
    <3> QED
      BY <1>1, <3>1 DEF IInv, TypeOK, AccountedFor, CountedApart, ControlGoes, WithinBurst, Stopped
  <2>2. CASE Next
    BY <1>1, <2>2, EnqueueSteps, TransmitSteps, TimerSteps, TickSteps, RetuneSteps, DiscardSteps
       DEF Next
  <2> QED
    BY <1>1, <2>1, <2>2
<1> QED
  BY <1>1, Initially, PTL DEF Spec

(* traffic-control.h:60-63.  Whatever the limits are, packets without a    *)
(* mark are all in the control band, and wait there for the radio only.    *)
THEOREM ControlHasItsWay == Spec => []ControlWaitsForRadioOnly
<1>1. IInv => ControlWaitsForRadioOnly
  BY DEF IInv, CountedApart, ControlGoes, ControlWaitsForRadioOnly, Enqueued
<1> QED
  BY <1>1, Invariance, PTL

(* traffic-control.cc:74-86, 241-260.  By the root or around it, and over  *)
(* any number of retunes, a slice sends one burst above its highest limit. *)
THEOREM BurstsAreBounded == Spec => []RateHonoured
<1>1. IInv => RateHonoured
  <2>1. SUFFICES ASSUME IInv, NEW s \in Slices PROVE excess[s] <= MTU_BYTES
    BY DEF RateHonoured
  <2>2. excess[s] + Credit(disc, s) <= Burst /\ excess[s] \in Nat /\ Credit(disc, s) \in Nat
    BY <2>1, TokensWithinCredit, BurstIs DEF IInv, TypeOK, WithinBurst
  <2> QED
    BY <2>2, BurstIs DEF Burst, MTU_BYTES
<1> QED
  BY <1>1, Invariance, PTL

(* traffic-control.cc:198.  Neither way of sending overfills the radio.    *)
THEOREM RadioHasRoom == Spec => []RadioNotOverrun
<1>1. IInv => RadioNotOverrun
  BY QdiscAssumption DEF IInv, TypeOK, Discs, RadioNotOverrun
<1> QED
  BY <1>1, Invariance, PTL

(* traffic-control.h:142-148.  The bytes the controller takes for a        *)
(* slice's demand are that slice's, and none of them is unaccounted for.   *)
THEOREM DemandIsOwn == Spec => []OfferedIsOwnTraffic
<1>1. IInv => OfferedIsOwnTraffic
  <2>1. SUFFICES ASSUME IInv, NEW s \in Slices
        PROVE  LET b == SLICE_BAND[s] IN
               /\ SliceOfferedBytes(s) = Size * arrived[s]
               /\ SliceOfferedBytes(s) = Size * (disc.sent[b] + disc.dropped[b]) + SliceBacklogBytes(s)
    BY DEF OfferedIsOwnTraffic, Policed
  <2> DEFINE b == SLICE_BAND[s]
  <2>2. /\ disc.received[b] = arrived[s]
        /\ disc.received[b] = disc.sent[b] + disc.dropped[b] + disc.held[b]
        /\ disc.sent[b] \in Nat /\ disc.dropped[b] \in Nat /\ disc.held[b] \in Nat
    BY <2>1, BandsApart DEF IInv, TypeOK, Discs, CountedApart, AccountedFor
  <2> QED
    BY <2>2, BurstIs DEF SliceOfferedBytes, SliceBacklogBytes
<1> QED
  BY <1>1, Invariance, PTL

=============================================================================
