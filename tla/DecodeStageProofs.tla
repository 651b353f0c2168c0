-------------------------- MODULE DecodeStageProofs --------------------------
(***************************************************************************)
(* DecodeStage.tla and AggregateDecoder.tla for buffers of every length,   *)
(* every event layout, every width of the time stamps and every capacity   *)
(* of the tap: the walk stays in the buffer, good data is read, hits are   *)
(* placed in their epoch and none of them is lost or swapped.              *)
(***************************************************************************)
EXTENDS DecodeStage, FiniteSetTheorems, SequenceTheorems, WellFoundedInduction, TLAPS

-----------------------------------------------------------------------------
(***************************************************************************)
(* The operators. *)

(* A set of naturals that is not empty has a least element. *)
LEMMA MinOfNats ==
    ASSUME NEW S \in SUBSET Nat, S # {}
    PROVE  /\ Min(S) \in S
           /\ \A x \in S : Min(S) <= x
<1> DEFINE Below == {ss \in Nat \X Nat : ss[1] < ss[2]}
<1>1. IsWellFoundedOn(Below, Nat)
  BY NatLessThanWellFounded DEF OpToRel
<1>2. PICK x \in S : \A y \in S : ~(<<y, x>> \in Below)
  <2> HIDE DEF Below
  <2> QED BY <1>1, WFMin, Zenon
<1>3. \A y \in S : x <= y
  <2>1. \A y \in S : y < x => <<y, x>> \in Below
    OBVIOUS
  <2> HIDE DEF Below
  <2>2. \A y \in S : ~(y < x)
    BY <1>2, <2>1, Zenon
  <2> QED BY <2>2
<1>4. \E m \in S : \A y \in S : m <= y
  BY <1>3, Zenon
<1> QED BY <1>4, Zenon DEF Min

(* The larger of two numbers. *)
LEMMA MaxOfTwo ==
    ASSUME NEW a \in Int, NEW b \in Int
    PROVE  Max({a, b}) = IF a >= b THEN a ELSE b
<1>1. \E m \in {a, b} : \A y \in {a, b} : m >= y
  BY SMT
<1>2. Max({a, b}) \in {a, b} /\ \A y \in {a, b} : Max({a, b}) >= y
  BY <1>1, Zenon DEF Max
<1> QED BY <1>2, SMT

(* The smaller of two numbers. *)
LEMMA MinOfTwo ==
    ASSUME NEW a \in Int, NEW b \in Int
    PROVE  Min({a, b}) = IF a <= b THEN a ELSE b
<1>1. \E m \in {a, b} : \A y \in {a, b} : m <= y
  BY SMT
<1>2. Min({a, b}) \in {a, b} /\ \A y \in {a, b} : Min({a, b}) <= y
  BY <1>1, Zenon DEF Min
<1> QED BY <1>2, SMT

(* Quotient and remainder. *)
LEMMA Quotient ==
    ASSUME NEW a \in Nat, NEW w \in Nat \ {0}
    PROVE  /\ a \div w \in Nat
           /\ a % w \in 0 .. w - 1
           /\ a = (a % w) + (a \div w) * w
           /\ (a \div w) * w <= a
           /\ a \div w <= a
OBVIOUS

(* Multiples of w are at least w apart. *)
LEMMA MultiplesApart ==
    ASSUME NEW a \in Int, NEW b \in Int, NEW w \in Nat \ {0}, a < b
    PROVE  a * w + w <= b * w
<1>1. (b - a - 1) * w >= 0
  BY SMT
<1>2. (b - a - 1) * w = b * w - a * w - w
  BY SMT
<1>3. a * w \in Int /\ b * w \in Int
  BY SMT
<1> QED BY <1>1, <1>2, <1>3, SMT

(* A number lies in one interval of width w only. *)
LEMMA QuotientUnique ==
    ASSUME NEW r \in Nat, NEW q \in Nat, NEW s \in Nat, NEW p \in Nat, NEW w \in Nat \ {0},
           r < w, s < w, r + q * w <= s + p * w
    PROVE  q <= p
<1>1. SUFFICES ASSUME p < q PROVE FALSE
  OBVIOUS
<1>2. p * w + w <= q * w
  BY <1>1, MultiplesApart
<1>3. p * w \in Nat /\ q * w \in Nat
  BY SMT
<1> QED BY <1>2, <1>3, SMT

(* Of up to three epochs one is the first of those with the least distance. *)
LEMMA LeastOfThree ==
    ASSUME NEW lo \in Nat, NEW hi \in Nat, lo <= hi, hi <= lo + 2, NEW f \in [lo .. hi -> Nat]
    PROVE  \E k \in lo .. hi : \A j \in lo .. hi : f[k] < f[j] \/ (f[k] = f[j] /\ k <= j)
<1> DEFINE First(k) == \A j \in lo .. hi : f[k] < f[j] \/ (f[k] = f[j] /\ k <= j)
<1>1. CASE hi = lo
  <2>1. lo \in lo .. hi /\ \A j \in lo .. hi : j = lo
    BY <1>1
  <2>2. First(lo)
    BY <2>1
  <2> QED BY <2>1, <2>2
<1>2. CASE hi = lo + 1
  <2>1. \A j \in lo .. hi : j = lo \/ j = lo + 1
    BY <1>2
  <2>2. lo \in lo .. hi /\ lo + 1 \in lo .. hi /\ f[lo] \in Nat /\ f[lo + 1] \in Nat
    BY <1>2
  <2>3. f[lo] <= f[lo + 1] => First(lo)
    BY <2>1, <2>2
  <2>4. f[lo + 1] < f[lo] => First(lo + 1)
    BY <2>1, <2>2
  <2>5. f[lo] <= f[lo + 1] \/ f[lo + 1] < f[lo]
    BY <2>2
  <2> HIDE DEF First
  <2>6. \E k \in lo .. hi : First(k)
    BY <2>2, <2>3, <2>4, <2>5
  <2> QED BY <2>6 DEF First
<1>3. CASE hi = lo + 2
  <2>1. \A j \in lo .. hi : j = lo \/ j = lo + 1 \/ j = lo + 2
    BY <1>3
  <2>2. /\ lo \in lo .. hi /\ lo + 1 \in lo .. hi /\ lo + 2 \in lo .. hi
        /\ f[lo] \in Nat /\ f[lo + 1] \in Nat /\ f[lo + 2] \in Nat
    BY <1>3
  <2>3. f[lo] <= f[lo + 1] /\ f[lo] <= f[lo + 2] => First(lo)
    BY <2>1, <2>2
  <2>4. f[lo + 1] < f[lo] /\ f[lo + 1] <= f[lo + 2] => First(lo + 1)
    BY <2>1, <2>2
  <2>5. f[lo + 2] < f[lo] /\ f[lo + 2] < f[lo + 1] => First(lo + 2)
    BY <2>1, <2>2
  <2>6. \/ f[lo] <= f[lo + 1] /\ f[lo] <= f[lo + 2]
        \/ f[lo + 1] < f[lo] /\ f[lo + 1] <= f[lo + 2]
        \/ f[lo + 2] < f[lo] /\ f[lo + 2] < f[lo + 1]
    BY <2>2
  <2> HIDE DEF First
  <2>7. \E k \in lo .. hi : First(k)
    BY <2>2, <2>3, <2>4, <2>5, <2>6
  <2> QED BY <2>7 DEF First
<1> QED BY <1>1, <1>2, <1>3

ClockType == [epoch : Nat, reference : Nat, seen : BOOLEAN]

(* How far epoch k puts raw from the clock's reference. *)
Off(c, raw, range, k) == Distance(raw + k * range, c.reference)

(* Epoch k is the one unwrap() should choose. *)
Nearest(c, raw, range, k) ==
    /\ k \in Candidates(c)
    /\ \A j \in Candidates(c) : \/ Off(c, raw, range, k) < Off(c, raw, range, j)
                                \/ Off(c, raw, range, k) = Off(c, raw, range, j) /\ k <= j

(* Distances are numbers. *)
LEMMA OffType ==
    ASSUME NEW c \in ClockType, NEW raw \in Nat, NEW range \in Nat, NEW k \in Nat
    PROVE  /\ k * range \in Nat
           /\ Off(c, raw, range, k) \in Nat
<1>1. k * range \in Nat
  BY SMT
<1>2. c.reference \in Nat
  BY DEF ClockType
<1> DEFINE m == k * range
<1> HIDE DEF m
<1>3. m \in Nat => Distance(raw + m, c.reference) \in Nat
  BY <1>2 DEF Distance
<1> QED BY <1>1, <1>3 DEF Off, m

(* The epochs that are tried are one, two or three in a row. *)
LEMMA CandidatesType ==
    ASSUME NEW c \in ClockType
    PROVE  \E lo, hi \in Nat : /\ lo <= hi
                               /\ hi <= lo + 2
                               /\ Candidates(c) = lo .. hi
                               /\ lo <= c.epoch
                               /\ c.epoch <= hi
<1>1. c.epoch \in Nat /\ c.seen \in BOOLEAN
  BY DEF ClockType
<1>2. CASE c.seen /\ c.epoch > 0
  <2>1. Candidates(c) = c.epoch - 1 .. c.epoch + 1
    BY <1>2 DEF Candidates
  <2> QED BY <1>1, <1>2, <2>1
<1>3. CASE c.seen /\ ~(c.epoch > 0)
  <2>1. Candidates(c) = 0 .. c.epoch + 1
    BY <1>3 DEF Candidates
  <2>2. c.epoch = 0
    BY <1>1, <1>3
  <2> QED BY <1>1, <2>1, <2>2
<1>4. CASE ~c.seen
  <2>1. Candidates(c) = {c.epoch}
    BY <1>4 DEF Candidates
  <2>2. {c.epoch} = c.epoch .. c.epoch
    BY <1>1
  <2> QED BY <1>1, <2>1, <2>2
<1> QED BY <1>1, <1>2, <1>3, <1>4

(* unwrap() chooses the nearest epoch, and there is always one. *)
LEMMA BestIsNearest ==
    ASSUME NEW c \in ClockType, NEW raw \in Nat, NEW range \in Nat
    PROVE  Nearest(c, raw, range, Best(c, raw, range))
<1>1. PICK lo \in Nat, hi \in Nat :
          lo <= hi /\ hi <= lo + 2 /\ Candidates(c) = lo .. hi
  BY CandidatesType
<1> DEFINE f == [k \in lo .. hi |-> Off(c, raw, range, k)]
<1>2. f \in [lo .. hi -> Nat]
  <2>1. \A k \in lo .. hi : k \in Nat
    OBVIOUS
  <2> QED BY <2>1, OffType
<1>3. \E k \in lo .. hi : \A j \in lo .. hi : f[k] < f[j] \/ (f[k] = f[j] /\ k <= j)
  <2> HIDE DEF f
  <2> QED BY <1>1, <1>2, LeastOfThree
<1>4. \E k \in Candidates(c) : Nearest(c, raw, range, k)
  BY <1>1, <1>3, Zenon DEF Nearest
<1> QED BY <1>4, Zenon DEF Best, Off, Nearest

(* There is only one. *)
LEMMA NearestUnique ==
    ASSUME NEW c \in ClockType, NEW raw \in Nat, NEW range \in Nat, NEW k,
           Nearest(c, raw, range, k)
    PROVE  Best(c, raw, range) = k
<1> DEFINE b == Best(c, raw, range)
           x == Off(c, raw, range, k)
           y == Off(c, raw, range, b)
<1>1. Nearest(c, raw, range, b)
  BY BestIsNearest
<1>2. k \in Nat /\ b \in Nat
  BY <1>1, CandidatesType DEF Nearest
<1>3. x \in Nat /\ y \in Nat
  BY <1>2, OffType
<1>4. /\ x < y \/ (x = y /\ k <= b)
      /\ y < x \/ (y = x /\ b <= k)
  BY <1>1 DEF Nearest
<1> HIDE DEF b, x, y
<1>5. b = k
  BY <1>2, <1>3, <1>4
<1> QED BY <1>5 DEF b

(* A clock with a reference time in the epoch it gives. *)
ClockAt(c, time, range) == /\ c.reference = time
                           /\ c.epoch = time \div range

(* The heart of unwrap(): a time within half a range of the reference is    *)
(* placed right.                                                            *)
LEMMA UnwrapIsRight ==
    ASSUME NEW c \in ClockType, NEW range \in Nat \ {0}, NEW ref \in Nat, NEW t \in Nat,
           c.seen, ClockAt(c, ref, range),
           2 * t >= 2 * ref - range, 2 * t < 2 * ref + range
    PROVE  /\ Best(c, t % range, range) = t \div range
           /\ Unwrapped(c, t % range, range) = t
<1> DEFINE raw == t % range
           k == t \div range
           e == ref \div range
           r == ref % range
<1>1. /\ raw \in 0 .. range - 1 /\ k \in Nat /\ t = raw + k * range
      /\ r \in 0 .. range - 1 /\ e \in Nat /\ ref = r + e * range
  BY Quotient
<1>2. k * range \in Nat /\ e * range \in Nat
  BY <1>1
<1> HIDE DEF raw, k, e, r
<1>3. k <= e + 1
  <2>1. SUFFICES ASSUME e + 1 < k PROVE FALSE
    BY <1>1
  <2>2. (e + 1) * range + range <= k * range
    BY <1>1, <2>1, MultiplesApart
  <2>3. (e + 1) * range = e * range + range
    BY <1>1
  <2> QED BY <1>1, <1>2, <2>2, <2>3
<1>4. e <= k + 1
  <2>1. SUFFICES ASSUME k + 1 < e PROVE FALSE
    BY <1>1
  <2>2. (k + 1) * range + range <= e * range
    BY <1>1, <2>1, MultiplesApart
  <2>3. (k + 1) * range = k * range + range
    BY <1>1
  <2> QED BY <1>1, <1>2, <2>2, <2>3
<1>5. c.epoch = e /\ c.reference = ref
  BY DEF ClockAt, e
<1>6. k \in Candidates(c)
  BY <1>1, <1>3, <1>4, <1>5 DEF Candidates
<1>7. Off(c, raw, range, k) = IF t > ref THEN t - ref ELSE ref - t
  BY <1>1, <1>5 DEF Off, Distance
<1>8. ASSUME NEW j \in Candidates(c)
      PROVE  \/ Off(c, raw, range, k) < Off(c, raw, range, j)
             \/ Off(c, raw, range, k) = Off(c, raw, range, j) /\ k <= j
  <2>1. j \in Nat
    BY CandidatesType
  <2> DEFINE p == j * range
  <2>2. p \in Nat
    BY <2>1, SMT
  <2>3. Off(c, raw, range, j) = IF raw + p > ref THEN raw + p - ref ELSE ref - (raw + p)
    <3>1. Off(c, raw, range, j) = Distance(raw + p, ref)
      BY <1>5 DEF Off
    <3> HIDE DEF p
    <3> QED BY <1>1, <2>2, <3>1 DEF Distance
  <2>4. CASE j = k
    BY <2>1, <2>4
  <2>5. CASE j < k
    <3>1. p + range <= k * range
      BY <1>1, <2>1, <2>5, MultiplesApart
    <3> HIDE DEF p
    <3> QED BY <1>1, <1>2, <1>7, <2>2, <2>3, <3>1
  <2>6. CASE k < j
    <3>1. k * range + range <= p
      BY <1>1, <2>1, <2>6, MultiplesApart
    <3> HIDE DEF p
    <3> QED BY <1>1, <1>2, <1>7, <2>1, <2>2, <2>3, <2>6, <3>1
  <2> QED BY <1>1, <2>1, <2>4, <2>5, <2>6
<1>9. Best(c, raw, range) = k
  BY <1>1, <1>6, <1>8, NearestUnique DEF Nearest
<1> QED BY <1>1, <1>9 DEF Unwrapped, raw, k

(* The clock follows the latest time. *)
LEMMA AdvanceIsRight ==
    ASSUME NEW c \in ClockType, NEW range \in Nat \ {0}, NEW ref \in Nat, NEW t \in Nat,
           ClockAt(c, ref, range), NEW raw,
           Best(c, raw, range) = t \div range, Unwrapped(c, raw, range) = t
    PROVE  ClockAt(Advance(c, raw, range), Max({ref, t}), range)
<1> DEFINE k == t \div range
           e == ref \div range
<1>1. /\ k \in Nat /\ t % range \in 0 .. range - 1 /\ t = (t % range) + k * range
      /\ e \in Nat /\ ref % range \in 0 .. range - 1 /\ ref = (ref % range) + e * range
  BY Quotient
<1>2. ref <= t => e <= k
  BY <1>1, QuotientUnique
<1>3. t <= ref => k <= e
  BY <1>1, QuotientUnique
<1>4. /\ Advance(c, raw, range).epoch = Max({e, k})
      /\ Advance(c, raw, range).reference = Max({ref, t})
  BY DEF Advance, ClockAt
<1> HIDE DEF k, e
<1>5. Max({e, k}) = IF e >= k THEN e ELSE k
  BY <1>1, MaxOfTwo
<1>6. Max({ref, t}) = IF ref >= t THEN ref ELSE t
  BY MaxOfTwo
<1>7. CASE ref >= t
  <2>1. Max({e, k}) = e
    BY <1>1, <1>3, <1>5, <1>7
  <2> QED BY <1>4, <1>6, <1>7, <2>1 DEF ClockAt, e
<1>8. CASE ref < t
  <2>1. Max({e, k}) = k
    BY <1>1, <1>2, <1>5, <1>8
  <2>2. Max({ref, t}) = t
    BY <1>6, <1>8
  <2> QED BY <1>4, <2>2, <2>1 DEF ClockAt, k
<1> QED BY <1>7, <1>8

-----------------------------------------------------------------------------
(* The walk over a buffer. *)

WalkType == [at : {"idle", "scan", "couple", "event", "end"}, offset : 0 .. NumWords,
             aggEnd : 0 .. NumWords, pos : 0 .. NumWords, left : SUBSET Couples,
             size : 0 .. NumWords, evtSize : Nat, hasTS : BOOLEAN,
             n : 0 .. NumWords, evt : 0 .. NumWords]

(* Where the walk stands: the events of a couple fit into the couple, the    *)
(* couple into the aggregate and the aggregate into the buffer.              *)
Walking ==
    /\ walk.at \in {"couple", "event"} => walk.offset + kAggHeaderWords <= walk.pos
    /\ walk.at = "couple" => walk.pos <= walk.aggEnd
    /\ walk.at = "event" => /\ walk.pos + walk.size <= walk.aggEnd
                            /\ walk.size >= 2
                            /\ walk.evtSize # 0
                            /\ walk.n = (walk.size - 2) \div walk.evtSize
                            /\ walk.evt <= walk.n
                            /\ walk.left # {}

(* Every step of the decoder. *)
Finish == walk.at = "end" /\ walk' = Idle /\ UNCHANGED <<boardVars, flagged, timeVars>>
DecoderStep == Begin \/ WalkStep \/ Emit \/ Finish

(* The events of a couple are in the couple. *)
LEMMA EventsFit ==
    ASSUME NEW size \in 0 .. NumWords, size >= 2, NEW evtSize \in Nat \ {0}
    PROVE  /\ (size - 2) \div evtSize \in 0 .. NumWords
           /\ 2 + ((size - 2) \div evtSize) * evtSize <= size
<1> DEFINE a == size - 2
           q == a \div evtSize
           m == q * evtSize
<1>1. a \in Nat /\ size = a + 2 /\ NumWords \in Nat
  BY WordsAssumption
<1>2. q \in Nat /\ q <= a /\ m <= a
  BY <1>1, Quotient
<1>3. m \in Nat
  BY <1>2
<1> HIDE DEF a, q, m
<1>4. q \in 0 .. NumWords /\ 2 + m <= size
  BY <1>1, <1>2, <1>3
<1> QED BY <1>4 DEF a, q, m

(* A walk with new fields of their types is a walk. *)
LEMMA WalkUpdates ==
    ASSUME NEW w \in WalkType, NEW at \in {"idle", "scan", "couple", "event", "end"},
           NEW x \in 0 .. NumWords, NEW y \in 0 .. NumWords, NEW z \in 0 .. NumWords,
           NEW couples \in SUBSET Couples, NEW e \in Nat, NEW ts \in BOOLEAN
    PROVE  /\ [w EXCEPT !.at = at, !.offset = x] \in WalkType
           /\ [w EXCEPT !.at = at, !.left = couples, !.pos = x, !.aggEnd = y] \in WalkType
           /\ [w EXCEPT !.at = at, !.pos = x, !.left = couples, !.size = y, !.evtSize = e,
                        !.hasTS = ts, !.n = z, !.evt = z] \in WalkType
<1>1. [w EXCEPT !.at = at, !.offset = x] \in WalkType
  BY Zenon DEF WalkType
<1>2. [w EXCEPT !.at = at, !.left = couples, !.pos = x, !.aggEnd = y] \in WalkType
  BY Zenon DEF WalkType
<1>3. [w EXCEPT !.at = at, !.pos = x, !.left = couples, !.size = y, !.evtSize = e,
                !.hasTS = ts, !.n = z, !.evt = z] \in WalkType
  BY Zenon DEF WalkType
<1> QED BY <1>1, <1>2, <1>3, Zenon

(* The same for the step into the events of a couple. *)
LEMMA WalkToEvents ==
    ASSUME NEW w \in WalkType, NEW size \in 0 .. NumWords, NEW evtSize \in Nat,
           NEW ts \in BOOLEAN, NEW n \in 0 .. NumWords
    PROVE  [w EXCEPT !.at = "event", !.size = size, !.evtSize = evtSize, !.hasTS = ts,
                     !.n = n, !.evt = 0] \in WalkType
<1>1. 0 \in 0 .. NumWords
  BY WordsAssumption
<1> QED BY <1>1, Zenon DEF WalkType

(* The walk before a buffer is one. *)
LEMMA IdleType == Idle \in WalkType
<1>1. 0 \in 0 .. NumWords
  BY WordsAssumption
<1> QED BY <1>1, Zenon DEF WalkType, Idle

(* Every step of the decoder keeps the walk in the buffer. *)
LEMMA WalkStays ==
    ASSUME walk \in WalkType, Walking, DecoderStep
    PROVE  walk' \in WalkType /\ Walking'
<1> USE WordsAssumption, CouplesAssumption DEF kAggHeaderWords
<1>0. 0 \in 0 .. NumWords /\ 0 \in Nat /\ {} \in SUBSET Couples /\ FALSE \in BOOLEAN
  OBVIOUS
<1>1. CASE Begin
  <2>1. walk' \in WalkType
    BY <1>0, <1>1, WalkUpdates, Zenon DEF Begin
  <2>2. walk'.at = "scan"
    BY <1>1 DEF Begin, WalkType
  <2> QED BY <2>1, <2>2 DEF Walking
<1>2. CASE ScanEnd
  BY <1>2 DEF ScanEnd, End, WalkType, Walking
<1>3. CASE ScanSkip
  BY <1>3 DEF ScanSkip, HeaderFits, WalkType, Walking
<1>4. CASE ScanShort
  BY <1>4 DEF ScanShort, HeaderFits, WalkType, Walking
<1>5. CASE ScanAggregate
  <2>1. PICK aggLen \in kAggHeaderWords .. NumWords + 1, mask \in SUBSET Couples,
             known \in BOOLEAN :
          \/ End
          \/ /\ Fits(aggLen)
             /\ walk' = IF known
                        THEN [walk EXCEPT !.at = "couple", !.left = mask,
                                          !.pos = walk.offset + kAggHeaderWords,
                                          !.aggEnd = walk.offset + aggLen]
                        ELSE [walk EXCEPT !.offset = @ + aggLen]
    BY <1>5, Zenon DEF ScanAggregate
  <2>2. walk.at = "scan" /\ HeaderFits
    BY <1>5 DEF ScanAggregate
  <2>3. CASE End
    BY <2>2, <2>3 DEF End, WalkType, Walking
  <2>4. CASE Fits(aggLen) /\ walk' = [walk EXCEPT !.at = "couple", !.left = mask,
                                          !.pos = walk.offset + kAggHeaderWords,
                                          !.aggEnd = walk.offset + aggLen]
    <3>1. walk' \in WalkType
      <4>1. /\ walk.offset + kAggHeaderWords \in 0 .. NumWords
            /\ walk.offset + aggLen \in 0 .. NumWords
        BY <2>2, <2>4 DEF Fits, HeaderFits, WalkType
      <4> QED BY <2>4, <4>1, WalkUpdates, Zenon
    <3>2. /\ walk'.at = "couple" /\ walk'.offset = walk.offset
          /\ walk'.pos = walk.offset + kAggHeaderWords
          /\ walk'.aggEnd = walk.offset + aggLen
      BY <2>4 DEF WalkType
    <3>3. walk.offset \in Nat
      BY DEF WalkType
    <3> QED BY <3>1, <3>2, <3>3 DEF Walking
  <2>5. CASE Fits(aggLen) /\ walk' = [walk EXCEPT !.offset = @ + aggLen]
    BY <2>2, <2>5 DEF Fits, HeaderFits, WalkType, Walking
  <2> QED BY <2>1, <2>3, <2>4, <2>5
<1>6. CASE Return /\ walk.at = "couple"
  <2>1. walk' \in WalkType
    <3>1. walk.aggEnd \in 0 .. NumWords
      BY Zenon DEF WalkType
    <3> QED BY <1>6, <3>1, IdleType, WalkUpdates, Zenon DEF Return
  <2>2. walk'.at = "scan"
    BY <1>6 DEF Return, Idle, WalkType
  <2> QED BY <2>1, <2>2 DEF Walking
<1>7. ASSUME walk.at \in {"couple", "event"}, NEW size \in 0 .. NumWords,
             walk.pos + size <= walk.aggEnd, NextCouple(size)
      PROVE  walk' \in WalkType /\ Walking'
  <2> DEFINE rest == walk.left \ {Min(walk.left)}
  <2>1. rest \in SUBSET Couples
    BY DEF WalkType
  <2>2. walk' = [walk EXCEPT !.at = "couple", !.pos = @ + size, !.left = rest,
                             !.size = 0, !.evtSize = 0, !.hasTS = FALSE, !.n = 0, !.evt = 0]
    BY <1>7 DEF NextCouple
  <2> HIDE DEF rest
  <2>3. walk.pos + size \in 0 .. NumWords
    BY <1>7 DEF WalkType
  <2>4. walk' \in WalkType
    BY <1>0, <2>1, <2>2, <2>3, WalkUpdates, Zenon
  <2>5. /\ walk'.at = "couple" /\ walk'.offset = walk.offset
        /\ walk'.pos = walk.pos + size /\ walk'.aggEnd = walk.aggEnd
    BY <2>2 DEF WalkType
  <2>6. walk.offset \in Nat /\ walk.pos \in Nat
    BY DEF WalkType
  <2> QED BY <1>7, <2>4, <2>5, <2>6 DEF Walking
<1>8. CASE Couple
  <2>1. PICK size \in 0 .. NumWords, evtSize \in EvtSizes \cup {EvtSize}, hasTS \in BOOLEAN :
          \/ Return
          \/ /\ Plausible(size, evtSize)
             /\ \/ NextCouple(size)
                \/ walk' = [walk EXCEPT !.at = "event", !.size = size,
                                        !.evtSize = evtSize, !.hasTS = hasTS,
                                        !.n = (size - 2) \div evtSize, !.evt = 0]
    BY <1>8, Zenon DEF Couple
  <2>2. walk.at = "couple" /\ walk.left # {}
    BY <1>8 DEF Couple
  <2>3. CASE Return
    BY <1>6, <2>2, <2>3
  <2>4. ASSUME Plausible(size, evtSize), NextCouple(size)
        PROVE  walk' \in WalkType /\ Walking'
    BY <1>7, <2>2, <2>4 DEF Plausible
  <2>5. ASSUME Plausible(size, evtSize),
               walk' = [walk EXCEPT !.at = "event", !.size = size,
                                    !.evtSize = evtSize, !.hasTS = hasTS,
                                    !.n = (size - 2) \div evtSize, !.evt = 0]
        PROVE  walk' \in WalkType /\ Walking'
    <3>1. evtSize \in Nat \ {0} /\ size >= 2 /\ walk.pos + size <= walk.aggEnd
      BY <2>5 DEF Plausible
    <3> DEFINE n == (size - 2) \div evtSize
    <3>2. n \in 0 .. NumWords
      BY <3>1, EventsFit
    <3>3. walk' = [walk EXCEPT !.at = "event", !.size = size,
                                    !.evtSize = evtSize, !.hasTS = hasTS,
                                    !.n = n, !.evt = 0]
      BY <2>5
    <3>4. /\ walk'.at = "event" /\ walk'.size = size /\ walk'.evtSize = evtSize
          /\ walk'.n = n /\ walk'.evt = 0 /\ walk'.left = walk.left
          /\ walk'.pos = walk.pos /\ walk'.aggEnd = walk.aggEnd /\ walk'.offset = walk.offset
      <4> HIDE DEF n
      <4> QED BY <3>3 DEF WalkType
    <3>5. walk' \in WalkType
      <4> HIDE DEF n
      <4> QED BY <3>1, <3>2, <3>3, WalkToEvents, Zenon
    <3> QED BY <2>2, <3>1, <3>2, <3>4, <3>5 DEF Walking
  <2> QED BY <2>1, <2>3, <2>4, <2>5
<1>9. CASE EventsDone
  BY <1>7, <1>9 DEF EventsDone, WalkType, Walking
<1>10. CASE Emit
  <2>1. walk.at = "event" /\ walk.evt < walk.n /\ walk' = [walk EXCEPT !.evt = @ + 1]
    BY <1>10, Zenon DEF Emit, TimedEvent, UntimedEvent
  <2> QED BY <2>1 DEF WalkType, Walking
<1>11. CASE Finish
  BY <1>11 DEF Finish, Idle, WalkType, Walking
<1> QED BY <1>1, <1>2, <1>3, <1>4, <1>5, <1>6, <1>8, <1>9, <1>10, <1>11, Zenon
        DEF DecoderStep, WalkStep, CouplesDone, CoupleMissing

-----------------------------------------------------------------------------
(* The clock. *)

EventType == [timed : BOOLEAN, true : Nat, placed : Nat]

(* The counters have a width. *)
LEMMA Widths == /\ Wrap \in Nat \ {0}
                /\ ExtendedWrap \in Nat \ {0}
                /\ CoupleRange \in {Wrap, ExtendedWrap}
BY WrapAssumption DEF CoupleRange

(* unwrap() gives a time, and the clock stays one. *)
LEMMA UnwrapType ==
    ASSUME NEW c \in ClockType, NEW raw \in Nat, NEW range \in Nat
    PROVE  /\ Best(c, raw, range) \in Nat
           /\ Unwrapped(c, raw, range) \in Nat
           /\ Advance(c, raw, range) \in ClockType
<1>1. Best(c, raw, range) \in Nat
  <2>1. Best(c, raw, range) \in Candidates(c)
    BY BestIsNearest DEF Nearest
  <2>2. PICK lo \in Nat, hi \in Nat : Candidates(c) = lo .. hi
    BY CandidatesType
  <2> QED BY <2>1, <2>2
<1>2. Unwrapped(c, raw, range) \in Nat
  <2> DEFINE m == Best(c, raw, range) * range
  <2>1. m \in Nat
    BY <1>1, SMT
  <2> HIDE DEF m
  <2>2. raw + m \in Nat
    BY <2>1
  <2> QED BY <2>2 DEF Unwrapped, m
<1>3. c.epoch \in Nat /\ c.reference \in Nat
  BY DEF ClockType
<1>4. /\ Max({c.epoch, Best(c, raw, range)}) \in Nat
      /\ Max({c.reference, Unwrapped(c, raw, range)}) \in Nat
  BY <1>1, <1>2, <1>3, MaxOfTwo
<1>5. TRUE \in BOOLEAN
  OBVIOUS
<1>6. Advance(c, raw, range) \in ClockType
  BY <1>4, <1>5, Zenon DEF Advance, ClockType
<1> QED BY <1>1, <1>2, <1>6

(* The times that the next event may have. *)
LEMMA EventTimes ==
    ASSUME NEW t \in IF sound THEN HitTimes ELSE Stamps
    PROVE  /\ t \in Nat
           /\ sound => t \in 0 .. MaxTime
BY NoiseAssumption, WrapAssumption DEF HitTimes

(* The steps that do not take an event leave clock and front alone, and      *)
(* forget the last event at most.                                            *)
LEMMA QuietSteps ==
    ASSUME DecoderStep
    PROVE  \/ TimedEvent
           \/ clock' = clock /\ front' = front /\ last' \in {last, NoEvent}
BY Zenon DEF DecoderStep, Begin, Finish, Emit, UntimedEvent, WalkStep, ScanEnd, ScanSkip, ScanShort,
             ScanAggregate, CouplesDone, CoupleMissing, Couple, EventsDone, timeVars

(* No step makes another board of it. *)
LEMMA SameBoard ==
    ASSUME DecoderStep
    PROVE  sound' = sound /\ extended' = extended
BY Zenon DEF DecoderStep, Begin, Finish, Emit, TimedEvent, UntimedEvent, WalkStep, ScanEnd, ScanSkip,
             ScanShort, ScanAggregate, CouplesDone, CoupleMissing, Couple, EventsDone, boardVars

(* The decoder keeps its types. *)
LEMMA DecoderTypes ==
    ASSUME DecoderTypeOK, Walking, DecoderStep
    PROVE  DecoderTypeOK'
<1>1. walk \in WalkType /\ clock \in ClockType /\ last \in EventType
  BY DEF DecoderTypeOK, WalkType, ClockType, EventType
<1>2. walk' \in WalkType
  BY <1>1, WalkStays
<1>3. flagged' \in BOOLEAN
  BY Zenon DEF DecoderTypeOK, DecoderStep, Begin, Finish, Emit, TimedEvent, UntimedEvent, WalkStep,
               ScanEnd, ScanSkip, ScanShort, ScanAggregate, CouplesDone, CoupleMissing, Couple,
               EventsDone
<1>4. clock' \in ClockType /\ front' \in 0 .. MaxTime /\ last' \in EventType
  <2>1. CASE TimedEvent
    <3>1. PICK t \in IF sound THEN HitTimes ELSE Stamps :
             LET raw == t % CoupleRange
             IN  /\ clock' = Advance(clock, raw, CoupleRange)
                 /\ last' = [timed |-> TRUE, true |-> t,
                             placed |-> Unwrapped(clock, raw, CoupleRange)]
                 /\ front' = IF sound THEN Max({front, t}) ELSE front
      BY <2>1, Zenon DEF TimedEvent
    <3>2. t \in Nat /\ (sound => t \in 0 .. MaxTime)
      BY EventTimes
    <3> DEFINE raw == t % CoupleRange
    <3>3. raw \in Nat /\ CoupleRange \in Nat
      BY <3>2, Widths, Quotient
    <3>4. clock' \in ClockType /\ last' \in EventType
      <4> HIDE DEF raw
      <4>1. Unwrapped(clock, raw, CoupleRange) \in Nat /\ Advance(clock, raw, CoupleRange) \in ClockType
        BY <1>1, <3>3, UnwrapType
      <4> QED BY <3>1, <3>2, <4>1, Zenon DEF EventType, raw
    <3>5. front' \in 0 .. MaxTime
      <4>1. front \in 0 .. MaxTime /\ front' = IF sound THEN Max({front, t}) ELSE front
        BY <3>1 DEF DecoderTypeOK
      <4>2. sound => Max({front, t}) \in 0 .. MaxTime
        BY <3>2, <4>1, MaxOfTwo
      <4> QED BY <4>1, <4>2
    <3> QED BY <3>4, <3>5
  <2>2. CASE clock' = clock /\ front' = front /\ last' \in {last, NoEvent}
    <3>1. NoEvent \in EventType
      <4>1. 0 \in Nat /\ FALSE \in BOOLEAN
        OBVIOUS
      <4> QED BY <4>1, Zenon DEF NoEvent, EventType
    <3> QED BY <1>1, <2>2, <3>1, Zenon DEF DecoderTypeOK
  <2> QED BY <2>1, <2>2, QuietSteps
<1> QED BY <1>2, <1>3, <1>4, SameBoard, Zenon DEF DecoderTypeOK, WalkType, ClockType, EventType

(* The couples of a board whose couples agree show a counter of this width.  *)
Width == IF extended = {} THEN Wrap ELSE ExtendedWrap

(* The clock of such a board stands at the latest true time.                 *)
Timing ==
    (sound /\ extended \in {{}, Couples}) =>
        /\ ClockAt(clock, front, Width)
        /\ ~clock.seen => front = 0
        /\ last.timed => last.placed = last.true

(* A hit is placed right from a clock that stands at the latest time. *)
LEMMA HitIsRight ==
    ASSUME DecoderTypeOK, Timing, sound, extended \in {{}, Couples}, NEW t \in HitTimes
    PROVE  /\ Best(clock, t % Width, Width) = t \div Width
           /\ Unwrapped(clock, t % Width, Width) = t
<1>1. clock \in ClockType /\ front \in Nat /\ front <= MaxTime
  BY WrapAssumption DEF DecoderTypeOK, ClockType
<1>2. Width \in Nat \ {0} /\ t \in Nat /\ t <= MaxTime
  BY Widths, WrapAssumption DEF Width, HitTimes
<1>3. ClockAt(clock, front, Width)
  BY DEF Timing
<1>4. CASE clock.seen
  <2>1. 2 * t >= 2 * front - Width /\ 2 * t < 2 * front + Width
    <3>1. CASE extended = {}
      <4>1. Wrap = 2 * (Wrap \div 2) /\ Width = Wrap
        BY <3>1, WrapAssumption DEF Width
      <4>2. t >= front - Wrap \div 2 /\ t < front + Wrap \div 2
        BY <1>4 DEF HitTimes
      <4> DEFINE half == Wrap \div 2
      <4>3. half \in Nat
        BY WrapAssumption
      <4> HIDE DEF half
      <4> QED BY <1>1, <1>2, <4>1, <4>2, <4>3 DEF half
    <3>2. CASE extended # {}
      BY <1>1, <1>2, <3>2, WrapAssumption DEF Width
    <3> QED BY <3>1, <3>2
  <2> QED BY <1>1, <1>2, <1>3, <1>4, <2>1, UnwrapIsRight
<1>5. CASE ~clock.seen
  <2>1. t < Width
    BY <1>2, <1>5, WrapAssumption DEF HitTimes, Width
  <2>2. t % Width = t /\ t \div Width = 0
    BY <1>2, <2>1
  <2>3. clock.epoch = 0
    <3>1. front = 0
      BY <1>5 DEF Timing
    <3>2. 0 \div Width = 0
      BY <1>2
    <3> QED BY <1>3, <3>1, <3>2 DEF ClockAt
  <2>4. Best(clock, t, Width) = 0
    <3>1. Candidates(clock) = {0}
      BY <1>5, <2>3 DEF Candidates
    <3> QED BY <1>1, <1>2, <3>1, BestIsNearest DEF Nearest
  <2>5. Unwrapped(clock, t, Width) = t
    BY <1>2, <2>4 DEF Unwrapped
  <2> QED BY <2>2, <2>4, <2>5
<1>6. clock.seen \in BOOLEAN
  BY <1>1 DEF ClockType
<1> QED BY <1>4, <1>5

(* Every step of the decoder keeps the clock right. *)
LEMMA TimingKept ==
    ASSUME DecoderTypeOK, Walking, Timing, DecoderStep
    PROVE  Timing'
<1>1. sound' = sound /\ extended' = extended
  BY SameBoard
<1>2. SUFFICES ASSUME sound, extended \in {{}, Couples}
               PROVE  /\ ClockAt(clock', front', Width)
                      /\ ~clock'.seen => front' = 0
                      /\ last'.timed => last'.placed = last'.true
  BY <1>1, Zenon DEF Timing, Width, ClockAt
<1>3. CASE TimedEvent
  <2>1. walk.left # {} /\ walk.left \subseteq Couples
    BY <1>3 DEF TimedEvent, Walking, DecoderTypeOK
  <2>2. Min(walk.left) \in Couples
    <3>1. walk.left \in SUBSET Nat
      BY <2>1, CouplesAssumption
    <3> QED BY <2>1, <3>1, MinOfNats
  <2>3. CoupleRange = Width
    BY <1>2, <2>2 DEF CoupleRange, Width
  <2>4. PICK t \in HitTimes :
             LET raw == t % Width
             IN  /\ clock' = Advance(clock, raw, Width)
                 /\ last' = [timed |-> TRUE, true |-> t, placed |-> Unwrapped(clock, raw, Width)]
                 /\ front' = Max({front, t})
    BY <1>2, <1>3, <2>3, Zenon DEF TimedEvent
  <2>5. Best(clock, t % Width, Width) = t \div Width /\ Unwrapped(clock, t % Width, Width) = t
    BY <1>2, HitIsRight
  <2>6. /\ clock \in ClockType /\ front \in Nat /\ t \in Nat /\ Width \in Nat \ {0}
        /\ ClockAt(clock, front, Width)
    BY <1>2, Widths DEF DecoderTypeOK, ClockType, HitTimes, Width, Timing
  <2>7. ClockAt(clock', front', Width)
    BY <2>4, <2>5, <2>6, AdvanceIsRight
  <2>8. clock'.seen
    BY <2>4 DEF Advance
  <2>9. last'.placed = last'.true
    BY <2>4, <2>5
  <2> QED BY <2>7, <2>8, <2>9
<1>4. CASE clock' = clock /\ front' = front /\ last' \in {last, NoEvent}
  <2>1. ~NoEvent.timed
    BY DEF NoEvent
  <2> QED BY <1>2, <1>4, <2>1, Zenon DEF Timing
<1> QED BY <1>3, <1>4, QuietSteps

-----------------------------------------------------------------------------
(* A sound buffer. *)

(* What is left of the aggregate holds the headers of the couples that are   *)
(* left, every event has a time stamp, and the end is behind the last header.*)
Sounding ==
    sound => /\ ~flagged
             /\ walk.at = "couple" => walk.pos + 2 * Cardinality(walk.left) <= walk.aggEnd
             /\ walk.at = "event" =>
                    /\ walk.hasTS
                    /\ walk.pos + walk.size + 2 * (Cardinality(walk.left) - 1) <= walk.aggEnd
             /\ walk.at = "end" => ~HeaderFits

(* Couples can be counted. *)
LEMMA CouplesCount ==
    ASSUME NEW S \in SUBSET Couples
    PROVE  /\ Cardinality(S) \in Nat
           /\ S # {} => /\ Cardinality(S) >= 1
                        /\ Cardinality(S \ {Min(S)}) = Cardinality(S) - 1
<1>1. IsFiniteSet(S)
  BY CouplesAssumption, FS_Subset
<1>2. Cardinality(S) \in Nat
  BY <1>1, FS_CardinalityType
<1>3. Cardinality(S) = 0 <=> S = {}
  BY <1>1, FS_EmptySet
<1>4. S # {} => Min(S) \in S
  BY MinOfNats, CouplesAssumption
<1>5. S # {} => Cardinality(S \ {Min(S)}) = Cardinality(S) - 1
  BY <1>1, <1>4, FS_RemoveElement
<1> QED BY <1>2, <1>3, <1>5

(* The decoder takes nothing of a sound buffer for corrupt. *)
LEMMA SoundStays ==
    ASSUME DecoderTypeOK, Walking, Sounding, DecoderStep
    PROVE  Sounding'
<1> USE WordsAssumption
<1>1. sound' = sound
  BY SameBoard
<1>2. SUFFICES ASSUME sound PROVE Sounding'
  BY <1>1, Zenon DEF Sounding
<1>3. ~flagged /\ walk \in WalkType
  BY <1>2 DEF Sounding, DecoderTypeOK, WalkType
<1>4. ASSUME walk'.at \in {"idle", "scan"}, flagged' = flagged
      PROVE  Sounding'
  BY <1>3, <1>4 DEF Sounding
<1>5. CASE Begin
  BY <1>4, <1>5 DEF Begin, WalkType, DecoderTypeOK
<1>6. CASE ScanEnd
  <2>1. walk'.at = "end" /\ walk'.offset = walk.offset /\ flagged' = flagged
    BY <1>3, <1>6 DEF ScanEnd, End, WalkType
  <2>2. ~HeaderFits
    BY <1>6 DEF ScanEnd
  <2>3. ~HeaderFits'
    BY <2>1, <2>2 DEF HeaderFits
  <2> QED BY <1>3, <2>1, <2>3 DEF Sounding
<1>7. CASE ScanSkip
  BY <1>3, <1>4, <1>7 DEF ScanSkip, WalkType
<1>8. CASE ScanShort
  BY <1>2, <1>8 DEF ScanShort
<1>9. CASE ScanAggregate
  <2> DEFINE Entered(aggLen, mask) ==
                 walk' = [walk EXCEPT !.at = "couple", !.left = mask,
                                      !.pos = walk.offset + kAggHeaderWords,
                                      !.aggEnd = walk.offset + aggLen]
  <2>1. PICK aggLen \in kAggHeaderWords .. NumWords + 1, mask \in SUBSET Couples :
          /\ Consistent(aggLen, mask)
          /\ ~Fits(aggLen) \/ Entered(aggLen, mask)
          /\ ~Fits(aggLen) \/ ~flagged'
    <3>1. PICK aggLen \in kAggHeaderWords .. NumWords + 1, mask \in SUBSET Couples,
               known \in BOOLEAN, fail \in BOOLEAN :
             /\ sound => known /\ ~fail /\ Consistent(aggLen, mask)
             /\ \/ ~Fits(aggLen)
                \/ /\ flagged' = (flagged \/ fail)
                   /\ walk' = IF known
                              THEN [walk EXCEPT !.at = "couple", !.left = mask,
                                                !.pos = walk.offset + kAggHeaderWords,
                                                !.aggEnd = walk.offset + aggLen]
                              ELSE [walk EXCEPT !.offset = @ + aggLen]
      BY <1>9, Zenon DEF ScanAggregate
    <3>2. known /\ ~fail /\ Consistent(aggLen, mask)
      BY <1>2, <3>1, Zenon
    <3>3. ~Fits(aggLen) \/ ~flagged'
      BY <1>3, <3>1, <3>2, Zenon
    <3>4. ~Fits(aggLen) \/ Entered(aggLen, mask)
      BY <3>1, <3>2, Zenon
    <3> HIDE DEF Entered
    <3> QED BY <3>2, <3>3, <3>4, Zenon
  <2>2. walk.offset \in Nat /\ aggLen \in Nat /\ Cardinality(mask) \in Nat
    <3>1. Cardinality(mask) \in Nat
      BY CouplesCount, Zenon
    <3> QED BY <1>3, <3>1 DEF WalkType, kAggHeaderWords
  <2>3. /\ walk.offset + aggLen <= NumWords
        /\ aggLen - kAggHeaderWords - 2 * Cardinality(mask) >= 0
    BY <2>1 DEF Consistent
  <2>4. Fits(aggLen)
    BY <2>3 DEF Fits
  <2>5. /\ walk'.at = "couple" /\ walk'.left = mask
        /\ walk'.pos = walk.offset + kAggHeaderWords /\ walk'.aggEnd = walk.offset + aggLen
    BY <1>3, <2>1, <2>4 DEF WalkType
  <2>6. walk'.pos + 2 * Cardinality(walk'.left) <= walk'.aggEnd
    BY <2>2, <2>3, <2>5 DEF kAggHeaderWords
  <2> QED BY <2>1, <2>4, <2>5, <2>6 DEF Sounding
<1>10. CASE CouplesDone
  BY <1>3, <1>4, <1>10 DEF CouplesDone, Return, Idle
<1>11. CASE CoupleMissing
  <2>1. walk.left # {} /\ walk.at = "couple" /\ walk.pos + 2 > walk.aggEnd
    BY <1>11 DEF CoupleMissing
  <2>2. /\ walk.pos \in Nat /\ walk.aggEnd \in Nat
        /\ Cardinality(walk.left) \in Nat /\ Cardinality(walk.left) >= 1
    <3>1. Cardinality(walk.left) \in Nat /\ Cardinality(walk.left) >= 1
      BY <1>3, <2>1, CouplesCount, Zenon DEF WalkType
    <3> QED BY <1>3, <3>1 DEF WalkType
  <2>3. walk.pos + 2 * Cardinality(walk.left) <= walk.aggEnd
    BY <1>2, <2>1 DEF Sounding
  <2> QED BY <2>1, <2>2, <2>3
<1>12. CASE Couple
  <2>1. PICK size \in 0 .. NumWords, evtSize \in EvtSizes \cup {EvtSize}, hasTS \in BOOLEAN :
          /\ hasTS
          /\ ConsistentCouple(size, evtSize)
          /\ \/ ~Plausible(size, evtSize)
             \/ /\ walk' = [walk EXCEPT !.at = "event", !.size = size,
                                        !.evtSize = evtSize, !.hasTS = hasTS,
                                        !.n = (size - 2) \div evtSize, !.evt = 0]
                /\ flagged' = flagged
    BY <1>2, <1>12, Zenon DEF Couple
  <2>2. walk.at = "couple" /\ walk.left # {}
    BY <1>12 DEF Couple
  <2> DEFINE card == Cardinality(walk.left)
             rest == walk.aggEnd - walk.pos - 2 * card
  <2>3. /\ walk.pos \in Nat /\ walk.aggEnd \in Nat /\ card \in Nat /\ card >= 1
        /\ walk.pos + 2 * card <= walk.aggEnd
    <3>1. card \in Nat /\ card >= 1
      BY <1>3, <2>2, CouplesCount, Zenon DEF WalkType
    <3> QED BY <1>2, <1>3, <2>2, <3>1 DEF WalkType, Sounding
  <2>4. rest \in Nat
    BY <2>3
  <2>5. size >= 2 /\ size <= 2 + rest /\ evtSize = EvtSize
    <3>1. evtSize = EvtSize
      BY <2>1 DEF ConsistentCouple
    <3>2. PICK k \in 0 .. rest \div EvtSize : size = 2 + k * EvtSize
      BY <2>1 DEF ConsistentCouple
    <3> HIDE DEF rest
    <3>3. rest \div EvtSize \in Nat /\ (rest \div EvtSize) * EvtSize <= rest
      BY <2>4, Quotient
    <3> DEFINE q == rest \div EvtSize
    <3>4. q \in Nat /\ k \in Nat /\ k <= q /\ EvtSize \in Nat /\ q * EvtSize <= rest
      BY <3>2, <3>3
    <3> HIDE DEF q
    <3>5. k * EvtSize <= q * EvtSize /\ k * EvtSize \in Nat /\ q * EvtSize \in Nat
      <4>1. (q - k) * EvtSize >= 0 /\ (q - k) * EvtSize = q * EvtSize - k * EvtSize
        BY <3>4
      <4>2. k * EvtSize \in Nat /\ q * EvtSize \in Nat
        BY <3>4
      <4> QED BY <4>1, <4>2
    <3> QED BY <2>4, <3>1, <3>2, <3>4, <3>5
  <2>6. walk.pos + size + 2 * (card - 1) <= walk.aggEnd
    BY <2>3, <2>5
  <2>7. Plausible(size, evtSize)
    BY <2>3, <2>5, <2>6 DEF Plausible
  <2>8. /\ walk'.at = "event" /\ walk'.left = walk.left /\ walk'.size = size
        /\ walk'.pos = walk.pos /\ walk'.aggEnd = walk.aggEnd
    BY <1>3, <2>1, <2>7 DEF WalkType
  <2>9. walk'.hasTS
    BY <1>3, <2>1, <2>7, Zenon DEF WalkType
  <2> HIDE DEF card, rest
  <2> QED BY <1>3, <2>1, <2>6, <2>7, <2>8, <2>9 DEF Sounding, card
<1>13. CASE EventsDone
  <2>1. /\ walk.at = "event" /\ walk.left # {}
        /\ walk.pos + walk.size + 2 * (Cardinality(walk.left) - 1) <= walk.aggEnd
    BY <1>2, <1>13 DEF EventsDone, Walking, Sounding
  <2> DEFINE rest == walk.left \ {Min(walk.left)}
  <2>2. /\ walk' = [walk EXCEPT !.at = "couple", !.pos = @ + walk.size, !.left = rest,
                                !.size = 0, !.evtSize = 0, !.hasTS = FALSE, !.n = 0, !.evt = 0]
        /\ flagged' = flagged
    BY <1>13 DEF EventsDone, NextCouple
  <2>3. Cardinality(rest) = Cardinality(walk.left) - 1
    BY <1>3, <2>1, CouplesCount DEF WalkType
  <2> HIDE DEF rest
  <2>4. /\ walk'.at = "couple" /\ walk'.pos = walk.pos + walk.size
        /\ walk'.left = rest /\ walk'.aggEnd = walk.aggEnd
    BY <1>3, <2>2 DEF WalkType
  <2> QED BY <1>3, <2>1, <2>2, <2>3, <2>4 DEF Sounding
<1>14. CASE TimedEvent
  <2>1. /\ walk.at = "event" /\ walk' = [walk EXCEPT !.evt = @ + 1]
    BY <1>14 DEF TimedEvent
  <2>2. ~flagged'
    BY <1>2, <1>3, <1>14, Zenon DEF TimedEvent
  <2>3. /\ walk'.at = "event" /\ walk'.left = walk.left /\ walk'.size = walk.size
        /\ walk'.pos = walk.pos /\ walk'.aggEnd = walk.aggEnd
    BY <1>3, <2>1 DEF WalkType
  <2>4. walk'.hasTS
    BY <1>3, <1>14, <2>1, Zenon DEF WalkType, TimedEvent
  <2> QED BY <1>2, <2>1, <2>2, <2>3, <2>4 DEF Sounding
<1>15. CASE UntimedEvent
  BY <1>2, <1>15, Zenon DEF UntimedEvent, Sounding
<1>16. CASE Finish
  BY <1>3, <1>4, <1>16 DEF Finish, Idle
<1> QED BY <1>5, <1>6, <1>7, <1>8, <1>9, <1>10, <1>11, <1>12, <1>13, <1>14, <1>15, <1>16, Zenon
        DEF DecoderStep, WalkStep, Emit

-----------------------------------------------------------------------------
(* The tap. *)

(* The batch of the block that is being decoded. *)
Current == IF walk.at = "idle" THEN <<>> ELSE batch

Rising(s) == \A i, j \in 1 .. Len(s) : i < j => s[i] < s[j]

Between(s, low, high) == \A i \in 1 .. Len(s) : low < s[i] /\ s[i] <= high

Before(s, t) == \A i \in 1 .. Len(s), j \in 1 .. Len(t) : s[i] < t[j]

(* Hits are put into batches with growing numbers; those that are held come  *)
(* before those of the batch, and both after those that were handed out.  A  *)
(* batch of a block that is not tapped is empty.                             *)
Stream ==
    /\ taken.newest <= serial
    /\ Rising(hits) /\ Between(hits, taken.newest, serial)
    /\ Rising(Current) /\ Between(Current, taken.newest, serial)
    /\ Before(hits, Current)
    /\ ~tapping => Current = <<>>

(* Every hit is in one place. *)
Counted == serial = Len(Current) + Len(hits) + taken.count + dropped + discarded

(* The number of the next hit goes behind all of them. *)
LEMMA OneMoreHit ==
    ASSUME NEW s \in Seq(Nat), NEW t \in Seq(Nat), NEW low \in Nat, NEW high \in Nat, low <= high,
           Rising(t), Between(t, low, high), Between(s, low, high), Before(s, t)
    PROVE  LET u == Append(t, high + 1)
           IN  /\ u \in Seq(Nat) /\ Len(u) = Len(t) + 1
               /\ Rising(u) /\ Between(u, low, high + 1) /\ Before(s, u)
<1> DEFINE u == Append(t, high + 1)
<1>1. /\ u \in Seq(Nat) /\ Len(u) = Len(t) + 1 /\ Len(t) \in Nat
      /\ u[Len(t) + 1] = high + 1 /\ \A i \in 1 .. Len(t) : u[i] = t[i] /\ t[i] \in Nat
  OBVIOUS
<1>2. \A i \in 1 .. Len(s) : s[i] \in Nat
  OBVIOUS
<1> HIDE DEF u
<1>3. ASSUME NEW i \in 1 .. Len(u)
      PROVE  \/ i = Len(t) + 1 /\ u[i] = high + 1
             \/ i \in 1 .. Len(t) /\ u[i] = t[i] /\ t[i] \in Nat /\ low < t[i] /\ t[i] <= high
  <2>1. i = Len(t) + 1 \/ i \in 1 .. Len(t)
    BY <1>1
  <2> QED BY <1>1, <2>1 DEF Between
<1>4. Rising(u)
  <2>1. SUFFICES ASSUME NEW i \in 1 .. Len(u), NEW j \in 1 .. Len(u), i < j
                 PROVE  u[i] < u[j]
    BY DEF Rising
  <2>2. i \in 1 .. Len(t) /\ u[i] = t[i] /\ t[i] \in Nat /\ t[i] <= high
    BY <1>1, <1>3, <2>1
  <2>3. CASE j = Len(t) + 1
    BY <1>1, <2>2, <2>3
  <2>4. CASE j \in 1 .. Len(t) /\ u[j] = t[j]
    BY <2>1, <2>2, <2>4 DEF Rising
  <2> QED BY <1>3, <2>3, <2>4
<1>5. Between(u, low, high + 1)
  <2>1. SUFFICES ASSUME NEW i \in 1 .. Len(u) PROVE low < u[i] /\ u[i] <= high + 1
    BY DEF Between
  <2>2. CASE u[i] = high + 1
    BY <2>2
  <2>3. CASE u[i] = t[i] /\ t[i] \in Nat /\ low < t[i] /\ t[i] <= high
    BY <2>3
  <2> QED BY <1>3, <2>2, <2>3
<1>6. Before(s, u)
  <2>1. SUFFICES ASSUME NEW i \in 1 .. Len(s), NEW j \in 1 .. Len(u) PROVE s[i] < u[j]
    BY DEF Before
  <2>2. s[i] \in Nat /\ s[i] <= high
    BY <1>2 DEF Between
  <2>3. CASE j = Len(t) + 1 /\ u[j] = high + 1
    BY <2>2, <2>3
  <2>4. CASE j \in 1 .. Len(t) /\ u[j] = t[j]
    BY <2>4 DEF Before
  <2> QED BY <1>3, <2>3, <2>4
<1> QED BY <1>1, <1>4, <1>5, <1>6 DEF u

(* A beginning of the batch goes behind what is held. *)
LEMMA Joined ==
    ASSUME NEW s \in Seq(Nat), NEW t \in Seq(Nat), NEW k \in 0 .. Len(t),
           NEW low \in Nat, NEW high \in Nat,
           Rising(s), Rising(t), Between(s, low, high), Between(t, low, high), Before(s, t)
    PROVE  LET u == s \o SubSeq(t, 1, k)
           IN  /\ u \in Seq(Nat) /\ Len(u) = Len(s) + k
               /\ Rising(u) /\ Between(u, low, high)
<1> DEFINE p == SubSeq(t, 1, k)
           u == s \o p
           n == Len(s)
<1>1. p \in Seq(Nat) /\ Len(p) = k /\ \A i \in 1 .. k : p[i] = t[i]
  OBVIOUS
<1>2. n \in Nat /\ Len(t) \in Nat /\ k \in Nat /\ k <= Len(t)
  OBVIOUS
<1> HIDE DEF p
<1>3. u \in Seq(Nat) /\ Len(u) = n + k
  <2>1. u \in Seq(Nat)
    BY <1>1
  <2>2. Len(u) = Len(s) + Len(p)
    BY <1>1, ConcatProperties
  <2> QED BY <1>1, <2>1, <2>2
<1>4. ASSUME NEW i \in 1 .. n PROVE u[i] = s[i] /\ s[i] \in Nat
  BY <1>1
<1>5. ASSUME NEW i \in 1 .. n + k, i > n
      PROVE i - n \in 1 .. Len(t) /\ u[i] = t[i - n] /\ t[i - n] \in Nat
  <2>1. i - n \in 1 .. k /\ u[i] = p[i - n]
    BY <1>1, <1>2, <1>5
  <2>2. i - n \in 1 .. Len(t)
    BY <1>2, <2>1
  <2> QED BY <1>1, <2>1, <2>2
<1> HIDE DEF u, n
<1>6. ASSUME NEW i \in 1 .. n + k PROVE low < u[i] /\ u[i] <= high
  <2>1. CASE i \in 1 .. n
    BY <1>4, <2>1 DEF Between, n
  <2>2. CASE i > n
    BY <1>5, <2>2 DEF Between
  <2> QED BY <1>2, <2>1, <2>2
<1>7. ASSUME NEW i \in 1 .. n + k, NEW j \in 1 .. n + k, i < j PROVE u[i] < u[j]
  <2>1. CASE i \in 1 .. n /\ j \in 1 .. n
    BY <1>4, <1>7, <2>1 DEF Rising, n
  <2>2. CASE i \in 1 .. n /\ j > n
    BY <1>4, <1>5, <2>2 DEF Before, n
  <2>3. CASE i > n /\ j > n
    <3>1. i - n < j - n
      BY <1>2, <1>7
    <3> QED BY <1>5, <2>3, <3>1 DEF Rising
  <2> QED BY <1>2, <1>7, <2>1, <2>2, <2>3
<1>8. Between(u, low, high) /\ Rising(u)
  BY <1>3, <1>6, <1>7 DEF Between, Rising
<1> QED BY <1>3, <1>8 DEF u, p, n

(* The part of a batch that the tap has room for. *)
LEMMA KeptLength ==
    ASSUME TypeOK
    PROVE  \E k \in 0 .. Len(batch) : Kept = SubSeq(batch, 1, k) /\ Len(Kept) = k
<1>1. Len(batch) \in Nat /\ Room \in Nat
  BY DEF TypeOK, Room
<1> DEFINE k == Min({Len(batch), Room})
<1>2. k \in 0 .. Len(batch)
  BY <1>1, MinOfTwo
<1> HIDE DEF k
<1>3. Len(SubSeq(batch, 1, k)) = k
  BY <1>2 DEF TypeOK
<1>4. Kept = SubSeq(batch, 1, k)
  BY DEF Kept, k
<1> QED BY <1>2, <1>3, <1>4

-----------------------------------------------------------------------------
(* The decode thread and the tap. *)

(* Everything that is known of the stage between two steps. *)
StageInv == TypeOK /\ Walking /\ Sounding /\ Timing /\ Stream /\ Counted

(* The types of the tap and of the loop. *)
TapTypeOK == /\ blocks \in 0 .. MaxBlocks
             /\ tapping \in BOOLEAN
             /\ batch \in Seq(Nat) /\ hits \in Seq(Nat)
             /\ serial \in Nat /\ dropped \in Nat /\ discarded \in Nat
             /\ enabled \in BOOLEAN
             /\ capacity \in Nat \ {0}
             /\ calls \in 0 .. MaxCalls
             /\ taken \in [count : Nat, newest : Nat]

LEMMA TypeParts == TypeOK <=> DecoderTypeOK /\ TapTypeOK
BY Zenon DEF TypeOK, TapTypeOK

(* A step of the stage is one of the decoder or leaves the decoder alone. *)
LEMMA StageSteps ==
    ASSUME Next
    PROVE  DecoderStep \/ UNCHANGED decoderVars
BY Zenon DEF Next, TakeBlock, DecodeThread, Walk, Collect, AppendBatch, SetEnabled, SetCapacity,
             Take, DecoderStep, Finish

(* Without a step of the decoder everything said of it stays. *)
LEMMA DecoderStutters ==
    ASSUME DecoderTypeOK, Walking, Sounding, Timing, UNCHANGED decoderVars
    PROVE  DecoderTypeOK' /\ Walking' /\ Sounding' /\ Timing'
<1>1. /\ sound' = sound /\ extended' = extended /\ walk' = walk /\ flagged' = flagged
      /\ clock' = clock /\ front' = front /\ last' = last
  BY DEF decoderVars, boardVars, timeVars
<1>2. DecoderTypeOK'
  BY <1>1, Zenon DEF DecoderTypeOK
<1>3. Walking'
  BY <1>1, Zenon DEF Walking
<1>4. Sounding'
  BY <1>1, Zenon DEF Sounding, HeaderFits
<1>5. Timing'
  BY <1>1, Zenon DEF Timing, ClockAt, Width
<1> QED BY <1>2, <1>3, <1>4, <1>5

(* The walk of a block is under way from Begin to Finish. *)
LEMMA WalkBusy ==
    ASSUME walk \in WalkType
    PROVE  /\ Begin => walk.at = "idle" /\ walk'.at # "idle"
           /\ WalkStep => walk.at # "idle" /\ walk'.at # "idle"
           /\ Emit => walk.at # "idle" /\ walk'.at # "idle"
           /\ (walk.at = "end" /\ walk' = Idle) => walk.at # "idle" /\ walk'.at = "idle"
<1>1. \A x \in {"idle", "scan", "couple", "event", "end"} : [walk EXCEPT !.at = x].at = x
  BY DEF WalkType
<1>2. Begin => walk.at = "idle" /\ walk'.at # "idle"
  BY DEF Begin, WalkType
<1>3. Return => walk'.at # "idle"
  BY DEF Return, Idle
<1>4. ASSUME NEW size, NextCouple(size) PROVE walk'.at # "idle"
  <2> DEFINE rest == walk.left \ {Min(walk.left)}
             start == walk.pos + size
  <2>1. walk' = [walk EXCEPT !.at = "couple", !.pos = start, !.left = rest,
                             !.size = 0, !.evtSize = 0, !.hasTS = FALSE, !.n = 0, !.evt = 0]
    BY <1>4 DEF NextCouple
  <2> HIDE DEF rest, start
  <2> QED BY <2>1 DEF WalkType
<1>5. WalkStep => walk.at # "idle" /\ walk'.at # "idle"
  <2>1. ScanEnd => walk.at # "idle" /\ walk'.at # "idle"
    BY DEF ScanEnd, End, WalkType
  <2>2. ScanSkip \/ ScanShort => walk.at # "idle" /\ walk'.at # "idle"
    BY DEF ScanSkip, ScanShort, WalkType
  <2>3. ScanAggregate => walk.at # "idle" /\ walk'.at # "idle"
    <3>1. SUFFICES ASSUME ScanAggregate PROVE walk'.at # "idle"
      BY DEF ScanAggregate
    <3>2. PICK aggLen \in kAggHeaderWords .. NumWords + 1, mask \in SUBSET Couples,
               known \in BOOLEAN :
             \/ End
             \/ walk' = IF known
                        THEN [walk EXCEPT !.at = "couple", !.left = mask,
                                          !.pos = walk.offset + kAggHeaderWords,
                                          !.aggEnd = walk.offset + aggLen]
                        ELSE [walk EXCEPT !.offset = @ + aggLen]
      BY <3>1, Zenon DEF ScanAggregate
    <3>3. walk.at = "scan"
      BY <3>1 DEF ScanAggregate
    <3> QED BY <3>2, <3>3 DEF End, WalkType
  <2>4. CouplesDone \/ CoupleMissing => walk.at # "idle" /\ walk'.at # "idle"
    BY <1>3 DEF CouplesDone, CoupleMissing
  <2>5. Couple => walk.at # "idle" /\ walk'.at # "idle"
    <3>1. SUFFICES ASSUME Couple PROVE walk'.at # "idle"
      BY DEF Couple
    <3>2. PICK size, evtSize, hasTS :
             \/ Return
             \/ NextCouple(size)
             \/ walk' = [walk EXCEPT !.at = "event", !.size = size,
                                     !.evtSize = evtSize, !.hasTS = hasTS,
                                     !.n = (size - 2) \div evtSize, !.evt = 0]
      BY <3>1, Zenon DEF Couple
    <3>3. CASE walk' = [walk EXCEPT !.at = "event", !.size = size,
                                    !.evtSize = evtSize, !.hasTS = hasTS,
                                    !.n = (size - 2) \div evtSize, !.evt = 0]
      BY <3>3 DEF WalkType
    <3> QED BY <1>3, <1>4, <3>2, <3>3
  <2>6. EventsDone => walk.at # "idle" /\ walk'.at # "idle"
    BY <1>4 DEF EventsDone
  <2> QED BY <2>1, <2>2, <2>3, <2>4, <2>5, <2>6 DEF WalkStep
<1>6. Emit => walk.at # "idle" /\ walk'.at # "idle"
  <2>1. SUFFICES ASSUME Emit PROVE walk.at = "event" /\ walk'.at # "idle"
    OBVIOUS
  <2>2. walk.at = "event" /\ walk' = [walk EXCEPT !.evt = @ + 1]
    BY <2>1, Zenon DEF Emit, TimedEvent, UntimedEvent
  <2> QED BY <2>2 DEF WalkType
<1>7. Idle.at = "idle"
  BY DEF Idle
<1> QED BY <1>2, <1>5, <1>6, <1>7

(* No step of the decode thread or of the other one leaves the types. *)
LEMMA TapTypes ==
    ASSUME TypeOK, Next
    PROVE  TapTypeOK'
<1> USE StageAssumption
<1>1. TapTypeOK
  BY TypeParts
<1>2. CASE TakeBlock
  <2>1. blocks' \in 0 .. MaxBlocks
    BY <1>1, <1>2 DEF TakeBlock, TapTypeOK
  <2>2. tapping' \in BOOLEAN
    BY <1>1, <1>2, Zenon DEF TakeBlock, TapTypeOK
  <2>3. batch' \in Seq(Nat)
    BY <1>2 DEF TakeBlock
  <2> QED BY <1>1, <1>2, <2>1, <2>2, <2>3, Zenon DEF TakeBlock, TapTypeOK, tapVars
<1>3. CASE Walk
  BY <1>1, <1>3, Zenon DEF Walk, TapTypeOK, loopVars, tapVars
<1>4. CASE Collect
  <2>1. batch' \in Seq(Nat) /\ serial' \in Nat
    <3>1. \/ batch' = Append(batch, serial + 1) /\ serial' = serial + 1
          \/ batch' = batch /\ serial' = serial
      BY <1>4, Zenon DEF Collect
    <3>2. batch \in Seq(Nat) /\ serial \in Nat
      BY <1>1 DEF TapTypeOK
    <3>3. Append(batch, serial + 1) \in Seq(Nat) /\ serial + 1 \in Nat
      BY <3>2
    <3> QED BY <3>1, <3>2, <3>3, Zenon
  <2> QED BY <1>1, <1>4, <2>1, Zenon DEF Collect, TapTypeOK, tapVars
<1>5. CASE AppendBatch
  <2>1. PICK k \in 0 .. Len(batch) : Kept = SubSeq(batch, 1, k) /\ Len(Kept) = k
    BY KeptLength
  <2>2. batch \in Seq(Nat) /\ hits \in Seq(Nat) /\ Len(batch) \in Nat
    BY <1>1 DEF TapTypeOK
  <2>3. hits \o SubSeq(batch, 1, k) \in Seq(Nat)
    <3>1. SubSeq(batch, 1, k) \in Seq(Nat)
      BY <2>2
    <3> QED BY <2>2, <3>1, ConcatProperties
  <2>4. hits' \in Seq(Nat)
    BY <1>5, <2>1, <2>2, <2>3 DEF AppendBatch
  <2>5. dropped' \in Nat /\ discarded' \in Nat
    BY <1>1, <1>5, <2>1, <2>2 DEF AppendBatch, TapTypeOK
  <2> QED BY <1>1, <1>5, <2>4, <2>5, Zenon DEF AppendBatch, TapTypeOK, loopVars
<1>6. CASE SetEnabled
  <2>1. calls' \in 0 .. MaxCalls
    BY <1>1, <1>6 DEF SetEnabled, TapTypeOK
  <2>2. hits' \in Seq(Nat) /\ discarded' \in Nat
    <3>1. /\ hits' = hits \/ hits' = <<>>
          /\ discarded' = discarded \/ discarded' = discarded + Len(hits)
      BY <1>6, Zenon DEF SetEnabled
    <3>2. hits \in Seq(Nat) /\ Len(hits) \in Nat /\ discarded \in Nat
      BY <1>1 DEF TapTypeOK
    <3>3. <<>> \in Seq(Nat) /\ discarded + Len(hits) \in Nat
      BY <3>2
    <3> QED BY <3>1, <3>2, <3>3, Zenon
  <2>3. enabled' \in BOOLEAN
    BY <1>6, Zenon DEF SetEnabled
  <2> QED BY <1>1, <1>6, <2>1, <2>2, <2>3, Zenon DEF SetEnabled, TapTypeOK, loopVars
<1>7. CASE SetCapacity
  <2>1. calls' \in 0 .. MaxCalls
    BY <1>1, <1>7 DEF SetCapacity, TapTypeOK
  <2>2. capacity' \in Nat \ {0}
    BY <1>7 DEF SetCapacity, Positive
  <2> QED BY <1>1, <1>7, <2>1, <2>2, Zenon DEF SetCapacity, TapTypeOK, loopVars
<1>8. CASE Take
  <2>1. hits' \in Seq(Nat)
    BY <1>8 DEF Take
  <2>2. taken.count + Len(hits) \in Nat /\ hits[Len(hits)] \in Nat
    BY <1>1, <1>8 DEF Take, TapTypeOK
  <2>3. taken' \in [count : Nat, newest : Nat]
    BY <1>8, <2>2, Zenon DEF Take
  <2> QED BY <1>1, <1>8, <2>1, <2>3, Zenon DEF Take, TapTypeOK, loopVars
<1> QED BY <1>2, <1>3, <1>4, <1>5, <1>6, <1>7, <1>8, Zenon DEF Next, DecodeThread

(* The hits stay in order and in their places. *)
LEMMA StreamKept ==
    ASSUME TypeOK, Stream, Counted, Next
    PROVE  Stream' /\ Counted'
<1>1. /\ batch \in Seq(Nat) /\ hits \in Seq(Nat) /\ walk \in WalkType
      /\ serial \in Nat /\ dropped \in Nat /\ discarded \in Nat
      /\ taken \in [count : Nat, newest : Nat]
      /\ Len(batch) \in Nat /\ Len(hits) \in Nat
  <2>1. DecoderTypeOK /\ TapTypeOK
    BY TypeParts
  <2>2. walk \in WalkType
    BY <2>1 DEF DecoderTypeOK, WalkType
  <2>3. /\ batch \in Seq(Nat) /\ hits \in Seq(Nat)
        /\ serial \in Nat /\ dropped \in Nat /\ discarded \in Nat
        /\ taken \in [count : Nat, newest : Nat]
    BY <2>1 DEF TapTypeOK
  <2> QED BY <2>2, <2>3
<1>2. taken.newest \in Nat /\ taken.count \in Nat
  BY <1>1
<1>3. /\ Rising(<<>>) /\ Between(<<>>, taken.newest, serial) /\ Len(<<>>) = 0
      /\ \A s : Before(s, <<>>) /\ Before(<<>>, s)
  BY DEF Rising, Between, Before
<1>4. /\ taken.newest <= serial
      /\ Rising(hits) /\ Between(hits, taken.newest, serial)
      /\ Rising(Current) /\ Between(Current, taken.newest, serial)
      /\ Before(hits, Current)
      /\ ~tapping => Current = <<>>
  BY Zenon DEF Stream
<1>5. serial = Len(Current) + Len(hits) + taken.count + dropped + discarded
  BY DEF Counted
<1>6. CASE TakeBlock
  <2>1. walk.at = "idle" /\ batch' = <<>>
    BY <1>1, <1>6, WalkBusy DEF TakeBlock
  <2>2. Current = <<>> /\ Current' = <<>>
    BY <2>1, Zenon DEF Current
  <2>3. /\ serial' = serial /\ hits' = hits /\ taken' = taken /\ dropped' = dropped
        /\ discarded' = discarded
    BY <1>6 DEF TakeBlock, tapVars
  <2> QED BY <1>4, <1>5, <2>2, <2>3, Zenon DEF Stream, Counted
<1>7. CASE Walk
  <2>1. walk.at # "idle" /\ walk'.at # "idle"
    BY <1>1, <1>7, WalkBusy DEF Walk
  <2>2. /\ serial' = serial /\ hits' = hits /\ taken' = taken /\ dropped' = dropped
        /\ discarded' = discarded /\ batch' = batch /\ tapping' = tapping
    BY <1>7 DEF Walk, tapVars, loopVars
  <2>3. Current' = Current
    BY <2>1, <2>2, Zenon DEF Current
  <2> QED BY <1>4, <1>5, <2>2, <2>3, Zenon DEF Stream, Counted
<1>8. CASE Collect
  <2>1. walk.at # "idle" /\ walk'.at # "idle"
    BY <1>1, <1>8, WalkBusy DEF Collect
  <2>2. Current = batch /\ Current' = batch'
    BY <2>1, Zenon DEF Current
  <2>3. /\ hits' = hits /\ taken' = taken /\ dropped' = dropped
        /\ discarded' = discarded /\ tapping' = tapping
    BY <1>8 DEF Collect, tapVars
  <2>4. CASE tapping /\ batch' = Append(batch, serial + 1) /\ serial' = serial + 1
    <3>1. /\ Len(batch') = Len(batch) + 1 /\ Rising(batch') /\ Before(hits, batch')
          /\ Between(batch', taken.newest, serial + 1)
      BY <1>1, <1>2, <1>4, <2>2, <2>4, OneMoreHit
    <3>2. Between(hits, taken.newest, serial + 1)
      <4>1. \A i \in 1 .. Len(hits) : hits[i] \in Nat
        BY <1>1
      <4> QED BY <1>1, <1>2, <1>4, <4>1 DEF Between
    <3>3. taken.newest <= serial'
      BY <1>1, <1>2, <1>4, <2>4
    <3>4. Stream'
      BY <1>4, <2>2, <2>3, <2>4, <3>1, <3>2, <3>3, Zenon DEF Stream
    <3>5. serial' = Len(batch') + Len(hits) + taken.count + dropped + discarded
      BY <1>1, <1>2, <1>5, <2>2, <2>4, <3>1
    <3> QED BY <2>2, <2>3, <3>4, <3>5, Zenon DEF Counted
  <2>5. CASE batch' = batch /\ serial' = serial
    BY <1>4, <1>5, <2>2, <2>3, <2>5, Zenon DEF Stream, Counted
  <2> QED BY <1>8, <2>4, <2>5, Zenon DEF Collect
<1>9. CASE AppendBatch
  <2>1. walk.at # "idle" /\ walk'.at = "idle"
    BY <1>1, <1>9, WalkBusy DEF AppendBatch
  <2>2. Current = batch /\ Current' = <<>>
    BY <2>1, Zenon DEF Current
  <2>3. serial' = serial /\ taken' = taken /\ tapping' = tapping
    BY <1>9 DEF AppendBatch, loopVars
  <2>4. PICK k \in 0 .. Len(batch) : Kept = SubSeq(batch, 1, k) /\ Len(Kept) = k
    BY KeptLength
  <2>5. CASE tapping /\ enabled
    <3>1. hits' = hits \o SubSeq(batch, 1, k) /\ dropped' = dropped + Len(batch) - k
          /\ discarded' = discarded
      BY <1>9, <2>4, <2>5, Zenon DEF AppendBatch
    <3>2. /\ Len(hits') = Len(hits) + k /\ Rising(hits')
          /\ Between(hits', taken.newest, serial)
      BY <1>1, <1>2, <1>4, <2>2, <3>1, Joined
    <3>3. Stream'
      BY <1>3, <1>4, <2>2, <2>3, <3>2, Zenon DEF Stream
    <3>4. serial = 0 + Len(hits') + taken.count + dropped' + discarded'
      BY <1>1, <1>2, <1>5, <2>2, <3>1, <3>2
    <3> QED BY <1>3, <2>2, <2>3, <3>3, <3>4, Zenon DEF Counted
  <2>6. CASE ~(tapping /\ enabled)
    <3>1. hits' = hits /\ dropped' = dropped
      BY <1>9, <2>6, Zenon DEF AppendBatch
    <3>2. discarded' = discarded + Len(batch)
      <4>1. CASE tapping
        BY <1>9, <2>6, <4>1, Zenon DEF AppendBatch
      <4>2. CASE ~tapping
        <5>1. discarded' = discarded
          BY <1>9, <4>2, Zenon DEF AppendBatch
        <5>2. Len(batch) = 0
          BY <1>3, <1>4, <2>2, <4>2, Zenon
        <5> QED BY <1>1, <5>1, <5>2
      <4> QED BY <4>1, <4>2
    <3>3. Stream'
      BY <1>3, <1>4, <2>2, <2>3, <3>1, Zenon DEF Stream
    <3>4. serial = 0 + Len(hits') + taken.count + dropped' + discarded'
      BY <1>1, <1>2, <1>5, <2>2, <3>1, <3>2
    <3> QED BY <1>3, <2>2, <2>3, <3>3, <3>4, Zenon DEF Counted
  <2> QED BY <2>5, <2>6
<1>10. CASE SetEnabled
  <2>1. Current' = Current /\ tapping' = tapping /\ serial' = serial /\ taken' = taken
        /\ dropped' = dropped
    BY <1>10 DEF SetEnabled, loopVars, decoderVars, Current
  <2>2. CASE hits' = hits /\ discarded' = discarded
    BY <1>4, <1>5, <2>1, <2>2, Zenon DEF Stream, Counted
  <2>3. CASE hits' = <<>> /\ discarded' = discarded + Len(hits)
    <3>1. Stream'
      BY <1>3, <1>4, <2>1, <2>3, Zenon DEF Stream
    <3>2. Len(Current) \in Nat
      BY <1>1 DEF Current
    <3>3. serial = Len(Current) + 0 + taken.count + dropped + (discarded + Len(hits))
      BY <1>1, <1>2, <1>5, <3>2
    <3> QED BY <1>3, <2>1, <2>3, <3>1, <3>3, Zenon DEF Counted
  <2> QED BY <1>10, <2>2, <2>3, Zenon DEF SetEnabled
<1>11. CASE SetCapacity
  <2>1. /\ Current' = Current /\ tapping' = tapping /\ serial' = serial /\ taken' = taken
        /\ dropped' = dropped /\ hits' = hits /\ discarded' = discarded
    BY <1>11 DEF SetCapacity, loopVars, decoderVars, Current
  <2> QED BY <1>4, <1>5, <2>1, Zenon DEF Stream, Counted
<1>12. CASE Take
  <2>1. Current' = Current /\ tapping' = tapping /\ serial' = serial
        /\ dropped' = dropped /\ discarded' = discarded /\ hits' = <<>>
    BY <1>12 DEF Take, loopVars, decoderVars, Current
  <2> DEFINE n == Len(hits)
  <2>2. n \in 1 .. Len(hits) /\ hits # <<>>
    BY <1>1, <1>12 DEF Take
  <2>3. taken'.count = taken.count + n /\ taken'.newest = hits[n]
    BY <1>12 DEF Take
  <2>4. hits[n] \in Nat /\ taken.newest < hits[n] /\ hits[n] <= serial
    BY <1>1, <1>4, <2>2 DEF Between
  <2>5. Len(Current) \in Nat
    BY <1>1 DEF Current
  <2>6. Between(Current, hits[n], serial)
    <3> HIDE DEF n
    <3> QED BY <1>4, <2>2 DEF Between, Before
  <2>7. serial = Len(Current) + 0 + (taken.count + n) + dropped + discarded
    BY <1>1, <1>2, <1>5, <2>5
  <2>8. Between(<<>>, hits[n], serial)
    BY DEF Between
  <2> HIDE DEF n
  <2>9. Stream'
    BY <1>3, <1>4, <2>1, <2>3, <2>4, <2>6, <2>8, Zenon DEF Stream
  <2> QED BY <1>3, <2>1, <2>3, <2>7, <2>9, Zenon DEF Counted
<1> QED BY <1>6, <1>7, <1>8, <1>9, <1>10, <1>11, <1>12, Zenon DEF Next, DecodeThread

-----------------------------------------------------------------------------
(* The theorems. *)

(* The stage begins well. *)
LEMMA InitInv == Init => StageInv
<1> SUFFICES ASSUME Init PROVE StageInv
  OBVIOUS
<1> USE DEF Init, DecoderInit
<1>1. Idle \in WalkType /\ Idle.at = "idle"
  BY IdleType DEF Idle
<1>2. TypeOK
  <2>1. extended \subseteq Couples
    BY CouplesAssumption
  <2>2. 0 \in 0 .. MaxTime /\ 0 \in 0 .. MaxBlocks /\ 0 \in 0 .. MaxCalls /\ 0 \in Nat
        /\ <<>> \in Seq(Nat) /\ FALSE \in BOOLEAN
    BY WrapAssumption, StageAssumption
  <2>3. capacity \in Nat \ {0}
    BY StageAssumption
  <2>4. DecoderTypeOK
    BY <1>1, <2>1, <2>2, Zenon DEF DecoderTypeOK, WalkType, NoEvent
  <2>5. TapTypeOK
    BY <2>2, <2>3, Zenon DEF TapTypeOK
  <2> QED BY <2>4, <2>5, TypeParts
<1>3. Walking /\ Sounding
  BY <1>1 DEF Walking, Sounding
<1>4. Timing
  <2>1. Width \in Nat \ {0}
    BY Widths DEF Width
  <2>2. 0 \div Width = 0
    BY <2>1
  <2> QED BY <2>2 DEF Timing, ClockAt, NoEvent
<1>5. Stream /\ Counted
  <2>1. Current = <<>> /\ Len(<<>>) = 0
    BY <1>1 DEF Current
  <2> QED BY <2>1 DEF Stream, Counted, Rising, Between, Before
<1> QED BY <1>2, <1>3, <1>4, <1>5 DEF StageInv

(* Every step keeps it. *)
LEMMA StepInv == StageInv /\ [Next]_vars => StageInv'
<1> SUFFICES ASSUME StageInv, [Next]_vars PROVE StageInv'
  OBVIOUS
<1>1. TypeOK /\ DecoderTypeOK /\ Walking /\ Sounding /\ Timing /\ Stream /\ Counted
  BY TypeParts DEF StageInv
<1>2. CASE Next
  <2>1. DecoderTypeOK' /\ Walking' /\ Sounding' /\ Timing'
    <3>1. CASE DecoderStep
      <4>1. walk \in WalkType
        BY <1>1 DEF DecoderTypeOK, WalkType
      <4> QED BY <1>1, <3>1, <4>1, DecoderTypes, WalkStays, SoundStays, TimingKept
    <3> QED BY <1>1, <1>2, <3>1, StageSteps, DecoderStutters
  <2>2. TapTypeOK'
    BY <1>1, <1>2, TapTypes
  <2>3. TypeOK'
    BY <2>1, <2>2, Zenon DEF TypeOK, TapTypeOK
  <2> QED BY <1>1, <1>2, <2>1, <2>3, StreamKept DEF StageInv
<1>3. CASE UNCHANGED vars
  <2>1. /\ UNCHANGED decoderVars /\ UNCHANGED loopVars /\ UNCHANGED tapVars /\ calls' = calls
    BY <1>3 DEF vars
  <2>2. DecoderTypeOK' /\ Walking' /\ Sounding' /\ Timing'
    BY <1>1, <2>1, DecoderStutters
  <2>3. TypeOK'
    BY <1>1, <2>1, <2>2, Zenon DEF TypeOK, loopVars, tapVars
  <2>4. Stream' /\ Counted'
    BY <1>1, <2>1, Zenon DEF Stream, Counted, Current, decoderVars, loopVars, tapVars
  <2> QED BY <2>2, <2>3, <2>4 DEF StageInv
<1> QED BY <1>2, <1>3

(* The inductive invariant of the stage: the types, the place of the walk,   *)
(* what is known of a sound buffer, the clock, and the order and the places  *)
(* of the hits.                                                              *)
THEOREM InvariantHolds == Spec => []StageInv
<1>1. Init => StageInv
  BY InitInv
<1>2. StageInv /\ [Next]_vars => StageInv'
  BY StepInv
<1> QED BY <1>1, <1>2, PTL DEF Spec

(* Every variable of the decode thread and of the tap stays in its type.     *)
THEOREM TypeCorrect == Spec => []TypeOK
<1>1. StageInv => TypeOK
  BY DEF StageInv
<1> QED BY <1>1, InvariantHolds, PTL

(* Whatever the words of a buffer are, and however long it is, decode() reads*)
(* no event beyond its aggregate and no aggregate beyond the buffer.         *)
THEOREM EveryReadInBounds == Spec => []InBounds
<1>1. StageInv => InBounds
  <2> SUFFICES ASSUME StageInv PROVE InBounds
    OBVIOUS
  <2>1. Walking /\ walk \in WalkType
    BY DEF StageInv, TypeOK, DecoderTypeOK, WalkType
  <2>2. walk.at \in {"couple", "event"} => walk.aggEnd <= NumWords
    BY <2>1, WordsAssumption DEF WalkType
  <2>3. walk.at = "couple" => walk.offset + kAggHeaderWords <= walk.pos /\ walk.pos <= walk.aggEnd
    BY <2>1 DEF Walking
  <2>4. walk.at = "event" => /\ walk.pos + 2 + walk.n * walk.evtSize <= walk.pos + walk.size
                             /\ walk.pos + walk.size <= walk.aggEnd
    <3>1. SUFFICES ASSUME walk.at = "event"
                   PROVE  walk.pos + 2 + walk.n * walk.evtSize <= walk.pos + walk.size
      BY <2>1 DEF Walking
    <3>2. /\ walk.size \in 0 .. NumWords /\ walk.size >= 2 /\ walk.evtSize \in Nat \ {0}
          /\ walk.n = (walk.size - 2) \div walk.evtSize
          /\ walk.pos \in Nat
      BY <2>1, <3>1 DEF Walking, WalkType
    <3> DEFINE m == walk.n * walk.evtSize
    <3>3. 2 + m <= walk.size
      BY <3>2, EventsFit
    <3>4. m \in Int
      BY <2>1, <3>2 DEF WalkType
    <3> HIDE DEF m
    <3>5. walk.pos + 2 + m <= walk.pos + walk.size
      BY <3>2, <3>3, <3>4
    <3> QED BY <3>5 DEF m
  <2> QED BY <2>2, <2>3, <2>4 DEF InBounds
<1> QED BY <1>1, InvariantHolds, PTL

(* A well-formed buffer is walked to its end, and none of the checks against *)
(* corruption rejects any of it.                                             *)
THEOREM SoundBuffersRead == Spec => []SoundBufferRead
<1>1. StageInv => SoundBufferRead
  BY Zenon DEF StageInv, Sounding, SoundBufferRead
<1> QED BY <1>1, InvariantHolds, PTL

(* If the couples of a board agree on the width of their time stamps, every  *)
(* hit is placed at its true time, for any width of the counter, any number  *)
(* of wraps and any order of the hits within half a wrap.                    *)
THEOREM HitsInTheirEpoch == Spec => []TimesAreTrue
<1>1. StageInv => TimesAreTrue
  BY Zenon DEF StageInv, Timing, TimesAreTrue
<1> QED BY <1>1, InvariantHolds, PTL

(* Every hit that was put into a batch is in one place, and the hits come    *)
(* out in the order they were decoded in, for any capacity of the tap.       *)
THEOREM TapKeepsBooks == Spec => []TapAccounts
<1>1. StageInv => TapAccounts
  <2> SUFFICES ASSUME StageInv PROVE TapAccounts
    OBVIOUS
  <2>1. Stream /\ Counted /\ TapTypeOK
    BY TypeParts DEF StageInv
  <2> DEFINE n == Len(hits)
             stream == hits \o Current
  <2>2. hits \in Seq(Nat) /\ Current \in Seq(Nat) /\ n \in Nat /\ Len(Current) \in Nat
    BY <2>1 DEF TapTypeOK, Current
  <2>3. serial = (IF walk.at = "idle" THEN 0 ELSE Len(batch)) + Len(hits) + taken.count + dropped
                 + discarded
    BY <2>1 DEF Counted, Current
  <2>4. /\ Rising(hits) /\ Rising(Current) /\ Before(hits, Current)
        /\ Between(hits, taken.newest, serial) /\ Between(Current, taken.newest, serial)
    BY <2>1, Zenon DEF Stream
  <2>5. /\ Len(Current) \in 0 .. Len(Current) /\ SubSeq(Current, 1, Len(Current)) = Current
        /\ taken.newest \in Nat /\ serial \in Nat
    BY <2>1, <2>2 DEF TapTypeOK
  <2>6. Rising(stream) /\ Between(stream, taken.newest, serial)
    <3> HIDE DEF Current
    <3>1. LET u == hits \o SubSeq(Current, 1, Len(Current))
          IN  Rising(u) /\ Between(u, taken.newest, serial)
      BY <2>2, <2>4, <2>5, Joined
    <3> QED BY <2>5, <3>1
  <2>7. stream \in Seq(Nat)
    BY <2>2, ConcatProperties
  <2> HIDE DEF stream
  <2>8. \A i \in 1 .. Len(stream) : stream[i] > (IF i = 1 THEN taken.newest ELSE stream[i - 1])
    <3> TAKE i \in 1 .. Len(stream)
    <3>1. stream[i] \in Nat /\ (i > 1 => i - 1 \in 1 .. Len(stream) /\ stream[i - 1] \in Nat)
      BY <2>7
    <3>2. CASE i = 1
      BY <2>5, <2>6, <3>1, <3>2 DEF Between
    <3>3. CASE i > 1
      <4>1. stream[i - 1] < stream[i]
        BY <2>6, <3>1, <3>3 DEF Rising
      <4> QED BY <3>1, <3>3, <4>1
    <3> QED BY <3>2, <3>3
  <2> QED BY <2>3, <2>8, Zenon DEF TapAccounts, Current, stream
<1> QED BY <1>1, InvariantHolds, PTL
=============================================================================
