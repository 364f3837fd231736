------------------------- MODULE Adaptation_proofs -------------------------
EXTENDS Adaptation, SequenceTheorems, Recursion

(* Quotients of integers by positive numbers are integers, and of natural  *)
(* numbers natural numbers.                                                *)
LEMMA Quotient ==
  ASSUME NEW a \in Int, NEW b \in Nat \ {0}
  PROVE  /\ a \div b \in Int
         /\ b * (a \div b) <= a
         /\ a >= 0 => a \div b >= 0
BY Z3

(* What a quotient leaves is less than the divisor.                        *)
LEMMA QuotientRest ==
  ASSUME NEW a \in Nat, NEW b \in Nat \ {0}
  PROVE  a \div b \in Nat /\ a < b * (a \div b) + b
BY Z3

(* The product of two natural numbers is one.                              *)
LEMMA Product ==
  ASSUME NEW a \in Nat, NEW b \in Nat
  PROVE  a * b \in Nat
BY SMT

(* So is their sum.                                                        *)
LEMMA Sum ==
  ASSUME NEW a \in Nat, NEW b \in Nat
  PROVE  a + b \in Nat
OBVIOUS

-----------------------------------------------------------------------------
(* The levels are numbers, each with a positive rate.                      *)
LEMMA Ladder ==
  /\ Top \in Nat
  /\ 0 \in Quality
  /\ Quality \subseteq Nat
  /\ \A q \in Quality : q <= Top
  /\ \A q \in Quality : AverageBitrate[q] \in Nat \ {0}
  /\ SegmentDuration \in Nat \ {0}
<1>1. Levels \in Nat \ {0} /\ AverageBitrate \in [0 .. Levels - 1 -> Nat \ {0}]
  BY LoopAssumption
<1> QED
  BY <1>1, LoopAssumption DEF Top, Quality

(* What a step does whatever the algorithm is: the measurements of a       *)
(* segment, of one of its level's sizes, are numbers within their bounds.  *)
LEMMA Arrival ==
  ASSUME LoopTypeOK, SegmentArrives
  PROVE  /\ bandwidth' \in Bandwidths
         /\ bandwidth' \in Nat \ {0}
         /\ fetchTime' \in Nat
         /\ \E size \in SegmentSizes[quality_] :
              size \in Nat \ {0} /\ bandwidth' * fetchTime' <= size
         /\ level' \in Nat
         /\ received' \in 0 .. InitSegments
<1>1. bandwidth' \in Bandwidths
  BY DEF LoopTypeOK, SegmentArrives
<1>2. bandwidth' \in Nat \ {0}
  BY <1>1, LoopAssumption
<1>3. /\ fetchTime' \in Nat
      /\ \E size \in SegmentSizes[quality_] :
           size \in Nat \ {0} /\ bandwidth' * fetchTime' <= size
  <2>1. SegmentSizes[quality_] \subseteq Nat \ {0}
    BY LoopAssumption DEF LoopTypeOK, Quality, Top
  <2>2. PICK size \in SegmentSizes[quality_] : fetchTime' = size \div bandwidth'
    BY DEF SegmentArrives, FetchTimes
  <2>3. size \in Nat \ {0}
    BY <2>1
  <2>4. fetchTime' \in Int /\ bandwidth' * fetchTime' <= size /\ fetchTime' >= 0
    <3>1. /\ size \div bandwidth' \in Int
          /\ bandwidth' * (size \div bandwidth') <= size
          /\ size \div bandwidth' >= 0
      <4>1. size \in Int /\ size >= 0
        BY <2>3
      <4> QED
        BY <1>2, <4>1, Quotient
    <3> QED
      BY <2>2, <3>1, Zenon
  <2> QED
    BY <2>3, <2>4
<1>4. level' \in Nat
  <2>1. level \in Nat /\ delay \in Nat /\ received \in Nat /\ InitSegments \in Nat
    BY LoopAssumption DEF LoopTypeOK
  <2>2. fetchTime' \in Nat
    BY <1>3
  <2>3. \A sinceLast \in Nat : LevelBefore(sinceLast) \in Nat
    BY <2>1 DEF LevelBefore, Larger
  <2>4. delay + fetchTime' \in Nat
    BY <2>1, <2>2, Sum, Zenon
  <2>5. LevelBefore(delay + fetchTime') \in Nat
    BY <2>3, <2>4, Zenon
  <2> QED
    BY <2>5, LoopAssumption DEF SegmentArrives, Smaller
<1>5. received' \in 0 .. InitSegments
  BY LoopAssumption DEF SegmentArrives, LoopTypeOK, Smaller
<1> QED
  BY <1>1, <1>2, <1>3, <1>4, <1>5

-----------------------------------------------------------------------------
(* What each algorithm answers: a level of the table, and a delay that,    *)
(* except for PANDA's and TOBASCO's, is no longer than what is buffered.   *)
LEMMA LargestLevel ==
  ASSUME NEW S \in SUBSET Quality, S # {}
  PROVE  /\ (CHOOSE q \in S : \A p \in S : p <= q) \in S
         /\ \A p \in S : p <= (CHOOSE q \in S : \A p_1 \in S : p_1 <= q)
<1>1. \E m \in S : \A s \in S : s <= m
  BY Largest, Ladder DEF Quality
<1> QED
  BY <1>1

(* FESTIVE's target is a level of the table.                               *)
LEMMA BTargetIsLevel ==
  ASSUME NEW estimate
  PROVE  BTarget(estimate) \in Quality
<1> DEFINE within == {q \in Quality : 5 * AverageBitrate[q] <= 4 * estimate}
<1>1. within \in SUBSET Quality
  OBVIOUS
<1>2. BTarget(estimate) = IF within = {} THEN 0
                          ELSE CHOOSE q \in within : \A p \in within : p <= q
  BY DEF BTarget
<1> HIDE DEF within
<1> QED
  BY <1>1, <1>2, LargestLevel, Ladder

(* The reference is a neighbour of the current level.                      *)
LEMMA BRefIsNeighbour ==
  ASSUME quality_ \in Quality, NEW target \in Quality, NEW count \in Nat
  PROVE  /\ BRef(target, count) \in Quality
         /\ BRef(target, count) - quality_ \in -1 .. 1
BY Ladder DEF BRef, Quality, Top

(* FESTIVE's delay is at most what is buffered.                            *)
LEMMA DelayAboveBounds ==
  ASSUME NEW buffered \in Nat, NEW threshold \in Nat
  PROVE  DelayAbove(buffered, threshold) \in 0 .. buffered
BY DEF DelayAbove

(* So is that of RAAHS,                                                    *)
LEMMA RaahsPauseBounds ==
  ASSUME quality_ \in Quality, NEW buffered \in Nat
  PROVE  RaahsPause(buffered) \in 0 .. buffered
<1> DEFINE reserve == (AverageBitrate[quality_] * SegmentDuration) \div AverageBitrate[0]
<1>1. reserve \in Nat
  <2>1. AverageBitrate[quality_] * SegmentDuration \in Nat
    BY Ladder, Product
  <2>2. AverageBitrate[0] \in Nat \ {0}
    BY Ladder
  <2> QED
    BY <2>1, <2>2, Quotient
<1>2. RaahsPause(buffered) = Larger(buffered - MinLevel - reserve, 0)
  BY DEF RaahsPause
<1> HIDE DEF reserve
<1> QED
  BY <1>1, <1>2, RaahsAssumption DEF Larger

(* A quotient does not exceed a bound that its dividend respects.          *)
LEMMA QuotientBound ==
  ASSUME NEW x \in Nat, NEW b \in Nat \ {0}, NEW c \in Nat
  PROVE  /\ (x * b - c) \div b \in Int
         /\ (x * b - c) \div b <= x
BY Z3

(* and that of SFTM.                                                       *)
LEMMA SftmPauseBounds ==
  ASSUME NEW buffered \in Nat
  PROVE  SftmPause(buffered) \in 0 .. buffered
<1> DEFINE c == SegmentDuration * AverageBitrate[Top]
           d == (buffered * AverageBitrate[0] - c) \div AverageBitrate[0]
<1>1. c \in Nat
  BY Ladder, Product DEF Quality
<1>2. AverageBitrate[0] \in Nat \ {0}
  BY Ladder
<1>3. SftmPause(buffered) = Larger(d, 0)
  BY DEF SftmPause
<1> HIDE DEF c
<1>4. d \in Int /\ d <= buffered
  BY <1>1, <1>2, QuotientBound
<1> HIDE DEF d
<1> QED
  BY <1>3, <1>4 DEF Larger

(* The search of OSMP ends at a level of the table, and at one that fits   *)
(* unless it is the lowest it looks at.                                    *)
LEMMA OsmpUpIsLevel ==
  ASSUME quality_ \in Quality, quality_ < Top, NEW took
  PROVE  /\ OsmpUp(took) \in Quality
         /\ OsmpUp(took) > 1 => OsmpFits(OsmpUp(took), took)
<1> DEFINE Ends(l) == l = Top \/ ~OsmpFits(l + 1, took)
           S == {l \in 1 .. Top : Ends(l)}
<1>1. Top \in S /\ S \in SUBSET Nat
  BY Ladder DEF Quality
<1>2. PICK l \in S : \A s \in S : l <= s
  BY <1>1, Smallest
<1>3. ASSUME NEW p \in 1 .. l - 1 PROVE OsmpFits(p + 1, took)
  <2>1. p \in 1 .. Top /\ ~(l <= p)
    BY <1>2, Ladder
  <2> QED
    BY <1>2, <2>1
<1>4. l \in 1 .. Top /\ Ends(l)
  BY <1>2
<1> DEFINE up == OsmpUp(took)
<1>5. up \in 1 .. Top /\ \A p \in 1 .. up - 1 : OsmpFits(p + 1, took)
  BY <1>3, <1>4 DEF OsmpUp
<1> HIDE DEF up
<1>6. up > 1 => OsmpFits(up, took)
  <2> SUFFICES ASSUME up > 1 PROVE OsmpFits(up, took)
    OBVIOUS
  <2>1. up - 1 \in 1 .. up - 1 /\ (up - 1) + 1 = up
    BY <1>5, Ladder
  <2> QED
    BY <1>5, <2>1
<1>7. up \in Quality
  BY <1>5, Ladder DEF Quality
<1> QED
  BY <1>6, <1>7 DEF up

(* OSMP answers a level of the table.                                      *)
LEMMA OsmpIsLevel ==
  ASSUME quality_ \in Quality, NEW took
  PROVE  OsmpNext(took) \in Quality
<1>1. OsmpDown(took) \in Quality
  BY Ladder DEF OsmpDown, Quality
<1> QED
  BY <1>1, OsmpUpIsLevel, Ladder DEF OsmpNext

(* The history of FESTIVE stays a nonempty window that ends with the       *)
(* level asked for.                                                        *)
LEMMA WindowSlides ==
  ASSUME NEW h \in Seq(Quality), Len(h) \in 1 .. Horizon, NEW q \in Quality
  PROVE  LET w == LastOf(Append(h, q)) IN
         /\ w \in Seq(Quality)
         /\ Len(w) \in 1 .. Horizon
         /\ w[Len(w)] = q
<1> DEFINE a == Append(h, q)
<1>1. a \in Seq(Quality) /\ Len(a) = Len(h) + 1 /\ a[Len(a)] = q /\ a # <<>>
  BY AppendProperties
<1>2. CASE Len(a) > Horizon
  <2>1. /\ Tail(a) \in Seq(Quality)
        /\ Len(Tail(a)) = Len(a) - 1
        /\ \A i \in 1 .. Len(Tail(a)) : Tail(a)[i] = a[i + 1]
    BY <1>1, HeadTailProperties
  <2>2. Len(h) \in Nat /\ Horizon \in Nat
    BY FestiveAssumption
  <2> HIDE DEF a
  <2>3. Tail(a)[Len(Tail(a))] = a[Len(a)]
    BY <1>1, <2>1, <2>2
  <2> QED
    BY <1>1, <1>2, <2>1, <2>2, <2>3 DEF LastOf, a
<1>3. CASE ~(Len(a) > Horizon)
  BY <1>1, <1>3, FestiveAssumption DEF LastOf
<1> QED
  BY <1>2, <1>3

(* A consultation of FESTIVE.                                              *)
LEMMA FestiveAnswers ==
  ASSUME AdaptationTypeOK, FestiveStep
  PROVE  /\ quality_' \in Quality
         /\ quality_' - quality_ \in -1 .. 1
         /\ delay' \in 0 .. level'
         /\ FestiveTypeOK'
<1>1. PICK estimate \in Estimates', random \in Jitter : FestiveReply(estimate, random)
  BY DEF FestiveStep
<1> DEFINE target == BTarget(estimate)
           count  == switch_up_count_ + 1
           ref    == BRef(target, count)
<1>2. /\ quality_ \in Quality /\ switch_up_count_ \in Nat
      /\ history \in Seq(Quality) /\ Len(history) \in 1 .. Horizon
      /\ quality_ \in Int
  BY Ladder DEF AdaptationTypeOK, LoopTypeOK, FestiveTypeOK
<1>3. target \in Quality
  BY BTargetIsLevel
<1>4. count \in Nat
  BY <1>2
<1>5. quality_' = ref \/ quality_' = quality_
  BY <1>1 DEF FestiveReply
<1>6. /\ switch_up_count_' \in Nat
      /\ history' = LastOf(Append(history, quality_'))
      /\ delay' = DelayAbove(level', FestiveTarget - Delta + random)
  BY <1>1, <1>4 DEF FestiveReply, CountAfter
<1> HIDE DEF target, count
<1>7. ref \in Quality /\ ref - quality_ \in -1 .. 1
  BY <1>2, <1>3, <1>4, BRefIsNeighbour
<1> HIDE DEF ref
<1>8. quality_' \in Quality
  BY <1>2, <1>5, <1>7
<1>9. quality_' - quality_ \in -1 .. 1
  <2>1. quality_ - quality_ \in -1 .. 1
    BY <1>2
  <2> QED
    BY <1>5, <1>7, <2>1, Zenon
<1>10. delay' \in 0 .. level'
  <2>1. level' \in Nat
    BY Arrival DEF FestiveStep, AdaptationTypeOK
  <2>2. FestiveTarget - Delta + random \in Nat
    <3>1. /\ FestiveTarget \in Nat /\ Delta \in 0 .. FestiveTarget
          /\ random \in 0 .. 2 * Delta
      BY FestiveAssumption
    <3> QED
      BY ONLY <3>1, SMT
  <2> QED
    BY <1>6, <2>1, <2>2, DelayAboveBounds, Zenon
<1>11. FestiveTypeOK'
  BY <1>2, <1>6, <1>8, WindowSlides DEF FestiveTypeOK
<1> QED
  BY <1>8, <1>9, <1>10, <1>11

(* A consultation of OSMP.                                                 *)
LEMMA OsmpAnswers ==
  ASSUME AdaptationTypeOK, OsmpStep
  PROVE  /\ quality_' \in Quality
         /\ delay' \in 0 .. level'
<1>1. level' \in Nat /\ delay' = 0
  BY Arrival DEF OsmpStep, AdaptationTypeOK
<1>2. quality_' \in Quality
  BY OsmpIsLevel DEF OsmpStep, AdaptationTypeOK, LoopTypeOK
<1> QED
  BY <1>1, <1>2

(* A consultation of RAAHS; when it crashes there is no answer.            *)
LEMMA RaahsAnswers ==
  ASSUME AdaptationTypeOK, RaahsStep
  PROVE  /\ quality_' \in Quality
         /\ delay' \in Nat
         /\ crashed' \in BOOLEAN
         /\ ~crashed' => delay' \in 0 .. level'
<1> DEFINE down == ~RaahsUp(fetchTime') /\ RaahsDown(fetchTime')
           lower == RaahsLower(fetchTime')
<1>1. quality_ \in Quality /\ delay \in Nat /\ level' \in Nat /\ crashed = FALSE
  BY Arrival DEF AdaptationTypeOK, LoopTypeOK, RaahsTypeOK, RaahsStep
<1>2. CASE down /\ lower = {}
  <2>1. crashed' = TRUE /\ quality_' = quality_ /\ delay' = delay
    BY <1>2 DEF RaahsStep
  <2> QED
    BY <1>1, <2>1
<1>3. CASE ~(down /\ lower = {})
  <2>1. /\ delay' = RaahsPause(level')
        /\ crashed' = crashed
        /\ quality_' = CASE RaahsUp(fetchTime') -> Smaller(quality_ + 1, Top)
                         [] down -> CHOOSE q \in lower : \A p \in lower : p <= q
                         [] OTHER -> quality_
    BY <1>3 DEF RaahsStep
  <2>2. delay' \in 0 .. level'
    BY <1>1, <2>1, RaahsPauseBounds, Zenon
  <2>3. Smaller(quality_ + 1, Top) \in Quality
    BY <1>1, Ladder DEF Smaller, Quality
  <2>4. lower \in SUBSET Quality
    BY <1>1, Ladder DEF RaahsLower, Quality
  <2> HIDE DEF lower
  <2>5. down => (CHOOSE q \in lower : \A p \in lower : p <= q) \in Quality
    BY <1>3, <2>4, LargestLevel
  <2>6. quality_' \in Quality
    <3> DEFINE c == CHOOSE q \in lower : \A p \in lower : p <= q
               b == Smaller(quality_ + 1, Top)
    <3> HIDE DEF c, b
    <3>1. quality_' = CASE RaahsUp(fetchTime') -> b [] down -> c [] OTHER -> quality_
      BY <2>1, Zenon DEF c, b
    <3>2. b \in Quality /\ (down => c \in Quality)
      BY <2>3, <2>5 DEF c, b
    <3> QED
      BY <1>1, <3>1, <3>2
  <2>7. crashed' \in BOOLEAN
    BY <1>1, <2>1
  <2>8. delay' \in Nat
    BY <1>1, <2>2
  <2> QED
    BY <2>2, <2>6, <2>7, <2>8
<1> QED
  BY <1>2, <1>3

(* A consultation of SFTM.                                                 *)
LEMMA SftmAnswers ==
  ASSUME AdaptationTypeOK, SftmStep
  PROVE  /\ quality_' \in Quality
         /\ delay' \in 0 .. level'
         /\ SftmTypeOK'
<1> DEFINE time == TimeFor(unplayed')
           lower == SftmLower(time, fetchTime')
           c == CHOOSE q \in lower : \A p \in lower : p <= q
<1>1. quality_ \in Quality /\ level' \in Nat
  BY Arrival DEF AdaptationTypeOK, LoopTypeOK, SftmStep
<1>2. /\ delay' = SftmPause(level')
      /\ rsft_exceeded_' = ExceededAfter(unplayed')
      /\ quality_' = SftmNext(time, fetchTime')
  BY DEF SftmStep
<1>3. delay' \in 0 .. level'
  BY <1>1, <1>2, SftmPauseBounds, Zenon
<1>4. rsft_exceeded_' \in BOOLEAN
  BY <1>2 DEF ExceededAfter
<1>8. unplayed' \in Nat
  <2>1. PICK drift \in FrameDrift :
          unplayed' = Smaller(UnplayedAfter(delay + fetchTime' + drift) + SegmentDuration, MaxLevel)
    BY DEF SftmStep
  <2>2. /\ unplayed \in Nat /\ SegmentDuration \in Nat /\ MaxLevel \in Nat
        /\ delay \in Nat /\ fetchTime' \in Nat /\ drift \in Int
    BY LoopAssumption, SftmAssumption, Arrival DEF AdaptationTypeOK, LoopTypeOK, SftmTypeOK, SftmStep
  <2>3. \A played \in Int : UnplayedAfter(played) \in Nat
    BY <2>2 DEF UnplayedAfter, Larger
  <2>4. delay + fetchTime' + drift \in Int
    BY <2>2
  <2>5. UnplayedAfter(delay + fetchTime' + drift) \in Nat
    BY <2>3, <2>4, Zenon
  <2> HIDE DEF UnplayedAfter
  <2>6. \A u \in Nat : Smaller(u + SegmentDuration, MaxLevel) \in Nat
    BY <2>2 DEF Smaller
  <2> QED
    BY <2>1, <2>5, <2>6, Zenon
<1>5. quality_ < Top => quality_ + 1 \in Quality
  BY <1>1, Ladder DEF Quality
<1>6. lower # {} => c \in Quality
  <2>1. lower \in SUBSET Quality
    BY <1>1, Ladder DEF SftmLower, Quality
  <2> HIDE DEF lower
  <2> QED
    BY <2>1, LargestLevel
<1>7. \/ quality_' = quality_
      \/ quality_ < Top /\ quality_' = quality_ + 1
      \/ lower # {} /\ quality_' = c
  BY <1>2, Zenon DEF SftmNext, SftmUp
<1> HIDE DEF c, lower
<1> QED
  BY <1>1, <1>3, <1>4, <1>5, <1>6, <1>7, <1>8 DEF SftmTypeOK

(* A consultation of TOBASCO.                                              *)
LEMMA TobascoAnswers ==
  ASSUME AdaptationTypeOK, TobascoStep
  PROVE  /\ quality_' \in Quality
         /\ quality_' \in quality_ - 1 .. quality_ + 1 \/ (level' < BMin /\ quality_' = 0)
         /\ m_running_fast_start' =>
              m_running_fast_start /\ increasing' /\ quality_' >= quality_
         /\ delay' \in Nat
         /\ TobascoTypeOK'
<1>1. PICK estimate \in Estimates' :
        /\ m_running_fast_start' = FastStart(estimate)
        /\ IF FastStart(estimate)
           THEN quality_' = FastNext(estimate, level') /\ delay' = FastPause(level')
           ELSE /\ quality_' = TobascoNext(estimate, level')
                /\ delay' = TobascoPause(estimate, level')
  BY DEF TobascoStep
<1>2. quality_ \in Quality /\ level' \in Nat
  BY Arrival DEF AdaptationTypeOK, LoopTypeOK, TobascoStep
<1>3. m_running_fast_start' \in BOOLEAN /\ increasing' \in BOOLEAN
  BY <1>1 DEF FastStart, TobascoStep, AdaptationTypeOK, TobascoTypeOK
<1>4. /\ LevelUp \in Quality /\ LevelUp \in quality_ .. quality_ + 1
      /\ LevelDown \in Quality /\ LevelDown \in quality_ - 1 .. quality_
  BY <1>2, Ladder DEF LevelUp, LevelDown, Quality
<1>5. /\ BHigh - SegmentDuration \in Nat
      /\ BOpt \in Nat
  <2>1. SegmentDuration \in Nat
    BY LoopAssumption, Zenon
  <2>2. BLow \in Nat /\ BHigh \in Nat /\ SegmentDuration <= BHigh
    BY TobascoAssumption, Zenon
  <2>3. BHigh - SegmentDuration \in Nat
    BY <2>1, <2>2
  <2>4. BOpt \in Nat
    BY <2>2 DEF BOpt
  <2> QED
    BY <2>3, <2>4
<1>6. CASE FastStart(estimate)
  <2>1. quality_' = LevelUp \/ quality_' = quality_
    BY <1>1, <1>6 DEF FastNext
  <2>2. delay' \in Nat
    BY <1>1, <1>5, <1>6 DEF FastPause
  <2>3. m_running_fast_start /\ increasing'
    BY <1>6 DEF FastStart
  <2>4. quality_' \in Quality /\ quality_' \in quality_ .. quality_ + 1
    <3>1. quality_ \in quality_ .. quality_ + 1
      BY <1>2, Ladder
    <3> QED
      BY <1>2, <1>4, <2>1, <3>1, Zenon
  <2>5. quality_' >= quality_ /\ quality_' \in quality_ - 1 .. quality_ + 1
    BY <1>2, <2>4, Ladder
  <2> QED
    BY <1>3, <2>2, <2>3, <2>4, <2>5 DEF TobascoTypeOK
<1>7. CASE ~FastStart(estimate)
  <2>1. ~m_running_fast_start'
    BY <1>1, <1>7
  <2>2. delay' = TobascoPause(estimate, level') /\ quality_' = TobascoNext(estimate, level')
    BY <1>1, <1>7
  <2>3. delay' \in Nat
    <3>1. \A b \in Nat : TobascoPause(estimate, b) \in Nat
      BY <1>5, LoopAssumption DEF TobascoPause, Larger
    <3> QED
      BY <1>2, <2>2, <3>1
  <2>4. \/ quality_' \in {LevelUp, LevelDown, quality_}
        \/ level' < BMin /\ quality_' = 0
    <3>1. ASSUME NEW b
          PROVE  \/ TobascoNext(estimate, b) \in {LevelUp, LevelDown, quality_}
                 \/ b < BMin /\ TobascoNext(estimate, b) = 0
      <4> DEFINE low == b < BMin
                 down == /\ BMin <= b /\ b < BLow
                         /\ quality_ # 0
                         /\ AverageBitrate[quality_] >= estimate
                 up == BHigh <= b /\ ~AtLimit(estimate)
      <4>1. TobascoNext(estimate, b) = CASE low -> 0 [] down -> LevelDown
                                         [] up -> LevelUp [] OTHER -> quality_
        BY DEF TobascoNext
      <4>2. low \in BOOLEAN /\ down \in BOOLEAN /\ up \in BOOLEAN
        OBVIOUS
      <4> HIDE DEF low, down, up
      <4>3. \/ TobascoNext(estimate, b) \in {LevelUp, LevelDown, quality_}
            \/ low /\ TobascoNext(estimate, b) = 0
        BY <4>1, <4>2
      <4> QED
        BY <4>3 DEF low
    <3> QED
      BY <2>2, <3>1, Zenon
  <2>5. /\ quality_' \in Quality
        /\ quality_' \in quality_ - 1 .. quality_ + 1 \/ (level' < BMin /\ quality_' = 0)
    BY <1>2, <1>4, <2>4, Ladder
  <2> QED
    BY <1>3, <2>1, <2>3, <2>5 DEF TobascoTypeOK
<1> QED
  BY <1>6, <1>7

(* What a search finds is a level, and at least every level searched.      *)
LEMMA HighestOfIsLevel ==
  ASSUME NEW within \in SUBSET Quality, NEW otherwise \in Quality
  PROVE  /\ HighestOf(within, otherwise) \in Quality
         /\ \A q \in within : q <= HighestOf(within, otherwise)
BY LargestLevel DEF HighestOf

(* The estimate is a number that can be divided by.                        *)
LEMMA EstimateIsPositive ==
  ASSUME bandwidth' \in Nat \ {0}, NEW estimate \in Estimates'
  PROVE  estimate \in Nat \ {0}
<1>1. CASE Varying
  <2>1. PICK fast \in Bandwidths : estimate \in 1 .. fast
    BY <1>1 DEF Estimates
  <2> QED
    BY <2>1
<1>2. CASE ~Varying
  BY <1>2 DEF Estimates
<1> QED
  BY <1>1, <1>2

(* FDASH's delay is at most what is buffered above the target.             *)
LEMMA FdashPauseBounds ==
  ASSUME NEW next \in Quality, NEW estimate \in Nat \ {0}, NEW buffered \in Nat
  PROVE  FdashPause(next, estimate, buffered) \in 0 .. buffered
<1> DEFINE c == AverageBitrate[next] * SegmentDuration
           d == (estimate * (buffered - FdashTarget) - c) \div estimate
<1>1. c \in Nat
  BY Ladder, Product
<1>2. FdashTarget \in Nat
  BY FdashAssumption
<1>3. FdashPause(next, estimate, buffered) = IF next = Top THEN Larger(d, 0) ELSE 0
  BY DEF FdashPause
<1> HIDE DEF c
<1>4. d \in Int /\ d <= buffered
  <2>1. \A e \in Nat \ {0}, b \in Nat, t \in Nat, s \in Nat :
          /\ (e * (b - t) - s) \div e \in Int
          /\ (e * (b - t) - s) \div e <= b
    <3> SUFFICES ASSUME NEW e \in Nat \ {0}, NEW b \in Nat, NEW t \in Nat, NEW s \in Nat
                 PROVE  /\ (e * (b - t) - s) \div e \in Int
                        /\ (e * (b - t) - s) \div e <= b
      OBVIOUS
    <3>1. \A x \in Int : x <= e * b => x \div e \in Int /\ x \div e <= b
      BY Z3
    <3>2. e * (b - t) - s \in Int /\ e * (b - t) - s <= e * b
      BY Z3
    <3> QED
      BY <3>1, <3>2, Zenon
  <2> QED
    BY <1>1, <1>2, <2>1, Zenon
<1> HIDE DEF d
<1> QED
  BY <1>3, <1>4 DEF Larger

(* A consultation of FDASH.                                                *)
LEMMA FdashAnswers ==
  ASSUME AdaptationTypeOK, FdashStep
  PROVE  /\ quality_' \in Quality
         /\ delay' \in 0 .. level'
<1>1. PICK estimate \in Estimates' :
        \E result \in Results(Factors(level', BufferDiff), estimate) :
          /\ quality_' = FdashNext(BelowResult(result), estimate, level')
          /\ delay' = FdashPause(quality_', estimate, level')
  BY DEF FdashStep
<1> DEFINE results == Results(Factors(level', BufferDiff), estimate)
<1> PICK result \in results :
      /\ quality_' = FdashNext(BelowResult(result), estimate, level')
      /\ delay' = FdashPause(quality_', estimate, level')
  BY <1>1
<1> HIDE DEF results
<1>2. quality_ \in Quality /\ level' \in Nat /\ bandwidth' \in Nat \ {0}
  BY Arrival DEF AdaptationTypeOK, LoopTypeOK, FdashStep
<1>3. estimate \in Nat \ {0}
  BY <1>2, EstimateIsPositive
<1>4. BelowResult(result) \in Quality
  BY <1>2, HighestOfIsLevel DEF BelowResult
<1>5. quality_' \in Quality
  BY <1>1, <1>2, <1>4 DEF FdashNext
<1> QED
  BY <1>1, <1>2, <1>3, <1>5, FdashPauseBounds, Zenon

(* The patience of a consultation is one of four.                          *)
LEMMA MkIsPatience ==
  ASSUME NEW diff \in Int
  PROVE  Mk(diff) \in Patiences
<1> DEFINE a == 10 * diff >= 4 * SegmentDuration
           b == 4 * SegmentDuration > 10 * diff /\ 10 * diff >= 2 * SegmentDuration
           c == 2 * SegmentDuration > 10 * diff /\ diff >= 0
           d == diff < 0
<1>1. a \/ b \/ c \/ d
  BY Ladder
<1>2. Mk(diff) = CASE a -> 1 [] b -> 5 [] c -> 15 [] d -> 20
  BY DEF Mk
<1>3. a \in BOOLEAN /\ b \in BOOLEAN /\ c \in BOOLEAN /\ d \in BOOLEAN
  OBVIOUS
<1> HIDE DEF a, b, c, d
<1> QED
  BY <1>1, <1>2, <1>3 DEF Patiences

(* A consultation of SVAA.                                                 *)
LEMMA SvaaAnswers ==
  ASSUME AdaptationTypeOK, SvaaStep
  PROVE  /\ quality_' \in Quality
         /\ delay' \in 0 .. level'
         /\ SvaaTypeOK'
<1> DEFINE mk == Mk(BufferDiff)
           m == (mk + m_m_k_1 + m_m_k_2) \div 3
<1>1. \E estimate \in Estimates' : \E u : SvaaReply(estimate, u, m)
  BY DEF SvaaStep
<1> PICK estimate \in Estimates' : \E u : SvaaReply(estimate, u, m)
  BY <1>1
<1> PICK u : SvaaReply(estimate, u, m)
  OBVIOUS
<1>2. /\ quality_ \in Quality /\ level \in Nat /\ level' \in Nat
      /\ m_m_k_1 \in Patiences \cup {0} /\ m_m_k_2 \in Patiences \cup {0}
      /\ m_counter \in 0 .. 20
  BY Arrival DEF AdaptationTypeOK, LoopTypeOK, SvaaTypeOK, SvaaStep
<1>3. BufferDiff \in Int
  <2>1. \A x \in Nat, y \in Nat : x - y \in Int
    OBVIOUS
  <2> QED
    BY <1>2, <2>1 DEF BufferDiff
<1>4. mk \in Patiences
  BY <1>3, MkIsPatience
<1>5. m_m_k_1' = mk /\ m_m_k_2' = m_m_k_1 /\ delay' = 0
  BY DEF SvaaStep
<1> HIDE DEF mk
<1>6. m \in 0 .. 20
  BY <1>2, <1>4, SMT DEF Patiences
<1> HIDE DEF m
<1>7. SvaaFits(estimate) \in Quality
  BY HighestOfIsLevel, Ladder DEF SvaaFits
<1>8. quality_' = SvaaFits(estimate) \/ quality_' = quality_
  BY <1>1 DEF SvaaReply
<1>9. \/ m_counter' = m_counter
      \/ m_counter' = 0
      \/ m_counter + 1 <= m /\ m_counter' = m_counter + 1
  BY <1>1 DEF SvaaReply
<1>10. m_counter' \in 0 .. 20
  <2>1. \A n \in 0 .. 20, k \in 0 .. 20 : n + 1 <= k => n + 1 \in 0 .. 20
    OBVIOUS
  <2>2. 0 \in 0 .. 20
    OBVIOUS
  <2> QED
    BY <1>2, <1>6, <1>9, <2>1, <2>2, Zenon
<1>11. quality_' \in Quality
  BY <1>2, <1>7, <1>8
<1>12. delay' \in 0 .. level'
  BY <1>2, <1>5
<1>13. SvaaTypeOK'
  BY <1>2, <1>4, <1>5, <1>10 DEF SvaaTypeOK
<1> QED
  BY <1>11, <1>12, <1>13

(* PANDA's level is one of those found, or the current one.                *)
LEMMA VideoIndexIsLevel ==
  ASSUME quality_ \in Quality, NEW smooth
  PROVE  VideoIndex(smooth) \in Quality
<1>1. \A margin : FindLargest(smooth, margin) \in Quality
  <2> SUFFICES ASSUME NEW margin PROVE FindLargest(smooth, margin) \in Quality
    OBVIOUS
  <2>1. {q \in 0 .. Top - 1 : AverageBitrate[q] <= smooth - margin} \in SUBSET Quality
    BY Ladder DEF Quality
  <2> QED
    BY <2>1, HighestOfIsLevel, Ladder DEF FindLargest
<1>2. RUp(smooth) \in Quality /\ RDown(smooth) \in Quality
  BY <1>1 DEF RUp, RDown
<1> DEFINE up == RUp(smooth)
           down == RDown(smooth)
           higher == AverageBitrate[quality_] < AverageBitrate[up]
           between == AverageBitrate[quality_] \in AverageBitrate[up] .. AverageBitrate[down]
<1>3. VideoIndex(smooth) = CASE higher -> up [] between -> quality_ [] OTHER -> down
  BY DEF VideoIndex
<1>4. higher \in BOOLEAN /\ between \in BOOLEAN
  OBVIOUS
<1>5. up \in Quality /\ down \in Quality
  BY <1>2
<1> HIDE DEF up, down, higher, between
<1> QED
  BY <1>3, <1>4, <1>5

(* What a rate comes to in a time is a number, of the sign of the rate.    *)
LEMMA InTimeIsInt ==
  ASSUME NEW rate \in Int, NEW time \in Nat
  PROVE  InTime(rate, time) \in Int
<1> DEFINE s == time \div 1000
           ms == time % 1000
<1>1. s \in Int /\ ms \in Int
  BY SMT
<1>2. InTime(rate, time) = rate * s + (rate * ms) \div 1000
  BY DEF InTime
<1> HIDE DEF s, ms
<1>3. rate * s \in Int /\ rate * ms \in Int
  BY <1>1
<1> QED
  BY <1>2, <1>3

(* A consultation of PANDA.                                                *)
LEMMA PandaAnswers ==
  ASSUME AdaptationTypeOK, PandaStep
  PROVE  /\ quality_' \in Quality
         /\ delay' \in Nat
         /\ PandaTypeOK'
<1> DEFINE measured == Measured(fetchTime')
           share    == IF received = 0 THEN measured ELSE m_lastBandwidthShare
           smooth   == IF received = 0 THEN measured ELSE m_lastSmoothBandwidthShare
           time     == Larger(fetchTime', m_lastTargetInterrequestTime)
<1>1. /\ quality_ \in Quality /\ level' \in Nat /\ fetchTime' \in Nat
      /\ m_lastBandwidthShare \in Nat /\ m_lastSmoothBandwidthShare \in Int
      /\ m_lastTargetInterrequestTime \in Nat /\ m_lastBuffer \in Nat
  BY Arrival DEF AdaptationTypeOK, LoopTypeOK, PandaTypeOK, PandaStep
<1>2. /\ m_lastBandwidthShare' = Share(share, measured, time)
      /\ m_lastSmoothBandwidthShare' = Smooth(smooth, m_lastBandwidthShare', time)
      /\ quality_' = VideoIndex(m_lastSmoothBandwidthShare')
      /\ m_lastTargetInterrequestTime' = InterrequestTime(quality_', m_lastSmoothBandwidthShare')
      /\ delay' = Larger(m_lastTargetInterrequestTime - fetchTime', 0)
      /\ m_lastBuffer' = level'
  BY DEF PandaStep
<1>3. Omega \in Nat /\ PandaBMin \in Nat
  BY PandaAssumption
<1>4. measured \in Nat
  <2>1. AverageBitrate[quality_] * SegmentDuration \in Nat
    BY <1>1, Ladder, Product
  <2>2. Larger(fetchTime', 1) \in Nat \ {0}
    BY <1>1 DEF Larger
  <2> QED
    BY <2>1, <2>2, Quotient DEF Measured
<1>5. time \in Nat
  BY <1>1 DEF Larger
<1>6. share \in Nat /\ smooth \in Int
  BY <1>1, <1>4
<1> HIDE DEF measured, share, smooth, time
<1>7. m_lastBandwidthShare' \in Nat
  <2> DEFINE rate == Omega - Larger(0, share - measured + Omega)
  <2>1. rate \in Int
    BY <1>3, <1>4, <1>6 DEF Larger
  <2> HIDE DEF rate
  <2>2. InTime(rate, time) \in Int
    BY <1>5, <2>1, InTimeIsInt
  <2>3. \A s \in Nat, i \in Int : Larger(0, s + (28 * i) \div 100) \in Nat
    BY SMT DEF Larger
  <2>4. Larger(0, share + (28 * InTime(rate, time)) \div 100) \in Nat
    BY <1>6, <2>2, <2>3, Zenon
  <2> QED
    BY <1>2, <2>4, Zenon DEF Share, rate
<1>8. m_lastSmoothBandwidthShare' \in Int
  <2>1. \A s \in Nat, m \in Int : s - m \in Int
    OBVIOUS
  <2>2. InTime(m_lastBandwidthShare' - smooth, time) \in Int
    BY <1>5, <1>6, <1>7, <2>1, InTimeIsInt
  <2>3. \A s \in Int, i \in Int : s + i \div 5 \in Int
    BY SMT
  <2> QED
    BY <1>2, <1>6, <2>2, <2>3, Zenon DEF Smooth
<1>9. quality_' \in Quality
  BY <1>1, <1>2, VideoIndexIsLevel
<1>10. m_lastTargetInterrequestTime' \in Nat
  <2> DEFINE need == AverageBitrate[quality_'] * SegmentDuration
             s == m_lastSmoothBandwidthShare'
  <2>1. need \in Nat
    BY <1>9, Ladder, Product
  <2>2. AtShare(quality_', s) = IF s < 0 THEN -(need \div (-s)) ELSE need \div Larger(s, 1)
    BY DEF AtShare
  <2>3. s \in Int
    BY <1>8
  <2> HIDE DEF need, s
  <2>4. AtShare(quality_', s) \in Int
    <3>1. CASE s < 0
      <4>1. -s \in Nat \ {0}
        BY <2>3, <3>1
      <4>2. need \div (-s) \in Int
        BY <2>1, <4>1, Quotient
      <4> QED
        BY <2>2, <3>1, <4>2
    <3>2. CASE ~(s < 0)
      <4>1. Larger(s, 1) \in Nat \ {0}
        BY <2>3, <3>2 DEF Larger
      <4>2. need \div Larger(s, 1) \in Int
        BY <2>1, <4>1, Quotient
      <4> QED
        BY <2>2, <3>2, <4>2
    <3> QED
      BY <3>1, <3>2
  <2>5. \A a \in Int, b \in Nat, t \in Nat : Larger(0, a + (b - t) \div 5) \in Nat
    BY SMT DEF Larger
  <2>6. Larger(0, AtShare(quality_', s) + (m_lastBuffer - PandaBMin) \div 5) \in Nat
    BY <1>1, <1>3, <2>4, <2>5, Zenon
  <2> QED
    BY <1>2, <2>6, Zenon DEF InterrequestTime, s
<1>11. delay' \in Nat
  <2>1. \A x \in Nat, y \in Nat : Larger(x - y, 0) \in Nat
    BY DEF Larger
  <2> QED
    BY <1>1, <1>2, <2>1, Zenon
<1>12. PandaTypeOK'
  BY <1>1, <1>2, <1>7, <1>8, <1>10 DEF PandaTypeOK
<1> QED
  BY <1>9, <1>11, <1>12

-----------------------------------------------------------------------------
(* Every variable of the composition stays within its type, for every      *)
(* ladder, bandwidth, threshold and set of algorithms.                     *)
LEMMA TypeStep ==
  AdaptationTypeOK /\ [GetNextQuality]_adaptationVars => AdaptationTypeOK'
<1> SUFFICES ASSUME AdaptationTypeOK, [GetNextQuality]_adaptationVars
             PROVE  AdaptationTypeOK'
  OBVIOUS
<1>1. ASSUME SegmentArrives, quality_' \in Quality, delay' \in Nat
      PROVE  LoopTypeOK' /\ algorithm_' = algorithm_
  BY <1>1, Arrival DEF AdaptationTypeOK, LoopTypeOK, SegmentArrives
<1>2. ASSUME UNCHANGED festiveVars, algorithm_' = algorithm_, algorithm_ # "festive"
      PROVE  FestiveTypeOK'
  BY <1>2 DEF AdaptationTypeOK, FestiveTypeOK, festiveVars
<1>3. /\ UNCHANGED pandaVars => PandaTypeOK'
      /\ UNCHANGED crashed => RaahsTypeOK'
      /\ UNCHANGED sftmVars => SftmTypeOK'
      /\ UNCHANGED svaaVars => SvaaTypeOK'
      /\ UNCHANGED tobascoVars => TobascoTypeOK'
  BY DEF AdaptationTypeOK, PandaTypeOK, RaahsTypeOK, SftmTypeOK, SvaaTypeOK, TobascoTypeOK,
     pandaVars, sftmVars, svaaVars, tobascoVars
<1>4. algorithm_ \in Algorithms
  BY DEF AdaptationTypeOK
<1>5. \A n \in Nat : \A d \in 0 .. n : d \in Nat
  OBVIOUS
<1>6. SegmentArrives => level' \in Nat
  BY Arrival DEF AdaptationTypeOK
<1>7. CASE FdashStep /\ UNCHANGED <<festiveVars, pandaVars, crashed, sftmVars, svaaVars, tobascoVars>>
  <2>1. SegmentArrives /\ algorithm_ # "festive"
    BY <1>7 DEF FdashStep
  <2> QED
    BY <1>1, <1>2, <1>3, <1>4, <1>5, <1>6, <1>7, <2>1, FdashAnswers DEF AdaptationTypeOK
<1>8. CASE FestiveStep /\ UNCHANGED <<pandaVars, crashed, sftmVars, svaaVars, tobascoVars>>
  <2>1. SegmentArrives
    BY <1>8 DEF FestiveStep
  <2> QED
    BY <1>1, <1>3, <1>4, <1>5, <1>6, <1>8, <2>1, FestiveAnswers DEF AdaptationTypeOK
<1>9. CASE OsmpStep /\ UNCHANGED <<festiveVars, pandaVars, crashed, sftmVars, svaaVars, tobascoVars>>
  <2>1. SegmentArrives /\ algorithm_ # "festive"
    BY <1>9 DEF OsmpStep
  <2> QED
    BY <1>1, <1>2, <1>3, <1>4, <1>5, <1>6, <1>9, <2>1, OsmpAnswers DEF AdaptationTypeOK
<1>10. CASE PandaStep /\ UNCHANGED <<festiveVars, crashed, sftmVars, svaaVars, tobascoVars>>
  <2>1. SegmentArrives /\ algorithm_ # "festive"
    BY <1>10 DEF PandaStep
  <2> QED
    BY <1>1, <1>2, <1>3, <1>4, <1>10, <2>1, PandaAnswers DEF AdaptationTypeOK
<1>11. CASE RaahsStep /\ UNCHANGED <<festiveVars, pandaVars, sftmVars, svaaVars, tobascoVars>>
  <2>1. SegmentArrives /\ algorithm_ # "festive"
    BY <1>11 DEF RaahsStep
  <2>2. RaahsTypeOK'
    BY <1>11, RaahsAnswers DEF RaahsTypeOK
  <2> QED
    BY <1>1, <1>2, <1>3, <1>4, <1>11, <2>1, <2>2, RaahsAnswers DEF AdaptationTypeOK
<1>12. CASE SftmStep /\ UNCHANGED <<festiveVars, pandaVars, crashed, svaaVars, tobascoVars>>
  <2>1. SegmentArrives /\ algorithm_ # "festive"
    BY <1>12 DEF SftmStep
  <2> QED
    BY <1>1, <1>2, <1>3, <1>4, <1>5, <1>6, <1>12, <2>1, SftmAnswers
    DEF AdaptationTypeOK
<1>13. CASE SvaaStep /\ UNCHANGED <<festiveVars, pandaVars, crashed, sftmVars, tobascoVars>>
  <2>1. SegmentArrives /\ algorithm_ # "festive"
    BY <1>13 DEF SvaaStep
  <2> QED
    BY <1>1, <1>2, <1>3, <1>4, <1>5, <1>6, <1>13, <2>1, SvaaAnswers DEF AdaptationTypeOK
<1>14. CASE TobascoStep /\ UNCHANGED <<festiveVars, pandaVars, crashed, sftmVars, svaaVars>>
  <2>1. SegmentArrives /\ algorithm_ # "festive"
    BY <1>14 DEF TobascoStep
  <2> QED
    BY <1>1, <1>2, <1>3, <1>4, <1>14, <2>1, TobascoAnswers DEF AdaptationTypeOK
<1>15. CASE UNCHANGED adaptationVars
  BY <1>15 DEF adaptationVars, loopVars, festiveVars, pandaVars, sftmVars, svaaVars, tobascoVars,
     AdaptationTypeOK, LoopTypeOK, FestiveTypeOK, PandaTypeOK, RaahsTypeOK, SftmTypeOK,
     SvaaTypeOK, TobascoTypeOK
<1> QED
  BY <1>7, <1>8, <1>9, <1>10, <1>11, <1>12, <1>13, <1>14, <1>15 DEF GetNextQuality

(* Initially all variables are within their types.                         *)
LEMMA TypeInit == AdaptationInit => AdaptationTypeOK
<1> SUFFICES ASSUME AdaptationInit PROVE AdaptationTypeOK
  OBVIOUS
<1>1. LoopTypeOK
  BY Ladder, LoopAssumption DEF AdaptationInit, LoopInit, LoopTypeOK
<1>2. FestiveTypeOK
  BY Ladder, FestiveAssumption DEF AdaptationInit, FestiveInit, FestiveTypeOK, LoopInit
<1>3. PandaTypeOK
  BY Ladder DEF AdaptationInit, PandaInit, PandaTypeOK
<1>4. SvaaTypeOK
  BY DEF AdaptationInit, SvaaInit, SvaaTypeOK
<1> QED
  BY <1>1, <1>2, <1>3, <1>4 DEF AdaptationInit, AdaptationTypeOK, RaahsInit, RaahsTypeOK,
     SftmInit, SftmTypeOK, TobascoInit, TobascoTypeOK

(* The type invariant of the client with any of the eight algorithms,      *)
(* whatever the ladder and the thresholds are: no answer is a level        *)
(* outside averageBitrate, and no delay is negative.                       *)
THEOREM AdaptationTypeCorrect == AdaptationSpec => []AdaptationTypeOK
BY TypeInit, TypeStep, PTL DEF AdaptationSpec

-----------------------------------------------------------------------------
(* Whichever disjunct a step is, the algorithm keeps its name and only its *)
(* own disjunct is enabled.                                                *)
LEMMA StepOf ==
  ASSUME GetNextQuality
  PROVE  /\ algorithm_' = algorithm_
         /\ SegmentArrives
         /\ algorithm_ = "fdash" => FdashStep
         /\ algorithm_ = "festive" => FestiveStep
         /\ algorithm_ = "osmp" => OsmpStep
         /\ algorithm_ = "panda" => PandaStep
         /\ algorithm_ = "raahs" => RaahsStep
         /\ algorithm_ = "sftm" => SftmStep
         /\ algorithm_ = "svaa" => SvaaStep
         /\ algorithm_ = "tobasco" => TobascoStep
         /\ algorithm_ # "raahs" => UNCHANGED crashed
         /\ algorithm_ \in {"fdash", "festive", "osmp", "panda", "raahs", "sftm", "svaa", "tobasco"}
BY DEF GetNextQuality, FdashStep, FestiveStep, OsmpStep, PandaStep, RaahsStep, SftmStep,
   SvaaStep, TobascoStep, SegmentArrives

(* No algorithm but PANDA and TOBASCO puts a request off longer than the   *)
(* buffer lasts (Fdash, Festive, Osmp, Raahs, Sftm and Svaa, each with its *)
(* own formula for nextDownloadDelay), for every ladder, target and jitter.*)
THEOREM DelaysFitBuffer == AdaptationSpec => []DelayWithinBuffer
<1>1. AdaptationInit => DelayWithinBuffer
  BY DEF AdaptationInit, LoopInit, DelayWithinBuffer
<1>2. ASSUME AdaptationTypeOK, DelayWithinBuffer, [GetNextQuality]_adaptationVars
      PROVE  DelayWithinBuffer'
  <2>1. CASE UNCHANGED adaptationVars
    BY <1>2, <2>1 DEF adaptationVars, loopVars, DelayWithinBuffer
  <2>2. CASE GetNextQuality
    <3>1. SegmentArrives
      BY <2>2, StepOf
    <3>2. level' \in Nat
      BY <1>2, <3>1, Arrival DEF AdaptationTypeOK
    <3>3. algorithm_ \notin {"panda", "tobasco"} /\ ~crashed' => delay' \in 0 .. level'
      BY <1>2, <2>2, StepOf, FdashAnswers, FestiveAnswers, OsmpAnswers, RaahsAnswers,
         SftmAnswers, SvaaAnswers
    <3>4. algorithm_' = algorithm_
      BY <2>2, StepOf
    <3>5. \A d \in 0 .. level' : d <= level'
      BY <3>2
    <3> QED
      BY <3>3, <3>4, <3>5, Zenon DEF DelayWithinBuffer
  <2> QED
    BY <1>2, <2>1, <2>2
<1> QED
  BY <1>1, <1>2, AdaptationTypeCorrect, PTL DEF AdaptationSpec

-----------------------------------------------------------------------------
(* FESTIVE moves by one level at a time, whatever the estimate and the     *)
(* history: what it weighs against staying is always a neighbour.          *)
THEOREM FestiveMovesByOne == AdaptationSpec => OneLevelAtATime
<1>1. ASSUME AdaptationTypeOK, [GetNextQuality]_adaptationVars
      PROVE  [ algorithm_ = "festive" => quality_' - quality_ \in -1 .. 1 ]_quality_
  <2>1. CASE UNCHANGED adaptationVars
    BY <2>1 DEF adaptationVars, loopVars
  <2>2. CASE GetNextQuality
    BY <1>1, <2>2, StepOf, FestiveAnswers
  <2> QED
    BY <1>1, <2>1, <2>2
<1> QED
  BY <1>1, AdaptationTypeCorrect, PTL DEF AdaptationSpec, OneLevelAtATime

(* TOBASCO's fast start only grows, and is never taken up again.           *)
THEOREM TobascoStartGrows == AdaptationSpec => FastStartGrows
<1>1. ASSUME AdaptationTypeOK, [GetNextQuality]_adaptationVars
      PROVE  [ algorithm_ = "tobasco" /\ m_running_fast_start'
                 => m_running_fast_start /\ level' >= level /\ quality_' >= quality_
             ]_<<loopVars, tobascoVars>>
  <2>1. CASE UNCHANGED adaptationVars
    BY <2>1 DEF adaptationVars
  <2>2. CASE GetNextQuality /\ algorithm_ = "tobasco"
    <3>1. increasing' => level' >= level
      BY <2>2, StepOf DEF TobascoStep
    <3> QED
      BY <1>1, <2>2, <3>1, StepOf, TobascoAnswers
  <2> QED
    BY <1>1, <2>1, <2>2
<1> QED
  BY <1>1, AdaptationTypeCorrect, PTL DEF AdaptationSpec, FastStartGrows

(* TOBASCO falls by more than one level only to the lowest, with the       *)
(* buffer below BMin, and never rises by more than one.                    *)
THEOREM TobascoFallsLast == AdaptationSpec => FallIsLastResort
<1>1. ASSUME AdaptationTypeOK, [GetNextQuality]_adaptationVars
      PROVE  [ algorithm_ = "tobasco"
                 => \/ quality_' \in quality_ - 1 .. quality_ + 1
                    \/ level' < BMin /\ quality_' = 0 ]_<<loopVars, tobascoVars>>
  <2>1. CASE UNCHANGED adaptationVars
    BY <2>1 DEF adaptationVars
  <2>2. CASE GetNextQuality
    BY <1>1, <2>2, StepOf, TobascoAnswers
  <2> QED
    BY <1>1, <2>1, <2>2
<1> QED
  BY <1>1, AdaptationTypeCorrect, PTL DEF AdaptationSpec, FallIsLastResort

-----------------------------------------------------------------------------
(* A segment of any size, fetched at a safe rate b, measures more than the *)
(* lowest level's rate: mean is averageBitrate times segmentDuration.      *)
LEMMA FasterThanLowest ==
  ASSUME NEW b \in Nat \ {0}, NEW mean \in Nat, NEW low \in Nat, NEW took \in Nat,
         NEW size \in Nat, b * took <= size, low * size < b * mean
  PROVE  low * took < mean
<1>1. low * (b * took) <= low * size
  BY Z3
<1>2. b * (low * took) = low * (b * took)
  BY Z3
<1>3. low * took \in Nat
  BY Product
<1>4. b * (low * took) < b * mean
  BY <1>1, <1>2, Z3
<1> QED
  BY <1>3, <1>4, Z3

(* So the search finds a level, if only the lowest.                        *)
LEMMA SearchFinds ==
  ASSUME AdaptationTypeOK, RaahsStep, bandwidth' \in SafeRates
  PROVE  ~crashed'
<1> DEFINE took == fetchTime'
<1>1. /\ quality_ \in Quality /\ crashed = FALSE
      /\ bandwidth' \in Nat \ {0} /\ took \in Nat
  BY Arrival DEF AdaptationTypeOK, LoopTypeOK, RaahsTypeOK, RaahsStep
<1>2. SUFFICES ASSUME crashed' PROVE FALSE
  OBVIOUS
<1>3. RaahsDown(took) /\ RaahsLower(took) = {}
  BY <1>1, <1>2 DEF RaahsStep
<1>4. /\ AverageBitrate[quality_] \in Nat \ {0} /\ AverageBitrate[0] \in Nat
      /\ SegmentDuration \in Nat \ {0}
  BY <1>1, Ladder
<1>5. AverageBitrate[0] * took < SegmentDuration * AverageBitrate[quality_]
  <2>1. PICK size \in SegmentSizes[quality_] : size \in Nat /\ bandwidth' * took <= size
    BY Arrival DEF AdaptationTypeOK, RaahsStep
  <2> DEFINE mean == AverageBitrate[quality_] * SegmentDuration
  <2>2. mean \in Nat
    BY <1>4, Product
  <2>3. AverageBitrate[0] * size < bandwidth' * AverageBitrate[quality_] * SegmentDuration
    BY <1>1, <2>1 DEF SafeRates
  <2>4. \A x \in Nat, y \in Nat, z \in Nat : x * y * z = x * (y * z)
    BY Z3
  <2>5. AverageBitrate[0] * size < bandwidth' * mean
    BY <1>1, <1>4, <2>3, <2>4, Zenon
  <2> HIDE DEF mean
  <2>6. AverageBitrate[0] * took < mean
    BY <1>1, <1>4, <2>1, <2>2, <2>5, FasterThanLowest, Zenon
  <2>7. \A x \in Nat, y \in Nat : x * y = y * x
    BY Z3
  <2> QED
    BY <1>4, <2>6, <2>7, Zenon DEF mean
<1>6. CASE quality_ = 0
  <2>1. AverageBitrate[0] * took < SegmentDuration * AverageBitrate[0]
    BY <1>5, <1>6
  <2>2. took > SegmentDuration
    <3>1. \A t \in Nat, s \in Nat : 100 * s < 67 * t => t > s
      OBVIOUS
    <3>2. took \in Nat /\ SegmentDuration \in Nat
      BY <1>1, <1>4
    <3> QED
      BY <1>3, <3>1, <3>2, Zenon DEF RaahsDown
  <2>3. \A a \in Nat, t \in Nat, s \in Nat : t > s => ~(a * t < s * a)
    BY Z3
  <2> QED
    BY <1>1, <1>4, <2>1, <2>2, <2>3
<1>7. CASE quality_ # 0
  <2>1. 0 \in 0 .. quality_ - 1
    BY <1>1, <1>7, Ladder
  <2> QED
    BY <1>3, <1>5, <2>1 DEF RaahsLower
<1> QED
  BY <1>6, <1>7

(* For every ladder and all sizes of the segments, RAAHS's unsigned index  *)
(* stays within the table at a bandwidth where the largest segment of      *)
(* every level measures more than the lowest level's rate, whatever the    *)
(* bandwidth and the quality were before.                                  *)
THEOREM RaahsSearchEnds == AdaptationSpec => []SearchEndsInTable
<1> DEFINE Inv == SearchEndsInTable /\ (crashed => algorithm_ = "raahs")
<1>1. AdaptationInit => Inv
  BY DEF AdaptationInit, RaahsInit, SearchEndsInTable
<1>2. ASSUME AdaptationTypeOK, Inv, [GetNextQuality]_adaptationVars
      PROVE  Inv'
  <2>1. CASE UNCHANGED adaptationVars
    BY <1>2, <2>1 DEF adaptationVars, loopVars, SearchEndsInTable
  <2>2. CASE GetNextQuality /\ algorithm_ = "raahs"
    BY <1>2, <2>2, StepOf, SearchFinds DEF SearchEndsInTable
  <2>3. CASE GetNextQuality /\ algorithm_ # "raahs"
    <3>1. crashed = FALSE
      BY <1>2, <2>3 DEF AdaptationTypeOK, RaahsTypeOK
    <3> QED
      BY <2>3, <3>1, StepOf DEF SearchEndsInTable
  <2> QED
    BY <1>2, <2>1, <2>2, <2>3
<1> QED
  BY <1>1, <1>2, AdaptationTypeCorrect, PTL DEF AdaptationSpec

-----------------------------------------------------------------------------
(* With a buffer at most at the target and not growing, only an estimate   *)
(* above the current level makes u_k exceed it.                            *)
LEMMA DrainingNeedsMore ==
  ASSUME AdaptationTypeOK, SvaaStep, level' <= QRef, level' <= level,
         NEW estimate \in Nat,
         1 \in Signs(level', SegmentDuration * estimate,
                     AverageBitrate[quality_] * (SegmentDuration - BufferDiff))
  PROVE  AverageBitrate[quality_] <= estimate
<1> DEFINE diff == BufferDiff
           rate == AverageBitrate[quality_]
           pace == SegmentDuration * estimate
           need == rate * (SegmentDuration - diff)
<1>1. /\ quality_ \in Quality /\ level \in Nat /\ level' \in Nat /\ SvaaTarget \in Nat
  BY Arrival, SvaaAssumption DEF AdaptationTypeOK, LoopTypeOK, SvaaStep
<1>2. rate \in Nat /\ SegmentDuration \in Nat \ {0} /\ QRef \in Nat
  BY <1>1, Ladder, SMT DEF QRef
<1>3. diff \in Int /\ diff <= 0
  <2>1. \A x \in Nat, y \in Nat : x <= y => x - y \in Int /\ x - y <= 0
    OBVIOUS
  <2>2. 0 \in Int /\ 0 <= 0
    OBVIOUS
  <2> QED
    BY <1>1, <2>1, <2>2, Zenon DEF BufferDiff
<1> HIDE DEF diff
<1>4. pace > need
  <2> HIDE DEF pace, need
  <2> DEFINE low == level' < QRef
             equal == level' = QRef
             high == level' > QRef
             more == pace > need
             same == pace = need
             some == need > 0
             less == pace < need
             twice == 2 * pace > need
  <2>1. 1 \in Signs(level', pace, need)
    BY DEF pace, need, diff, rate
  <2>2. (CASE low -> IF 1 = -1 THEN some ELSE more /\ (1 = 0 => some)
           [] equal -> 1 = (IF more THEN 1 ELSE IF same THEN 0 ELSE -1)
           [] high -> IF 1 = -1 THEN less ELSE twice /\ (1 = 0 => less))
    BY <2>1, Zenon DEF Signs
  <2>3. (low /\ ~equal /\ ~high) \/ (~low /\ equal /\ ~high)
    BY <1>1, <1>2
  <2> HIDE DEF low, equal, high, more, same, some, less, twice
  <2>4. more
    <3>1. 1 # -1 /\ 1 # 0
      OBVIOUS
    <3>2. CASE low
      BY <2>2, <2>3, <3>1, <3>2, Zenon
    <3>3. CASE equal
      BY <2>2, <2>3, <3>1, <3>3, Zenon
    <3> QED
      BY <2>3, <3>2, <3>3
  <2> QED
    BY <2>4 DEF more
<1> HIDE DEF rate
<1>5. \A d \in Nat \ {0}, e \in Nat, r \in Nat, x \in Int :
        x <= 0 /\ d * e > r * (d - x) => r <= e
  <2> SUFFICES ASSUME NEW d \in Nat \ {0}, NEW e \in Nat, NEW r \in Nat, NEW x \in Int,
                      x <= 0, d * e > r * (d - x)
               PROVE  r <= e
    OBVIOUS
  <2>1. r * (d - x) >= r * d
    BY Z3
  <2>2. d * e > d * r
    BY <2>1, Z3
  <2> QED
    BY <2>2, Z3
<1>6. rate <= estimate
  BY <1>2, <1>3, <1>4, <1>5, Zenon
<1> QED
  BY <1>6 DEF rate

(* For every ladder, ascending or not, SVAA lowers the quality only when   *)
(* the buffer is below half the target, above the target or growing: the   *)
(* search that follows u_k > currRate otherwise finds the current level,   *)
(* at least.                                                               *)
THEOREM SvaaHolds == AdaptationSpec => HoldsWhileDraining
<1>1. ASSUME AdaptationTypeOK, SvaaStep, quality_' < quality_,
             level' <= QRef, level' <= level
      PROVE  2 * level' < QRef
  <2> SUFFICES ASSUME ~RunsLow(level') PROVE FALSE
    BY DEF RunsLow
  <2> DEFINE m == (Mk(BufferDiff) + m_m_k_1 + m_m_k_2) \div 3
  <2>1. PICK estimate \in Estimates' :
          \E u \in Signs(level', SegmentDuration * estimate,
                         AverageBitrate[quality_] * (SegmentDuration - BufferDiff)) :
            SvaaReply(estimate, u, m)
    BY <1>1 DEF SvaaStep
  <2> HIDE DEF m
  <2>2. quality_ \in Quality /\ quality_ \in Nat /\ estimate \in Nat
    BY <1>1, Arrival, EstimateIsPositive, Ladder DEF AdaptationTypeOK, LoopTypeOK, SvaaStep
  <2>3. quality_' # quality_
    BY <1>1, <2>2
  <2>4. /\ 1 \in Signs(level', SegmentDuration * estimate,
                       AverageBitrate[quality_] * (SegmentDuration - BufferDiff))
        /\ quality_' = SvaaFits(estimate)
    BY <2>1, <2>3 DEF SvaaReply
  <2>5. AverageBitrate[quality_] <= estimate
    BY <1>1, <2>2, <2>4, DrainingNeedsMore
  <2>6. quality_ <= SvaaFits(estimate) /\ SvaaFits(estimate) \in Nat
    BY <2>2, <2>5, HighestOfIsLevel, Ladder DEF SvaaFits
  <2> QED
    BY <1>1, <2>2, <2>4, <2>6
<1>2. ASSUME AdaptationTypeOK, [GetNextQuality]_adaptationVars
      PROVE  [ algorithm_ = "svaa" /\ quality_' < quality_
                 => 2 * level' < QRef \/ level' > QRef \/ level' > level ]_<<loopVars, svaaVars>>
  <2>1. CASE UNCHANGED adaptationVars
    BY <2>1 DEF adaptationVars
  <2>2. CASE GetNextQuality
    <3>1. level \in Nat /\ level' \in Nat /\ QRef \in Nat
      BY <1>2, <2>2, StepOf, Arrival, SvaaAssumption, SMT DEF AdaptationTypeOK, LoopTypeOK, QRef
    <3>2. \A x \in Nat, y \in Nat : x <= y \/ x > y
      OBVIOUS
    <3> QED
      BY <1>1, <1>2, <2>2, <3>1, <3>2, StepOf, Zenon
  <2> QED
    BY <1>2, <2>1, <2>2
<1> QED
  BY <1>2, AdaptationTypeCorrect, PTL DEF AdaptationSpec, HoldsWhileDraining

-----------------------------------------------------------------------------
(* A quotient rounded down, and what rounding the rest down takes, leave   *)
(* at most one unit.                                                       *)
LEMMA RoundedTwice ==
  ASSUME NEW e \in Nat \ {0}, NEW x \in Int, NEW c \in Nat
  PROVE  x - ((e * x - c) \div e + c \div e) \in 0 .. 1
<1> DEFINE f == c \div e
           d == (e * x - c) \div e
<1>1. f \in Int /\ e * f <= c /\ c < e * f + e
  BY Z3
<1>2. e * x - c \in Int
  BY Z3
<1>3. \A y \in Int : y \div e \in Int /\ e * (y \div e) <= y /\ y < e * (y \div e) + e
  BY Z3
<1>4. d \in Int /\ e * d <= e * x - c /\ e * x - c < e * d + e
  BY <1>2, <1>3, Zenon
<1> HIDE DEF f, d
<1> DEFINE y == x - (d + f)
<1>5. y \in Int
  BY <1>1, <1>4
<1>6. e * y = e * x - e * d - e * f
  BY <1>1, <1>4, Z3
<1>7. e * y >= 0 /\ e * y < 2 * e
  <2>1. e * x \in Int /\ e * d \in Int /\ e * f \in Int
    BY <1>1, <1>4, Z3
  <2> DEFINE ex == e * x
             ed == e * d
             ef == e * f
  <2>2. ex \in Int /\ ed \in Int /\ ef \in Int
    BY <2>1
  <2>3. ef <= c /\ c < ef + e /\ ed <= ex - c /\ ex - c < ed + e
    BY <1>1, <1>4
  <2> HIDE DEF ex, ed, ef
  <2>4. ex - ed - ef >= 0 /\ ex - ed - ef < 2 * e
    BY <2>2, <2>3
  <2> QED
    BY <1>6, <2>4, Zenon DEF ex, ed, ef
<1> HIDE DEF y
<1>8. y \in 0 .. 1
  <2>1. ~(y < 0)
    BY <1>5, <1>7, Z3
  <2>2. ~(y >= 2)
    BY <1>5, <1>7, Z3
  <2> QED
    BY <1>5, <2>1, <2>2
<1> QED
  BY <1>8 DEF y, d, f

(* How long a segment of the mean size takes.                              *)
MeanTime == (AverageBitrate[quality_] * SegmentDuration) \div bandwidth

(* A pause of FDASH is still reckoned from the state that it began in.     *)
PauseIsKnown ==
  algorithm_ = "fdash" /\ delay > 0
    => delay = (bandwidth * (level - FdashTarget) - AverageBitrate[quality_] * SegmentDuration)
                 \div bandwidth

(* At a constant bandwidth, FDASH's pauses miss the target just by what    *)
(* the segment after them is off the mean size of its level, for every     *)
(* ladder, all sizes and every target.                                     *)
THEOREM FdashMeetsTarget ==
  ASSUME ~Varying
  PROVE  AdaptationSpec => PauseMeetsTarget
<1>1. AdaptationInit => PauseIsKnown
  BY DEF AdaptationInit, LoopInit, PauseIsKnown
<1>2. ASSUME AdaptationTypeOK, FdashStep
      PROVE  delay' > 0 =>
               delay' = (bandwidth' * (level' - FdashTarget)
                           - AverageBitrate[quality_'] * SegmentDuration) \div bandwidth'
  <2>1. delay' = FdashPause(quality_', bandwidth', level')
    BY <1>2 DEF FdashStep, Estimates
  <2> DEFINE d == (bandwidth' * (level' - FdashTarget)
                     - AverageBitrate[quality_'] * SegmentDuration) \div bandwidth'
  <2>2. delay' = IF quality_' = Top THEN Larger(d, 0) ELSE 0
    BY <2>1 DEF FdashPause
  <2> HIDE DEF d
  <2>3. delay' = d \/ delay' = 0
    BY <2>2 DEF Larger
  <2> QED
    BY <2>3 DEF d
<1>3. ASSUME AdaptationTypeOK, PauseIsKnown, [GetNextQuality]_adaptationVars
      PROVE  PauseIsKnown'
  <2>1. CASE UNCHANGED adaptationVars
    BY <1>3, <2>1 DEF adaptationVars, loopVars, PauseIsKnown
  <2>2. CASE GetNextQuality
    BY <1>2, <1>3, <2>2, StepOf, Zenon DEF PauseIsKnown
  <2> QED
    BY <1>3, <2>1, <2>2
<1>4. ASSUME AdaptationTypeOK, PauseIsKnown, FdashStep, delay > 0, received = InitSegments
      PROVE  \/ (level' - SegmentDuration) - FdashTarget - (MeanTime - fetchTime') \in 0 .. 1
             \/ level' - SegmentDuration = 0 /\ fetchTime' > FdashTarget + MeanTime
             \/ level' = MaxLevel
  <2> DEFINE c == AverageBitrate[quality_] * SegmentDuration
  <2>1. /\ level \in Nat /\ delay \in Nat /\ bandwidth \in Nat \ {0} /\ c \in Nat
        /\ FdashTarget \in Nat /\ SegmentDuration \in Nat /\ MaxLevel \in Nat
        /\ algorithm_ = "fdash" /\ fetchTime' \in Nat
    BY <1>4, Arrival, Ladder, Product, FdashAssumption, LoopAssumption
       DEF AdaptationTypeOK, LoopTypeOK, FdashStep
  <2>2. MeanTime = c \div bandwidth
    BY DEF MeanTime
  <2>3. delay = (bandwidth * (level - FdashTarget) - c) \div bandwidth
    BY <1>4, <2>1 DEF PauseIsKnown
  <2>4. level' = Smaller(Larger(level - (delay + fetchTime'), 0) + SegmentDuration, MaxLevel)
    BY <1>4, LoopAssumption DEF FdashStep, SegmentArrives, LevelBefore
  <2> HIDE DEF c
  <2>5. MeanTime \in Int
    BY <2>1, <2>2, Quotient
  <2>6. level - FdashTarget - (delay + MeanTime) \in 0 .. 1
    <3>1. level - FdashTarget \in Int
      BY <2>1
    <3> QED
      BY <2>1, <2>2, <2>3, <3>1, RoundedTwice, Zenon
  <2> QED
    <3>1. /\ level \in Nat /\ FdashTarget \in Nat /\ SegmentDuration \in Nat /\ MaxLevel \in Nat
          /\ delay \in Nat /\ MeanTime \in Int /\ fetchTime' \in Nat
      BY <2>1, <2>5
    <3>2. PICK took \in Nat : took = fetchTime'
      BY <3>1, Zenon
    <3>3. PICK left : left = Larger(level - (delay + took), 0)
      OBVIOUS
    <3>4. left \in Nat
      BY <3>1, <3>3 DEF Larger
    <3>5. left = level - (delay + took) \/ (left = 0 /\ level < delay + took)
      BY <3>1, <3>3 DEF Larger
    <3>6. level' = Smaller(left + SegmentDuration, MaxLevel)
      BY <2>4, <3>2, <3>3, Zenon
    <3>7. level' = MaxLevel \/ level' - SegmentDuration = left
      BY <3>1, <3>4, <3>6 DEF Smaller
    <3>8. \/ left - FdashTarget - (MeanTime - took) \in 0 .. 1
          \/ left = 0 /\ took > FdashTarget + MeanTime
      BY <2>6, <3>1, <3>5
    <3> QED
      BY <3>2, <3>7, <3>8, Zenon
<1>5. ASSUME AdaptationTypeOK, PauseIsKnown, [GetNextQuality]_adaptationVars
      PROVE  [ algorithm_ = "fdash" /\ delay > 0 /\ received = InitSegments
                 => \/ (level' - SegmentDuration) - FdashTarget - (MeanTime - fetchTime') \in 0 .. 1
                    \/ level' - SegmentDuration = 0 /\ fetchTime' > FdashTarget + MeanTime
                    \/ level' = MaxLevel ]_loopVars
  <2>1. CASE UNCHANGED adaptationVars
    BY <2>1 DEF adaptationVars
  <2>2. CASE GetNextQuality
    BY <1>4, <1>5, <2>2, StepOf, Zenon
  <2> QED
    BY <1>5, <2>1, <2>2
<1> QED
  BY <1>1, <1>3, <1>5, AdaptationTypeCorrect, PTL DEF AdaptationSpec, PauseMeetsTarget, MeanTime

-----------------------------------------------------------------------------
(* The remaining results are about ladders whose rates do not fall from    *)
(* one level to the next, as the code assumes of the video's description.  *)
Ascending == \A q \in Quality \ {Top} : AverageBitrate[q] <= AverageBitrate[q + 1]

(* RAAHS goes up when the last fetch beats every step of the ladder, and   *)
(* with it the step that it takes.                                         *)
LEMMA RaahsFits ==
  ASSUME AdaptationTypeOK, RaahsStep, quality_' # quality_
  PROVE  AverageBitrate[quality_'] * fetchTime' <= SegmentDuration * AverageBitrate[quality_]
<1> DEFINE took == fetchTime'
           down == ~RaahsUp(took) /\ RaahsDown(took)
           lower == RaahsLower(took)
           c == CHOOSE q \in lower : \A p \in lower : p <= q
<1>1. quality_ \in Quality /\ took \in Nat
  BY Arrival DEF AdaptationTypeOK, LoopTypeOK, RaahsStep
<1>2. \/ RaahsUp(took) /\ quality_' = Smaller(quality_ + 1, Top)
      \/ lower # {} /\ quality_' = c
  <2>1. ~(down /\ lower = {})
    BY DEF RaahsStep
  <2>2. quality_' = CASE RaahsUp(took) -> Smaller(quality_ + 1, Top)
                      [] down -> c
                      [] OTHER -> quality_
    BY <2>1 DEF RaahsStep
  <2> DEFINE s == Smaller(quality_ + 1, Top)
             up == RaahsUp(took)
  <2>3. up \in BOOLEAN /\ down \in BOOLEAN
    BY DEF RaahsUp, RaahsDown
  <2>4. quality_' = CASE up -> s [] down -> c [] OTHER -> quality_
    BY <2>2, Zenon
  <2>5. down => lower # {}
    BY <2>1
  <2> HIDE DEF s, up, down, c, lower
  <2>6. (up /\ quality_' = s) \/ (down /\ quality_' = c)
    BY <2>3, <2>4
  <2> QED
    BY <2>5, <2>6, Zenon DEF s, up
<1>3. CASE RaahsUp(took) /\ quality_' = Smaller(quality_ + 1, Top)
  <2>1. quality_ \in Quality \ {Top} /\ quality_' = quality_ + 1
    BY <1>1, <1>3, Ladder DEF Smaller, Quality
  <2>2. SegmentDuration * AverageBitrate[quality_] > took * AverageBitrate[quality_ + 1]
    BY <1>3, <2>1 DEF RaahsUp
  <2>3. quality_ + 1 \in Quality
    BY <2>1, Ladder DEF Quality
  <2>4. \A x \in Nat, y \in Nat, t \in Nat : x > t * y => y * t <= x
    BY Z3
  <2>5. /\ AverageBitrate[quality_ + 1] \in Nat
        /\ SegmentDuration * AverageBitrate[quality_] \in Nat
    BY <1>1, <2>3, Ladder, Product
  <2> QED
    BY <1>1, <2>1, <2>2, <2>4, <2>5, Zenon
<1>4. CASE lower # {} /\ quality_' = c
  <2>1. lower \in SUBSET Quality
    BY <1>1, Ladder DEF RaahsLower, Quality
  <2>2. c \in lower
    <3> HIDE DEF lower
    <3> QED
      BY <1>4, <2>1, LargestLevel
  <2>3. AverageBitrate[quality_'] * took < SegmentDuration * AverageBitrate[quality_]
    BY <1>4, <2>2 DEF RaahsLower
  <2>4. quality_' \in Quality
    BY <1>4, <2>1, <2>2
  <2>5. /\ AverageBitrate[quality_'] * took \in Nat
        /\ SegmentDuration * AverageBitrate[quality_] \in Nat
    BY <1>1, <2>4, Ladder, Product
  <2>6. \A x \in Nat, y \in Nat : x < y => x <= y
    OBVIOUS
  <2> QED
    BY <2>3, <2>5, <2>6, Zenon
<1> QED
  BY <1>2, <1>3, <1>4

(* SFTM's time for a segment is never more than the segment plays.         *)
LEMMA TimeBounds ==
  ASSUME NEW buffered \in Nat
  PROVE  /\ TimeFor(buffered) \in Int
         /\ TimeFor(buffered) <= SegmentDuration
<1>1. SegmentDuration \in Nat /\ SftmTarget \in Nat
  BY LoopAssumption, SftmAssumption
<1>2. (3 * SegmentDuration) \div 4 \in Int /\ (3 * SegmentDuration) \div 4 <= SegmentDuration
  BY <1>1, Z3
<1> QED
  BY <1>1, <1>2 DEF TimeFor, Smaller

(* Both ways up require that the upper level takes no longer than that.    *)
LEMMA GainFits ==
  ASSUME NEW time \in Int, NEW took \in Nat, NEW a \in Nat, NEW b \in Nat, a <= b,
         NEW d \in Nat, time <= d,
         \/ (time - took) * a > took * (b - a)
         \/ (time - took) * a > 2 * took * (b - a)
  PROVE  b * took <= d * a
<1>1. took * (b - a) >= 0
  BY Z3
<1>2. (time - took) * a > took * (b - a)
  BY <1>1, Z3
<1>3. time * a > took * b
  BY <1>2, Z3
<1>4. time * a <= d * a
  BY Z3
<1>5. took * b = b * took
  BY Z3
<1> QED
  BY <1>3, <1>4, <1>5, Z3

(* When SFTM goes up, the level above fits.                                *)
LEMMA SftmUpFits ==
  ASSUME quality_ \in Quality, Ascending, NEW time \in Int, time <= SegmentDuration,
         NEW took \in Nat, SftmUp(time, took)
  PROVE  AverageBitrate[quality_ + 1] * took <= SegmentDuration * AverageBitrate[quality_]
<1>1. quality_ \in Quality \ {Top} /\ quality_ + 1 \in Quality
  BY Ladder DEF SftmUp, Quality
<1>2. /\ AverageBitrate[quality_] \in Nat /\ AverageBitrate[quality_ + 1] \in Nat
      /\ AverageBitrate[quality_] <= AverageBitrate[quality_ + 1]
      /\ SegmentDuration \in Nat
  BY <1>1, Ladder DEF Ascending
<1> DEFINE a == AverageBitrate[quality_]
           b == AverageBitrate[quality_ + 1]
<1>3. \/ (time - took) * a > took * (b - a)
      \/ (time - took) * a > 2 * took * (b - a)
  BY <1>1, Zenon DEF SftmUp, SftmGain
<1> HIDE DEF a, b
<1>4. b * took <= SegmentDuration * a
  BY <1>2, <1>3, GainFits DEF a, b
<1> QED
  BY <1>4 DEF a, b

(* Every change of SFTM fits.                                              *)
LEMMA SftmFits ==
  ASSUME AdaptationTypeOK, Ascending, SftmStep, quality_' # quality_
  PROVE  AverageBitrate[quality_'] * fetchTime' <= SegmentDuration * AverageBitrate[quality_]
<1> DEFINE time == TimeFor(unplayed')
           took == fetchTime'
           lower == SftmLower(time, took)
           c == CHOOSE q \in lower : \A p \in lower : p <= q
<1>1. quality_ \in Quality /\ took \in Nat /\ unplayed' \in Nat
  BY Arrival, SftmAnswers DEF SftmTypeOK, AdaptationTypeOK, LoopTypeOK, SftmStep
<1>2. time \in Int /\ time <= SegmentDuration
  BY <1>1, TimeBounds
<1>3. quality_' = SftmNext(time, took)
  BY DEF SftmStep
<1>4. (SftmUp(time, took) /\ quality_' = quality_ + 1) \/ (lower # {} /\ quality_' = c)
  BY <1>3, Zenon DEF SftmNext
<1>5. CASE SftmUp(time, took) /\ quality_' = quality_ + 1
  BY <1>1, <1>2, <1>5, SftmUpFits, Zenon
<1>6. CASE lower # {} /\ quality_' = c
  <2>1. lower \in SUBSET Quality
    BY <1>1, Ladder DEF SftmLower, Quality
  <2>2. c \in lower
    <3> HIDE DEF lower
    <3> QED
      BY <1>6, <2>1, LargestLevel
  <2>3. c \in 0 .. c
    <3>1. \A q \in Quality : q \in 0 .. q
      BY DEF Quality
    <3> QED
      BY <2>1, <2>2, <3>1, Zenon
  <2>4. AverageBitrate[quality_'] * took < time * AverageBitrate[quality_]
    BY <1>6, <2>2, <2>3 DEF SftmLower
  <2>5. /\ AverageBitrate[quality_'] \in Nat /\ AverageBitrate[quality_] \in Nat
        /\ SegmentDuration \in Nat
    BY <1>1, <1>6, <2>1, <2>2, Ladder
  <2>6. \A x \in Nat, y \in Nat, d \in Nat, t \in Nat, u \in Int :
          x * t < u * y /\ u <= d => x * t <= d * y
    BY Z3
  <2> QED
    BY <1>1, <1>2, <2>4, <2>5, <2>6, Zenon
<1> QED
  BY <1>4, <1>5, <1>6

(* On every ascending ladder, whatever the throughput does and whatever    *)
(* the target of the buffer, RAAHS and SFTM change only to a level that    *)
(* the throughput just measured delivers no slower than it is played.      *)
THEOREM ChangesAreAffordable ==
  ASSUME Ascending
  PROVE  AdaptationSpec => ChangesFit
<1>1. ASSUME AdaptationTypeOK, [GetNextQuality]_adaptationVars
      PROVE  [ quality_' # quality_ /\ algorithm_ \in {"raahs", "sftm"}
                 => AverageBitrate[quality_'] * fetchTime'
                      <= SegmentDuration * AverageBitrate[quality_] ]_loopVars
  <2>1. CASE UNCHANGED adaptationVars
    BY <2>1 DEF adaptationVars
  <2>2. CASE GetNextQuality
    BY <1>1, <2>2, StepOf, RaahsFits, SftmFits
  <2> QED
    BY <1>1, <2>1, <2>2
<1> QED
  BY <1>1, AdaptationTypeCorrect, PTL DEF AdaptationSpec, ChangesFit

(* On every ladder, ascending or not, OSMP asks for a level above 1 only   *)
(* when the throughput just measured delivers it no slower than it is      *)
(* played, whichever of its two searches ends there.                       *)
THEOREM OsmpAsksForWhatFits == AdaptationSpec => AboveOneFits
<1>1. ASSUME AdaptationTypeOK, OsmpStep, quality_' > 1
      PROVE  OsmpFits(quality_', fetchTime')
  <2> DEFINE took == fetchTime'
  <2>1. quality_ \in Quality /\ quality_' = OsmpNext(took)
    BY <1>1 DEF OsmpStep, AdaptationTypeOK, LoopTypeOK
  <2>2. quality_ < Top => (OsmpUp(took) > 1 => OsmpFits(OsmpUp(took), took))
    BY <2>1, OsmpUpIsLevel
  <2>3. OsmpDown(took) > 1 => OsmpFits(OsmpDown(took), took)
    BY DEF OsmpDown
  <2> HIDE DEF took
  <2>4. CASE OsmpSlow(took)
    BY <1>1, <2>1, <2>3, <2>4 DEF OsmpNext, took
  <2>5. CASE ~OsmpSlow(took) /\ quality_ < Top /\ (quality_ = 0 \/ FasterThanBelow(took))
    BY <1>1, <2>1, <2>2, <2>5 DEF OsmpNext, took
  <2>6. CASE ~OsmpSlow(took) /\ ~(quality_ < Top /\ (quality_ = 0 \/ FasterThanBelow(took)))
    <3>1. OsmpNext(took) = 0
      BY <2>6 DEF OsmpNext
    <3> QED
      BY <1>1, <2>1, <3>1
  <2> QED
    BY <2>4, <2>5, <2>6
<1>2. ASSUME AdaptationTypeOK, [GetNextQuality]_adaptationVars
      PROVE  [ algorithm_ = "osmp" /\ quality_' > 1
                 => AverageBitrate[quality_'] * fetchTime'
                      <= SegmentDuration * AverageBitrate[quality_] ]_quality_
  <2>1. CASE UNCHANGED adaptationVars
    BY <2>1 DEF adaptationVars, loopVars
  <2>2. CASE GetNextQuality
    BY <1>1, <1>2, <2>2, StepOf DEF OsmpFits
  <2> QED
    BY <1>2, <2>1, <2>2
<1> QED
  BY <1>2, AdaptationTypeCorrect, PTL DEF AdaptationSpec, AboveOneFits

(* On every ascending ladder, for all sizes of the segments and any drift  *)
(* of the frames played from the clock, SFTM's quality is frozen once what *)
(* is unplayed has been above the target and is not any more.              *)
THEOREM SftmFreezes ==
  ASSUME Ascending
  PROVE  AdaptationSpec => FrozenBelowTarget
<1>1. ASSUME AdaptationTypeOK, SftmStep, rsft_exceeded_, unplayed' <= SftmTarget
      PROVE  quality_' = quality_
  <2> DEFINE time == TimeFor(unplayed')
             took == fetchTime'
  <2>1. quality_ \in Quality /\ took \in Nat /\ unplayed' \in Nat
    BY <1>1, Arrival, SftmAnswers DEF AdaptationTypeOK, LoopTypeOK, SftmTypeOK, SftmStep
  <2>2. time \in Int /\ time <= 0
    <3>1. \A b \in Nat : b <= SftmTarget => TimeFor(b) \in Int /\ TimeFor(b) <= 0
      BY <1>1, LoopAssumption, SftmAssumption DEF TimeFor, FirstFill, Smaller
    <3> QED
      BY <1>1, <2>1, <3>1
  <2>3. quality_' = SftmNext(time, took)
    BY <1>1 DEF SftmStep
  <2> HIDE DEF time, took
  <2>4. ~SftmUp(time, took)
    <3> SUFFICES ASSUME SftmUp(time, took) PROVE FALSE
      OBVIOUS
    <3>1. quality_ \in Quality \ {Top} /\ quality_ + 1 \in Quality
      BY <2>1, Ladder DEF SftmUp, Quality
    <3>2. /\ AverageBitrate[quality_] \in Nat /\ AverageBitrate[quality_ + 1] \in Nat
          /\ AverageBitrate[quality_] <= AverageBitrate[quality_ + 1]
      BY <1>1, <3>1, Ladder DEF Ascending
    <3> DEFINE a == AverageBitrate[quality_]
               b == AverageBitrate[quality_ + 1]
    <3>3. \/ (time - took) * a > took * (b - a)
          \/ (time - took) * a > 2 * took * (b - a)
      BY <3>1, Zenon DEF SftmUp, SftmGain
    <3>4. \A x \in Nat, y \in Nat, t \in Nat, u \in Int :
            x <= y /\ u <= 0 => /\ ~((u - t) * x > t * (y - x))
                                /\ ~((u - t) * x > 2 * t * (y - x))
      <4> SUFFICES ASSUME NEW x \in Nat, NEW y \in Nat, NEW t \in Nat, NEW u \in Int,
                          x <= y, u <= 0
                   PROVE  /\ ~((u - t) * x > t * (y - x))
                          /\ ~((u - t) * x > 2 * t * (y - x))
        OBVIOUS
      <4>1. (u - t) * x <= 0
        BY Z3
      <4>2. t * (y - x) >= 0
        BY Z3
      <4>3. 2 * t * (y - x) >= 0
        BY Z3
      <4> QED
        BY <4>1, <4>2, <4>3, Z3
    <3> QED
      BY <2>1, <2>2, <3>2, <3>3, <3>4, Zenon
  <2>5. SftmLower(time, took) = {}
    <3> SUFFICES ASSUME NEW q \in SftmLower(time, took) PROVE FALSE
      OBVIOUS
    <3>1. 0 \in 0 .. q
      BY <2>1, Ladder DEF SftmLower
    <3>2. AverageBitrate[0] * took < time * AverageBitrate[quality_]
      BY <3>1 DEF SftmLower
    <3>3. AverageBitrate[0] \in Nat /\ AverageBitrate[quality_] \in Nat
      BY <2>1, Ladder
    <3>4. \A x \in Nat, y \in Nat, t \in Nat, u \in Int : u <= 0 => ~(x * t < u * y)
      BY Z3
    <3> QED
      BY <2>1, <2>2, <3>2, <3>3, <3>4, Zenon DEF took
  <2> QED
    BY <2>3, <2>4, <2>5, Zenon DEF SftmNext
<1>2. ASSUME AdaptationTypeOK, [GetNextQuality]_adaptationVars
      PROVE  [ algorithm_ = "sftm" /\ rsft_exceeded_ /\ unplayed' <= SftmTarget
                 => quality_' = quality_ ]_<<loopVars, sftmVars>>
  <2>1. CASE UNCHANGED adaptationVars
    BY <2>1 DEF adaptationVars
  <2>2. CASE GetNextQuality
    BY <1>1, <1>2, <2>2, StepOf
  <2> QED
    BY <1>2, <2>1, <2>2
<1> QED
  BY <1>2, AdaptationTypeCorrect, PTL DEF AdaptationSpec, FrozenBelowTarget

(* ... so a lower level never has a higher rate.                           *)
LEMMA RatesAscend ==
  ASSUME Ascending, NEW p \in Quality, NEW q \in Quality, p <= q
  PROVE  AverageBitrate[p] <= AverageBitrate[q]
<1> DEFINE Above == {r \in Quality : p <= r /\ ~(AverageBitrate[p] <= AverageBitrate[r])}
<1>1. SUFFICES ASSUME Above # {} PROVE FALSE
  OBVIOUS
<1>2. PICK m \in Above : \A s \in Above : m <= s
  BY <1>1, Smallest, Ladder
<1>3. m \in Quality /\ p <= m /\ ~(AverageBitrate[p] <= AverageBitrate[m]) /\ m # p
  BY <1>2, Ladder
<1>4. m - 1 \in Quality \ {Top} /\ p <= m - 1 /\ m = (m - 1) + 1
  BY <1>3, Ladder DEF Quality
<1>5. AverageBitrate[m - 1] <= AverageBitrate[m]
  BY <1>4 DEF Ascending
<1>6. m - 1 \notin Above
  BY <1>2, <1>4, Ladder
<1>7. AverageBitrate[p] <= AverageBitrate[m - 1]
  BY <1>4, <1>6
<1> QED
  BY <1>3, <1>4, <1>5, <1>7, Ladder

(* What a positive pause leaves in the buffer.                             *)
LEMMA WhatPauseLeaves ==
  ASSUME NEW n \in Nat, NEW m \in Nat, NEW r \in Nat, NEW d,
         d > 0, d = Larger(n - m - r, 0)
  PROVE  n - d = m + r
BY DEF Larger

(* A pause of RAAHS leaves a segment of the level asked for, at the lowest *)
(* level's rate, on every ascending ladder and for every positive MinLevel.*)
THEOREM RaahsKeepsReserve ==
  ASSUME Ascending, MinLevel > 0
  PROVE  AdaptationSpec => PauseLeavesReserve
<1>1. ASSUME AdaptationTypeOK, RaahsStep,
             delay' > 0, quality_' <= quality_, ~crashed'
      PROVE  (level' - delay') * AverageBitrate[0] > AverageBitrate[quality_'] * SegmentDuration
  <2> DEFINE need == AverageBitrate[quality_] * SegmentDuration
             low == AverageBitrate[0]
             reserve == need \div low
  <2>1. /\ quality_ \in Quality /\ quality_' \in Quality /\ level' \in Nat
        /\ delay' = RaahsPause(level')
    BY <1>1, Arrival, RaahsAnswers DEF AdaptationTypeOK, LoopTypeOK, RaahsStep
  <2>2. /\ AverageBitrate[quality_] \in Nat /\ AverageBitrate[quality_'] \in Nat
        /\ low \in Nat \ {0} /\ SegmentDuration \in Nat /\ need \in Nat
    BY <2>1, Ladder, Product
  <2>3. AverageBitrate[quality_'] <= AverageBitrate[quality_]
    BY <1>1, <2>1, RatesAscend
  <2>4. AverageBitrate[quality_'] * SegmentDuration <= need
    <3>1. \A x \in Nat, y \in Nat, d \in Nat : x <= y => x * d <= y * d
      BY Z3
    <3> QED
      BY <2>2, <2>3, <3>1, Zenon
  <2>5. AverageBitrate[quality_'] * SegmentDuration \in Nat
    BY <2>2, Product
  <2>6. delay' = Larger(level' - MinLevel - reserve, 0)
    BY <2>1, Zenon DEF RaahsPause
  <2> HIDE DEF need, low
  <2>7. reserve \in Nat /\ need < low * reserve + low
    BY <2>2, QuotientRest
  <2> HIDE DEF reserve
  <2>8. level' - delay' = MinLevel + reserve
    <3>1. level' \in Nat /\ MinLevel \in Nat /\ reserve \in Nat /\ delay' > 0
      BY <1>1, <2>1, <2>7, RaahsAssumption
    <3> QED
      BY ONLY <2>6, <3>1, WhatPauseLeaves, SMT
  <2>9. (MinLevel + reserve) * low > need
    <3>1. \A m \in Nat, r \in Nat, l \in Nat, n \in Nat :
            m > 0 /\ n < l * r + l => (m + r) * l > n
      <4> SUFFICES ASSUME NEW m \in Nat, NEW r \in Nat, NEW l \in Nat, NEW n \in Nat,
                          m > 0, n < l * r + l
                   PROVE  (m + r) * l > n
        OBVIOUS
      <4>1. (m + r) * l = m * l + l * r
        BY Z3
      <4>2. m * l >= l
        BY Z3
      <4> QED
        BY <4>1, <4>2, Z3
    <3> QED
      BY <2>2, <2>7, <3>1, RaahsAssumption, Zenon
  <2>10. \A x \in Int, y \in Nat, z \in Nat : x > y /\ z <= y => x > z
    OBVIOUS
  <2>11. (MinLevel + reserve) * low \in Int
    BY <2>2, <2>7, RaahsAssumption, Sum, Product
  <2> QED
    BY <2>2, <2>4, <2>5, <2>8, <2>9, <2>10, <2>11, Zenon DEF low
<1>2. ASSUME AdaptationTypeOK, [GetNextQuality]_adaptationVars
      PROVE  [ algorithm_ = "raahs" /\ delay' > 0 /\ quality_' <= quality_ /\ ~crashed'
                 => (level' - delay') * AverageBitrate[0]
                      > AverageBitrate[quality_'] * SegmentDuration ]_<<loopVars, crashed>>
  <2>1. CASE UNCHANGED adaptationVars
    BY <2>1 DEF adaptationVars
  <2>2. CASE GetNextQuality
    BY <1>1, <1>2, <2>2, StepOf
  <2> QED
    BY <1>2, <2>1, <2>2
<1> QED
  BY <1>2, AdaptationTypeCorrect, PTL DEF AdaptationSpec, PauseLeavesReserve

-----------------------------------------------------------------------------
(* The end of h that counts is all q: at least n entries, or the window.   *)
Run(h, q, n) ==
  /\ Len(h) >= Smaller(n, Horizon)
  /\ \A i \in Len(h) - Smaller(n, Horizon) + 1 .. Len(h) : h[i] = q

(* switch_up_count_ never exceeds what the history vouches for.            *)
CountIsVouched ==
  algorithm_ = "festive" => Run(history, quality_, switch_up_count_ + 1)

(* A run of n ends in a run of fewer.                                      *)
LEMMA RunShorter ==
  ASSUME NEW h \in Seq(Quality), NEW q, NEW n \in Nat, NEW m \in Nat, m <= n, Run(h, q, n)
  PROVE  Run(h, q, m)
<1>1. Len(h) \in Nat /\ Horizon \in Nat
  BY FestiveAssumption
<1> QED
  BY <1>1 DEF Run, Smaller

(* Another q makes a run one longer, also when the window slides.          *)
LEMMA RunGrows ==
  ASSUME NEW h \in Seq(Quality), Len(h) \in 1 .. Horizon, NEW q \in Quality, NEW n \in Nat,
         Run(h, q, n)
  PROVE  Run(LastOf(Append(h, q)), q, n + 1)
<1> DEFINE a == Append(h, q)
           s == Smaller(n, Horizon)
           s1 == Smaller(n + 1, Horizon)
<1>1. /\ a \in Seq(Quality) /\ Len(a) = Len(h) + 1 /\ a # <<>>
      /\ a[Len(h) + 1] = q
      /\ \A i \in 1 .. Len(h) : a[i] = h[i]
  BY AppendProperties
<1>2. Len(h) \in Nat /\ Horizon \in Nat \ {0} /\ Len(h) <= Horizon
  BY FestiveAssumption
<1>3. s \in Nat /\ s1 \in Nat /\ s1 <= s + 1 /\ s1 <= Horizon /\ s1 >= 1
  BY <1>2 DEF Smaller
<1>4. Len(h) >= s /\ \A i \in Len(h) - s + 1 .. Len(h) : h[i] = q
  BY DEF Run
<1> HIDE DEF a, s, s1
<1>5. \A i \in Len(a) - s1 + 1 .. Len(a) : i \in 1 .. Len(a) => a[i] = q
  <2> SUFFICES ASSUME NEW i \in Len(a) - s1 + 1 .. Len(a), i \in 1 .. Len(a)
               PROVE  a[i] = q
    OBVIOUS
  <2>1. CASE i = Len(h) + 1
    BY <1>1, <2>1
  <2>2. CASE i # Len(h) + 1
    <3>1. i \in 1 .. Len(h) /\ i \in Len(h) - s + 1 .. Len(h)
      BY <1>1, <1>2, <1>3, <2>2
    <3> QED
      BY <1>1, <1>4, <3>1
  <2> QED
    BY <2>1, <2>2
<1>6. CASE Len(a) > Horizon
  <2> DEFINE t == Tail(a)
  <2>1. /\ Len(t) = Len(h)
        /\ \A i \in 1 .. Len(t) : t[i] = a[i + 1]
    BY <1>1, <1>2, HeadTailProperties
  <2>2. LastOf(a) = t
    BY <1>6 DEF LastOf
  <2> HIDE DEF t
  <2>3. Len(t) = Horizon
    BY <1>1, <1>2, <1>6, <2>1
  <2>4. ASSUME NEW i \in Len(t) - s1 + 1 .. Len(t) PROVE t[i] = q
    <3>1. i \in 1 .. Len(t) /\ i + 1 \in Len(a) - s1 + 1 .. Len(a) /\ i + 1 \in 1 .. Len(a)
      BY <1>1, <1>2, <1>3, <2>1, <2>3
    <3> QED
      BY <1>5, <2>1, <3>1
  <2>5. Len(t) >= s1
    BY <1>2, <1>3, <2>3
  <2> QED
    BY <2>2, <2>4, <2>5 DEF Run, s1, a
<1>7. CASE ~(Len(a) > Horizon)
  <2>1. LastOf(a) = a
    BY <1>7 DEF LastOf
  <2>2. Len(a) >= s1
    BY <1>1, <1>2, <1>3, <1>4
  <2>3. \A i \in Len(a) - s1 + 1 .. Len(a) : i \in 1 .. Len(a)
    BY <1>1, <1>2, <1>3, <2>2
  <2>4. \A i \in Len(a) - s1 + 1 .. Len(a) : a[i] = q
    BY <1>5, <2>3
  <2> QED
    BY <2>1, <2>2, <2>4 DEF Run, s1, a
<1> QED
  BY <1>6, <1>7

(* Every history runs for nothing.                                         *)
LEMMA RunOfNone ==
  ASSUME NEW h \in Seq(Quality), NEW q
  PROVE  Run(h, q, 0)
<1>1. Len(h) \in Nat /\ Horizon \in Nat
  BY FestiveAssumption
<1> QED
  BY <1>1 DEF Run, Smaller

(* FESTIVE's count grows only together with the run.                       *)
LEMMA VouchedStep ==
  ASSUME AdaptationTypeOK, CountIsVouched, FestiveStep
  PROVE  Run(history', quality_', switch_up_count_' + 1)
<1>1. PICK estimate \in Estimates', random \in Jitter : FestiveReply(estimate, random)
  BY DEF FestiveStep
<1>2. /\ quality_ \in Quality /\ switch_up_count_ \in Nat /\ algorithm_ = "festive"
      /\ history \in Seq(Quality) /\ Len(history) \in 1 .. Horizon
      /\ quality_' \in Quality
  BY FestiveAnswers DEF AdaptationTypeOK, LoopTypeOK, FestiveTypeOK, FestiveStep
<1>3. history' = LastOf(Append(history, quality_'))
  BY <1>1 DEF FestiveReply
<1>4. \/ quality_' = quality_ /\ switch_up_count_' = switch_up_count_ + 1
      \/ switch_up_count_' = 0
  BY <1>1 DEF FestiveReply, CountAfter
<1>5. CASE switch_up_count_' = 0
  <2>1. Run(history', quality_', 0 + 1)
    BY <1>2, <1>3, RunOfNone, RunGrows
  <2> QED
    BY <1>5, <2>1
<1>6. CASE quality_' = quality_ /\ switch_up_count_' = switch_up_count_ + 1
  <2>1. Run(history, quality_, switch_up_count_ + 1) /\ switch_up_count_ + 1 \in Nat
    BY <1>2 DEF CountIsVouched
  <2> QED
    BY <1>2, <1>3, <1>6, <2>1, RunGrows
<1> QED
  BY <1>4, <1>5, <1>6

(* FESTIVE's patience, on every ladder that the threshold table covers:    *)
(* upwards from level q only after q + 1 segments in a row at q, as far as *)
(* the window of the history tells.                                        *)
THEOREM FestiveIsPatient ==
  ASSUME Levels <= 11
  PROVE  AdaptationSpec => Patience
<1>1. AdaptationInit => CountIsVouched
  <2>1. <<0>> \in Seq(Quality) /\ Append(<<>>, 0) = <<0>>
    BY Ladder
  <2>2. Len(<<0>>) = 1 /\ <<0>>[1] = 0
    OBVIOUS
  <2>3. Run(<<0>>, 0, 0 + 1)
    BY <2>1, <2>2, FestiveAssumption DEF Run, Smaller
  <2> QED
    BY <2>3 DEF AdaptationInit, LoopInit, FestiveInit, CountIsVouched
<1>2. AdaptationTypeOK /\ CountIsVouched /\ [GetNextQuality]_adaptationVars => CountIsVouched'
  <2> SUFFICES ASSUME AdaptationTypeOK, CountIsVouched, [GetNextQuality]_adaptationVars
               PROVE  CountIsVouched'
    OBVIOUS
  <2>1. CASE UNCHANGED adaptationVars
    BY <2>1 DEF adaptationVars, loopVars, festiveVars, CountIsVouched, Run, Smaller
  <2>2. CASE GetNextQuality
    <3>1. algorithm_' = algorithm_ /\ (algorithm_ = "festive" => FestiveStep)
      BY <2>2, StepOf
    <3>2. algorithm_ = "festive" => Run(history', quality_', switch_up_count_' + 1)
      BY <3>1, VouchedStep
    <3> QED
      BY <3>1, <3>2, Zenon DEF CountIsVouched, Run
  <2> QED
    BY <2>1, <2>2
<1>3. ASSUME AdaptationTypeOK, CountIsVouched, FestiveStep, quality_' > quality_
      PROVE  Run(history, quality_, quality_ + 1)
  <2>1. PICK estimate \in Estimates', random \in Jitter : FestiveReply(estimate, random)
    BY <1>3 DEF FestiveStep
  <2> DEFINE target == BTarget(estimate)
             count == switch_up_count_ + 1
  <2>2. /\ quality_ \in Quality /\ switch_up_count_ \in Nat /\ algorithm_ = "festive"
        /\ history \in Seq(Quality)
    BY <1>3 DEF AdaptationTypeOK, LoopTypeOK, FestiveTypeOK, FestiveStep
  <2>3. target \in Quality
    BY BTargetIsLevel
  <2>4. quality_' = BRef(target, count) \/ quality_' = quality_
    BY <2>1 DEF FestiveReply
  <2> HIDE DEF target
  <2>5. quality_ \in 0 .. 9 /\ quality_ \in Nat
    <3>1. quality_' \in 0 .. Top /\ Top \in Nat /\ Top <= 10
      BY <1>3, FestiveAnswers, LoopAssumption DEF Quality, Top
    <3>2. \A q \in Quality, r \in 0 .. Top : r > q => q \in 0 .. 9 /\ q \in Nat
      BY <3>1 DEF Quality
    <3> QED
      BY <1>3, <2>2, <3>1, <3>2, Zenon
  <2>6. count > kSwitchUpThreshold[quality_]
    <3>1. ASSUME ~(count > kSwitchUpThreshold[quality_])
          PROVE  BRef(target, count) <= quality_
      BY <2>2, <2>3, <2>5, <3>1, Ladder DEF BRef
    <3>2. \A x \in Int, y \in Int : x <= y => ~(x > y)
      OBVIOUS
    <3>3. /\ BRef(target, count) \in Int /\ quality_ \in Int
          /\ quality_ <= quality_
      <4>1. count \in Nat
        BY <2>2
      <4>2. BRef(target, count) \in Quality
        BY <2>2, <2>3, <4>1, BRefIsNeighbour
      <4>3. \A x \in Quality : x \in Int
        BY Ladder
      <4>4. quality_ <= quality_
        BY <2>5
      <4> QED
        BY <2>2, <4>2, <4>3, <4>4, Zenon
    <3> QED
      BY <1>3, <2>4, <2>5, <3>1, <3>2, <3>3, Zenon
  <2>7. quality_ + 1 <= count /\ count \in Nat /\ quality_ + 1 \in Nat
    BY <2>2, <2>5, <2>6 DEF kSwitchUpThreshold
  <2> QED
    BY <1>3, <2>2, <2>7, RunShorter DEF CountIsVouched
<1>4. ASSUME AdaptationTypeOK, CountIsVouched, [GetNextQuality]_adaptationVars
      PROVE  [ algorithm_ = "festive" /\ quality_' > quality_
                 => LET n == Smaller(quality_ + 1, Horizon) IN
                    /\ Len(history) >= n
                    /\ \A i \in Len(history) - n + 1 .. Len(history) : history[i] = quality_ ]_quality_
  <2>1. CASE UNCHANGED adaptationVars
    BY <2>1 DEF adaptationVars, loopVars
  <2>2. CASE GetNextQuality
    <3>1. algorithm_ = "festive" => FestiveStep
      BY <2>2, StepOf
    <3>2. algorithm_ = "festive" /\ quality_' > quality_ => Run(history, quality_, quality_ + 1)
      BY <1>3, <1>4, <3>1
    <3> QED
      BY <3>2, Zenon DEF Run
  <2> QED
    BY <1>4, <2>1, <2>2
<1> QED
  BY <1>1, <1>2, <1>4, AdaptationTypeCorrect, PTL DEF AdaptationSpec, Patience

-----------------------------------------------------------------------------
(* PANDA.                                                                  *)

(* What FindLargest finds is the lowest level, or one that the share less  *)
(* the margin carries, and not the highest.                                *)
LEMMA FoundLevelFits ==
  ASSUME NEW smooth, NEW margin, NEW q, q = FindLargest(smooth, margin), q # 0
  PROVE  q \in 0 .. Top - 1 /\ AverageBitrate[q] <= smooth - margin
<1> DEFINE within == {p \in 0 .. Top - 1 : AverageBitrate[p] <= smooth - margin}
<1>1. within # {}
  BY DEF FindLargest, HighestOf
<1>2. within \in SUBSET (0 .. Top)
  BY Ladder
<1>3. PICK m \in within : \A p \in within : p <= m
  <2> HIDE DEF within
  <2> QED
    BY <1>1, <1>2, Ladder, Largest
<1>4. q \in within
  <2>1. q = CHOOSE k \in within : \A p \in within : p <= k
    BY <1>1 DEF FindLargest, HighestOf
  <2> QED
    BY <1>3, <2>1
<1> QED
  BY <1>4

(* The margin of the way up is no smaller than that of the way down, for a *)
(* share that carries anything.                                            *)
LEMMA UpMarginIsWider ==
  ASSUME NEW smooth \in Int, NEW rate \in Nat \ {0}, NEW omega \in Nat,
         rate <= smooth - (omega + (15 * smooth) \div 100)
  PROVE  rate <= smooth - omega
BY Z3

LEMMA PandaAnswerFits ==
  ASSUME AdaptationTypeOK, PandaStep, quality_' \notin {0, quality_}
  PROVE  /\ AverageBitrate[quality_'] <= m_lastSmoothBandwidthShare' - Omega
         /\ quality_' \in 0 .. Top - 1
<1> DEFINE smooth == m_lastSmoothBandwidthShare'
           up == RUp(smooth)
           down == RDown(smooth)
           higher == AverageBitrate[quality_] < AverageBitrate[up]
           between == AverageBitrate[quality_] \in AverageBitrate[up] .. AverageBitrate[down]
<1>1. smooth \in Int /\ Omega \in Nat
  BY PandaAnswers, PandaAssumption DEF PandaTypeOK
<1>2. quality_' = CASE higher -> up [] between -> quality_ [] OTHER -> down
  BY DEF PandaStep, VideoIndex
<1>3. up # 0 => up \in 0 .. Top - 1 /\ AverageBitrate[up] <= smooth - (Omega + (15 * smooth) \div 100)
  BY FoundLevelFits DEF RUp
<1>4. down # 0 => down \in 0 .. Top - 1 /\ AverageBitrate[down] <= smooth - Omega
  BY FoundLevelFits DEF RDown
<1>5. \A q \in 0 .. Top - 1 : AverageBitrate[q] \in Nat \ {0}
  BY Ladder DEF Quality
<1>6. higher \in BOOLEAN /\ between \in BOOLEAN
  OBVIOUS
<1>7. quality_' \in {up, down}
  <2> HIDE DEF higher, between, up, down
  <2> QED
    BY <1>2, <1>6
<1> HIDE DEF smooth, up, down, higher, between
<1>8. CASE quality_' = up
  <2>1. up \in 0 .. Top - 1 /\ AverageBitrate[up] <= smooth - (Omega + (15 * smooth) \div 100)
    BY <1>3, <1>8
  <2>2. AverageBitrate[up] \in Nat \ {0}
    BY <1>5, <2>1
  <2>3. AverageBitrate[up] <= smooth - Omega
    BY <1>1, <2>1, <2>2, UpMarginIsWider
  <2> QED
    BY <1>8, <2>1, <2>3 DEF smooth
<1>9. CASE quality_' = down
  BY <1>4, <1>9 DEF smooth
<1> QED
  BY <1>7, <1>8, <1>9

(* On every ladder, whatever the bandwidth does and whatever is left of an *)
(* overshoot, PANDA changes to a level that is the lowest or that the      *)
(* smoothed share carries with Omega to spare.                             *)
THEOREM PandaChangesFit == AdaptationSpec => PandaKeepsMargin
<1>1. ASSUME AdaptationTypeOK, [GetNextQuality]_adaptationVars
      PROVE  [ algorithm_ = "panda" /\ quality_' \notin {0, quality_}
                 => AverageBitrate[quality_'] <= m_lastSmoothBandwidthShare' - Omega ]_quality_
  <2>1. CASE UNCHANGED adaptationVars
    BY <2>1 DEF adaptationVars, loopVars
  <2>2. CASE GetNextQuality
    BY <1>1, <2>2, StepOf, PandaAnswerFits
  <2> QED
    BY <1>1, <2>1, <2>2
<1> QED
  BY <1>1, AdaptationTypeCorrect, PTL DEF AdaptationSpec, PandaKeepsMargin

(* PANDA never asks for the highest level, however much the connection     *)
(* carries, unless it is the only one: FindLargest stops short of it.      *)
THEOREM PandaLeavesTopOut == AdaptationSpec => []TopIsLeftOut
<1>1. AdaptationInit => TopIsLeftOut
  BY Ladder DEF AdaptationInit, LoopInit, TopIsLeftOut
<1>2. ASSUME AdaptationTypeOK, TopIsLeftOut, [GetNextQuality]_adaptationVars
      PROVE  TopIsLeftOut'
  <2>1. CASE UNCHANGED adaptationVars
    BY <1>2, <2>1 DEF adaptationVars, loopVars, TopIsLeftOut, Top
  <2>2. CASE GetNextQuality
    <3> SUFFICES ASSUME algorithm_' = "panda", Top > 0
                 PROVE  quality_' < Top
      BY DEF TopIsLeftOut, Top
    <3>1. algorithm_ = "panda" /\ PandaStep
      BY <2>2, StepOf
    <3>2. quality_' \in {0, quality_} \/ quality_' \in 0 .. Top - 1
      BY <1>2, <3>1, PandaAnswerFits
    <3>3. quality_ < Top
      BY <1>2, <3>1 DEF TopIsLeftOut
    <3> QED
      BY <3>2, <3>3, Ladder
  <2> QED
    BY <1>2, <2>1, <2>2
<1> QED
  BY <1>1, <1>2, AdaptationTypeCorrect, PTL DEF AdaptationSpec

(* A fifth of the difference a second is at most the difference for five   *)
(* seconds.                                                                *)
LEMMA SmoothedPart ==
  ASSUME NEW d \in Int, NEW t \in Nat, t <= 5000
  PROVE  /\ InTime(d, t) \div 5 \in Int
         /\ d >= 0 => 0 <= InTime(d, t) \div 5 /\ InTime(d, t) \div 5 <= d
         /\ d <= 0 => d <= InTime(d, t) \div 5 /\ InTime(d, t) \div 5 <= 0
<1> DEFINE s == t \div 1000
           ms == t % 1000
           n == InTime(d, t)
<1>1. s \in Nat /\ ms \in 0 .. 999 /\ t = 1000 * s + ms
  BY Z3
<1>2. n = d * s + (d * ms) \div 1000
  BY DEF InTime
<1> HIDE DEF s, ms, n
<1>3. d * t = 1000 * (d * s) + d * ms /\ d * s \in Int /\ d * ms \in Int
  BY <1>1, Z3
<1>4. \A x \in Int : 1000 * (x \div 1000) <= x /\ x < 1000 * (x \div 1000) + 1000 /\ x \div 1000 \in Int
  BY Z3
<1>5. n \in Int /\ 1000 * n <= d * t /\ d * t < 1000 * n + 1000
  BY <1>2, <1>3, <1>4
<1>6. d >= 0 => 0 <= d * t /\ d * t <= d * 5000
  BY Z3
<1>7. d <= 0 => d * 5000 <= d * t /\ d * t <= 0
  BY Z3
<1>8. d * t \in Int
  BY Z3
<1>9. /\ d >= 0 => 0 <= n /\ n <= 5 * d
      /\ d <= 0 => 5 * d <= n /\ n <= 0
  BY <1>5, <1>6, <1>7, <1>8
<1>10. \A x \in Int, y \in Int :
         /\ x \div 5 \in Int
         /\ y >= 0 /\ 0 <= x /\ x <= 5 * y => 0 <= x \div 5 /\ x \div 5 <= y
         /\ y <= 0 /\ 5 * y <= x /\ x <= 0 => y <= x \div 5 /\ x \div 5 <= 0
  BY Z3
<1> QED
  BY <1>5, <1>9, <1>10 DEF n

(* A part of the way from a to b is between them.                          *)
LEMMA PartWay ==
  ASSUME NEW a \in Int, NEW b \in Int, NEW part \in Int,
         b - a >= 0 => 0 <= part /\ part <= b - a,
         b - a <= 0 => b - a <= part /\ part <= 0
  PROVE  a + part \in a .. b \/ a + part \in b .. a
OBVIOUS

(* PANDA's smoothed share follows the share without overshooting as long   *)
(* as the time that it smooths over is no more than five seconds.          *)
THEOREM PandaSmoothsWithin == AdaptationSpec => SmoothsWithin
<1>1. ASSUME AdaptationTypeOK, PandaStep, received > 0,
             Larger(fetchTime', m_lastTargetInterrequestTime) <= 5000
      PROVE  \/ m_lastSmoothBandwidthShare' \in m_lastSmoothBandwidthShare .. m_lastBandwidthShare'
             \/ m_lastSmoothBandwidthShare' \in m_lastBandwidthShare' .. m_lastSmoothBandwidthShare
  <2> DEFINE time == Larger(fetchTime', m_lastTargetInterrequestTime)
             d == m_lastBandwidthShare' - m_lastSmoothBandwidthShare
  <2>1. m_lastBandwidthShare' \in Int /\ m_lastSmoothBandwidthShare \in Int
    BY <1>1, PandaAnswers DEF AdaptationTypeOK, PandaTypeOK
  <2>2. fetchTime' \in Nat /\ m_lastTargetInterrequestTime \in Nat
    BY <1>1, Arrival DEF AdaptationTypeOK, PandaTypeOK, PandaStep
  <2>3. time \in Nat /\ time <= 5000 /\ d \in Int
    <3>1. d \in Int
      BY <2>1
    <3>2. time \in Nat
      BY <2>2 DEF Larger
    <3> QED
      BY <1>1, <3>1, <3>2
  <2>4. received # 0
    <3>1. received \in 0 .. InitSegments /\ InitSegments \in Nat
      BY <1>1, LoopAssumption DEF AdaptationTypeOK, LoopTypeOK
    <3> QED
      BY <1>1, <3>1
  <2>5. m_lastSmoothBandwidthShare' = m_lastSmoothBandwidthShare + InTime(d, time) \div 5
    <3>1. m_lastSmoothBandwidthShare' =
            Smooth(IF received = 0 THEN Measured(fetchTime') ELSE m_lastSmoothBandwidthShare,
                   m_lastBandwidthShare', time)
      BY <1>1 DEF PandaStep
    <3>2. (IF received = 0 THEN Measured(fetchTime') ELSE m_lastSmoothBandwidthShare) = m_lastSmoothBandwidthShare
      BY <2>4
    <3> HIDE DEF time
    <3> QED
      BY <3>1, <3>2, Zenon DEF Smooth, d
  <2> DEFINE part == InTime(d, time) \div 5
  <2>6. /\ part \in Int
        /\ d >= 0 => 0 <= part /\ part <= d
        /\ d <= 0 => d <= part /\ part <= 0
    <3> HIDE DEF time, d
    <3> QED
      BY <2>3, SmoothedPart
  <2>7. m_lastSmoothBandwidthShare' = m_lastSmoothBandwidthShare + part
    BY <2>5
  <2> HIDE DEF time, part
  <2> QED
    BY <2>1, <2>6, <2>7, PartWay
<1>2. ASSUME AdaptationTypeOK, [GetNextQuality]_adaptationVars
      PROVE  [ algorithm_ = "panda" /\ received > 0
                 /\ Larger(fetchTime', m_lastTargetInterrequestTime) <= 5000
                 => \/ m_lastSmoothBandwidthShare' \in m_lastSmoothBandwidthShare .. m_lastBandwidthShare'
                    \/ m_lastSmoothBandwidthShare' \in m_lastBandwidthShare' .. m_lastSmoothBandwidthShare ]_loopVars
  <2>1. CASE UNCHANGED adaptationVars
    BY <2>1 DEF adaptationVars
  <2>2. CASE GetNextQuality
    BY <1>1, <1>2, <2>2, StepOf
  <2> QED
    BY <1>2, <2>1, <2>2
<1> QED
  BY <1>2, AdaptationTypeCorrect, PTL DEF AdaptationSpec, SmoothsWithin
============================================================================
