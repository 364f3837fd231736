------------------------ MODULE PlaybackData_proofs ------------------------
(***************************************************************************)
(* What the loops over data compute: the table of sizes that is read from  *)
(* files, and the throughput that is predicted from samples.               *)
(***************************************************************************)
EXTENDS VideoFiles, Predictor, Recursion, FiniteSetTheorems, SequenceTheorems

-----------------------------------------------------------------------------
(* Files.                                                                  *)

(* The files that open before the first that does not.                     *)
LEMMA OpenedArePrefix ==
  ASSUME NEW S, NEW log \in Seq(S)
  PROVE  /\ Opened(log) \in 0 .. Len(log)
         /\ \A l \in 1 .. Opened(log) : log[l].opens
         /\ Opened(log) < Len(log) => ~log[Opened(log) + 1].opens
<1> DEFINE T == {n \in 0 .. Len(log) : n < Len(log) => ~log[n + 1].opens}
<1>1. Len(log) \in T /\ T \subseteq Nat
  OBVIOUS
<1>2. PICK n \in T : \A m \in T : n <= m
  <2> HIDE DEF T
  <2> QED
    BY <1>1, Smallest
<1>3. ASSUME NEW l \in 1 .. n PROVE log[l].opens
  <2>1. l - 1 \in 0 .. Len(log) /\ l - 1 < n /\ l - 1 < Len(log) /\ (l - 1) + 1 = l
    OBVIOUS
  <2>2. l - 1 \notin T
    BY <1>2, <2>1
  <2> QED
    BY <2>1, <2>2
<1>4. \E m \in 0 .. Len(log) :
        /\ \A l \in 1 .. m : log[l].opens
        /\ m < Len(log) => ~log[m + 1].opens
  BY <1>3
<1> QED
  BY <1>4 DEF Opened

(* A file's sizes are its lines that are not blank, and as many.           *)
LEMMA SizesAreLines ==
  ASSUME NEW file, file.lines \in Seq(Int),
         \A i \in SizeLines(file) : file.lines[i] > 0
  PROVE  /\ Sizes(file) \in Seq(Nat \ {0})
         /\ Len(Sizes(file)) = Cardinality(SizeLines(file))
<1> DEFINE N == Len(file.lines)
           V == Seq(Nat \ {0})
           LinesUpto(n) == {l \in 1 .. n : file.lines[l] # Blank}
           segments == CHOOSE f : f = [n \in 0 .. N |->
                         IF n = 0 THEN <<>>
                         ELSE IF file.lines[n] = Blank THEN f[n - 1]
                         ELSE Append(f[n - 1], file.lines[n])]
           step == [n \in 1 .. N |-> [v \in V |->
                     IF file.lines[n] = Blank THEN v ELSE Append(v, file.lines[n])]]
<1>0. N \in Nat /\ DOMAIN file.lines = 1 .. N
  OBVIOUS
<1>1. ASSUME NEW n \in 1 .. N
      PROVE  file.lines[n] = Blank \/ file.lines[n] \in Nat \ {0}
  BY <1>0, <1>1 DEF SizeLines
<1>2. \A n \in 1 .. N : \A v \in V :
        (IF file.lines[n] = Blank THEN v ELSE Append(v, file.lines[n])) \in V
  BY <1>1
<1>3. step \in [1 .. N -> [V -> V]]
  BY <1>2
<1>4. \A n \in 1 .. N : \A v \in V :
        step[n][v] = IF file.lines[n] = Blank THEN v ELSE Append(v, file.lines[n])
  OBVIOUS
<1>5. <<>> \in V
  OBVIOUS
<1>6. LinesUpto(N) = SizeLines(file)
  BY <1>0 DEF SizeLines
<1>7. Sizes(file) = segments[N]
  BY DEF Sizes
<1> HIDE DEF N, V, step
<1>8. PICK g \in [0 .. N -> V] : g[0] = <<>> /\ \A n \in 1 .. N : g[n] = step[n][g[n - 1]]
  <2>1. Runs(N, V, <<>>, step) # {}
    BY <1>0, <1>3, <1>5, ByRecursion DEF Steps
  <2> QED
    BY <2>1 DEF Runs
<1>9. ASSUME NEW n \in 0 .. N
      PROVE  g[n] = IF n = 0 THEN <<>>
                    ELSE IF file.lines[n] = Blank THEN g[n - 1]
                    ELSE Append(g[n - 1], file.lines[n])
  <2>1. CASE n = 0
    BY <1>8, <2>1
  <2>2. CASE n # 0
    <3>1. n \in 1 .. N /\ n - 1 \in 0 .. N
      BY <1>0, <2>2
    <3>2. g[n - 1] \in V
      BY <3>1
    <3> QED
      BY <1>4, <1>8, <2>2, <3>1, <3>2
  <2> QED
    BY <2>1, <2>2
<1>10. g = [n \in 0 .. N |->
              IF n = 0 THEN <<>>
              ELSE IF file.lines[n] = Blank THEN g[n - 1]
              ELSE Append(g[n - 1], file.lines[n])]
  BY <1>9
<1>11. segments = [n \in 0 .. N |->
                     IF n = 0 THEN <<>>
                     ELSE IF file.lines[n] = Blank THEN segments[n - 1]
                     ELSE Append(segments[n - 1], file.lines[n])]
  BY <1>10, Zenon
<1> HIDE DEF segments
<1>12. segments[0] = <<>>
  BY <1>0, <1>11
<1>13. ASSUME NEW n \in Nat, n + 1 <= N
       PROVE  segments[n + 1] = IF file.lines[n + 1] = Blank THEN segments[n]
                                ELSE Append(segments[n], file.lines[n + 1])
  <2>1. n + 1 \in 0 .. N /\ n + 1 # 0 /\ (n + 1) - 1 = n
    BY <1>0, <1>13
  <2> QED
    BY <1>11, <2>1
<1> DEFINE Good(n) == /\ segments[n] \in V
                      /\ IsFiniteSet(LinesUpto(n))
                      /\ Len(segments[n]) = Cardinality(LinesUpto(n))
           T == {n \in Nat : n <= N => Good(n)}
<1>14. 0 \in T
  <2>1. LinesUpto(0) = {}
    OBVIOUS
  <2>2. Len(<<>>) = 0
    OBVIOUS
  <2>3. Good(0)
    BY <1>5, <1>12, <2>1, <2>2, FS_EmptySet
  <2> QED
    BY <2>3
<1>15. ASSUME NEW n \in Nat, n \in T PROVE n + 1 \in T
  <2> SUFFICES ASSUME n + 1 <= N PROVE Good(n + 1)
    OBVIOUS
  <2>1. Good(n)
    BY <1>0, <1>15
  <2>2. n + 1 \in 1 .. N
    BY <1>0
  <2>3. CASE file.lines[n + 1] = Blank
    <3>1. LinesUpto(n + 1) = LinesUpto(n)
      BY <2>3
    <3>2. segments[n + 1] = segments[n]
      BY <1>13, <2>3
    <3> QED
      BY <2>1, <3>1, <3>2
  <2>4. CASE file.lines[n + 1] # Blank
    <3>1. LinesUpto(n + 1) = LinesUpto(n) \cup {n + 1} /\ n + 1 \notin LinesUpto(n)
      BY <2>4
    <3>2. IsFiniteSet(LinesUpto(n + 1)) /\ Cardinality(LinesUpto(n + 1)) = Cardinality(LinesUpto(n)) + 1
      <4>1. IsFiniteSet(LinesUpto(n))
        BY <2>1
      <4> HIDE DEF LinesUpto
      <4>2. IsFiniteSet(LinesUpto(n) \cup {n + 1})
            /\ Cardinality(LinesUpto(n) \cup {n + 1}) = Cardinality(LinesUpto(n)) + 1
        BY <3>1, <4>1, FS_AddElement, Zenon
      <4> QED
        BY <3>1, <4>2, Zenon
    <3>3. file.lines[n + 1] \in Nat \ {0}
      BY <1>1, <2>2, <2>4
    <3>4. segments[n] \in V
      BY <2>1
    <3>5. /\ Append(segments[n], file.lines[n + 1]) \in V
          /\ Len(Append(segments[n], file.lines[n + 1])) = Len(segments[n]) + 1
      BY <3>3, <3>4 DEF V
    <3>6. segments[n + 1] = Append(segments[n], file.lines[n + 1])
      BY <1>13, <2>4
    <3> QED
      BY <2>1, <3>2, <3>5, <3>6
  <2> QED
    BY <2>3, <2>4
<1>16. Good(N)
  <2>1. Nat \subseteq T
    <3> HIDE DEF T
    <3> QED
      BY <1>14, <1>15, SetInduction
  <2> QED
    BY <1>0, <2>1
<1> QED
  BY <1>6, <1>7, <1>16 DEF V

(* The files list the same number of segments, all of some bytes, and the  *)
(* first can be opened.                                                    *)
Table(log) ==
  LET listed == ReadSegmentFromFile(log) IN
  /\ 0 \in DOMAIN listed
  /\ \E n \in Nat \ {0} : \A level_ \in DOMAIN listed : listed[level_] \in [0 .. n - 1 -> Nat \ {0}]

(* A file's lines are a sequence, and those with a size finitely many.     *)
LEMMA LinesOfFile ==
  ASSUME NEW log \in Seq([opens : BOOLEAN, lines : Seq(Int)]), NEW l \in DOMAIN log
  PROVE  log[l].lines \in Seq(Int)
<1>1. \A F : log \in Seq(F) => log[l] \in F
  OBVIOUS
<1>2. log[l] \in [opens : BOOLEAN, lines : Seq(Int)]
  BY <1>1
<1> QED
  BY <1>2

LEMMA SizeLinesFinite ==
  ASSUME NEW file, file.lines \in Seq(Int)
  PROVE  /\ Cardinality(SizeLines(file)) \in Nat
         /\ Cardinality(SizeLines(file)) = 0 => SizeLines(file) = {}
<1> DEFINE lines == 1 .. Len(file.lines)
<1>1. SizeLines(file) \in SUBSET lines
  BY DEF SizeLines
<1>2. Len(file.lines) \in Int
  OBVIOUS
<1>3. IsFiniteSet(lines)
  BY <1>2, FS_Interval
<1>4. IsFiniteSet(SizeLines(file))
  <2> HIDE DEF lines
  <2> QED
    BY <1>1, <1>3, FS_Subset
<1>5. Cardinality(SizeLines(file)) \in Nat
  BY <1>4, FS_CardinalityType
<1>6. Cardinality(SizeLines(file)) = 0 <=> SizeLines(file) = {}
  BY <1>4, FS_EmptySet
<1> QED
  BY <1>5, <1>6

(* Well-formed files make a table.                                         *)
LEMMA FilesMakeTable ==
  ASSUME NEW log, WellFormed(log)
  PROVE  Table(log)
<1> DEFINE n == Cardinality(SizeLines(log[1]))
           listed == ReadSegmentFromFile(log)
<1>1. log \in Seq([opens : BOOLEAN, lines : Seq(Int)]) /\ log # <<>>
  BY DEF WellFormed
<1>2. 1 \in DOMAIN log /\ Len(log) \in Nat \ {0} /\ DOMAIN log = 1 .. Len(log)
  BY <1>1
<1>3. Opened(log) \in 1 .. Len(log)
  <2>1. Opened(log) \in 0 .. Len(log)
    BY <1>1, OpenedArePrefix
  <2>2. Opened(log) < Len(log) => ~log[Opened(log) + 1].opens
    BY <1>1, OpenedArePrefix
  <2>3. Opened(log) # 0
    BY <1>2, <2>2 DEF WellFormed
  <2> QED
    BY <1>2, <2>1, <2>3
<1>4. ASSUME NEW l \in DOMAIN log
      PROVE  /\ Sizes(log[l]) \in Seq(Nat \ {0})
             /\ Len(Sizes(log[l])) = Cardinality(SizeLines(log[l]))
  <2>2. log[l].lines \in Seq(Int)
    BY <1>1, LinesOfFile
  <2>3. \A i \in SizeLines(log[l]) : log[l].lines[i] > 0
    BY DEF WellFormed
  <2> QED
    BY <2>2, <2>3, SizesAreLines
<1>5. n \in Nat \ {0}
  <2>1. SizeLines(log[1]) # {}
    BY DEF WellFormed
  <2>2. log[1].lines \in Seq(Int)
    BY <1>1, <1>2, LinesOfFile
  <2> QED
    BY <2>1, <2>2, SizeLinesFinite
<1>6. DOMAIN listed = 0 .. Opened(log) - 1
  BY DEF ReadSegmentFromFile
<1>7. ASSUME NEW q \in DOMAIN listed
      PROVE  listed[q] \in [0 .. n - 1 -> Nat \ {0}]
  <2>1. q \in Int /\ q + 1 \in 1 .. Opened(log) /\ q + 1 \in DOMAIN log
    BY <1>2, <1>3, <1>6
  <2> DEFINE sizes == Sizes(log[q + 1])
  <2>2. sizes \in Seq(Nat \ {0}) /\ Len(sizes) = n
    BY <1>4, <2>1 DEF WellFormed
  <2>3. listed[q] = [i \in 0 .. Len(sizes) - 1 |-> sizes[i + 1]]
    BY <1>6 DEF ReadSegmentFromFile
  <2> HIDE DEF sizes, n, listed
  <2>4. ASSUME NEW i \in 0 .. n - 1 PROVE sizes[i + 1] \in Nat \ {0}
    <3>1. i + 1 \in 1 .. Len(sizes)
      BY <1>5, <2>2
    <3> QED
      BY <2>2, <3>1
  <2> QED
    BY <2>2, <2>3, <2>4
<1>8. 0 \in DOMAIN listed
  BY <1>2, <1>3, <1>6
<1> QED
  BY <1>5, <1>7, <1>8 DEF Table
-----------------------------------------------------------------------------
(* The predicted throughput.                                               *)

(* Sums of a sample more: t and b are the time and the bytes of the new    *)
(* sample, u and c those of the one that was the slowest, or the fastest.  *)
LEMMA SlowestStays ==
  ASSUME NEW b \in Nat, NEW t \in Nat, NEW c \in Nat, NEW u \in Nat,
         NEW time \in Nat, NEW num \in Nat, NEW den \in Nat,
         c * num <= time * den * u, c * t <= b * u
  PROVE  c * (num * b + t * t * den) <= (time + t) * (den * b) * u
<1>1. (c * num) * b <= (time * den * u) * b
  BY Z3
<1>2. (c * t) * (t * den) <= (b * u) * (t * den)
  BY Z3
<1>3. c * (num * b + t * t * den) = (c * num) * b + (c * t) * (t * den)
  BY Z3
<1>4. (time + t) * (den * b) * u = (time * den * u) * b + (b * u) * (t * den)
  BY Z3
<1> QED
  BY <1>1, <1>2, <1>3, <1>4, Z3

LEMMA SlowestNew ==
  ASSUME NEW b \in Nat, NEW t \in Nat, NEW c \in Nat, NEW u \in Nat \ {0},
         NEW time \in Nat, NEW num \in Nat, NEW den \in Nat,
         c * num <= time * den * u, b * u <= c * t
  PROVE  b * (num * b + t * t * den) <= (time + t) * (den * b) * t
<1>1. (c * num) * t <= (time * den * u) * t
  BY Z3
<1>2. (b * u) * num <= (c * t) * num
  BY Z3
<1>3. (b * num) * u <= (time * den * t) * u
  <2>1. (c * num) * t = (c * t) * num
    BY Z3
  <2>2. (b * u) * num = (b * num) * u /\ (time * den * u) * t = (time * den * t) * u
    BY Z3
  <2> QED
    BY <1>1, <1>2, <2>1, <2>2, Z3
<1>4. b * num <= time * den * t
  BY <1>3, Z3
<1> QED
  BY <1>4, SlowestStays

LEMMA FastestStays ==
  ASSUME NEW b \in Nat, NEW t \in Nat, NEW c \in Nat, NEW u \in Nat,
         NEW time \in Nat, NEW num \in Nat, NEW den \in Nat,
         c * num >= time * den * u, c * t >= b * u
  PROVE  c * (num * b + t * t * den) >= (time + t) * (den * b) * u
<1>1. (c * num) * b >= (time * den * u) * b
  BY Z3
<1>2. (c * t) * (t * den) >= (b * u) * (t * den)
  BY Z3
<1>3. c * (num * b + t * t * den) = (c * num) * b + (c * t) * (t * den)
  BY Z3
<1>4. (time + t) * (den * b) * u = (time * den * u) * b + (b * u) * (t * den)
  BY Z3
<1> QED
  BY <1>1, <1>2, <1>3, <1>4, Z3

LEMMA FastestNew ==
  ASSUME NEW b \in Nat, NEW t \in Nat, NEW c \in Nat, NEW u \in Nat \ {0},
         NEW time \in Nat, NEW num \in Nat, NEW den \in Nat,
         c * num >= time * den * u, b * u >= c * t
  PROVE  b * (num * b + t * t * den) >= (time + t) * (den * b) * t
<1>1. (c * num) * t >= (time * den * u) * t
  BY Z3
<1>2. (b * u) * num >= (c * t) * num
  BY Z3
<1>3. (b * num) * u >= (time * den * t) * u
  <2>1. (c * num) * t = (c * t) * num
    BY Z3
  <2>2. (b * u) * num = (b * num) * u /\ (time * den * u) * t = (time * den * t) * u
    BY Z3
  <2> QED
    BY <1>1, <1>2, <2>1, <2>2, Z3
<1>4. b * num >= time * den * t
  BY <1>3, Z3
<1> QED
  BY <1>4, FastestStays

(* The samples that the client takes: no segment ends before it starts,    *)
(* and none is empty.                                                      *)
Sampled == {s \in [start : Nat, end : Nat, bytes : Nat \ {0}] : s.start <= s.end}
Summed == [time : Nat, num : Nat, den : Nat \ {0}]

LEMMA SummedAgain ==
  ASSUME NEW sums \in Summed, NEW sample \in Sampled
  PROVE  AddSample(sums, sample) \in Summed
<1>1. /\ sums.time \in Nat /\ sums.num \in Nat /\ sums.den \in Nat \ {0}
      /\ sample.bytes \in Nat \ {0} /\ DownloadTime(sample) \in Nat
  BY DEF Summed, Sampled, DownloadTime
<1>2. \A t, num, x, y \in Nat : t + x \in Nat /\ num * y + x * x * t \in Nat
  BY Z3
<1>3. \A x, y \in Nat \ {0} : x * y \in Nat \ {0}
  BY Z3
<1> QED
  BY <1>1, <1>2, <1>3 DEF AddSample, Summed

(* Predict is what the sums come to after the last sample.                 *)
Sums(history, first) ==
  {sums \in [0 .. Len(history) - first -> Summed] :
     /\ sums[0] = NoSamples
     /\ \A n \in 1 .. Len(history) - first : sums[n] = AddSample(sums[n - 1], history[first + n])}

LEMMA PredictSums ==
  ASSUME NEW history \in Seq(Sampled), NEW horizon \in Nat \ {0}
  PROVE  \E sums \in Sums(history, First(history, horizon)) :
           LET all == sums[Len(history) - First(history, horizon)] IN
           Predict(history, horizon) = [bytes |-> all.time * all.den, time |-> all.num]
<1> DEFINE first == First(history, horizon)
           N == Len(history) - first
           step == [n \in 1 .. N |-> [sums \in Summed |-> AddSample(sums, history[first + n])]]
           all == CHOOSE f : f = [n \in 0 .. N |->
                    IF n = 0 THEN NoSamples ELSE AddSample(f[n - 1], history[first + n])]
<1>1. first \in Nat /\ N \in Nat /\ Len(history) = first + N
  BY DEF First
<1>2. ASSUME NEW n \in 1 .. N PROVE history[first + n] \in Sampled
  <2>1. first + n \in 1 .. Len(history)
    BY <1>1
  <2> QED
    BY <2>1
<1>3. Predict(history, horizon) = [bytes |-> all[N].time * all[N].den, time |-> all[N].num]
  BY DEF Predict
<1>4. Sums(history, first) = {sums \in [0 .. N -> Summed] :
        sums[0] = NoSamples /\ \A n \in 1 .. N : sums[n] = AddSample(sums[n - 1], history[first + n])}
  BY DEF Sums
<1> HIDE DEF first, N
<1>5. \A n \in 1 .. N : \A sums \in Summed : AddSample(sums, history[first + n]) \in Summed
  BY <1>2, SummedAgain
<1>6. step \in Steps(N, Summed)
  BY <1>5 DEF Steps
<1>7. \A n \in 1 .. N : \A sums \in Summed : step[n][sums] = AddSample(sums, history[first + n])
  OBVIOUS
<1>8. NoSamples \in Summed
  BY DEF NoSamples, Summed
<1> HIDE DEF step
<1>9. PICK g \in [0 .. N -> Summed] :
        g[0] = NoSamples /\ \A n \in 1 .. N : g[n] = step[n][g[n - 1]]
  <2>1. Runs(N, Summed, NoSamples, step) # {}
    BY <1>1, <1>6, <1>8, ByRecursion
  <2> QED
    BY <2>1 DEF Runs
<1>10. ASSUME NEW n \in 1 .. N PROVE g[n] = AddSample(g[n - 1], history[first + n])
  <2>1. n - 1 \in 0 .. N
    BY <1>1
  <2>2. g[n - 1] \in Summed
    BY <1>9, <2>1
  <2> QED
    BY <1>7, <1>9, <2>2
<1>11. g = [n \in 0 .. N |-> IF n = 0 THEN NoSamples ELSE AddSample(g[n - 1], history[first + n])]
  <2>1. ASSUME NEW n \in 0 .. N
        PROVE  g[n] = IF n = 0 THEN NoSamples ELSE AddSample(g[n - 1], history[first + n])
    <3>1. n = 0 \/ n \in 1 .. N
      BY <1>1
    <3> QED
      BY <1>9, <1>10, <3>1
  <2> QED
    BY <1>9, <2>1
<1>12. all = [n \in 0 .. N |-> IF n = 0 THEN NoSamples ELSE AddSample(all[n - 1], history[first + n])]
  BY <1>11, Zenon
<1> HIDE DEF all
<1>13. all = g
  <2> DEFINE T == {n \in Nat : n <= N => all[n] = g[n]}
  <2>1. 0 \in T
    BY <1>1, <1>9, <1>12
  <2>2. ASSUME NEW n \in Nat, n \in T PROVE n + 1 \in T
    <3> SUFFICES ASSUME n + 1 <= N PROVE all[n + 1] = g[n + 1]
      OBVIOUS
    <3>1. n + 1 \in 1 .. N /\ n + 1 \in 0 .. N /\ n + 1 # 0 /\ (n + 1) - 1 = n /\ n <= N
      BY <1>1
    <3>2. all[n] = g[n]
      BY <2>2, <3>1
    <3>3. all[n + 1] = AddSample(all[n], history[first + (n + 1)])
      BY <1>12, <3>1
    <3>4. g[n + 1] = AddSample(g[n], history[first + (n + 1)])
      BY <1>10, <3>1
    <3> QED
      BY <3>2, <3>3, <3>4
  <2>3. Nat \subseteq T
    <3> HIDE DEF T
    <3> QED
      BY <2>1, <2>2, SetInduction
  <2>4. \A n \in 0 .. N : all[n] = g[n]
    BY <1>1, <2>3
  <2>5. all = [n \in 0 .. N |-> all[n]]
    BY <1>12
  <2>6. g = [n \in 0 .. N |-> g[n]]
    BY <1>9
  <2> QED
    BY <2>4, <2>5, <2>6
<1>14. g \in Sums(history, first)
  BY <1>4, <1>9, <1>10
<1>15. Predict(history, horizon) = [bytes |-> g[N].time * g[N].den, time |-> g[N].num]
  BY <1>3, <1>13
<1>16. \E sums \in Sums(history, first) :
         Predict(history, horizon) = [bytes |-> sums[N].time * sums[N].den, time |-> sums[N].num]
  BY <1>14, <1>15
<1> QED
  BY <1>16 DEF first, N

(* Between the slowest and the fastest: the means of the samples so far.   *)
AboveSlowest(all, i, history) ==
  /\ DownloadTime(history[i]) > 0
  /\ history[i].bytes * all.num <= all.time * all.den * DownloadTime(history[i])
BelowFastest(all, i, history) ==
  history[i].bytes * all.num >= all.time * all.den * DownloadTime(history[i])

(* A sample has some bytes, and takes no negative time.                    *)
LEMMA SampleTakesTime ==
  ASSUME NEW s \in Sampled
  PROVE  s.bytes \in Nat \ {0} /\ DownloadTime(s) \in Nat
<1>1. s.start \in Nat /\ s.end \in Nat /\ s.bytes \in Nat \ {0} /\ s.start <= s.end
  BY DEF Sampled
<1> QED
  BY <1>1 DEF DownloadTime

(* One sample more: if some sample was slower than the mean and some was   *)
(* faster, some still are.                                                 *)
LEMMA MeanOfOneMore ==
  ASSUME NEW history \in Seq(Sampled), NEW first \in Nat, NEW n \in Nat,
         first + n + 1 <= Len(history),
         NEW all \in Summed,
         all.num > 0 => \E i \in first + 1 .. first + n : AboveSlowest(all, i, history),
         n = 0 => all = NoSamples,
         n > 0 => \E i \in first + 1 .. first + n : BelowFastest(all, i, history),
         NEW more, more = AddSample(all, history[first + n + 1])
  PROVE  /\ more.num > 0 => \E i \in first + 1 .. first + n + 1 : AboveSlowest(more, i, history)
         /\ \E i \in first + 1 .. first + n + 1 : BelowFastest(more, i, history)
<1> DEFINE new == first + n + 1
           b == history[new].bytes
           t == DownloadTime(history[new])
<1>1. /\ new \in first + 1 .. first + n + 1
      /\ \A i \in first + 1 .. first + n : i \in first + 1 .. first + n + 1
  OBVIOUS
<1>2. ASSUME NEW i \in first + 1 .. first + n + 1
      PROVE  /\ history[i].bytes \in Nat \ {0}
             /\ DownloadTime(history[i]) \in Nat
  <2>1. i \in 1 .. Len(history)
    OBVIOUS
  <2>2. history[i] \in Sampled
    BY <2>1
  <2> QED
    BY <2>2, SampleTakesTime
<1>3. b \in Nat \ {0} /\ t \in Nat
  BY <1>1, <1>2
<1>4. all.time \in Nat /\ all.num \in Nat /\ all.den \in Nat \ {0}
  BY DEF Summed
<1>5. /\ more.time = all.time + t
      /\ more.num = all.num * b + t * t * all.den
      /\ more.den = all.den * b
  BY DEF AddSample
<1>6. new \in Nat /\ history[new].bytes = b /\ DownloadTime(history[new]) = t
  OBVIOUS
<1> HIDE DEF new, b, t
<1>7. ASSUME more.num > 0
      PROVE  \E i \in first + 1 .. first + n + 1 : AboveSlowest(more, i, history)
  <2>1. CASE all.num > 0
    <3>1. PICK i \in first + 1 .. first + n : AboveSlowest(all, i, history)
      BY <2>1
    <3> DEFINE c == history[i].bytes
               u == DownloadTime(history[i])
    <3>2. c \in Nat /\ u \in Nat \ {0} /\ c * all.num <= all.time * all.den * u
      BY <1>1, <1>2, <3>1 DEF AboveSlowest
    <3> HIDE DEF c, u
    <3>3. CASE c * t <= b * u
      <4>1. c * (all.num * b + t * t * all.den) <= (all.time + t) * (all.den * b) * u
        BY <1>3, <1>4, <3>2, <3>3, SlowestStays
      <4>2. AboveSlowest(more, i, history)
        BY <1>5, <3>2, <4>1 DEF AboveSlowest, c, u
      <4> QED
        BY <1>1, <4>2
    <3>4. CASE b * u < c * t
      <4>1. b * u <= c * t
        BY <1>3, <3>2, <3>4
      <4>2. b * (all.num * b + t * t * all.den) <= (all.time + t) * (all.den * b) * t
        BY <1>3, <1>4, <3>2, <4>1, SlowestNew
      <4>3. t > 0
        BY <1>3, <3>2, <3>4, Z3
      <4>4. AboveSlowest(more, new, history)
        BY <1>5, <1>6, <4>2, <4>3 DEF AboveSlowest
      <4> QED
        BY <1>1, <4>4
    <3>5. c * t \in Int /\ b * u \in Int
      BY <1>3, <3>2
    <3> QED
      BY <3>3, <3>4, <3>5
  <2>2. CASE all.num = 0
    <3>1. b * all.num <= all.time * all.den * t
      BY <1>3, <1>4, <2>2, Z3
    <3>2. b * t <= b * t
      BY <1>3
    <3>3. b * (all.num * b + t * t * all.den) <= (all.time + t) * (all.den * b) * t
      BY <1>3, <1>4, <3>1, <3>2, SlowestStays
    <3>4. t > 0
      BY <1>3, <1>4, <1>5, <1>7, <2>2, Z3
    <3>5. AboveSlowest(more, new, history)
      BY <1>5, <1>6, <3>3, <3>4 DEF AboveSlowest
    <3> QED
      BY <1>1, <3>5
  <2> QED
    BY <1>4, <2>1, <2>2
<1>8. \E i \in first + 1 .. first + n + 1 : BelowFastest(more, i, history)
  <2>1. CASE n = 0
    <3>1. all.time = 0 /\ all.num = 0 /\ all.den = 1
      BY <2>1 DEF NoSamples
    <3>2. b * all.num >= all.time * all.den * t
      BY <1>3, <3>1, Z3
    <3>3. b * t >= b * t
      BY <1>3
    <3>4. b * (all.num * b + t * t * all.den) >= (all.time + t) * (all.den * b) * t
      BY <1>3, <1>4, <3>2, <3>3, FastestStays
    <3>5. BelowFastest(more, new, history)
      BY <1>5, <1>6, <3>4 DEF BelowFastest
    <3> QED
      BY <1>1, <3>5
  <2>2. CASE n > 0
    <3>1. PICK i \in first + 1 .. first + n : BelowFastest(all, i, history)
      BY <2>2
    <3> DEFINE c == history[i].bytes
               u == DownloadTime(history[i])
    <3>2. c \in Nat /\ u \in Nat /\ c * all.num >= all.time * all.den * u
      BY <1>1, <1>2, <3>1 DEF BelowFastest
    <3> HIDE DEF c, u
    <3>3. CASE c * t >= b * u
      <4>1. c * (all.num * b + t * t * all.den) >= (all.time + t) * (all.den * b) * u
        BY <1>3, <1>4, <3>2, <3>3, FastestStays
      <4>2. BelowFastest(more, i, history)
        BY <1>5, <4>1 DEF BelowFastest, c, u
      <4> QED
        BY <1>1, <4>2
    <3>4. CASE b * u > c * t
      <4>1. b * u >= c * t
        BY <1>3, <3>2, <3>4
      <4>2. u # 0
        BY <1>3, <3>2, <3>4, Z3
      <4>3. b * (all.num * b + t * t * all.den) >= (all.time + t) * (all.den * b) * t
        BY <1>3, <1>4, <3>2, <4>1, <4>2, FastestNew
      <4>4. BelowFastest(more, new, history)
        BY <1>5, <1>6, <4>3 DEF BelowFastest
      <4> QED
        BY <1>1, <4>4
    <3>5. c * t \in Int /\ b * u \in Int
      BY <1>3, <3>2
    <3> QED
      BY <3>3, <3>4, <3>5
  <2> QED
    BY <2>1, <2>2
<1> QED
  BY <1>7, <1>8

(* What is predicted is no less than what the slowest segment of the       *)
(* window took, and no more than what the fastest did.                     *)
LEMMA PredictIsMean ==
  ASSUME NEW history \in Seq(Sampled), NEW horizon \in Nat \ {0},
         Predict(history, horizon).time > 0
  PROVE  LET p == Predict(history, horizon) IN
         /\ \E i \in Window(history, horizon) :
              /\ DownloadTime(history[i]) > 0
              /\ history[i].bytes * p.time <= p.bytes * DownloadTime(history[i])
         /\ \E i \in Window(history, horizon) :
              history[i].bytes * p.time >= p.bytes * DownloadTime(history[i])
<1> DEFINE first == First(history, horizon)
           N == Len(history) - first
           p == Predict(history, horizon)
<1>1. first \in Nat /\ N \in Nat /\ Len(history) = first + N
  BY DEF First
<1>2. PICK sums \in Sums(history, first) : p = [bytes |-> sums[N].time * sums[N].den, time |-> sums[N].num]
  BY PredictSums
<1>3. /\ sums \in [0 .. N -> Summed]
      /\ sums[0] = NoSamples
      /\ \A n \in 1 .. N : sums[n] = AddSample(sums[n - 1], history[first + n])
  BY DEF Sums
<1>4. Window(history, horizon) = first + 1 .. first + N
  BY <1>1 DEF Window
<1> HIDE DEF first, N, p
<1> DEFINE Slow(n) == sums[n].num > 0 => \E i \in first + 1 .. first + n : AboveSlowest(sums[n], i, history)
           Fast(n) == n > 0 => \E i \in first + 1 .. first + n : BelowFastest(sums[n], i, history)
           T == {n \in Nat : n <= N => Slow(n) /\ Fast(n)}
<1>5. 0 \in T
  <2>1. ~(sums[0].num > 0)
    BY <1>3 DEF NoSamples
  <2> QED
    BY <2>1
<1>6. ASSUME NEW n \in Nat, n \in T PROVE n + 1 \in T
  <2> SUFFICES ASSUME n + 1 <= N PROVE Slow(n + 1) /\ Fast(n + 1)
    OBVIOUS
  <2>1. Slow(n) /\ Fast(n)
    BY <1>1, <1>6
  <2>2. n \in 0 .. N /\ n + 1 \in 1 .. N /\ (n + 1) - 1 = n /\ first + n + 1 = first + (n + 1)
        /\ first + n + 1 <= Len(history)
    BY <1>1
  <2>3. sums[n] \in Summed
    BY <1>3, <2>2
  <2>4. sums[n + 1] = AddSample(sums[n], history[first + n + 1])
    BY <1>3, <2>2
  <2>5. n = 0 => sums[n] = NoSamples
    BY <1>3
  <2>6. /\ sums[n + 1].num > 0 => \E i \in first + 1 .. first + n + 1 : AboveSlowest(sums[n + 1], i, history)
        /\ \E i \in first + 1 .. first + n + 1 : BelowFastest(sums[n + 1], i, history)
    BY <1>1, <2>1, <2>2, <2>3, <2>4, <2>5, MeanOfOneMore
  <2> QED
    BY <2>2, <2>6
<1>7. Slow(N) /\ Fast(N)
  <2>1. Nat \subseteq T
    <3> HIDE DEF T
    <3> QED
      BY <1>5, <1>6, SetInduction
  <2>2. N \in T
    <3> HIDE DEF T
    <3> QED
      BY <1>1, <2>1
  <2>3. N <= N => Slow(N) /\ Fast(N)
    <3> HIDE DEF Slow, Fast
    <3> QED
      BY <2>2
  <2> QED
    <3> HIDE DEF Slow, Fast
    <3> QED
      BY <1>1, <2>3
<1>8. p.time = sums[N].num /\ p.bytes = sums[N].time * sums[N].den
  BY <1>2
<1>9. p.time > 0
  BY DEF p
<1>10. N > 0
  <2>1. N # 0
    BY <1>3, <1>8, <1>9 DEF NoSamples
  <2> QED
    BY <1>1, <2>1
<1>11. \E i \in Window(history, horizon) :
         /\ DownloadTime(history[i]) > 0
         /\ history[i].bytes * p.time <= p.bytes * DownloadTime(history[i])
  BY <1>4, <1>7, <1>8, <1>9 DEF AboveSlowest
<1>12. \E i \in Window(history, horizon) :
         history[i].bytes * p.time >= p.bytes * DownloadTime(history[i])
  BY <1>4, <1>7, <1>8, <1>10 DEF BelowFastest
<1> QED
  BY <1>11, <1>12 DEF p

(* Arithmetic: a common factor can be cancelled.                           *)
LEMMA CommonFactor ==
  ASSUME NEW a \in Nat, NEW b \in Nat, NEW factor \in Nat, factor > 0, a * factor <= b * factor
  PROVE  a <= b
<1> SUFFICES ASSUME b + 1 <= a PROVE FALSE
  OBVIOUS
<1>1. (b + 1) * factor <= a * factor
  OBVIOUS
<1>2. (b + 1) * factor = b * factor + factor
  OBVIOUS
<1>3. a * factor \in Nat /\ b * factor \in Nat
  OBVIOUS
<1> QED
  BY <1>1, <1>2, <1>3

(* Arithmetic: a mean at or above (below) one of two samples with the same *)
(* quotient is at or above (below) the other.                              *)
LEMMA SameQuotient ==
  ASSUME NEW b \in Nat, NEW t \in Nat, NEW b0 \in Nat, NEW t0 \in Nat, t0 > 0, b * t0 = b0 * t,
         NEW bytes \in Nat, NEW time \in Nat
  PROVE  /\ b0 * time <= bytes * t0 => b * time <= bytes * t
         /\ b0 * time >= bytes * t0 => b * time >= bytes * t
<1>1. b * time \in Nat /\ bytes * t \in Nat /\ b0 * time \in Nat /\ bytes * t0 \in Nat
  OBVIOUS
<1>2. (b * time) * t0 = (b0 * time) * t
  <2>1. (b * time) * t0 = (b * t0) * time
    OBVIOUS
  <2>2. (b0 * time) * t = (b0 * t) * time
    OBVIOUS
  <2> QED
    BY <2>1, <2>2
<1>3. (bytes * t) * t0 = (bytes * t0) * t
  OBVIOUS
<1>4. ASSUME b0 * time <= bytes * t0 PROVE b * time <= bytes * t
  <2>1. (b0 * time) * t <= (bytes * t0) * t
    BY <1>1, <1>4
  <2> QED
    BY <1>1, <1>2, <1>3, <2>1, CommonFactor
<1>5. ASSUME b0 * time >= bytes * t0 PROVE b * time >= bytes * t
  <2>1. (bytes * t0) * t <= (b0 * time) * t
    BY <1>1, <1>5
  <2>2. bytes * t <= b * time
    BY <1>1, <1>2, <1>3, <2>1, CommonFactor
  <2> QED
    BY <1>1, <2>2
<1> QED
  BY <1>4, <1>5

(* Arithmetic: a sample with bytes and the quotient of one that took time  *)
(* took time, too.                                                         *)
LEMMA NotWithoutTime ==
  ASSUME NEW bs \in Nat, NEW ts \in Nat, NEW bf \in Nat, NEW tf \in Nat,
         ts > 0, bf > 0, bf * ts = bs * tf
  PROVE  tf > 0
<1> SUFFICES ASSUME tf = 0 PROVE FALSE
  OBVIOUS
<1>1. bs * tf = 0
  OBVIOUS
<1>2. bf * ts >= 1 * ts
  OBVIOUS
<1> QED
  BY <1>1, <1>2

(* What all samples of the window have in common is what is predicted.     *)
LEMMA PredictIsExact ==
  ASSUME NEW history \in Seq(Sampled), NEW horizon \in Nat \ {0},
         Predict(history, horizon).time > 0,
         \A i, j \in Window(history, horizon) :
           history[i].bytes * DownloadTime(history[j]) = history[j].bytes * DownloadTime(history[i]),
         NEW i \in Window(history, horizon)
  PROVE  history[i].bytes * Predict(history, horizon).time
           = Predict(history, horizon).bytes * DownloadTime(history[i])
<1> DEFINE p == Predict(history, horizon)
           W == Window(history, horizon)
<1>1. \A k \in W : history[k].bytes \in Nat \ {0} /\ DownloadTime(history[k]) \in Nat
  <2>1. \A k \in W : history[k] \in Sampled
    BY DEF Window, First
  <2> QED
    BY <2>1, SampleTakesTime
<1>2. p.time \in Nat /\ p.bytes \in Nat
  <2>1. PICK sums \in Sums(history, First(history, horizon)) :
          LET all == sums[Len(history) - First(history, horizon)] IN
          p = [bytes |-> all.time * all.den, time |-> all.num]
    BY PredictSums
  <2> DEFINE N == Len(history) - First(history, horizon)
             all == sums[N]
  <2>2. all \in Summed
    <3>1. N \in Nat
      BY DEF First
    <3>2. sums \in [0 .. N -> Summed]
      BY <2>1 DEF Sums
    <3> HIDE DEF N
    <3> QED
      BY <3>1, <3>2
  <2>3. all.time \in Nat /\ all.num \in Nat /\ all.den \in Nat
    BY <2>2 DEF Summed
  <2>4. p.time = all.num /\ p.bytes = all.time * all.den
    BY <2>1
  <2> HIDE DEF all, p
  <2> QED
    BY <2>3, <2>4
<1> HIDE DEF p, W
<1>3. PICK slow \in W : /\ DownloadTime(history[slow]) > 0
                         /\ history[slow].bytes * p.time <= p.bytes * DownloadTime(history[slow])
  BY PredictIsMean DEF p, W
<1>4. PICK fast \in W : history[fast].bytes * p.time >= p.bytes * DownloadTime(history[fast])
  BY PredictIsMean DEF p, W
<1>5. \A j, k \in W : history[j].bytes * DownloadTime(history[k]) = history[k].bytes * DownloadTime(history[j])
  BY DEF W
<1>6. i \in W
  BY DEF W
<1> DEFINE b == history[i].bytes
           t == DownloadTime(history[i])
           bs == history[slow].bytes
           ts == DownloadTime(history[slow])
           bf == history[fast].bytes
           tf == DownloadTime(history[fast])
           bytes == p.bytes
           time == p.time
<1>7. /\ b \in Nat /\ t \in Nat /\ bs \in Nat /\ ts \in Nat /\ bf \in Nat /\ tf \in Nat
      /\ bytes \in Nat /\ time \in Nat
      /\ bf > 0
  BY <1>1, <1>2, <1>6
<1>8. /\ ts > 0
      /\ bs * time <= bytes * ts
      /\ bf * time >= bytes * tf
      /\ b * ts = bs * t
      /\ b * tf = bf * t
      /\ bf * ts = bs * tf
  BY <1>3, <1>4, <1>5, <1>6
<1>9. b * time = bytes * t
  <2> HIDE DEF b, t, bs, ts, bf, tf, bytes, time
  <2>1. tf > 0
    BY <1>7, <1>8, NotWithoutTime
  <2>2. b * time <= bytes * t
    BY <1>7, <1>8, SameQuotient
  <2>3. b * time >= bytes * t
    BY <1>7, <1>8, <2>1, SameQuotient
  <2>4. b * time \in Nat /\ bytes * t \in Nat
    BY <1>7
  <2> QED
    BY <2>2, <2>3, <2>4
<1> QED
  BY <1>9 DEF p
============================================================================
