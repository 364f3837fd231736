----------------------------- MODULE Predictor -----------------------------
(***************************************************************************)
(* BandwidthPredicator::Predict (dash/dash_algorithm.cc): the throughput   *)
(* of the last segments, sum(t) / sum(t^2 / bytes), where t is the time of *)
(* a segment in milliseconds.  A sample is the start, the end and the      *)
(* bytes of a segment.  The factors that turn bytes per millisecond into   *)
(* bits per second are left out.                                           *)
(***************************************************************************)
EXTENDS Integers, Sequences

DownloadTime(sample) == sample.end - sample.start

(* max(0, length - horizon), where the loop over the samples starts.       *)
First(history, horizon) == IF Len(history) > horizon THEN Len(history) - horizon ELSE 0

Window(history, horizon) == First(history, horizon) + 1 .. Len(history)

(* The loop: sum_download_time, and temp_sum as the quotient num / den.    *)
NoSamples == [time |-> 0, num |-> 0, den |-> 1]

(* Mutant: every sample counts the same, whatever time it took.            *)
AddUnweighted(sums, sample) ==
  LET t == DownloadTime(sample) IN
  [time |-> sums.time + t,
   num  |-> sums.num * sample.bytes + t * sums.den,
   den  |-> sums.den * sample.bytes]

AddSample(sums, sample) ==
  LET t == DownloadTime(sample) IN
  [time |-> sums.time + t,
   num  |-> sums.num * sample.bytes + t * t * sums.den,
   den  |-> sums.den * sample.bytes]

(* The estimate is Predict.bytes / Predict.time, a fraction.               *)
Predict(history, horizon) ==
  LET first == First(history, horizon)
      sums[n \in 0 .. Len(history) - first] ==
        IF n = 0 THEN NoSamples ELSE AddSample(sums[n - 1], history[first + n])
      all   == sums[Len(history) - first] IN
  [bytes |-> all.time * all.den, time |-> all.num]
============================================================================
