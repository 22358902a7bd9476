---------------------------- MODULE RatesProofs -----------------------------
(***************************************************************************)
(* Theorems about module Rates: the miner gives up for low rates only, the *)
(* average is over the last rounds, without gap or overlap, and autotune's *)
(* answer is the best of the intensities it measured.                      *)
(***************************************************************************)
EXTENDS Rates, Counting, SequenceTheorems, TLAPS

USE WindowAssumption, RatesAssumption

-----------------------------------------------------------------------------
(* The exit of the miner.                                                  *)

\* The clock and the two times the miner compares with it.
Clock ==
    /\ now \in Nat
    /\ hashrateTime \in Nat /\ hashrateTime <= now
    /\ lastReport \in Int   /\ lastReport <= now

\* The rate in force is that of the window closed last.
RateOfWindow == hashrate.to = hashrateTime

\* The windows counted were closed before the last report, one for each hit.
HitsCounted ==
    /\ hits \in Nat
    /\ IsFiniteSet(lowWindows)
    /\ Cardinality(lowWindows) = hits
    /\ \A r \in lowWindows : r.to \in Nat /\ r.to <= lastReport

\* The inductive invariant of the exit.
ExitInv ==
    /\ Clock
    /\ RateOfWindow
    /\ HitsCounted
    /\ pc = "exited" => hits >= ThresholdHits

\* Closing the window, or not, leaves the rate that of the last one.
LEMMA RateUpdated ==
  ASSUME Clock, RateOfWindow, NEW counts, update_hashrate(counts)
  PROVE  /\ hashrate'.to = hashrateTime'
         /\ hashrateTime' \in Nat /\ hashrateTime' <= now
         /\ now - hashrateTime' <= Window
  BY DEF Clock, RateOfWindow, update_hashrate

\* A step without a report keeps ExitInv.
LEMMA ExitQuiet ==
  ASSUME ExitInv, UNCHANGED <<hits, lowWindows, lastReport>>,
         now' \in Nat, now' >= now,
         hashrateTime' \in Nat, hashrateTime' <= now',
         hashrate'.to = hashrateTime',
         pc' = "exited" => pc = "exited"
  PROVE  ExitInv'
  BY DEF ExitInv, Clock, RateOfWindow, HitsCounted

\* A report that is a window after the one before is about another window.
LEMMA ExitReport ==
  ASSUME ReportInterval >= Window, ExitInv, Report
  PROVE  ExitInv'
  <1>1. /\ hashrate'.to = hashrateTime'
        /\ hashrateTime' \in Nat /\ hashrateTime' <= now
        /\ now - hashrateTime' <= Window
    BY RateUpdated DEF ExitInv, Report, get_current_hash_rate
  <1>2. now' = now /\ lastReport' = now /\ lastReport < now
    BY DEF Report, ReportIsDue, get_current_hash_rate, ExitInv, Clock
  <1>3. Clock' /\ RateOfWindow'
    BY <1>1, <1>2 DEF ExitInv, Clock, RateOfWindow
  <1>4. hashrateTime' > lastReport
    BY <1>1 DEF Report, ReportIsDue, ExitInv, Clock
  <1>5. hashrate' \notin lowWindows
    BY <1>1, <1>4 DEF ExitInv, Clock, HitsCounted
  <1>6. HitsCounted'
    <2>1. CASE paused
      BY <1>2, <2>1 DEF Report, ExitInv, Clock, HitsCounted
    <2>2. CASE ~paused /\ IsLow(hashrate')
      <3>1. hits' = hits + 1 /\ lowWindows' = lowWindows \cup {hashrate'}
        BY <2>2 DEF Report
      <3>2. /\ IsFiniteSet(lowWindows')
            /\ Cardinality(lowWindows') = Cardinality(lowWindows) + 1
        BY <1>5, <3>1, FS_AddElement DEF ExitInv, HitsCounted
      <3>3. \A r \in lowWindows' : r.to \in Nat /\ r.to <= lastReport'
        BY <1>1, <1>2, <3>1 DEF ExitInv, Clock, HitsCounted
      <3> QED
        BY <3>1, <3>2, <3>3 DEF ExitInv, HitsCounted
    <2>3. CASE ~paused /\ ~IsLow(hashrate')
      <3>1. hits' = 0 /\ lowWindows' = {}
        BY <2>3 DEF Report
      <3> QED
        BY <3>1, FS_EmptySet DEF HitsCounted
    <2> QED
      BY <2>1, <2>2, <2>3
  <1>7. pc' = "exited" => hits' >= ThresholdHits
    BY DEF Report
  <1> QED
    BY <1>3, <1>6, <1>7 DEF ExitInv

\* Every step keeps ExitInv.
LEMMA ExitStep ==
  ASSUME ReportInterval >= Window
  PROVE  ExitInv /\ [Next]_vars => ExitInv'
  <1> SUFFICES ASSUME ExitInv, [Next]_vars
               PROVE  ExitInv'
    OBVIOUS
  <1> USE DEF vars, statsVars, minerVars, tuneVars
  <1>0. CASE UNCHANGED vars
    BY <1>0, ExitQuiet DEF ExitInv, Clock, RateOfWindow
  <1>1. ASSUME NEW d \in Devices, NEW n \in Batches, Work(d, n)
        PROVE  ExitInv'
    <2>1. CASE n = 0
      BY <1>1, <2>1, ExitQuiet DEF Work, ExitInv, Clock, RateOfWindow
    <2>2. CASE n # 0
      BY <1>1, <2>2, RateUpdated, ExitQuiet
      DEF Work, store_hash, ExitInv, Clock
    <2> QED
      BY <2>1, <2>2
  <1>2. CASE Report
    BY <1>2, ExitReport
  <1>3. CASE NewBlock \/ PoolLost \/ PoolBack
    <2>1. UNCHANGED <<hits, lowWindows, lastReport, pc, now, hashrateTime,
                      hashrate>>
      BY <1>3 DEF NewBlock, PoolLost, PoolBack, close_round
    <2> QED
      BY <2>1, ExitQuiet DEF ExitInv, Clock, RateOfWindow
  <1>4. ASSUME NEW d \in Devices, TuneWork(d)
        PROVE  ExitInv'
    BY <1>4, RateUpdated, ExitQuiet DEF TuneWork, store_hash, ExitInv, Clock
  <1>5. CASE Select \/ Configure
    BY <1>5, ExitQuiet
    DEF Select, Configure, store_device_info, ExitInv, Clock, RateOfWindow
  <1>6. CASE Measure
    BY <1>6, RateUpdated, ExitQuiet
    DEF Measure, get_current_hash_rate, ExitInv, Clock
  <1>7. ASSUME NEW t \in SetupTimes, Cleanup(t)
        PROVE  ExitInv'
    BY <1>7, ExitQuiet DEF Cleanup, ExitInv, Clock, RateOfWindow
  <1>8. CASE NoneSelected \/ Begin \/ LoopTest \/ Finish \/ Stop \/ Ended
    BY <1>8, ExitQuiet
    DEF NoneSelected, Begin, LoopTest, Finish, Stop, Ended, ExitInv, Clock,
        RateOfWindow
  <1>9. CASE Tick
    BY <1>9, ExitQuiet DEF Tick, ExitInv, Clock, RateOfWindow
  <1> QED
    BY <1>0, <1>1, <1>2, <1>3, <1>4, <1>5, <1>6, <1>7, <1>8, <1>9 DEF Next

\* Nothing is counted at the start.
LEMMA ExitInit == Init => ExitInv
  <1> SUFFICES ASSUME Init PROVE ExitInv
    OBVIOUS
  <1>1. Clock /\ RateOfWindow
    BY DEF Init, StatsInit, NoRate, Clock, RateOfWindow
  <1>2. HitsCounted
    BY FS_EmptySet DEF Init, HitsCounted
  <1> QED
    BY <1>1, <1>2 DEF Init, ExitInv

\* For reports at least a window apart, as by default (both are ten seconds),
\* the miner exits only after as many different windows with a low rate as
\* __display_report asks for, whatever the devices compute and however blocks
\* and pauses come in between.
THEOREM ExitTheorem ==
  ASSUME ReportInterval >= Window
  PROVE  Spec => []ExitEarned
  <1>1. ExitInv => ExitEarned
    BY DEF ExitInv, HitsCounted, ExitEarned
  <1>2. ExitInv /\ [Next]_vars => ExitInv'
    BY ExitStep
  <1> QED
    BY <1>1, <1>2, ExitInit, PTL DEF Spec

-----------------------------------------------------------------------------
(* The rounds of the average.                                              *)

\* The round that begins at mark k of ms.
RoundAfter(ms, k) == [time  |-> ms[k + 1].at - ms[k].at,
                      count |-> ms[k + 1].total - ms[k].total]

\* __hash_timings has the last rounds, as many as the average looks back: the
\* first of them begins at OldestRound, each one ends where the next begins,
\* and the round under way begins where the last one ends.
RoundsKept ==
    /\ Len(timings) = IF Len(marks) - 1 < Rounds THEN Len(marks) - 1
                                                 ELSE Rounds
    /\ \A i \in 1..Len(timings) :
          timings[i] = RoundAfter(marks, Len(marks) - Len(timings) + i - 1)
    /\ beginRound = marks[Len(marks)].at
    /\ hashCount = total - marks[Len(marks)].total

\* Types of what the rounds are made of.
RoundTypes ==
    /\ {now, total, hashCount, beginRound} \subseteq Int
    /\ marks \in Seq([at : Int, total : Int]) /\ Len(marks) > 0
    /\ timings \in Seq([time : Int, count : Int])

\* Autotune's devices work at an intensity it tries, and compute a number.
TuneTypes ==
    /\ mode = "miner" => pc \in {"mine", "exited"}
    /\ mode # "miner" =>
          /\ pc # "mine"
          /\ speed \in [Devices -> [1..Levels -> Speeds]]
          /\ level \in Nat \ {0}
          /\ pc \in {"select", "cleanup", "configure", "sleep"}
               => level <= Levels
          /\ at \in 0..Levels
          /\ due # {} => at > 0

\* The inductive invariant of the rounds.
RoundsInv == TuneTypes /\ RoundTypes /\ RoundsKept

\* Autotune stays within its intensities.
LEMMA TuneStep == TuneTypes /\ [Next]_vars => TuneTypes'
  <1> SUFFICES ASSUME TuneTypes, [Next]_vars
               PROVE  TuneTypes'
    OBVIOUS
  <1> USE DEF TuneTypes, vars, minerVars, tuneVars
  <1>0. CASE UNCHANGED vars
    BY <1>0
  <1>1. ASSUME NEW d \in Devices, NEW n \in Batches, Work(d, n)
        PROVE  TuneTypes'
    BY <1>1 DEF Work
  <1>2. CASE Report \/ NewBlock \/ PoolLost \/ PoolBack
    BY <1>2 DEF Report, NewBlock, PoolLost, PoolBack
  <1>3. ASSUME NEW d \in Devices, TuneWork(d)
        PROVE  TuneTypes'
    BY <1>3 DEF TuneWork
  <1>4. CASE NoneSelected \/ Begin \/ LoopTest \/ Finish \/ Stop \/ Ended
    BY <1>4 DEF NoneSelected, Begin, LoopTest, Finish, Stop, Ended
  <1>5. CASE Select \/ Configure
    BY <1>5 DEF Select, Configure
  <1>6. CASE Measure
    BY <1>6 DEF Measure
  <1>7. ASSUME NEW t \in SetupTimes, Cleanup(t)
        PROVE  TuneTypes'
    BY <1>7 DEF Cleanup
  <1>8. CASE Tick
    BY <1>8 DEF Tick, MayWait
  <1> QED
    BY <1>0, <1>1, <1>2, <1>3, <1>4, <1>5, <1>6, <1>7, <1>8 DEF Next

\* A step that stores nothing and closes no round keeps the rounds.
LEMMA RoundsQuiet ==
  ASSUME RoundTypes, RoundsKept, now' \in Int,
         UNCHANGED <<hashCount, timings, beginRound, total, marks>>
  PROVE  RoundTypes' /\ RoundsKept'
  <1>1. RoundTypes'
    BY DEF RoundTypes
  <1>2. RoundsKept'
    BY DEF RoundsKept
  <1> QED
    BY <1>1, <1>2

\* A hash stored is counted in the round under way and in the total.
LEMMA RoundsStored ==
  ASSUME RoundTypes, RoundsKept, NEW d, NEW n \in Int, store_hash(d, n)
  PROVE  RoundTypes' /\ RoundsKept'
  <1>1. /\ hashCount' = hashCount + n /\ total' = total + n
        /\ UNCHANGED <<now, timings, beginRound, marks>>
    BY DEF store_hash
  <1>2. Len(marks) \in 1..Len(marks)
    BY DEF RoundTypes
  <1>3. marks[Len(marks)] \in [at : Int, total : Int]
    BY <1>2, ElementOfSeq DEF RoundTypes
  <1>4. PICK x \in Int : x = marks[Len(marks)].total
    BY <1>3
  <1>5. total \in Int /\ hashCount \in Int /\ hashCount = total - x
    BY <1>4 DEF RoundTypes, RoundsKept
  <1>6. hashCount' = total' - x
    BY <1>1, <1>5
  <1>7. RoundTypes'
    BY <1>1, <1>5 DEF RoundTypes
  <1>8. RoundsKept'
    <2>1. timings' = timings /\ beginRound' = beginRound /\ marks' = marks
      BY <1>1
    <2>2. hashCount' = total' - marks'[Len(marks')].total
      BY <1>4, <1>6, <2>1
    <2> QED
      BY <2>1, <2>2 DEF RoundsKept
  <1> QED
    BY <1>7, <1>8

\* A round that is closed is the one between the last two marks; the others
\* keep their places, but for the oldest when there is one too many.
LEMMA RoundsClosed ==
  ASSUME RoundTypes, RoundsKept, close_round
  PROVE  RoundTypes' /\ RoundsKept'
  <1> DEFINE mark  == [at |-> now, total |-> total]
             round == [time |-> now - beginRound, count |-> hashCount]
             m     == Len(marks)
             n     == Len(timings)
             more  == Append(timings, round)
  <1>1. /\ m \in Nat /\ m > 0 /\ n \in Nat
        /\ mark \in [at : Int, total : Int]
        /\ round \in [time : Int, count : Int]
    <2>1. m \in Nat /\ m > 0 /\ n \in Nat
      BY LenProperties DEF RoundTypes
    <2>2. now \in Int /\ total \in Int /\ hashCount \in Int /\ beginRound \in Int
      BY DEF RoundTypes
    <2>3. now - beginRound \in Int
      BY <2>2
    <2> QED
      BY <2>1, <2>2, <2>3
  <1>2. /\ marks' = Append(marks, mark)
        /\ timings' = keep_rounds(more)
        /\ hashCount' = 0 /\ beginRound' = now
        /\ UNCHANGED <<now, total>>
    BY DEF close_round
  <1>3. /\ marks' \in Seq([at : Int, total : Int])
        /\ Len(marks') = m + 1
        /\ \A k \in 1..m : marks'[k] = marks[k]
        /\ marks'[m + 1] = mark
    BY <1>1, <1>2, AppendProperties DEF RoundTypes
  <1>4. /\ more \in Seq([time : Int, count : Int])
        /\ Len(more) = n + 1
        /\ \A i \in 1..n : more[i] = timings[i]
        /\ more[n + 1] = round
    BY <1>1, AppendProperties DEF RoundTypes
  <1>5. \A i \in 1..(n + 1) : more[i] = RoundAfter(marks', m - n + i - 1)
    <2>1. m - n >= 1 /\ Rounds \in Nat /\ Rounds > 0 /\ n <= Rounds
      <3>1. n = IF m - 1 < Rounds THEN m - 1 ELSE Rounds
        BY DEF RoundsKept
      <3>2. Rounds \in Nat /\ Rounds > 0
        BY WindowAssumption
      <3> HIDE DEF m, n, more, mark, round
      <3> QED
        BY <1>1, <3>1, <3>2
    <2> SUFFICES ASSUME NEW i \in 1..(n + 1)
                 PROVE  more[i] = RoundAfter(marks', m - n + i - 1)
      OBVIOUS
    <2>2. CASE i = n + 1
      <3>0. m \in 1..m
        BY <1>1
      <3>1. RoundAfter(marks', m) = [time  |-> mark.at - marks[m].at,
                                     count |-> mark.total - marks[m].total]
        BY <1>3, <3>0 DEF RoundAfter
      <3>2. round = RoundAfter(marks', m)
        BY <3>1 DEF RoundsKept
      <3> HIDE DEF m, n, more, mark, round
      <3>3. m - n + i - 1 = m /\ more[i] = round
        BY <1>1, <1>4, <2>2
      <3> QED
        BY <3>2, <3>3
    <2>3. CASE i \in 1..n
      <3>0. m - n + i - 1 \in 1..(m - 1)
        BY <1>1, <2>1, <2>3
      <3>1. PICK k \in 1..(m - 1) : k = m - n + i - 1
        BY <3>0
      <3>a. k \in 1..m /\ k + 1 \in 1..m
        BY <1>1
      <3>2. RoundAfter(marks', k) = RoundAfter(marks, k)
        BY <1>3, <3>a DEF RoundAfter
      <3> QED
        BY <1>4, <2>3, <3>1, <3>2 DEF RoundsKept
    <2> QED
      BY <1>1, <2>2, <2>3
  <1>6. beginRound' = marks'[Len(marks')].at
    BY <1>1, <1>2, <1>3
  <1>7. hashCount' = total' - marks'[Len(marks')].total
    <2>1. marks'[Len(marks')].total = total /\ total' = total
      BY <1>1, <1>2, <1>3
    <2>2. total \in Int
      BY DEF RoundTypes
    <2> QED
      BY <1>2, <2>1, <2>2
  <1> HIDE DEF mark, round, more
  <1>8. CASE n + 1 > Rounds
    <2>1. n = Rounds /\ m - 1 >= Rounds
      BY <1>1, <1>8 DEF RoundsKept
    <2>2. timings' = Tail(more)
      BY <1>2, <1>4, <1>8 DEF keep_rounds
    <2>3. /\ timings' \in Seq([time : Int, count : Int])
          /\ Len(timings') = n
          /\ \A i \in 1..n : timings'[i] = more[i + 1]
      BY <1>1, <1>4, <2>2, HeadTailProperties
    <2>4. \A i \in 1..n : timings'[i] = RoundAfter(marks', (m + 1) - n + i - 1)
      <3> SUFFICES ASSUME NEW i \in 1..n
                   PROVE  timings'[i] = RoundAfter(marks', (m + 1) - n + i - 1)
        OBVIOUS
      <3>1. i + 1 \in 1..(n + 1) /\ m - n + (i + 1) - 1 = (m + 1) - n + i - 1
        BY <1>1
      <3> QED
        BY <1>5, <2>3, <3>1
    <2>5. RoundTypes'
      BY <1>1, <1>2, <1>3, <2>3 DEF RoundTypes
    <2>6. Len(timings') = IF Len(marks') - 1 < Rounds THEN Len(marks') - 1
                                                      ELSE Rounds
      BY <1>1, <1>3, <2>1, <2>3
    <2> QED
      BY <1>3, <1>6, <1>7, <2>3, <2>4, <2>5, <2>6 DEF RoundsKept
  <1>9. CASE ~(n + 1 > Rounds)
    <2>1. n = m - 1
      BY <1>1, <1>9 DEF RoundsKept
    <2>2. timings' = more
      BY <1>2, <1>4, <1>9 DEF keep_rounds
    <2>3. RoundTypes'
      BY <1>1, <1>2, <1>3, <1>4, <2>2 DEF RoundTypes
    <2>4. Len(timings') = IF Len(marks') - 1 < Rounds THEN Len(marks') - 1
                                                      ELSE Rounds
      BY <1>1, <1>3, <1>4, <1>9, <2>1, <2>2
    <2>5. \A i \in 1..(n + 1) :
             timings'[i] = RoundAfter(marks', (m + 1) - (n + 1) + i - 1)
      <3>1. (m + 1) - (n + 1) = m - n
        BY <1>1
      <3> QED
        BY <1>5, <2>2, <3>1
    <2> QED
      BY <1>3, <1>4, <1>6, <1>7, <2>2, <2>3, <2>4, <2>5 DEF RoundsKept
  <1> QED
    BY <1>8, <1>9

\* Every step keeps RoundsInv.
LEMMA RoundsStep == RoundsInv /\ [Next]_vars => RoundsInv'
  <1> SUFFICES ASSUME RoundsInv, [Next]_vars
               PROVE  RoundTypes' /\ RoundsKept'
    BY TuneStep DEF RoundsInv
  <1> USE DEF vars, statsVars, minerVars, tuneVars
  <1>a. RoundTypes /\ RoundsKept /\ now \in Int
    BY DEF RoundsInv, RoundTypes
  <1>0. CASE UNCHANGED vars
    BY <1>0, <1>a, RoundsQuiet
  <1>1. ASSUME NEW d \in Devices, NEW n \in Batches, Work(d, n)
        PROVE  RoundTypes' /\ RoundsKept'
    <2>1. CASE n = 0
      BY <1>1, <1>a, <2>1, RoundsQuiet DEF Work
    <2>2. CASE n # 0
      BY <1>1, <1>a, <2>2, RoundsStored DEF Work
    <2> QED
      BY <2>1, <2>2
  <1>2. CASE Report \/ Measure
    BY <1>2, <1>a, RoundsQuiet DEF Report, Measure, get_current_hash_rate
  <1>3. CASE NewBlock
    BY <1>3, <1>a, RoundsClosed DEF NewBlock
  <1>4. ASSUME NEW d \in Devices, TuneWork(d)
        PROVE  RoundTypes' /\ RoundsKept'
    <2>1. speed[d][at] \in Speeds
      BY <1>4 DEF TuneWork, RoundsInv, TuneTypes
    <2> QED
      BY <1>4, <1>a, <2>1, RoundsStored DEF TuneWork
  <1>5. CASE Select \/ Configure
    BY <1>5, <1>a, RoundsQuiet DEF Select, Configure, store_device_info
  <1>6. CASE PoolLost \/ PoolBack \/ NoneSelected \/ Begin \/ LoopTest
             \/ Finish \/ Stop \/ Ended
    BY <1>6, <1>a, RoundsQuiet
    DEF PoolLost, PoolBack, NoneSelected, Begin, LoopTest, Finish, Stop, Ended
  <1>7. ASSUME NEW t \in SetupTimes, Cleanup(t)
        PROVE  RoundTypes' /\ RoundsKept'
    BY <1>7, <1>a, RoundsQuiet DEF Cleanup
  <1>8. CASE Tick
    BY <1>8, <1>a, RoundsQuiet DEF Tick
  <1> QED
    BY <1>0, <1>1, <1>2, <1>3, <1>4, <1>5, <1>6, <1>7, <1>8 DEF Next

\* At the start there is one mark and no round.
LEMMA RoundsInit == Init => RoundsInv
  <1> SUFFICES ASSUME Init PROVE RoundsInv
    OBVIOUS
  <1>1. TuneTypes
    BY DEF Init, TuneTypes, Hardware
  <1>2. /\ marks = <<[at |-> 0, total |-> 0]>> /\ timings = <<>>
        /\ now = 0 /\ total = 0 /\ hashCount = 0 /\ beginRound = 0
    BY DEF Init, StatsInit
  <1>3. RoundTypes
    BY <1>2 DEF RoundTypes
  <1>4. RoundsKept
    BY <1>2 DEF RoundsKept
  <1> QED
    BY <1>1, <1>3, <1>4 DEF RoundsInv

\* The rounds kept are those between the last marks, so that their times and
\* their hashes add up to the differences from the first of these marks.
LEMMA RoundsSum ==
  ASSUME RoundTypes, RoundsKept
  PROVE  RoundsAddUp
  <1> DEFINE m == Len(marks)
             n == Len(timings)
             T == [i \in DOMAIN timings |-> timings[i]["time"]]
             C == [i \in DOMAIN timings |-> timings[i]["count"]]
             A == [i \in 0..n |-> marks[m - n + i].at]
             B == [i \in 0..n |-> marks[m - n + i].total]
  <1>1. m \in Nat /\ n \in Nat /\ m > 0 /\ n <= m - 1
    <2>1. m \in Nat /\ n \in Nat /\ m > 0
      BY LenProperties DEF RoundTypes
    <2>2. n = IF m - 1 < Rounds THEN m - 1 ELSE Rounds
      BY DEF RoundsKept
    <2>3. Rounds \in Nat
      BY WindowAssumption
    <2> HIDE DEF m, n
    <2> QED
      BY <2>1, <2>2, <2>3
  <1>2. DOMAIN timings = 1..n
    BY LenProperties DEF RoundTypes
  <1>3. ASSUME NEW i \in 1..m
        PROVE  marks[i].at \in Int /\ marks[i].total \in Int
    <2>1. marks[i] \in [at : Int, total : Int]
      BY ElementOfSeq DEF RoundTypes
    <2> QED
      BY <2>1
  <1>4. ASSUME NEW i \in 0..n
        PROVE  m - n + i \in 1..m
    <2> HIDE DEF m, n
    <2> QED
      BY <1>1
  <1>5. A \in [0..n -> Int] /\ B \in [0..n -> Int]
    <2> HIDE DEF m, n
    <2> QED
      BY <1>3, <1>4
  <1>6. ASSUME NEW i \in 1..n
        PROVE  T[i] = A[i] - A[i - 1] /\ C[i] = B[i] - B[i - 1]
    <2>1. timings[i] = RoundAfter(marks, m - n + i - 1)
      BY DEF RoundsKept
    <2>2. /\ i \in 0..n /\ i - 1 \in 0..n
          /\ (m - n + i - 1) + 1 = m - n + i
          /\ m - n + (i - 1) = m - n + i - 1
      <3> HIDE DEF m, n
      <3> QED
        BY <1>1
    <2>3. /\ timings[i].time = marks[m - n + i].at - marks[m - n + i - 1].at
          /\ timings[i].count
               = marks[m - n + i].total - marks[m - n + i - 1].total
      <3> HIDE DEF m, n
      <3> QED
        BY <2>1, <2>2 DEF RoundAfter
    <2>4. T[i] = timings[i].time /\ C[i] = timings[i].count
      BY <1>2
    <2>5. /\ A[i] = marks[m - n + i].at
          /\ A[i - 1] = marks[m - n + i - 1].at
          /\ B[i] = marks[m - n + i].total
          /\ B[i - 1] = marks[m - n + i - 1].total
      <3> HIDE DEF m, n
      <3> QED
        BY <2>2
    <2> QED
      BY <2>3, <2>4, <2>5
  <1>7. T \in [1..n -> Int] /\ C \in [1..n -> Int]
    <2>1. ASSUME NEW i \in 1..n
          PROVE  A[i] - A[i - 1] \in Int /\ B[i] - B[i - 1] \in Int
      <3>1. i \in 0..n /\ i - 1 \in 0..n
        BY <1>1
      <3>2. A[i] \in Int /\ A[i - 1] \in Int /\ B[i] \in Int /\ B[i - 1] \in Int
        <4> HIDE DEF A, B, T, C, m, n
        <4>1. A[i] \in Int /\ A[i - 1] \in Int
          BY <1>5, <3>1
        <4>2. B[i] \in Int /\ B[i - 1] \in Int
          BY <1>5, <3>1
        <4> QED
          BY <4>1, <4>2
      <3> HIDE DEF A, B, T, C, m, n
      <3> QED
        BY <3>2
    <2>2. ASSUME NEW i \in 1..n
          PROVE  T[i] \in Int /\ C[i] \in Int
      <3> HIDE DEF A, B, T, C
      <3> QED
        BY <1>6, <2>1
    <2>3. /\ T = [i \in 1..n |-> T[i]]
          /\ C = [i \in 1..n |-> C[i]]
      BY <1>2
    <2> HIDE DEF T, C, n
    <2> QED
      BY <2>2, <2>3
  <1>8. SumFunction(T) = A[n] - A[0] /\ SumFunction(C) = B[n] - B[0]
    <2> HIDE DEF T, C, A, B, n
    <2> QED
      BY <1>1, <1>5, <1>6, <1>7, SumOfDifferences
  <1>9. /\ A[n] = beginRound /\ B[n] = total - hashCount
        /\ A[0] = OldestRound.at /\ B[0] = OldestRound.total
        /\ {A[n], A[0], B[n], B[0]} \subseteq Int
        /\ {now, total, hashCount, beginRound} \subseteq Int
    <2>1. 0 \in 0..n /\ n \in 0..n /\ m - n + n = m /\ m - n + 0 = m - n
      <3> HIDE DEF m, n
      <3> QED
        BY <1>1
    <2>2. /\ A[n] = marks[m].at /\ B[n] = marks[m].total
          /\ A[0] = marks[m - n].at /\ B[0] = marks[m - n].total
      <3> HIDE DEF m, n
      <3> QED
        BY <2>1
    <2>3. {A[n], A[0], B[n], B[0]} \subseteq Int
      <3> HIDE DEF A, B, n
      <3> QED
        BY <1>5, <2>1
    <2>4. beginRound = marks[m].at /\ hashCount = total - marks[m].total
      BY DEF RoundsKept
    <2>5. {now, total, hashCount, beginRound} \subseteq Int
      BY DEF RoundTypes
    <2>6. B[n] = total - hashCount
      <3>1. PICK x \in Int : x = B[n]
        BY <2>3
      <3>2. hashCount = total - x
        BY <2>2, <2>4, <3>1
      <3>3. x = total - hashCount
        BY <2>5, <3>2
      <3> QED
        BY <3>1, <3>3
    <2> QED
      BY <2>2, <2>3, <2>4, <2>5, <2>6 DEF OldestRound
  <1>10. /\ SumOf("count") + hashCount = total - OldestRound.total
         /\ SumOf("time") + (now - beginRound) = now - OldestRound.at
    <2>1. SumOf("count") = SumFunction(C) /\ SumOf("time") = SumFunction(T)
      BY DEF SumOf
    <2> HIDE DEF T, C, A, B, n, m
    <2>2. SumOf("count") = total - hashCount - OldestRound.total
      BY <1>8, <1>9, <2>1
    <2>3. SumOf("time") = beginRound - OldestRound.at
      BY <1>8, <1>9, <2>1
    <2>4. OldestRound.total \in Int /\ OldestRound.at \in Int
      BY <1>9
    <2> QED
      BY <1>9, <2>2, <2>3, <2>4
  <1> QED
    BY <1>10 DEF RoundsAddUp, get_avg_hash_rate, RoundsKept

\* However many rounds there were and whatever was stored in them, set_input
\* and _store_hash keep the last ones, each with its own time and hashes.
THEOREM RoundsTheorem == Spec => []RoundsKept
  <1>1. RoundsInv => RoundsKept
    BY DEF RoundsInv
  <1> QED
    BY <1>1, RoundsInit, RoundsStep, PTL DEF Spec

\* The average get_avg_hash_rate reports is over these rounds and the one
\* under way, and counts every hash stored since the first of them once.
THEOREM AverageTheorem == Spec => []RoundsAddUp
  <1>1. RoundsInv => RoundsAddUp
    BY RoundsSum DEF RoundsInv
  <1> QED
    BY <1>1, RoundsInit, RoundsStep, PTL DEF Spec

-----------------------------------------------------------------------------
(* Autotune's answer.                                                      *)

\* The devices come up at intensity l.
Works(l) == \E d \in Devices : speed[d][l] > 0

\* When the step under way was configured.
Began == wake - StepTime

\* The batches of device d that are in its counter since then, or since the
\* window was closed last: one for every unit of time, but for the one it has
\* yet to store ...
Fed(d) == now - (IF hashrateTime > Began THEN hashrateTime ELSE Began)
              - (IF d \in due THEN 1 ELSE 0)

\* ... and perhaps the one it stored after the device that closed the window.
Extra == IF hashrateTime > Began THEN 1 ELSE 0

\* A rate as it may be measured at intensity l.
RateOf(rate, l) ==
    /\ rate.count \in Nat
    /\ Length(rate) = Window + 1
    /\ SpeedOf(l) * (Window - 1) <= rate.count
    /\ rate.count <= SpeedOf(l) * (Window + 2)

\* While the devices work at an intensity: their counters, the window, which
\* the first batch after its end closes, and the rate, once its window lies in
\* the step.
Counters ==
    \A d \in Devices :
        /\ Fed(d) * speed[d][at] <= hashcount[d]
        /\ hashcount[d] <= (Fed(d) + Extra) * speed[d][at]

WindowClosed ==
    /\ due # {} => now > Began
    /\ now > Began /\ due # Devices => now - hashrateTime <= Window
    /\ now > Began + 1 => now - hashrateTime <= Window + 1

RateInStep == hashrateTime >= Began + Window => RateOf(hashrate, at)

\* What the counters have left of an earlier intensity would not be the best
\* rate after a step from time t on.
Leftover(t) == SumFunction(hashcount) * (Window + 1)
                 <= best.rate.count * (StepTime + t - hashrateTime)

\* After a measurement the counters have at most what was computed since the
\* window was closed.
Measured ==
    /\ now - hashrateTime <= Window
    /\ \A d \in Devices :
          hashcount[d] + (IF d \in due THEN speed[d][at] ELSE 0)
            <= (now - hashrateTime + 1) * speed[d][at]

\* Nothing was computed if the devices did not come up.
NothingYet == ~Works(1) => \A d \in Devices : hashcount[d] = 0

\* The best rate is one of its intensity, and no worse than any measured.
BestSoFar ==
    /\ best.level \in 0..Levels
    /\ best.rate.count \in Nat
    /\ Length(best.rate) = IF best.level = 0 THEN 1 ELSE Window + 1
    /\ best.rate.count <= SpeedOf(best.level) * (Window + 2)
    /\ measured \subseteq 1..Levels
    /\ \A l \in measured : SpeedOf(l) * (Window - 1) <= best.rate.count

\* Devices that agree on the intensities at which they come up.
Agreeing == {f \in Hardware : \A l \in 1..Levels, d, e \in Devices :
                                f[d][l] = 0 <=> f[e][l] = 0}

AnswerTypes ==
    /\ now \in Nat /\ hashrateTime \in Nat /\ hashrateTime <= now
    /\ wake \in Nat
    /\ hashcount \in [Devices -> Nat]
    /\ speed \in Agreeing
    /\ due \subseteq {d \in Devices : at > 0 /\ speed[d][at] > 0}

\* Where the main thread is.
AtSelect == pc \in {"select", "begin"} =>
    level = 1 /\ at = (IF pc = "select" THEN 0 ELSE 1) /\ NothingYet

AtTest == pc \in {"test", "cleanup"} =>
    /\ level = 1 => at = 1 /\ NothingYet
    /\ level # 1 => at = level - 1 /\ at \in measured /\ Measured

AtConfigure == pc = "configure" =>
    at = 0 /\ (~Works(level) => Leftover(now))

AtSleep == pc = "sleep" =>
    /\ at = level
    /\ Began <= now /\ now <= wake
    /\ Works(level) => Counters /\ WindowClosed /\ RateInStep
    /\ ~Works(level) => hashrateTime <= Began /\ Leftover(Began)

\* The inductive invariant of autotune.
AnswerInv == mode # "miner" =>
    AnswerTypes /\ BestSoFar /\ AtSelect /\ AtTest /\ AtConfigure /\ AtSleep

\* A window of three batches, and steps of two windows.
LongSteps == Window >= 3 /\ StepTime >= 2 * Window

\* Multiplying an inequality.
LEMMA Times ==
  ASSUME NEW a \in Int, NEW b \in Int, NEW c \in Nat, a <= b
  PROVE  a * c <= b * c
  OBVIOUS

\* Speeds are numbers, and at an intensity all devices come up or none does.
LEMMA SpeedTypes ==
  ASSUME speed \in Agreeing, NEW l \in 1..Levels
  PROVE  /\ \A d \in Devices : speed[d][l] \in Nat
         /\ Works(l) => \A d \in Devices : speed[d][l] > 0
         /\ ~Works(l) => \A d \in Devices : speed[d][l] = 0
  <1>1. \A d \in Devices : speed[d][l] \in Nat
    BY DEF Agreeing, Hardware
  <1>2. \A d, e \in Devices : speed[d][l] = 0 <=> speed[e][l] = 0
    BY DEF Agreeing, Hardware
  <1> QED
    BY <1>1, <1>2 DEF Works

\* The sum of the counters, by a bound on each.
LEMMA CountersSum ==
  ASSUME speed \in Agreeing, NEW l \in 1..Levels,
         NEW c \in [Devices -> Nat], NEW k \in Int
  PROVE  /\ SpeedOf(l) \in Nat
         /\ SumFunction(c) \in Nat
         /\ (\A d \in Devices : c[d] <= k * speed[d][l])
              => SumFunction(c) <= k * SpeedOf(l)
         /\ (\A d \in Devices : k * speed[d][l] <= c[d])
              => k * SpeedOf(l) <= SumFunction(c)
  <1> DEFINE s == [d \in Devices |-> speed[d][l]]
             z == [d \in Devices |-> 0]
             g == [d \in Devices |-> k * speed[d][l]]
             Sum(f) == SumFunctionOnSet(f, Devices)
  <1>1. \A d \in Devices : speed[d][l] \in Nat
    BY SpeedTypes
  <1>2. IsFiniteSet(Devices)
    BY RatesAssumption
  <1>3. /\ Summable(s, Devices) /\ Summable(z, Devices)
        /\ Summable(c, Devices)
    BY <1>1 DEF Summable
  <1>4. Summable(g, Devices)
    BY <1>1 DEF Summable
  <1>5. Scaled(g, k, s, Devices) /\ Scaled(z, 0, s, Devices)
    BY <1>1 DEF Scaled
  <1>6. Below(z, s, Devices) /\ Below(z, c, Devices)
    BY <1>1 DEF Below
  <1>7. SpeedOf(l) = Sum(s) /\ SumFunction(c) = Sum(c)
    BY DEF SpeedOf, SumFunction
  <1>8. Sum(s) \in Int /\ Sum(c) \in Int
    BY <1>2, <1>3, SumType
  <1>9. Sum(g) = k * Sum(s) /\ Sum(z) = 0
    <2> HIDE DEF s, z, g
    <2>1. Sum(g) = k * Sum(s)
      BY <1>2, <1>3, <1>4, <1>5, SumScaled
    <2>2. Sum(z) = 0 * Sum(s)
      BY <1>2, <1>3, <1>5, SumScaled
    <2> QED
      BY <1>8, <2>1, <2>2
  <1>10. Sum(z) <= Sum(s) /\ Sum(z) <= Sum(c)
    <2> HIDE DEF s, z, g
    <2> QED
      BY <1>2, <1>3, <1>6, SumAtMost
  <1>11. ASSUME \A d \in Devices : c[d] <= k * speed[d][l]
         PROVE  Sum(c) <= Sum(g)
    <2>1. Below(c, g, Devices)
      BY <1>11 DEF Below
    <2> HIDE DEF s, z, g
    <2> QED
      BY <1>2, <1>3, <1>4, <2>1, SumAtMost
  <1>12. ASSUME \A d \in Devices : k * speed[d][l] <= c[d]
         PROVE  Sum(g) <= Sum(c)
    <2>1. Below(g, c, Devices)
      BY <1>12 DEF Below
    <2> HIDE DEF s, z, g
    <2> QED
      BY <1>2, <1>3, <1>4, <2>1, SumAtMost
  <1> HIDE DEF s, z, g, Sum
  <1>13. SpeedOf(l) \in Nat /\ SumFunction(c) \in Nat
    BY <1>7, <1>8, <1>9, <1>10
  <1> QED
    BY <1>7, <1>9, <1>11, <1>12, <1>13

\* No device, no hashes.
LEMMA SpeedZero ==
  ASSUME speed \in Agreeing, NEW l \in 0..Levels
  PROVE  /\ SpeedOf(l) \in Nat
         /\ l = 0 \/ ~Works(l) => SpeedOf(l) = 0
  <1>1. CASE l = 0
    BY <1>1 DEF SpeedOf
  <1>2. CASE l # 0
    <2> DEFINE s == [d \in Devices |-> speed[d][l]]
    <2>1. l \in 1..Levels
      BY <1>2
    <2>2. /\ \A d \in Devices : speed[d][l] \in Nat
          /\ ~Works(l) => \A d \in Devices : speed[d][l] = 0
      BY <2>1, SpeedTypes
    <2>3. s \in [Devices -> Nat] /\ SpeedOf(l) = SumFunction(s)
      BY <1>2, <2>2 DEF SpeedOf
    <2>4. ASSUME ~Works(l)
          PROVE  \A d \in Devices : s[d] <= 0 * speed[d][l]
      BY <2>2, <2>4
    <2> HIDE DEF s
    <2>5. SpeedOf(l) \in Nat
      BY <2>1, <2>3, CountersSum
    <2>6. ~Works(l) => SumFunction(s) <= 0 * SpeedOf(l)
      BY <2>1, <2>3, <2>4, CountersSum
    <2> QED
      BY <1>2, <2>3, <2>5, <2>6
  <1> QED
    BY <1>1, <1>2

\* A step that leaves the devices and the best rate alone.
Frozen == UNCHANGED <<now, hashcount, hashrate, hashrateTime, speed, wake, due,
                      at, level, best, measured>>

\* The best rate stays what it is while it and the speeds do.
LEMMA BestKept ==
  ASSUME BestSoFar, UNCHANGED <<speed, best, measured>>
  PROVE  BestSoFar'
  <1>1. \A l : SpeedOf(l)' = SpeedOf(l)
    BY DEF SpeedOf
  <1>2. SpeedOf(best.level)' = SpeedOf(best.level)
    BY DEF SpeedOf
  <1>3. Length(best.rate)' = Length(best.rate)
    OBVIOUS
  <1> QED
    BY <1>1, <1>2, <1>3 DEF BestSoFar

\* Such a step keeps what is said of the counters.
LEMMA FrozenParts ==
  ASSUME Frozen
  PROVE  /\ AnswerTypes => AnswerTypes'
         /\ NothingYet => NothingYet'
         /\ Measured => Measured'
         /\ Works(level)' = Works(level)
         /\ Leftover(now) => Leftover(now)'
         /\ Leftover(Began) => Leftover(Began)'
         /\ Began' = Began
         /\ Counters => Counters'
         /\ WindowClosed => WindowClosed'
         /\ RateInStep => RateInStep'
  <1> USE DEF Frozen
  <1>1. AnswerTypes => AnswerTypes'
    BY DEF AnswerTypes, Agreeing, Hardware
  <1>2. NothingYet => NothingYet'
    BY DEF NothingYet, Works
  <1>3. Measured => Measured'
    BY DEF Measured
  <1>4. Works(level)' = Works(level)
    BY DEF Works
  <1>5. Began' = Began
    BY DEF Began
  <1>6. Leftover(now) => Leftover(now)'
    BY DEF Leftover
  <1>7. Leftover(Began) => Leftover(Began)'
    BY <1>5 DEF Leftover
  <1>8. Extra' = Extra /\ \A d : Fed(d)' = Fed(d)
    BY <1>5 DEF Extra, Fed
  <1>9. Counters => Counters'
    BY <1>8 DEF Counters
  <1>10. WindowClosed => WindowClosed'
    BY <1>5 DEF WindowClosed
  <1>11. RateInStep => RateInStep'
    <2>1. SpeedOf(at)' = SpeedOf(at)
      BY DEF SpeedOf
    <2> QED
      BY <1>5, <2>1 DEF RateInStep, RateOf
  <1> QED
    BY <1>1, <1>2, <1>3, <1>4, <1>5, <1>6, <1>7, <1>9, <1>10, <1>11

\* The main thread's steps between the others, and the signal.
LEMMA AnswerFrozen ==
  ASSUME AnswerInv, mode # "miner", Frozen, mode' = mode,
         \/ pc' = pc
         \/ pc = "begin" /\ pc' = "test"
         \/ pc = "test" /\ pc' \in {"cleanup", "finish"}
         \/ pc' = "done"
  PROVE  AnswerInv'
  <1>1. /\ AnswerTypes /\ BestSoFar /\ AtSelect /\ AtTest /\ AtConfigure
        /\ AtSleep
    BY DEF AnswerInv
  <1>2. AnswerTypes' /\ BestSoFar'
    BY <1>1, FrozenParts, BestKept DEF Frozen
  <1>3. level' = level /\ at' = at /\ now' = now /\ wake' = wake
        /\ measured' = measured /\ hashrateTime' = hashrateTime
    BY DEF Frozen
  <1>4. AtSelect'
    BY <1>1, <1>3, FrozenParts DEF AtSelect
  <1>5. AtTest'
    <2>1. CASE pc = "begin" /\ pc' = "test"
      BY <1>1, <1>3, <2>1, FrozenParts DEF AtSelect, AtTest
    <2>2. CASE pc' = "done" \/ pc' = "finish"
      BY <2>2 DEF AtTest
    <2>3. CASE pc' \in {"test", "cleanup"} => pc \in {"test", "cleanup"}
      BY <1>1, <1>3, <2>3, FrozenParts DEF AtTest
    <2> QED
      BY <2>1, <2>2, <2>3
  <1>6. AtConfigure'
    BY <1>1, <1>3, FrozenParts DEF AtConfigure
  <1>7. AtSleep'
    BY <1>1, <1>3, FrozenParts DEF AtSleep
  <1> QED
    BY <1>2, <1>4, <1>5, <1>6, <1>7 DEF AnswerInv

\* The last cleanup.
LEMMA AnswerFinish ==
  ASSUME AnswerInv, mode # "miner", Finish
  PROVE  AnswerInv'
  <1>1. AnswerTypes /\ BestSoFar
    BY DEF AnswerInv
  <1>2. BestSoFar'
    BY <1>1, BestKept DEF Finish
  <1>3. AnswerTypes'
    BY <1>1 DEF Finish, statsVars, AnswerTypes, Agreeing,
                Hardware
  <1>4. pc' = "done"
    BY DEF Finish
  <1> QED
    BY <1>2, <1>3, <1>4 DEF AnswerInv, AtSelect, AtTest, AtConfigure, AtSleep

\* What counters without a hash add up to.
LEMMA NoHashes ==
  ASSUME AnswerTypes, \A d \in Devices : hashcount[d] = 0
  PROVE  SumFunction(hashcount) = 0
  <1>1. speed \in Agreeing /\ hashcount \in [Devices -> Nat] /\ 1 \in 1..Levels
    BY RatesAssumption DEF AnswerTypes
  <1>2. \A d \in Devices : hashcount[d] <= 0 * speed[d][1]
    BY <1>1, SpeedTypes
  <1>3. /\ SumFunction(hashcount) <= 0 * SpeedOf(1)
        /\ SumFunction(hashcount) \in Nat /\ SpeedOf(1) \in Nat
    BY <1>1, <1>2, CountersSum
  <1> QED
    BY <1>3

\* What the counters have left at the cleanup before an intensity, C, is too
\* little for the window that ends with the next step.
LEMMA LittleLeft ==
  ASSUME NEW W \in Nat, NEW T \in Nat, NEW a \in Nat, NEW S \in Nat,
         NEW C \in Nat, NEW B \in Nat,
         W >= 3, T >= 2 * W, a <= W,
         C <= (a + 1) * S, S * (W - 1) <= B
  PROVE  C * (W + 1) <= B * (T + a)
  <1>1. C * (W + 1) <= ((a + 1) * S) * (W + 1)
    BY Times
  <1>2. (a + 1) * (W + 1) <= (W - 1) * (T + a)
    <2>1. (W - 1) * (2 * W + a) <= (W - 1) * (T + a)
      <3>1. 2 * W + a <= T + a /\ 2 * W + a \in Int /\ T + a \in Int
            /\ W - 1 \in Nat
        OBVIOUS
      <3>2. (2 * W + a) * (W - 1) <= (T + a) * (W - 1)
        BY <3>1, Times
      <3> QED
        BY <3>1, <3>2
    <2>2. 3 * W <= W * W
      BY Times
    <2>3. (a + 1) * (W + 1) = a * W + a + W + 1
      OBVIOUS
    <2>4. (W - 1) * (2 * W + a) = 2 * (W * W) + a * W - 2 * W - a
      OBVIOUS
    <2> QED
      BY <2>1, <2>2, <2>3, <2>4
  <1>3. ((a + 1) * (W + 1)) * S <= ((W - 1) * (T + a)) * S
    BY <1>2, Times
  <1>4. (S * (W - 1)) * (T + a) <= B * (T + a)
    BY Times
  <1>5. ((a + 1) * S) * (W + 1) = ((a + 1) * (W + 1)) * S
    OBVIOUS
  <1>6. ((W - 1) * (T + a)) * S = (S * (W - 1)) * (T + a)
    OBVIOUS
  <1> QED
    BY <1>1, <1>3, <1>4, <1>5, <1>6

\* The cleanup.
LEMMA AnswerCleanup ==
  ASSUME LongSteps, TuneTypes, AnswerInv, mode # "miner",
         NEW t \in SetupTimes, Cleanup(t)
  PROVE  AnswerInv'
  <1>1. /\ AnswerTypes /\ BestSoFar /\ AtTest
        /\ level \in Nat \ {0} /\ level <= Levels
    BY DEF AnswerInv, Cleanup, TuneTypes
  <1>2. /\ pc = "cleanup" /\ due = {} /\ at' = 0 /\ wake' = now + t
        /\ pc' = "configure" /\ mode' = mode
        /\ UNCHANGED <<now, hashcount, hashrateTime, speed, best, measured,
                       level, due>>
    BY DEF Cleanup, statsVars
  <1>3. BestSoFar'
    BY <1>1, <1>2, BestKept
  <1>4. AnswerTypes'
    <2>1. wake' \in Nat
      BY <1>1, <1>2, RatesAssumption DEF AnswerTypes
    <2> QED
      BY <1>1, <1>2, <2>1 DEF AnswerTypes, Agreeing, Hardware
  <1>5. ASSUME ~Works(level)
        PROVE  Leftover(now)
    <2> DEFINE a == now - hashrateTime
               C == SumFunction(hashcount)
               B == best.rate.count
    <2>1. /\ a \in Nat /\ B \in Nat /\ Window \in Nat /\ StepTime \in Nat
          /\ Window >= 3 /\ StepTime >= 2 * Window
      BY <1>1, RatesAssumption, WindowAssumption
      DEF AnswerTypes, BestSoFar, LongSteps
    <2>2. CASE level = 1
      <3>1. C = 0
        BY <1>1, <1>2, <1>5, <2>2, NoHashes DEF AtTest, NothingYet
      <3>2. C * (Window + 1) = 0
        BY <2>1, <3>1
      <3>3. B * (StepTime + a) >= 0
        BY <2>1
      <3>4. StepTime + a = StepTime + now - hashrateTime
        BY <1>1, <2>1 DEF AnswerTypes
      <3> QED
        BY <3>2, <3>3, <3>4 DEF Leftover
    <2>3. CASE level # 1
      <3> DEFINE S == SpeedOf(at)
      <3>1. at \in 1..Levels /\ at \in measured /\ Measured
        BY <1>1, <1>2, <2>3 DEF AtTest, BestSoFar
      <3>2. speed \in Agreeing /\ hashcount \in [Devices -> Nat]
        BY <1>1 DEF AnswerTypes
      <3>3. a <= Window /\ a + 1 \in Int
        BY <2>1, <3>1 DEF Measured
      <3>4. \A d \in Devices : hashcount[d] <= (a + 1) * speed[d][at]
        <4>1. ASSUME NEW d \in Devices
              PROVE  hashcount[d] <= (a + 1) * speed[d][at]
          <5>1. hashcount[d] + 0 <= (a + 1) * speed[d][at]
            BY <1>2, <3>1 DEF Measured
          <5>2. hashcount[d] \in Nat
            BY <3>2
          <5> QED
            BY <5>1, <5>2
        <4> QED
          BY <4>1
      <3>5. C \in Nat /\ S \in Nat /\ C <= (a + 1) * S
        <4> HIDE DEF a
        <4> QED
          BY <3>1, <3>2, <3>3, <3>4, CountersSum
      <3>6. S * (Window - 1) <= B
        BY <1>1, <3>1 DEF BestSoFar
      <3>7. StepTime + a = StepTime + now - hashrateTime
        BY <1>1, <2>1 DEF AnswerTypes
      <3>8. C * (Window + 1) <= B * (StepTime + a)
        <4> HIDE DEF a, B, C, S
        <4> QED
          BY <2>1, <3>3, <3>5, <3>6, LittleLeft
      <3> QED
        BY <3>7, <3>8 DEF Leftover
    <2> QED
      BY <2>2, <2>3
  <1>6. AtConfigure'
    <2>1. Works(level)' = Works(level) /\ Leftover(now)' = Leftover(now)
      BY <1>2 DEF Works, Leftover
    <2> QED
      BY <1>2, <1>5, <2>1 DEF AtConfigure
  <1> QED
    BY <1>2, <1>3, <1>4, <1>6 DEF AnswerInv, AtSelect, AtTest, AtSleep

\* The first set-up.
LEMMA AnswerSelect ==
  ASSUME TuneTypes, AnswerInv, mode # "miner", Select
  PROVE  AnswerInv'
  <1>1. AnswerTypes /\ BestSoFar /\ AtSelect
    BY DEF AnswerInv
  <1>2. /\ pc = "select" /\ pc' = "begin" /\ at' = level /\ mode' = mode
        /\ UNCHANGED <<now, hashrateTime, speed, best, measured, level, due,
                       wake>>
        /\ hashcount' = [d \in Devices |-> IF d \in SetUp(level) THEN 0
                                           ELSE hashcount[d]]
    BY DEF Select, store_device_info
  <1>3. level = 1 /\ at = 0 /\ NothingYet
    BY <1>1, <1>2 DEF AtSelect
  <1>4. due = {}
    BY <1>1, <1>3 DEF AnswerTypes
  <1>5. hashcount' \in [Devices -> Nat]
    BY <1>1, <1>2 DEF AnswerTypes
  <1>6. AnswerTypes'
    BY <1>1, <1>2, <1>4, <1>5 DEF AnswerTypes, Agreeing, Hardware
  <1>7. BestSoFar'
    BY <1>1, <1>2, BestKept
  <1>8. NothingYet'
    BY <1>2, <1>3 DEF NothingYet, Works
  <1>9. AtSelect'
    BY <1>2, <1>3, <1>8 DEF AtSelect
  <1> QED
    BY <1>2, <1>6, <1>7, <1>9 DEF AnswerInv, AtTest, AtConfigure, AtSleep

\* The set-up of an intensity: all counters are fresh, or none is.
LEMMA AnswerConfigure ==
  ASSUME LongSteps, TuneTypes, AnswerInv, mode # "miner", Configure
  PROVE  AnswerInv'
  <1>1. /\ AnswerTypes /\ BestSoFar /\ AtConfigure
        /\ level \in Nat \ {0} /\ level <= Levels
    BY DEF AnswerInv, Configure, TuneTypes
  <1>2. /\ pc = "configure" /\ pc' = "sleep" /\ at' = level /\ mode' = mode
        /\ wake' = now + StepTime
        /\ UNCHANGED <<now, hashrate, hashrateTime, speed, best, measured,
                       level, due>>
        /\ hashcount' = [d \in Devices |-> IF d \in SetUp(level) THEN 0
                                           ELSE hashcount[d]]
    BY DEF Configure, store_device_info
  <1>3. /\ now \in Nat /\ hashrateTime \in Nat /\ hashrateTime <= now
        /\ StepTime \in Nat /\ Window \in Nat /\ Window > 0 /\ StepTime > 0
    BY <1>1, RatesAssumption, WindowAssumption DEF AnswerTypes
  <1>4. at = 0 /\ due = {} /\ level \in 1..Levels
    BY <1>1, <1>2 DEF AnswerTypes, AtConfigure
  <1>5. wake' \in Nat /\ Began' = now
    BY <1>2, <1>3 DEF Began
  <1>6. hashcount' \in [Devices -> Nat]
    BY <1>1, <1>2 DEF AnswerTypes
  <1>7. AnswerTypes'
    BY <1>1, <1>2, <1>4, <1>5, <1>6 DEF AnswerTypes, Agreeing, Hardware
  <1>8. BestSoFar'
    BY <1>1, <1>2, BestKept
  <1>9. ASSUME Works(level)
        PROVE  Counters' /\ WindowClosed' /\ RateInStep'
    <2>1. /\ \A d \in Devices : speed[d][level] \in Nat
          /\ \A d \in Devices : speed[d][level] > 0
      BY <1>1, <1>4, <1>9, SpeedTypes DEF AnswerTypes
    <2>2. \A d \in Devices : hashcount'[d] = 0
      BY <1>2, <2>1 DEF SetUp
    <2>3. Extra' = 0
      BY <1>2, <1>3, <1>5 DEF Extra
    <2>4. \A d \in Devices : Fed(d)' = 0
      BY <1>2, <1>3, <1>4, <1>5 DEF Fed
    <2>5. Counters'
      <3>1. \A d \in Devices : speed'[d][at'] \in Nat
        BY <1>2, <2>1
      <3> QED
        BY <2>2, <2>3, <2>4, <3>1 DEF Counters
    <2>6. WindowClosed'
      BY <1>2, <1>3, <1>4, <1>5 DEF WindowClosed
    <2>7. RateInStep'
      BY <1>2, <1>3, <1>5 DEF RateInStep
    <2> QED
      BY <2>5, <2>6, <2>7
  <1>10. ASSUME ~Works(level)
         PROVE  Leftover(Began)'
    <2>1. \A d \in Devices : speed[d][level] = 0
      BY <1>1, <1>4, <1>10, SpeedTypes DEF AnswerTypes
    <2>2. SetUp(level) = {}
      BY <2>1 DEF SetUp
    <2>3. hashcount' = hashcount
      BY <1>1, <1>2, <2>2 DEF AnswerTypes
    <2>4. Leftover(now)
      BY <1>1, <1>2, <1>10 DEF AtConfigure
    <2> QED
      BY <1>2, <1>5, <2>3, <2>4 DEF Leftover
  <1>11. Works(level)' = Works(level)
    BY <1>2 DEF Works
  <1>12. AtSleep'
    BY <1>2, <1>3, <1>5, <1>9, <1>10, <1>11 DEF AtSleep
  <1> QED
    BY <1>2, <1>7, <1>8, <1>12 DEF AnswerInv, AtSelect, AtTest, AtConfigure

\* Time passes: every device at work has another batch to store.
LEMMA AnswerTick ==
  ASSUME TuneTypes, AnswerInv, mode # "miner", Tick
  PROVE  AnswerInv'
  <1>1. /\ AnswerTypes /\ BestSoFar /\ AtSelect /\ AtConfigure /\ AtSleep
        /\ pc # "mine" /\ at \in 0..Levels
    BY DEF AnswerInv, TuneTypes
  <1>2. /\ due = {} /\ now' = now + 1 /\ pc' = pc /\ mode' = mode
        /\ UNCHANGED <<hashcount, hashrate, hashrateTime, speed, best,
                       measured, level, at, wake>>
        /\ due' = IF at > 0 THEN SetUp(at) ELSE {}
        /\ pc \in {"select", "begin", "configure", "sleep"}
        /\ pc = "sleep" => now < wake
    BY <1>1 DEF Tick, MayWait, minerVars, tuneVars
  <1>3. /\ now \in Nat /\ hashrateTime \in Nat /\ hashrateTime <= now
        /\ wake \in Nat /\ StepTime \in Nat /\ Window \in Nat
    BY <1>1, RatesAssumption, WindowAssumption DEF AnswerTypes
  <1>4. due' \subseteq {d \in Devices : at > 0 /\ speed[d][at] > 0}
    BY <1>2 DEF SetUp
  <1>5. AnswerTypes'
    BY <1>1, <1>2, <1>3, <1>4 DEF AnswerTypes, Agreeing, Hardware
  <1>6. BestSoFar'
    BY <1>1, <1>2, BestKept
  <1>7. AtSelect'
    BY <1>1, <1>2 DEF AtSelect, NothingYet, Works
  <1>8. AtConfigure'
    <2>1. ASSUME pc = "configure", ~Works(level)
          PROVE  Leftover(now)'
      <3> DEFINE x == StepTime + now - hashrateTime
                 y == StepTime + (now + 1) - hashrateTime
                 B == best.rate.count
                 C == SumFunction(hashcount) * (Window + 1)
      <3>1. C <= B * x
        BY <1>1, <2>1 DEF AtConfigure, Leftover
      <3>2. B \in Nat /\ x \in Int /\ y = x + 1
        BY <1>1, <1>3 DEF BestSoFar
      <3>3. SumFunction(hashcount) \in Nat
        <4>1. 1 \in 1..Levels
          BY RatesAssumption
        <4> QED
          BY <1>1, <4>1, CountersSum DEF AnswerTypes
      <3>4. C \in Int
        BY <1>3, <3>3
      <3>5. C <= B * y
        <4> HIDE DEF B, C, x, y
        <4>1. B * (x + 1) = B * x + B
          BY <3>2
        <4> QED
          BY <3>1, <3>2, <3>4, <4>1
      <3> QED
        BY <1>2, <3>5 DEF Leftover
    <2>2. Works(level)' = Works(level)
      BY <1>2 DEF Works
    <2> QED
      BY <1>1, <1>2, <2>1, <2>2 DEF AtConfigure
  <1>9. AtSleep'
    <2> SUFFICES ASSUME pc = "sleep" PROVE AtSleep'
      BY <1>2 DEF AtSleep
    <2>1. at = level /\ Began <= now /\ now < wake /\ Began \in Int
      BY <1>1, <1>2, <1>3 DEF AtSleep, Began
    <2>2. Began' = Began /\ Works(level)' = Works(level)
      BY <1>2 DEF Began, Works
    <2>3. ASSUME Works(level)
          PROVE  Counters' /\ WindowClosed' /\ RateInStep'
      <3>1. Counters /\ WindowClosed /\ RateInStep
        BY <1>1, <2>3 DEF AtSleep
      <3>2. level \in 1..Levels
        BY <2>1 DEF TuneTypes
      <3>3. due' = Devices /\ Devices # {}
        <4>1. \A d \in Devices : speed[d][level] > 0
          BY <1>1, <2>3, <3>2, SpeedTypes DEF AnswerTypes
        <4>2. at > 0
          BY <2>1, <3>2
        <4> QED
          BY <1>2, <2>1, <2>3, <4>1, <4>2 DEF SetUp, Works
      <3>4. Extra' = Extra /\ \A d \in Devices : Fed(d)' = Fed(d)
        BY <1>2, <1>3, <2>1, <2>2, <3>3 DEF Extra, Fed
      <3>5. Counters'
        BY <1>2, <3>1, <3>4 DEF Counters
      <3>6. WindowClosed'
        BY <1>2, <1>3, <2>1, <2>2, <3>1, <3>3 DEF WindowClosed
      <3>7. RateInStep'
        <4>1. SpeedOf(at)' = SpeedOf(at)
          BY <1>2 DEF SpeedOf
        <4> QED
          BY <1>2, <2>2, <3>1, <4>1 DEF RateInStep, RateOf
      <3> QED
        BY <3>5, <3>6, <3>7
    <2>4. ASSUME ~Works(level)
          PROVE  hashrateTime' <= Began' /\ Leftover(Began)'
      BY <1>1, <1>2, <2>2, <2>4 DEF AtSleep, Leftover
    <2> QED
      BY <1>2, <1>3, <2>1, <2>2, <2>3, <2>4 DEF AtSleep
  <1>10. AtTest'
    BY <1>2 DEF AtTest
  <1> QED
    BY <1>2, <1>5, <1>6, <1>7, <1>8, <1>9, <1>10 DEF AnswerInv

\* A window that ends in a step, not too early, has the batches of all its
\* units but for one at either end.
LEMMA CounterBounds ==
  ASSUME LongSteps, AnswerTypes, Counters, at \in 1..Levels, Works(at),
         now - hashrateTime = Window + 1, now >= Began + Window,
         NEW d \in Devices
  PROVE  /\ (Window - 1) * speed[d][at] <= hashcount[d]
         /\ hashcount[d] + (IF d \in due THEN speed[d][at] ELSE 0)
              <= (Window + 2) * speed[d][at]
  <1> DEFINE s == speed[d][at]
             k == hashcount[d]
             f == Fed(d)
             p == IF d \in due THEN 1 ELSE 0
  <1>1. /\ now \in Nat /\ hashrateTime \in Nat /\ Window \in Nat
        /\ Began \in Int /\ Window >= 3
    BY RatesAssumption, WindowAssumption DEF AnswerTypes, Began, LongSteps
  <1>2. s \in Nat /\ k \in Nat
    BY SpeedTypes DEF AnswerTypes
  <1>3. f \in Int /\ f >= Window - 1 /\ f + p + Extra <= Window + 2
        /\ Extra \in Nat
    BY <1>1 DEF Fed, Extra
  <1>4. f * s <= k /\ k <= (f + Extra) * s
    BY DEF Counters
  <1>5. p * s = IF d \in due THEN s ELSE 0
    BY <1>2
  <1>6. p \in Nat /\ f + Extra \in Int
    BY <1>3
  <1> HIDE DEF s, k, f, p
  <1>7. (Window - 1) * s <= f * s
    BY <1>1, <1>2, <1>3, Times
  <1>8. (f + Extra + p) * s <= (Window + 2) * s
    <2>1. f + Extra + p <= Window + 2 /\ f + Extra + p \in Int
      BY <1>1, <1>3, <1>6
    <2> QED
      BY <1>1, <1>2, <2>1, Times
  <1>9. (f + Extra + p) * s = (f + Extra) * s + p * s
    BY <1>2, <1>3, <1>6
  <1>10. k + p * s <= (Window + 2) * s
    BY <1>1, <1>2, <1>3, <1>4, <1>6, <1>8, <1>9
  <1>11. (Window - 1) * s <= k
    BY <1>1, <1>2, <1>3, <1>4, <1>7
  <1> QED
    BY <1>5, <1>10, <1>11 DEF s, k, p

\* The counters, with some of the batches due.
Counted(c) ==
    \A d \in Devices : \/ c[d] = hashcount[d]
                       \/ d \in due /\ c[d] = hashcount[d] + speed[d][at]

\* Its rate, whichever of the batches due are counted.
LEMMA ClosedRate ==
  ASSUME LongSteps, AnswerTypes, Counters, at \in 1..Levels, Works(at),
         now - hashrateTime = Window + 1, now >= Began + Window,
         NEW c \in [Devices -> Nat], NEW r,
         Counted(c),
         r = [count |-> SumFunction(c), from |-> hashrateTime, to |-> now]
  PROVE  RateOf(r, at)
  <1>1. ASSUME NEW d \in Devices
        PROVE  /\ (Window - 1) * speed[d][at] <= c[d]
               /\ c[d] <= (Window + 2) * speed[d][at]
    <2> DEFINE s == speed[d][at]
               lo == (Window - 1) * s
               hi == (Window + 2) * s
    <2>1. s \in Nat /\ hashcount[d] \in Nat
      BY SpeedTypes DEF AnswerTypes
    <2>2. lo \in Int /\ hi \in Int
      BY <2>1, WindowAssumption
    <2>3. lo <= hashcount[d] /\ hashcount[d] + (IF d \in due THEN s ELSE 0) <= hi
      BY CounterBounds
    <2>4. c[d] = hashcount[d] \/ (d \in due /\ c[d] = hashcount[d] + s)
      BY DEF Counted
    <2> HIDE DEF s, lo, hi
    <2>5. lo <= c[d] /\ c[d] <= hi
      BY <2>1, <2>2, <2>3, <2>4
    <2> QED
      BY <2>5 DEF lo, hi, s
  <1>2. /\ speed \in Agreeing /\ Window - 1 \in Int /\ Window + 2 \in Int
        /\ now \in Nat /\ hashrateTime \in Nat /\ Window \in Nat
    BY WindowAssumption DEF AnswerTypes
  <1>3. /\ SumFunction(c) \in Nat /\ SpeedOf(at) \in Nat
        /\ (Window - 1) * SpeedOf(at) <= SumFunction(c)
    BY <1>1, <1>2, CountersSum
  <1>4. SumFunction(c) <= (Window + 2) * SpeedOf(at)
    BY <1>1, <1>2, CountersSum
  <1>5. r.count = SumFunction(c) /\ r.from = hashrateTime /\ r.to = now
    OBVIOUS
  <1>6. Length(r) = Window + 1
    BY <1>2, <1>5 DEF Length
  <1>7. /\ (Window - 1) * SpeedOf(at) = SpeedOf(at) * (Window - 1)
        /\ (Window + 2) * SpeedOf(at) = SpeedOf(at) * (Window + 2)
    BY <1>2, <1>3
  <1> QED
    BY <1>3, <1>4, <1>5, <1>6, <1>7 DEF RateOf

\* A batch is stored while the step sleeps.
LEMMA SleepWork ==
  ASSUME LongSteps, TuneTypes, AnswerInv, mode # "miner", pc = "sleep",
         NEW d \in Devices, TuneWork(d)
  PROVE  AtSleep'
  <1> DEFINE c == [hashcount EXCEPT ![d] = @ + speed[d][at]]
  <1>1. /\ AnswerTypes /\ AtSleep /\ at = level /\ at \in 1..Levels
    BY DEF AnswerInv, AtSleep, TuneTypes
  <1>2. /\ d \in due /\ due' = due \ {d} /\ pc' = pc
        /\ UNCHANGED <<now, speed, at, level, wake>>
        /\ update_hashrate(c)
    BY DEF TuneWork, store_hash, tuneVars
  <1>3. /\ now \in Nat /\ hashrateTime \in Nat /\ hashrateTime <= now
        /\ wake \in Nat /\ StepTime \in Nat /\ Window \in Nat
        /\ Began \in Int /\ Began <= now /\ now <= wake
        /\ Window >= 3 /\ StepTime >= 2 * Window
    BY <1>1, RatesAssumption, WindowAssumption
    DEF AnswerTypes, AtSleep, Began, LongSteps
  <1>4. Works(at) /\ \A e \in Devices : speed[e][at] \in Nat
    <2>1. speed[d][at] > 0
      BY <1>1, <1>2 DEF AnswerTypes
    <2> QED
      BY <1>1, <2>1, SpeedTypes DEF Works, AnswerTypes
  <1>5. Counters /\ WindowClosed /\ RateInStep /\ now > Began
    BY <1>1, <1>2, <1>4 DEF AtSleep, WindowClosed
  <1>6. /\ c \in [Devices -> Nat] /\ c[d] = hashcount[d] + speed[d][at]
        /\ \A e \in Devices : e # d => c[e] = hashcount[e]
    BY <1>1, <1>4 DEF AnswerTypes
  <1>7. Began' = Began /\ Works(level)' = Works(level)
    BY <1>2 DEF Began, Works
  <1>8. CASE now - hashrateTime > Window
    <2>1. /\ hashrate' = [count |-> SumFunction(c), from |-> hashrateTime,
                          to |-> now]
          /\ hashcount' = [e \in Devices |-> 0]
          /\ hashrateTime' = now
      BY <1>2, <1>8 DEF update_hashrate
    <2>2. Extra' = 1
      BY <1>2, <1>5, <1>7, <2>1 DEF Extra
    <2>3. Counters'
      <3>1. ASSUME NEW e \in Devices
            PROVE  /\ (Fed(e) * speed[e][at])' <= hashcount'[e]
                   /\ hashcount'[e] <= ((Fed(e) + Extra) * speed[e][at])'
        <4> DEFINE s == speed[e][at]
        <4>1. s \in Nat /\ hashcount'[e] = 0 /\ s = speed'[e][at']
          BY <1>2, <1>4, <2>1
        <4>2. CASE e \in due'
          <5>1. Fed(e)' = -1
            BY <1>2, <1>3, <1>5, <1>7, <2>1, <4>2 DEF Fed
          <5>2. (-1) * s <= 0 /\ ((-1) + 1) * s = 0
            BY <4>1
          <5> QED
            BY <2>2, <4>1, <5>1, <5>2
        <4>3. CASE e \notin due'
          <5>1. Fed(e)' = 0
            BY <1>2, <1>3, <1>5, <1>7, <2>1, <4>3 DEF Fed
          <5>2. 0 * s <= 0 /\ (0 + 1) * s >= 0
            BY <4>1
          <5> QED
            BY <2>2, <4>1, <5>1, <5>2
        <4> QED
          BY <4>2, <4>3
      <3> QED
        BY <3>1 DEF Counters
    <2>4. WindowClosed'
      BY <1>2, <1>3, <1>5, <1>7, <2>1 DEF WindowClosed
    <2>5. RateInStep'
      <3>1. ASSUME now >= Began + Window
            PROVE  RateOf(hashrate, at)'
        <4>1. now - hashrateTime = Window + 1
          BY <1>3, <1>5, <1>8, <3>1 DEF WindowClosed
        <4>2. Counted(c)
          BY <1>2, <1>6 DEF Counted
        <4>3. RateOf(hashrate', at)
          <5> HIDE DEF c
          <5> QED
            BY <1>1, <1>4, <1>5, <1>6, <2>1, <3>1, <4>1, <4>2, ClosedRate
        <4>4. SpeedOf(at)' = SpeedOf(at)
          BY <1>2 DEF SpeedOf
        <4> QED
          BY <4>3, <4>4 DEF RateOf
      <3> QED
        BY <1>7, <2>1, <3>1 DEF RateInStep
    <2> QED
      BY <1>1, <1>2, <1>3, <1>4, <1>7, <2>3, <2>4, <2>5 DEF AtSleep
  <1>9. CASE ~(now - hashrateTime > Window)
    <2>1. hashcount' = c /\ hashrate' = hashrate /\ hashrateTime' = hashrateTime
      BY <1>2, <1>9 DEF update_hashrate
    <2>2. Extra' = Extra /\ Extra \in Nat
      BY <1>7, <2>1 DEF Extra
    <2>3. Counters'
      <3>1. ASSUME NEW e \in Devices
            PROVE  /\ (Fed(e) * speed[e][at])' <= hashcount'[e]
                   /\ hashcount'[e] <= ((Fed(e) + Extra) * speed[e][at])'
        <4> DEFINE s == speed[e][at]
                   f == Fed(e)
                   k == hashcount[e]
        <4>1. /\ s \in Nat /\ s = speed'[e][at'] /\ f \in Int /\ k \in Nat
              /\ f * s <= k /\ k <= (f + Extra) * s
          BY <1>1, <1>2, <1>3, <1>4, <1>5 DEF Counters, Fed, AnswerTypes
        <4>2. CASE e = d
          <5>1. Fed(e)' = f + 1
            <6>1. e \in due /\ e \notin due'
              BY <1>2, <4>2
            <6> QED
              BY <1>2, <1>3, <1>7, <2>1, <6>1 DEF Fed
          <5>2. hashcount'[e] = k + s
            BY <1>6, <2>1, <4>2
          <5> HIDE DEF f, s, k
          <5>3. /\ (f + 1) * s = f * s + s
                /\ ((f + 1) + Extra) * s = (f + Extra) * s + s
            <6>1. /\ f + Extra \in Int
                  /\ (f + 1) + Extra = (f + Extra) + 1
              BY <2>2, <4>1
            <6>2. ASSUME NEW a \in Int
                  PROVE  (a + 1) * s = a * s + s
              BY <4>1
            <6> QED
              BY <4>1, <6>1, <6>2
          <5>4. /\ (f + 1) * s <= k + s
                /\ k + s <= ((f + 1) + Extra) * s
            BY <2>2, <4>1, <5>3
          <5> QED
            BY <2>2, <4>1, <5>1, <5>2, <5>4
        <4>3. CASE e # d
          <5>1. hashcount'[e] = k
            BY <1>6, <2>1, <4>3
          <5>2. Fed(e)' = f
            <6>1. e \in due' <=> e \in due
              BY <1>2, <4>3
            <6> QED
              BY <1>2, <1>7, <2>1, <6>1 DEF Fed
          <5> QED
            BY <2>2, <4>1, <5>1, <5>2
        <4> QED
          BY <4>2, <4>3
      <3> QED
        BY <3>1 DEF Counters
    <2>4. WindowClosed'
      BY <1>2, <1>3, <1>5, <1>7, <1>9, <2>1 DEF WindowClosed
    <2>5. RateInStep'
      <3>1. SpeedOf(at)' = SpeedOf(at)
        BY <1>2 DEF SpeedOf
      <3> QED
        BY <1>5, <1>7, <2>1, <3>1 DEF RateInStep, RateOf
    <2> QED
      BY <1>1, <1>2, <1>3, <1>4, <1>7, <2>3, <2>4, <2>5 DEF AtSleep
  <1> QED
    BY <1>8, <1>9

\* A batch is stored, wherever the main thread is.
LEMMA AnswerWork ==
  ASSUME LongSteps, TuneTypes, AnswerInv, mode # "miner",
         NEW d \in Devices, TuneWork(d)
  PROVE  AnswerInv'
  <1> DEFINE c == [hashcount EXCEPT ![d] = @ + speed[d][at]]
  <1>1. /\ AnswerTypes /\ BestSoFar /\ AtSelect /\ AtTest /\ AtConfigure
        /\ at \in 0..Levels
    BY DEF AnswerInv, TuneTypes
  <1>2. /\ d \in due /\ due' = due \ {d} /\ pc' = pc /\ mode' = mode
        /\ UNCHANGED <<now, speed, at, level, wake, best, measured>>
        /\ update_hashrate(c)
    BY DEF TuneWork, store_hash, tuneVars
  <1>3. /\ now \in Nat /\ hashrateTime \in Nat /\ hashrateTime <= now
        /\ Window \in Nat /\ hashcount \in [Devices -> Nat]
    BY <1>1, WindowAssumption DEF AnswerTypes
  <1>4. at \in 1..Levels /\ speed[d][at] > 0 /\ Works(at)
    BY <1>1, <1>2 DEF AnswerTypes, Works
  <1>5. \A e \in Devices : speed[e][at] \in Nat
    BY <1>1, <1>4, SpeedTypes DEF AnswerTypes
  <1>6. /\ c \in [Devices -> Nat] /\ c[d] = hashcount[d] + speed[d][at]
        /\ \A e \in Devices : e # d => c[e] = hashcount[e]
    BY <1>3, <1>5
  <1>7. AnswerTypes'
    <2>1. /\ hashcount' \in [Devices -> Nat]
          /\ hashrateTime' \in Nat /\ hashrateTime' <= now
      <3> HIDE DEF c
      <3> QED
        BY <1>2, <1>3, <1>6 DEF update_hashrate
    <2> QED
      BY <1>1, <1>2, <2>1 DEF AnswerTypes, Agreeing, Hardware
  <1>8. BestSoFar'
    BY <1>1, <1>2, BestKept
  <1>9. at = 1 => NothingYet'
    BY <1>2, <1>4 DEF NothingYet, Works
  <1>10. AtSelect'
    BY <1>1, <1>2, <1>4, <1>9 DEF AtSelect
  <1>11. AtTest'
    <2> SUFFICES ASSUME pc \in {"test", "cleanup"}, level # 1
                 PROVE  Measured'
      BY <1>1, <1>2, <1>9 DEF AtTest
    <2>1. Measured
      BY <1>1 DEF AtTest
    <2>2. hashcount' = c /\ hashrateTime' = hashrateTime
      BY <1>2, <1>3, <2>1 DEF Measured, update_hashrate
    <2>3. ASSUME NEW e \in Devices
          PROVE  hashcount'[e] + (IF e \in due' THEN speed'[e][at'] ELSE 0)
                   <= (now' - hashrateTime' + 1) * speed'[e][at']
      <3> DEFINE s == speed[e][at]
                 m == (now - hashrateTime + 1) * s
      <3>1. hashcount[e] + (IF e \in due THEN s ELSE 0) <= m
        BY <2>1 DEF Measured
      <3>2. s \in Nat /\ hashcount[e] \in Nat
        BY <1>3, <1>5
      <3>3. m = (now' - hashrateTime' + 1) * speed'[e][at'] /\ s = speed'[e][at']
        BY <1>2, <2>2
      <3>4. hashcount'[e] + (IF e \in due' THEN s ELSE 0)
              = hashcount[e] + (IF e \in due THEN s ELSE 0)
        <4>1. CASE e = d
          BY <1>2, <1>6, <2>2, <3>2, <4>1
        <4>2. CASE e # d
          BY <1>2, <1>6, <2>2, <4>2
        <4> QED
          BY <4>1, <4>2
      <3> HIDE DEF s, m
      <3> QED
        BY <3>1, <3>3, <3>4
    <2> QED
      BY <1>2, <2>1, <2>2, <2>3 DEF Measured
  <1>12. AtConfigure'
    BY <1>1, <1>2, <1>4 DEF AtConfigure
  <1>13. AtSleep'
    <2>1. CASE pc = "sleep"
      BY <2>1, SleepWork
    <2>2. CASE pc # "sleep"
      BY <1>2, <2>2 DEF AtSleep
    <2> QED
      BY <2>1, <2>2
  <1> QED
    BY <1>2, <1>7, <1>8, <1>10, <1>11, <1>12, <1>13 DEF AnswerInv

\* The rate measured, at an intensity the devices come up at: of its window,
\* which lies in the step, and so are the hashes counted since.
LEMMA MeasureWorking ==
  ASSUME LongSteps, TuneTypes, AnswerInv, mode # "miner", Measure, Works(level)
  PROVE  RateOf(hashrate', level) /\ Measured'
  <1>1. /\ AnswerTypes /\ AtSleep /\ at = level /\ at \in 1..Levels
        /\ pc = "sleep" /\ now >= wake
    BY DEF AnswerInv, AtSleep, TuneTypes, Measure
  <1>2. /\ update_hashrate(hashcount)
        /\ UNCHANGED <<now, speed, at, due>>
    BY DEF Measure, get_current_hash_rate
  <1>3. /\ now \in Nat /\ hashrateTime \in Nat /\ hashrateTime <= now
        /\ wake \in Nat /\ StepTime \in Nat /\ Window \in Nat
        /\ Window >= 3 /\ StepTime >= 2 * Window
        /\ hashcount \in [Devices -> Nat]
    BY <1>1, RatesAssumption, WindowAssumption DEF AnswerTypes, LongSteps
  <1>4. Began \in Int /\ now >= Began + 2 * Window
    BY <1>1, <1>3 DEF Began
  <1>5. Counters /\ WindowClosed /\ RateInStep /\ Works(at)
    BY <1>1 DEF AtSleep
  <1>6. \A e \in Devices : speed[e][at] \in Nat
    BY <1>1, SpeedTypes DEF AnswerTypes
  <1>7. CASE now - hashrateTime > Window
    <2>1. /\ hashrate' = [count |-> SumFunction(hashcount),
                          from |-> hashrateTime, to |-> now]
          /\ hashcount' = [e \in Devices |-> 0]
          /\ hashrateTime' = now
      BY <1>2, <1>7 DEF update_hashrate
    <2>2. now - hashrateTime = Window + 1 /\ now >= Began + Window
      BY <1>3, <1>4, <1>5, <1>7 DEF WindowClosed
    <2>3. Counted(hashcount)
      BY DEF Counted
    <2>4. RateOf(hashrate', at)
      BY <1>1, <1>3, <1>5, <2>1, <2>2, <2>3, ClosedRate
    <2>5. ASSUME NEW e \in Devices
          PROVE  hashcount'[e] + (IF e \in due' THEN speed'[e][at'] ELSE 0)
                   <= (now' - hashrateTime' + 1) * speed'[e][at']
      <3> DEFINE s == speed[e][at]
      <3>1. s \in Nat /\ s = speed'[e][at'] /\ hashcount'[e] = 0
        BY <1>2, <1>6, <2>1
      <3>2. now' - hashrateTime' + 1 = 1
        BY <1>2, <1>3, <2>1
      <3> HIDE DEF s
      <3>3. 0 + (IF e \in due' THEN s ELSE 0) <= 1 * s
        BY <3>1
      <3> QED
        BY <3>1, <3>2, <3>3
    <2>6. now' - hashrateTime' <= Window
      BY <1>2, <1>3, <2>1
    <2> QED
      BY <1>1, <2>4, <2>5, <2>6 DEF Measured
  <1>8. CASE ~(now - hashrateTime > Window)
    <2>1. UNCHANGED <<hashcount, hashrate, hashrateTime>>
      BY <1>2, <1>8 DEF update_hashrate
    <2>2. hashrateTime >= Began + Window
      BY <1>3, <1>4, <1>8
    <2>3. RateOf(hashrate', at)
      BY <1>5, <2>1, <2>2 DEF RateInStep
    <2>4. ASSUME NEW e \in Devices
          PROVE  hashcount'[e] + (IF e \in due' THEN speed'[e][at'] ELSE 0)
                   <= (now' - hashrateTime' + 1) * speed'[e][at']
      <3> DEFINE s == speed[e][at]
                 p == IF e \in due THEN 1 ELSE 0
                 k == hashcount[e]
                 n == now - hashrateTime + 1
      <3>1. /\ s \in Nat /\ k \in Nat /\ p \in Nat /\ n \in Int
            /\ s = speed'[e][at'] /\ k = hashcount'[e] /\ due' = due
            /\ n = now' - hashrateTime' + 1
        BY <1>2, <1>3, <1>6, <2>1
      <3>2. Fed(e) + Extra = n - p
        BY <1>3, <1>4, <2>2 DEF Fed, Extra
      <3>3. k <= (n - p) * s
        BY <1>5, <3>2 DEF Counters
      <3>4. p * s = IF e \in due THEN s ELSE 0
        BY <3>1
      <3> HIDE DEF s, k, p, n
      <3>5. (n - p) * s + p * s = n * s
        BY <3>1
      <3>6. k + p * s <= n * s
        BY <3>1, <3>3, <3>5
      <3> QED
        BY <3>1, <3>4, <3>6
    <2>5. now' - hashrateTime' <= Window
      BY <1>2, <1>3, <1>8, <2>1
    <2> QED
      BY <1>1, <2>3, <2>4, <2>5 DEF Measured
  <1> QED
    BY <1>7, <1>8

\* At one they do not come up at, only what was left is counted.
LEMMA MeasureFailed ==
  ASSUME LongSteps, TuneTypes, AnswerInv, mode # "miner", Measure,
         ~Works(level)
  PROVE  ~Faster(hashrate', best.rate) /\ Measured'
  <1>1. /\ AnswerTypes /\ AtSleep /\ BestSoFar
        /\ at = level /\ at \in 1..Levels
        /\ pc = "sleep" /\ now >= wake
    BY DEF AnswerInv, AtSleep, TuneTypes, Measure
  <1>2. /\ update_hashrate(hashcount)
        /\ UNCHANGED <<now, speed, at, due>>
    BY DEF Measure, get_current_hash_rate
  <1>3. /\ now \in Nat /\ hashrateTime \in Nat /\ hashrateTime <= now
        /\ wake \in Nat /\ StepTime \in Nat /\ Window \in Nat
        /\ Window >= 3 /\ StepTime >= 2 * Window
        /\ hashcount \in [Devices -> Nat]
    BY <1>1, RatesAssumption, WindowAssumption DEF AnswerTypes, LongSteps
  <1>4. /\ Began \in Int /\ now = wake /\ hashrateTime <= Began
        /\ StepTime + Began - hashrateTime = now - hashrateTime
        /\ now - hashrateTime > Window
    BY <1>1, <1>3 DEF Began, AtSleep
  <1>5. /\ hashrate' = [count |-> SumFunction(hashcount),
                        from |-> hashrateTime, to |-> now]
        /\ hashcount' = [e \in Devices |-> 0]
        /\ hashrateTime' = now
    BY <1>2, <1>4 DEF update_hashrate
  <1>6. \A e \in Devices : speed[e][at] = 0
    BY <1>1, SpeedTypes DEF AnswerTypes
  <1>7. ~Faster(hashrate', best.rate)
    <2> DEFINE C == SumFunction(hashcount)
               B == best.rate.count
               L == Length(best.rate)
               e == now - hashrateTime
    <2>1. C \in Nat
      BY <1>1, <1>3, CountersSum DEF AnswerTypes
    <2>2. B \in Nat /\ L \in Nat /\ L <= Window + 1
      BY <1>1, <1>3 DEF BestSoFar
    <2>3. C * (Window + 1) <= B * e
      BY <1>1, <1>4 DEF AtSleep, Leftover
    <2>4. Length(hashrate') = e /\ hashrate'.count = C
      <3>1. hashrate'.count = C /\ hashrate'.from = hashrateTime
            /\ hashrate'.to = now
        BY <1>5
      <3> QED
        BY <1>3, <1>4, <3>1 DEF Length
    <2>5. e \in Nat
      BY <1>3, <1>4
    <2> HIDE DEF C, B, L, e
    <2>6. C * L <= C * (Window + 1)
      <3>1. L * C <= (Window + 1) * C
        BY <1>3, <2>1, <2>2, Times
      <3> QED
        BY <1>3, <2>1, <2>2, <3>1
    <2>7. C * L <= B * e
      <3>1. C * L \in Int /\ C * (Window + 1) \in Int /\ B * e \in Int
        BY <1>3, <2>1, <2>2, <2>5
      <3> QED
        BY <2>3, <2>6, <3>1
    <2>8. C * L \in Int /\ B * e \in Int
      BY <2>1, <2>2, <2>5
    <2>9. ~(C * L > B * e)
      BY <2>7, <2>8
    <2> QED
      BY <2>4, <2>9 DEF Faster, B, L
  <1>8. Measured'
    <2>1. due' = {}
      BY <1>1, <1>2, <1>6 DEF AnswerTypes
    <2>2. now' - hashrateTime' = 0
      BY <1>2, <1>3, <1>5
    <2>3. ASSUME NEW e \in Devices
          PROVE  hashcount'[e] + (IF e \in due' THEN speed'[e][at'] ELSE 0)
                   <= (now' - hashrateTime' + 1) * speed'[e][at']
      <3>1. hashcount'[e] = 0 /\ speed'[e][at'] = 0
        BY <1>2, <1>5, <1>6
      <3> QED
        BY <2>1, <2>2, <3>1
    <2> QED
      BY <1>3, <2>2, <2>3 DEF Measured
  <1> QED
    BY <1>7, <1>8

\* The rates of two intensities are over windows of the same length.
LEMMA FasterCounts ==
  ASSUME BestSoFar, speed \in Agreeing, NEW l \in 1..Levels,
         NEW r, RateOf(r, l)
  PROVE  Faster(r, best.rate) <=> r.count > best.rate.count
  <1> DEFINE a == r.count
             b == best.rate.count
             L == Length(best.rate)
  <1>1. /\ a \in Nat /\ b \in Nat /\ Window \in Nat
        /\ Length(r) = Window + 1
    BY WindowAssumption DEF BestSoFar, RateOf
  <1>2. Faster(r, best.rate) <=> a * L > b * (Window + 1)
    BY <1>1 DEF Faster
  <1>3. CASE best.level = 0
    <2>1. SpeedOf(best.level) = 0
      BY <1>3 DEF SpeedOf
    <2>2. b <= 0 * (Window + 2) /\ L = 1
      BY <1>3, <2>1 DEF BestSoFar
    <2> HIDE DEF a, b, L
    <2>3. b = 0
      BY <1>1, <2>2
    <2>4. a * L = a /\ b * (Window + 1) = 0
      BY <1>1, <2>2, <2>3
    <2> QED
      BY <1>2, <2>3, <2>4 DEF a, b
  <1>4. CASE best.level # 0
    <2>1. L = Window + 1
      BY <1>4 DEF BestSoFar
    <2> HIDE DEF a, b, L
    <2>2. ASSUME a > b
          PROVE  a * (Window + 1) > b * (Window + 1)
      BY <1>1, <2>2
    <2>3. ASSUME a <= b
          PROVE  a * (Window + 1) <= b * (Window + 1)
      BY <1>1, <2>3, Times
    <2>4. a * (Window + 1) \in Int /\ b * (Window + 1) \in Int
      BY <1>1
    <2>5. a > b \/ a <= b
      BY <1>1
    <2>6. a * (Window + 1) > b * (Window + 1) <=> a > b
      BY <1>1, <2>2, <2>3, <2>4, <2>5
    <2> QED
      BY <1>2, <2>1, <2>6 DEF a, b
  <1> QED
    BY <1>3, <1>4

\* The measurement keeps the best of all.
LEMMA BestMeasured ==
  ASSUME LongSteps, TuneTypes, AnswerInv, mode # "miner", Measure
  PROVE  BestSoFar'
  <1>1. /\ AnswerTypes /\ BestSoFar /\ level \in 1..Levels
        /\ speed \in Agreeing
    BY DEF AnswerInv, AnswerTypes, TuneTypes, Measure
  <1>2. /\ speed' = speed /\ measured' = measured \cup {level}
        /\ best' = IF Faster(hashrate', best.rate)
                     THEN [level |-> level, rate |-> hashrate'] ELSE best
    BY DEF Measure
  <1>3. /\ \A l : SpeedOf(l)' = SpeedOf(l)
        /\ SpeedOf(best.level)' = SpeedOf(best'.level)
    BY <1>2 DEF SpeedOf
  <1>4. Window \in Nat /\ Window >= 3
    BY WindowAssumption DEF LongSteps
  <1>5. \A l \in 0..Levels : SpeedOf(l) \in Nat
    BY <1>1, SpeedZero
  <1>6. /\ best.level \in 0..Levels /\ best.rate.count \in Nat
        /\ Length(best.rate) = IF best.level = 0 THEN 1 ELSE Window + 1
        /\ best.rate.count <= SpeedOf(best.level) * (Window + 2)
        /\ measured \subseteq 1..Levels
        /\ \A l \in measured : SpeedOf(l) * (Window - 1) <= best.rate.count
    BY <1>1 DEF BestSoFar
  <1>7. measured' \subseteq 1..Levels
    BY <1>1, <1>2, <1>6
  <1>8. CASE Faster(hashrate', best.rate)
    <2>1. best'.level = level /\ best'.rate = hashrate'
      BY <1>2, <1>8
    <2>2. RateOf(hashrate', level)
      BY <1>8, MeasureWorking, MeasureFailed
    <2>3. hashrate'.count > best.rate.count
      BY <1>1, <1>8, <2>2, FasterCounts
    <2>4. \A l \in measured' : SpeedOf(l) * (Window - 1) <= hashrate'.count
      <3>1. ASSUME NEW l \in measured
            PROVE  SpeedOf(l) * (Window - 1) <= hashrate'.count
        <4>1. SpeedOf(l) * (Window - 1) <= best.rate.count
          BY <1>6
        <4>2. SpeedOf(l) * (Window - 1) \in Int
          BY <1>4, <1>5, <1>6
        <4>3. hashrate'.count \in Nat
          BY <2>2 DEF RateOf
        <4> QED
          BY <1>6, <2>3, <4>1, <4>2, <4>3
      <3> QED
        BY <1>2, <2>2, <3>1 DEF RateOf
    <2>5. level # 0 /\ level \in 0..Levels
      BY <1>1
    <2>6. /\ hashrate'.count \in Nat /\ Length(hashrate') = Window + 1
          /\ hashrate'.count <= SpeedOf(level) * (Window + 2)
      BY <2>2 DEF RateOf
    <2>7. Length(best.rate)' = Length(hashrate')
      BY <2>1
    <2> QED
      BY <1>3, <1>7, <2>1, <2>4, <2>5, <2>6, <2>7 DEF BestSoFar
  <1>9. CASE ~Faster(hashrate', best.rate)
    <2>1. best' = best
      BY <1>2, <1>9
    <2>2. SpeedOf(level) * (Window - 1) <= best.rate.count
      <3>1. CASE Works(level)
        <4>1. RateOf(hashrate', level)
          BY <3>1, MeasureWorking
        <4>2. ~(hashrate'.count > best.rate.count)
          BY <1>1, <1>9, <4>1, FasterCounts
        <4>3. /\ hashrate'.count \in Nat
              /\ SpeedOf(level) * (Window - 1) <= hashrate'.count
          BY <4>1 DEF RateOf
        <4>4. SpeedOf(level) * (Window - 1) \in Int
          BY <1>1, <1>4, <1>5
        <4> QED
          BY <1>6, <4>2, <4>3, <4>4
      <3>2. CASE ~Works(level)
        <4>1. SpeedOf(level) = 0
          BY <1>1, <3>2, SpeedZero
        <4> QED
          BY <1>4, <1>6, <4>1
      <3> QED
        BY <3>1, <3>2
    <2>3. \A l \in measured' : SpeedOf(l) * (Window - 1) <= best.rate.count
      BY <1>2, <1>6, <2>2
    <2>4. Length(best.rate)' = Length(best.rate)
      BY <2>1
    <2> QED
      BY <1>3, <1>6, <1>7, <2>1, <2>3, <2>4 DEF BestSoFar
  <1> QED
    BY <1>8, <1>9

\* The measurement, with all it leaves behind.
LEMMA AnswerMeasure ==
  ASSUME LongSteps, TuneTypes, AnswerInv, mode # "miner", Measure
  PROVE  AnswerInv'
  <1>1. /\ AnswerTypes /\ AtSleep /\ at = level /\ level \in 1..Levels
    BY DEF AnswerInv, AtSleep, TuneTypes, Measure
  <1>2. /\ update_hashrate(hashcount) /\ mode' = mode
        /\ pc' = "test" /\ level' = level + 1 /\ measured' = measured \cup {level}
        /\ UNCHANGED <<now, speed, at, due, wake>>
    BY DEF Measure, get_current_hash_rate
  <1>3. AnswerTypes'
    <2>1. /\ hashcount' \in [Devices -> Nat]
          /\ hashrateTime' \in Nat /\ hashrateTime' <= now
      BY <1>1, <1>2 DEF update_hashrate, AnswerTypes
    <2> QED
      BY <1>1, <1>2, <2>1 DEF AnswerTypes, Agreeing, Hardware
  <1>4. BestSoFar'
    BY BestMeasured
  <1>5. Measured'
    BY MeasureWorking, MeasureFailed
  <1>6. AtTest'
    <2>1. level' # 1 /\ at' = level' - 1 /\ at' \in measured'
      BY <1>1, <1>2
    <2> QED
      BY <1>5, <2>1 DEF AtTest
  <1> QED
    BY <1>2, <1>3, <1>4, <1>6 DEF AnswerInv, AtSelect, AtConfigure, AtSleep

\* Every step keeps AnswerInv.
LEMMA AnswerStep ==
  ASSUME LongSteps
  PROVE  TuneTypes /\ AnswerInv /\ [Next]_vars => AnswerInv'
  <1> SUFFICES ASSUME TuneTypes, AnswerInv, [Next]_vars
               PROVE  AnswerInv'
    OBVIOUS
  <1>a. mode' = mode
    BY DEF Next, vars, Work, Report, NewBlock, PoolLost, PoolBack, TuneWork,
           NoneSelected, Select, Begin, LoopTest, Cleanup, Configure, Measure,
           Finish, Stop, Tick, Ended
  <1>b. SUFFICES ASSUME mode # "miner" PROVE AnswerInv'
    BY <1>a DEF AnswerInv
  <1>c. pc # "mine"
    BY <1>b DEF TuneTypes
  <1>0. CASE UNCHANGED vars
    <2>1. Frozen /\ pc' = pc
      BY <1>0 DEF vars, statsVars, tuneVars, Frozen
    <2> QED
      BY <1>a, <1>b, <2>1, AnswerFrozen
  <1>1. CASE NoneSelected \/ Begin \/ LoopTest \/ Stop \/ Ended
    <2>1. Frozen
      BY <1>1 DEF NoneSelected, Begin, LoopTest, Stop, Ended, vars, statsVars,
                  tuneVars, Frozen
    <2>2. \/ pc' = pc
          \/ pc = "begin" /\ pc' = "test"
          \/ pc = "test" /\ pc' \in {"cleanup", "finish"}
          \/ pc' = "done"
      BY <1>1 DEF NoneSelected, Begin, LoopTest, Stop, Ended, vars
    <2> QED
      BY <1>a, <1>b, <2>1, <2>2, AnswerFrozen
  <1>2. ASSUME NEW d \in Devices, TuneWork(d) PROVE AnswerInv'
    BY <1>b, <1>2, AnswerWork
  <1>3. CASE Select
    BY <1>b, <1>3, AnswerSelect
  <1>4. ASSUME NEW t \in SetupTimes, Cleanup(t) PROVE AnswerInv'
    BY <1>b, <1>4, AnswerCleanup
  <1>5. CASE Configure
    BY <1>b, <1>5, AnswerConfigure
  <1>6. CASE Measure
    BY <1>b, <1>6, AnswerMeasure
  <1>7. CASE Finish
    BY <1>b, <1>7, AnswerFinish
  <1>8. CASE Tick
    BY <1>b, <1>8, AnswerTick
  <1>9. CASE \/ Report \/ NewBlock \/ PoolLost \/ PoolBack
             \/ \E d \in Devices, n \in Batches : Work(d, n)
    BY <1>c, <1>9 DEF Report, NewBlock, PoolLost, PoolBack, Work
  <1> QED
    BY <1>0, <1>1, <1>2, <1>3, <1>4, <1>5, <1>6, <1>7, <1>8, <1>9 DEF Next

\* Before the first set-up nothing is counted and nothing measured.
LEMMA AnswerInit == Init /\ SetUpsAgree => AnswerInv
  <1> SUFFICES ASSUME Init, SetUpsAgree, mode # "miner" PROVE AnswerInv
    BY DEF AnswerInv
  <1>1. /\ now = 0 /\ hashrateTime = 0 /\ hashcount = [d \in Devices |-> 0]
        /\ due = {} /\ pc = "select" /\ speed \in Agreeing /\ at = 0
        /\ level = 1 /\ wake = 0 /\ measured = {}
        /\ best = [level |-> 0, rate |-> NoRate]
    BY DEF Init, StatsInit, SetUpsAgree, Agreeing
  <1>2. AnswerTypes
    BY <1>1 DEF AnswerTypes
  <1>3. BestSoFar
    <2>1. SpeedOf(best.level) = 0
      BY <1>1 DEF SpeedOf
    <2>2. best.rate.count = 0 /\ Length(best.rate) = 1 /\ best.level = 0
      BY <1>1 DEF NoRate, Length
    <2>3. 0 \in 0..Levels /\ 0 <= 0 * (Window + 2)
      BY RatesAssumption, WindowAssumption
    <2> QED
      BY <1>1, <2>1, <2>2, <2>3 DEF BestSoFar
  <1>4. AtSelect
    BY <1>1 DEF AtSelect, NothingYet
  <1> QED
    BY <1>1, <1>2, <1>3, <1>4
    DEF AnswerInv, AtTest, AtConfigure, AtSleep

\* The miner is never done.
LEMMA AnswerIsBest ==
  ASSUME LongSteps, TuneTypes, SetUpsAgree => AnswerInv
  PROVE  BestIsBest
  <1> SUFFICES ASSUME pc = "done", SetUpsAgree, NEW l \in measured
               PROVE  SpeedOf(l) * (Window - 1)
                        <= SpeedOf(best.level) * (Window + 2)
    BY DEF BestIsBest
  <1>1. AnswerTypes /\ BestSoFar
    BY DEF TuneTypes, AnswerInv
  <1>2. /\ SpeedOf(l) * (Window - 1) <= best.rate.count
        /\ best.rate.count <= SpeedOf(best.level) * (Window + 2)
        /\ best.rate.count \in Nat /\ l \in 0..Levels
        /\ best.level \in 0..Levels
    BY <1>1 DEF BestSoFar
  <1>3. SpeedOf(l) \in Nat /\ SpeedOf(best.level) \in Nat /\ Window \in Nat
    BY <1>1, <1>2, SpeedZero, WindowAssumption DEF AnswerTypes
  <1>4. /\ SpeedOf(l) * (Window - 1) \in Int
        /\ SpeedOf(best.level) * (Window + 2) \in Int
    BY <1>3
  <1> QED
    BY <1>2, <1>4

\* For steps of two windows and windows of three batches, autotune's answer is
\* the fastest of the intensities it has measured, but for a batch of each
\* device at the ends of a window: whatever the devices compute, in whichever
\* order they store it, at whichever intensities their set-ups fail, all or
\* none, and whenever it is stopped.
THEOREM AnswerTheorem ==
  ASSUME Window >= 3, StepTime >= 2 * Window
  PROVE  Spec => []BestIsBest
  <1> DEFINE Inv == SetUpsAgree => AnswerInv
  <1>0. LongSteps
    BY DEF LongSteps
  <1>1. Init => TuneTypes /\ Inv
    BY RoundsInit, AnswerInit DEF RoundsInv
  <1>2. TuneTypes /\ Inv => BestIsBest
    BY <1>0, AnswerIsBest
  <1>3. TuneTypes /\ Inv /\ [Next]_vars => Inv'
    <2> SUFFICES ASSUME TuneTypes, Inv, [Next]_vars, SetUpsAgree'
                 PROVE  AnswerInv'
      OBVIOUS
    <2>1. speed' = speed
      BY DEF Next, vars, Work, Report, NewBlock, PoolLost, PoolBack, TuneWork,
             NoneSelected, Select, Begin, LoopTest, Cleanup, Configure,
             Measure, Finish, Stop, Tick, Ended, tuneVars
    <2>2. SetUpsAgree
      BY <2>1 DEF SetUpsAgree
    <2> QED
      BY <1>0, <2>2, AnswerStep
  <1> QED
    BY <1>1, <1>2, <1>3, TuneStep, PTL DEF Spec
=============================================================================
