------------------------------- MODULE Rates --------------------------------
(***************************************************************************)
(* What the program does with the rates of module HashStats: the report of *)
(* miner/miner.cpp, which ends the process when the rate stays low, and    *)
(* the search of autotune/autotune.cpp for the best intensity.  As in      *)
(* app/main.cpp a process is one or the other.                             *)
(*                                                                         *)
(* In each unit of time every device at work finishes at most one batch.   *)
(* The miner's devices compute any number of hashes; autotune's compute,   *)
(* at each intensity, what "speed" says, 0 if their set-up fails.          *)
(***************************************************************************)
EXTENDS HashStats, FiniteSets

CONSTANTS
    Batches,        \* hashes a device of the miner may finish in a unit
    Threshold,      \* --hs-threshold
    ThresholdHits,  \* low reports before the miner exits: 5
    ReportInterval, \* --report-interval
    Levels,         \* intensities tried: 1..Levels
    StepTime,       \* --autotune-step-time
    SetupTimes,     \* how long initialize and configure may take
    Speeds,         \* what a device may compute in a unit at an intensity
    MaxTime,        \* bound on the clock of the miner
    MaxMarks        \* bound on the rounds of the miner

ASSUME RatesAssumption ==
    /\ IsFiniteSet(Devices)
    /\ {ThresholdHits, Levels, StepTime} \subseteq Nat \ {0}
    /\ {Threshold, ReportInterval} \subseteq Nat
    /\ SetupTimes \subseteq Nat
    /\ Batches \cup Speeds \subseteq Nat

VARIABLES
    mode,       \* --mode
    pc,         \* where the main thread is
    due,        \* devices whose batch of this unit is still to be stored
    paused,     \* __recommendation = "pause"
    hits,       \* __hs_threshold_hit
    blocks,     \* __blocks_count, saturating at 2
    lastReport, \* run's last_report
    lowWindows, \* history: the windows the hits were counted for
    speed,      \* hashes of a device in a unit at each intensity
    at,         \* the intensity the devices work at, 0 when they do not
    level,      \* autotune's intensity
    wake,       \* when the main thread goes on
    running,    \* autotune::__running
    best,       \* best_intensity and best_hashrate
    measured    \* history: the intensities measured

\* What the devices compute.  A device whose set-up fails at an intensity is
\* left out while the others work: an error before profile_info.threads is
\* assigned.  (With OpenCL a later one ends the process in the first batch, see
\* GpuHasher, and there is no answer.)
Hardware == [Devices -> [1..Levels -> Speeds]]

minerVars == <<paused, hits, blocks, lastReport, lowWindows>>
tuneVars  == <<speed, at, level, wake, running, best, measured>>
vars == <<statsVars, mode, pc, due, minerVars, tuneVars>>

Init ==
    /\ StatsInit
    /\ due = {}
    /\ mode \in {"miner", "autotune"}
    /\ pc = IF mode = "miner" THEN "mine" ELSE "select"
    /\ paused = FALSE
    /\ hits = 0
    /\ blocks = 1
    /\ lastReport = -ReportInterval - 1
    /\ lowWindows = {}
    /\ speed \in IF mode = "miner" THEN {[d \in Devices |-> <<>>]}
                                    ELSE Hardware
    /\ at = 0
    /\ level = 1
    /\ wake = 0
    /\ running = FALSE
    /\ best = [level |-> 0, rate |-> NoRate]
    /\ measured = {}

-----------------------------------------------------------------------------
(* The miner.                                                              *)

\* A rate is count / (to - from); before the first window it is zero.
Length(rate) == IF rate.to = rate.from THEN 1 ELSE rate.to - rate.from
IsLow(rate) == rate.count <= Threshold * Length(rate)

\* A batch of device d, if it finishes in this unit.
Work(d, n) ==
    /\ mode = "miner"
    /\ pc = "mine"
    /\ d \in due
    /\ due' = due \ {d}
    /\ IF n = 0 THEN UNCHANGED statsVars ELSE store_hash(d, n)
    /\ UNCHANGED <<mode, pc, minerVars, tuneVars>>

\* Fault: the interval is not waited for.
ReportIsDue_hurried == now > lastReport

\* run() has a report due.
ReportIsDue == now - lastReport > ReportInterval

\* __display_report: low reports are counted unless the miner is paused, and
\* enough of them end the process once the pool data have changed.
Report ==
    /\ pc = "mine"
    /\ ReportIsDue
    /\ get_current_hash_rate
    /\ hits' = CASE paused -> hits
                 [] ~paused /\ IsLow(hashrate') -> hits + 1
                 [] OTHER -> 0
    /\ lowWindows' = CASE paused -> lowWindows
                       [] ~paused /\ IsLow(hashrate') ->
                            lowWindows \cup {hashrate'}
                       [] OTHER -> {}
    /\ lastReport' = now
    /\ pc' = IF hits' >= ThresholdHits /\ blocks > 1 THEN "exited" ELSE "mine"
    /\ UNCHANGED <<mode, due, paused, blocks, tuneVars>>

\* run() after __update_pool_data: a job of another height.
NewBlock ==
    /\ pc = "mine"
    /\ Len(marks) < MaxMarks
    /\ close_round
    /\ paused' = FALSE
    /\ blocks' = 2
    /\ UNCHANGED <<mode, pc, due, hits, lastReport, lowWindows, tuneVars>>

\* The pool does not answer, or is back with the job the miner has.
PoolLost ==
    /\ pc = "mine"
    /\ paused' = TRUE
    /\ UNCHANGED <<statsVars, mode, pc, due, hits, blocks, lastReport,
                   lowWindows, tuneVars>>

PoolBack ==
    /\ pc = "mine"
    /\ paused
    /\ paused' = FALSE
    /\ blocks' = 2
    /\ UNCHANGED <<statsVars, mode, pc, due, hits, lastReport, lowWindows,
                   tuneVars>>

-----------------------------------------------------------------------------
(* autotune::run.                                                          *)

\* The devices whose set-up succeeds at an intensity.
SetUp(l) == {d \in Devices : speed[d][l] > 0}

\* A batch of device d is finished and stored.
TuneWork(d) ==
    /\ mode = "autotune"
    /\ d \in due
    /\ due' = due \ {d}
    /\ store_hash(d, speed[d][at])
    /\ UNCHANGED <<mode, pc, minerVars, tuneVars>>

\* No GPU hasher, or one that cannot be initialized: run returns.
NoneSelected ==
    /\ pc = "select"
    /\ pc' = "done"
    /\ UNCHANGED <<statsVars, mode, due, minerVars, tuneVars>>

\* The selected hasher is configured a first time, with the first intensity.
Select ==
    /\ pc = "select"
    /\ store_device_info(SetUp(level))
    /\ at' = level
    /\ pc' = "begin"
    /\ UNCHANGED <<mode, due, minerVars, speed, level, wake, running, best,
                   measured>>

\* __running = true, whatever stop has stored before.
Begin ==
    /\ pc = "begin"
    /\ running' = TRUE
    /\ pc' = "test"
    /\ UNCHANGED <<statsVars, mode, due, minerVars, speed, at, level, wake,
                   best, measured>>

\* The head of the loop: the next intensity, or the end.
LoopTest ==
    /\ pc = "test"
    /\ pc' = IF level <= Levels /\ running THEN "cleanup" ELSE "finish"
    /\ UNCHANGED <<statsVars, mode, due, minerVars, tuneVars>>

\* cleanup: every thread stores its last batch and is joined.
Cleanup(t) ==
    /\ pc = "cleanup"
    /\ due = {}
    /\ at' = 0
    /\ wake' = now + t
    /\ pc' = "configure"
    /\ UNCHANGED <<statsVars, mode, due, minerVars, speed, level, running,
                   best, measured>>

\* initialize and configure with the next intensity, then the sleep.
Configure ==
    /\ pc = "configure"
    /\ now >= wake
    /\ store_device_info(SetUp(level))
    /\ at' = level
    /\ wake' = now + StepTime
    /\ pc' = "sleep"
    /\ UNCHANGED <<mode, due, minerVars, speed, level, running, best,
                   measured>>

Faster(a, b) == a.count * Length(b) > b.count * Length(a)

\* The rate after the sleep, and the best one so far.
Measure ==
    /\ pc = "sleep"
    /\ now >= wake
    /\ get_current_hash_rate
    /\ best' = IF Faster(hashrate', best.rate)
                 THEN [level |-> level, rate |-> hashrate'] ELSE best
    /\ measured' = measured \cup {level}
    /\ level' = level + 1
    /\ pc' = "test"
    /\ UNCHANGED <<mode, due, minerVars, speed, at, wake, running>>

\* The last cleanup.
Finish ==
    /\ pc = "finish"
    /\ due = {}
    /\ at' = 0
    /\ pc' = "done"
    /\ UNCHANGED <<statsVars, mode, due, minerVars, speed, level, wake,
                   running, best, measured>>

\* autotune::stop, from the signal handler.
Stop ==
    /\ mode = "autotune"
    /\ pc # "done"
    /\ running' = FALSE
    /\ UNCHANGED <<statsVars, mode, pc, due, minerVars, speed, at, level, wake,
                   best, measured>>

-----------------------------------------------------------------------------

\* The main thread lets time pass: the miner between its turns, autotune
\* while it configures and while it sleeps.
MayWait == \/ pc = "mine" /\ now < MaxTime
           \/ pc \in {"select", "begin"} /\ now <= Window
           \/ pc \in {"configure", "sleep"} /\ now < wake

Tick ==
    /\ due = {}
    /\ MayWait
    /\ now' = now + 1
    /\ due' = CASE pc = "mine" -> IF paused THEN {} ELSE Devices
                [] at > 0 -> SetUp(at)
                [] OTHER -> {}
    /\ UNCHANGED <<hashcount, hashrate, hashrateTime, hashCount, timings,
                   beginRound, total, marks, mode, pc, minerVars, tuneVars>>

Ended ==
    /\ pc \in {"done", "exited"}
    /\ UNCHANGED vars

Next ==
    \/ \E d \in Devices, n \in Batches : Work(d, n)
    \/ Report \/ NewBlock \/ PoolLost \/ PoolBack
    \/ \E d \in Devices : TuneWork(d)
    \/ NoneSelected
    \/ Select \/ Begin \/ LoopTest
    \/ \E t \in SetupTimes : Cleanup(t)
    \/ Configure \/ Measure \/ Finish \/ Stop
    \/ Tick
    \/ Ended

Spec == Init /\ [][Next]_vars

-----------------------------------------------------------------------------
(* Properties.                                                             *)

\* The start of the oldest round that timings still has.
OldestRound == marks[Len(marks) - Len(timings)]

\* The average reported to the pool is over the last rounds, as many as it is
\* said to look back, and the one under way, without gap or overlap, and
\* counts every hash stored in them once (set_input, _store_hash,
\* get_avg_hash_rate).
RoundsAddUp ==
    /\ Len(timings) = IF Len(marks) - 1 < Rounds THEN Len(marks) - 1
                                                 ELSE Rounds
    /\ get_avg_hash_rate = [count |-> total - OldestRound.total,
                            time  |-> now - OldestRound.at]

\* Reports that are a window apart are about different windows: the miner
\* exits only after as many low windows as it has counted hits, the one before
\* the first window included (__update_hashrate, __display_report).
ExitEarned == pc = "exited" => Cardinality(lowWindows) >= ThresholdHits

SpeedOf(l) ==
    IF l = 0 THEN 0 ELSE SumFunction([d \in Devices |-> speed[d][l]])

\* At an intensity all devices come up or none does.
SetUpsAgree ==
    \A l \in 1..Levels, d, e \in Devices : speed[d][l] = 0 <=> speed[e][l] = 0

\* Autotune's answer is the fastest of the intensities measured, but for the
\* batches at the ends of a window: of each device one may be missing at
\* either end, or one too many counted, as the window is closed by the device
\* that stores first.  A step has to last two windows, as it does by default,
\* and a window three batches (run, _store_device_info, __update_hashrate).
\* Nor may one device fail where another works: nobody resets its counter, and
\* what it still holds of the intensity before may go into the rate measured
\* of the other device.
BestIsBest ==
    pc = "done" /\ SetUpsAgree =>
        \A l \in measured :
            SpeedOf(l) * (Window - 1) <= SpeedOf(best.level) * (Window + 2)
=============================================================================
