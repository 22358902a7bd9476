----------------------------- MODULE HashStats ------------------------------
(***************************************************************************)
(* The statistics of hash/hasher.cpp: the rate over a window of ten        *)
(* seconds, the average over the last twenty rounds, and the counters they *)
(* are computed from.                                                      *)
(*                                                                         *)
(* Everything happens under __hashes_mutex or on the main thread alone, so *)
(* an operation is one step.  Time is a count of units.  A rate is kept as *)
(* the number of hashes and the two ends of the window it was computed     *)
(* from; the division is left to the comparisons.                          *)
(***************************************************************************)
EXTENDS Integers, Sequences, Functions

CONSTANTS
    Devices,    \* keys of __device_infos
    Window,     \* units after which __update_hashrate computes: 10 s
    Rounds      \* rounds the average looks back: 20

ASSUME WindowAssumption == {Window, Rounds} \subseteq Nat \ {0}

VARIABLES
    now,          \* microseconds()
    hashcount,    \* __device_infos[d].hashcount
    hashrate,     \* __hashrate
    hashrateTime, \* __hashrate_time
    hashCount,    \* __hash_count
    timings,      \* __hash_timings
    beginRound,   \* __begin_round_time
    total,        \* __total_hash_count
    marks         \* history: time and total at the start of every round

statsVars == <<now, hashcount, hashrate, hashrateTime, hashCount, timings,
               beginRound, total, marks>>

NoRate == [count |-> 0, from |-> 0, to |-> 0]

StatsInit ==
    /\ now = 0
    /\ hashcount = [d \in Devices |-> 0]
    /\ hashrate = NoRate
    /\ hashrateTime = 0
    /\ hashCount = 0
    /\ timings = <<>>
    /\ beginRound = 0
    /\ total = 0
    /\ marks = <<[at |-> 0, total |-> 0]>>

\* Fault: the counters are not reset when the window is closed.
update_hashrate_without_reset(counts) ==
    /\ hashcount' = counts
    /\ IF now - hashrateTime > Window
         THEN /\ hashrate' = [count |-> SumFunction(counts),
                              from |-> hashrateTime, to |-> now]
              /\ hashrateTime' = now
         ELSE UNCHANGED <<hashrate, hashrateTime>>

\* __update_hashrate, the devices' counters being "counts": a window of more
\* than ten seconds is closed, whoever comes first after its end.
update_hashrate(counts) ==
    IF now - hashrateTime > Window
      THEN /\ hashrate' = [count |-> SumFunction(counts),
                           from |-> hashrateTime, to |-> now]
           /\ hashcount' = [d \in Devices |-> 0]
           /\ hashrateTime' = now
      ELSE /\ hashcount' = counts
           /\ UNCHANGED <<hashrate, hashrateTime>>

\* _store_hash: device d has computed n hashes; a call with none returns.
store_hash(d, n) ==
    /\ n > 0
    /\ hashCount' = hashCount + n
    /\ total' = total + n
    /\ update_hashrate([hashcount EXCEPT ![d] = @ + n])
    /\ UNCHANGED <<now, timings, beginRound, marks>>

\* get_current_hash_rate, on the main thread; the answer is hashrate'.
get_current_hash_rate ==
    /\ update_hashrate(hashcount)
    /\ UNCHANGED <<now, hashCount, timings, beginRound, total, marks>>

\* _store_device_info: a fresh device_info for the devices S.
store_device_info(S) ==
    /\ hashcount' = [d \in Devices |-> IF d \in S THEN 0 ELSE hashcount[d]]
    /\ UNCHANGED <<now, hashrate, hashrateTime, hashCount, timings, beginRound,
                   total, marks>>

\* "we average over 20 blocks".
keep_rounds(s) == IF Len(s) > Rounds THEN Tail(s) ELSE s

\* Fault: the count of the round goes on.
close_round_without_reset ==
    /\ timings' = keep_rounds(Append(timings, [time  |-> now - beginRound,
                                               count |-> hashCount]))
    /\ beginRound' = now
    /\ marks' = Append(marks, [at |-> now, total |-> total])
    /\ UNCHANGED <<now, hashcount, hashrate, hashrateTime, hashCount, total>>

\* The part of set_input that closes a round.
close_round ==
    /\ timings' = keep_rounds(Append(timings, [time  |-> now - beginRound,
                                               count |-> hashCount]))
    /\ hashCount' = 0
    /\ beginRound' = now
    /\ marks' = Append(marks, [at |-> now, total |-> total])
    /\ UNCHANGED <<now, hashcount, hashrate, hashrateTime, total>>

SumOf(field) == SumFunction([i \in DOMAIN timings |-> timings[i][field]])

\* get_avg_hash_rate before the division.
get_avg_hash_rate == [count |-> SumOf("count") + hashCount,
                      time  |-> SumOf("time") + (now - beginRound)]
=============================================================================
