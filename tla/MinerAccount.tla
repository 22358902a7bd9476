---------------------------- MODULE MinerAccount ----------------------------
(***************************************************************************)
(* The miner's loop (miner/miner.cpp) on top of module PoolClient: whose   *)
(* job is mined, to whom a share goes, and how long a pool that does not   *)
(* answer keeps the miner from working, while the developer fee, new       *)
(* settings and the "Proxy" extension move the account in effect.          *)
(*                                                                         *)
(* One unit of time is one turn of the loop.  One hasher works on one      *)
(* batch at a time; the locks between it and the loop are the subject of   *)
(* module Miner, so that set_input and get_hashes are single steps here.   *)
(* The worker's test for a pause and its fetch of the input stay two.      *)
(***************************************************************************)
EXTENDS PoolClient, Integers

CONSTANTS
    Checksums,  \* block checksums; pools at work on one chain share them
    NoJob,      \* no job so far, no batch
    Interval,   \* update_interval, in turns of the loop
    Setup       \* bound on the time it takes to set up the hashers

ASSUME IntervalAssumption == Interval \in Nat \ {0} /\ Setup \in Nat

VARIABLES
    mpc,        \* where the main thread is
    job,        \* __block_checksum and, by its pool, __solver_address
    paused,     \* __recommendation = "pause"
    lastUpdate, \* last_update of run
    passed,     \* past _should_pause: history, the last update by then
    batch,      \* the batch in work
    hashes,     \* hasher::__hashes
    taken,      \* run's local hashes
    holder,     \* history: the account of the last successful update
    pausedBy,   \* history: the account whose request failed last
    turnedAt    \* history: when the account in effect last changed

accountVars == <<mpc, job, paused, lastUpdate, passed, batch, hashes, taken,
                 holder, pausedBy>>
allVars == <<vars, accountVars, turnedAt>>

\* The account __get_pool_settings would name now.
InEffect == Target(IF UsesDev THEN dev ELSE user)

Jobs == [pool : Pools, checksum : Checksums]

\* last_update = 0 on a clock that counts from 1970: an update is due.
LongAgo == -(Interval + 1)

\* A share: its block, and as history the account whose job it was found for
\* and the update that was the last when its worker tested for a pause.
Shares == [checksum : Checksums, holder : Targets, asOf : LongAgo..MaxTime]

\* The miner's variables end with the process; its constructor finds them so.
Forget ==
    /\ mpc' = "construct"
    /\ job' = NoJob
    /\ paused' = FALSE
    /\ lastUpdate' = LongAgo
    /\ passed' = NoJob
    /\ batch' = NoJob
    /\ hashes' = {}
    /\ taken' = {}
    /\ holder' = NoTarget
    /\ pausedBy' = NoTarget

-----------------------------------------------------------------------------
(* The main thread.                                                        *)

\* __update_pool_data when the request fails: the hashers are paused.
update_failed(target) ==
    /\ paused' = TRUE
    /\ pausedBy' = Target(target)
    /\ UNCHANGED <<job, holder>>

\* Fault: a job of the block at hand is taken for the job at hand.
update_success_by_block(target) ==
    /\ \E checksum \in Checksums :
          IF job # NoJob /\ checksum = job.checksum
            THEN UNCHANGED <<job, holder>>
            ELSE /\ job' = [pool |-> target.pool, checksum |-> checksum]
                 /\ holder' = Target(target)
    /\ paused' = FALSE
    /\ pausedBy' = NoTarget

\* A job arrives; if anything in it is new the hashers are given it, else
\* they have it, and work.
update_success(target) ==
    /\ \E checksum \in Checksums :
          job' = [pool |-> target.pool, checksum |-> checksum]
    /\ paused' = FALSE
    /\ holder' = Target(target)
    /\ pausedBy' = NoTarget

\* __update_pool_data; the answer may announce extensions, with a job or not.
update_pool_data(d, url) ==
    LET target == IF UsesDev THEN d ELSE user
    IN  /\ \/ \E extensions \in Announcements : update(d, url, extensions)
           \/ request_silent(d, url)
        /\ update_success(target) \/ update_failed(target)

\* The constructor sets the hashers up: this takes time, bounded by Setup.
SetUp ==
    /\ mpc = "construct"
    /\ now < Setup
    /\ Tick
    /\ UNCHANGED accountVars

\* The constructor's update; then run() begins.
FirstUpdate(d, url) ==
    /\ mpc = "construct"
    /\ update_pool_data(d, url)
    /\ mpc' = "scan"
    /\ UNCHANGED <<lastUpdate, passed, batch, hashes, taken>>

get_hashes ==
    /\ up
    /\ mpc = "scan"
    /\ taken' = hashes
    /\ hashes' = {}
    /\ mpc' = "submit"
    /\ UNCHANGED <<vars, job, paused, lastUpdate, passed, batch, holder,
                   pausedBy>>

\* A share of the block at hand is submitted, to the account of the moment.
submit(share, d, url) ==
    /\ mpc = "submit"
    /\ share.checksum = job.checksum
    /\ request_silent(d, url)
    /\ taken' = taken \ {share}
    /\ UNCHANGED <<mpc, job, paused, lastUpdate, passed, batch, hashes,
                   holder, pausedBy>>

\* "the block expired".
skip_expired(share) ==
    /\ up
    /\ mpc = "submit"
    /\ share.checksum # job.checksum
    /\ taken' = taken \ {share}
    /\ UNCHANGED <<vars, mpc, job, paused, lastUpdate, passed, batch, hashes,
                   holder, pausedBy>>

\* Fault: a paused miner does not ask for a job.
UpdateDue_unless_paused == ~paused /\ now - lastUpdate > Interval

UpdateDue == now - lastUpdate > Interval

Update(d, url) ==
    /\ mpc = "submit"
    /\ taken = {}
    /\ UpdateDue
    /\ update_pool_data(d, url)
    /\ lastUpdate' = now
    /\ mpc' = "sleep"
    /\ UNCHANGED <<passed, batch, hashes, taken>>

\* The end of a turn, 100 ms of sleep.
Sleep ==
    /\ \/ mpc = "sleep"
       \/ mpc = "submit" /\ taken = {} /\ ~UpdateDue
    /\ Tick
    /\ mpc' = "scan"
    /\ UNCHANGED <<job, paused, lastUpdate, passed, batch, hashes, taken,
                   holder, pausedBy>>

\* run() ends, by a signal or a report, at the head of a turn.
EndRun(d, url) ==
    /\ mpc = "scan"
    /\ disconnect(d, url)
    /\ Forget

-----------------------------------------------------------------------------
(* The hasher.                                                             *)

\* The worker finds no pause, and has not asked for the input yet.
PassPause ==
    /\ up
    /\ ~paused
    /\ passed = NoJob
    /\ batch = NoJob
    /\ passed' = lastUpdate
    /\ UNCHANGED <<vars, mpc, job, paused, lastUpdate, batch, hashes, taken,
                   holder, pausedBy>>

\* _get_input, whatever has happened since: a job of an empty checksum sends
\* the worker back to its test.
BeginBatch ==
    /\ up
    /\ passed # NoJob
    /\ passed' = NoJob
    /\ batch' = IF job = NoJob THEN NoJob
                ELSE [checksum |-> job.checksum, holder |-> holder,
                      asOf |-> passed]
    /\ UNCHANGED <<vars, mpc, job, paused, lastUpdate, hashes, taken, holder,
                   pausedBy>>

\* A batch ends, with a share or without.
EndBatch ==
    /\ up
    /\ batch # NoJob
    /\ batch' = NoJob
    /\ hashes' \in {hashes, hashes \cup {batch}}
    /\ UNCHANGED <<vars, mpc, job, paused, lastUpdate, passed, taken, holder,
                   pausedBy>>

-----------------------------------------------------------------------------

\* The constructors' start; the miner's own variables are fresh.
Start(d, pool, url) == start(d, pool, url) /\ UNCHANGED accountVars

Killed == Kill /\ Forget

AccountInit ==
    /\ Init
    /\ mpc = "construct"
    /\ job = NoJob
    /\ paused = FALSE
    /\ lastUpdate = LongAgo
    /\ passed = NoJob
    /\ batch = NoJob
    /\ hashes = {}
    /\ taken = {}
    /\ holder = NoTarget
    /\ pausedBy = NoTarget
    /\ turnedAt = 0

Steps ==
    \/ \E url \in UrlDocuments : \E d \in Fetched(dev, user, url) \cup {dev} :
          \/ FirstUpdate(d, url)
          \/ Update(d, url)
          \/ \E share \in taken : submit(share, d, url)
          \/ EndRun(d, url)
    \/ \E share \in taken : skip_expired(share)
    \/ \E url \in UrlDocuments, pool \in Pools :
          \E d \in Fetched(NoDev, NewSettings(UserWallet, pool), url) :
             Start(d, pool, url)
    \/ get_hashes
    \/ SetUp
    \/ Sleep
    \/ PassPause
    \/ BeginBatch
    \/ EndBatch
    \/ Killed

\* Every step tells whether the account in effect has changed.
AccountNext ==
    /\ Steps
    /\ turnedAt' = IF InEffect' # InEffect THEN now' ELSE turnedAt

AccountSpec == AccountInit /\ [][AccountNext]_allVars

-----------------------------------------------------------------------------
(* Properties.                                                             *)

AccountTypeOK ==
    /\ TypeOK
    /\ mpc \in {"construct", "scan", "submit", "sleep"}
    /\ job \in Jobs \cup {NoJob}
    /\ paused \in BOOLEAN
    /\ lastUpdate \in LongAgo..MaxTime
    /\ passed \in (LongAgo..MaxTime) \cup {NoJob}
    /\ batch \in Shares \cup {NoJob}
    /\ hashes \subseteq Shares
    /\ taken \subseteq Shares
    /\ turnedAt \in 0..MaxTime

\* A share goes to another account than the one its job was fetched for only
\* if its worker had passed the pause test before the update that follows the
\* change of accounts: client.cpp takes the settings of the moment and
\* miner.cpp compares no more than the checksum, but neither a dead pool nor
\* new settings in the middle of the developer's minute make this last.  It
\* is the test that counts and not the fetch: a worker between the two takes
\* the old account's job after an update that failed, and mines it paused.
SharesFollowAccount ==
    [][\A share \in taken \ taken' :
         up' /\ share.checksum = job.checksum =>
            \/ share.holder = Target(IF UsesDev THEN dev' ELSE user)
            \/ share.asOf <= turnedAt']_allVars

\* A pool that does not answer keeps the miner paused at most one interval
\* longer than it is the account in effect: a dead developer pool costs the
\* user the developer's minute and no more.
PauseFollowsAccount ==
    up /\ paused /\ pausedBy # InEffect =>
        /\ lastUpdate <= turnedAt
        /\ now <= lastUpdate + Interval + 1
=============================================================================
