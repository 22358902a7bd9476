------------------------------- MODULE Miner --------------------------------
(***************************************************************************)
(* The mining application: miner/miner.cpp on the main thread, the signal  *)
(* handler of app/main.cpp, the workers of module Hasher and a pool that   *)
(* may be unreachable, answer with an error, or lose an answer.            *)
(*                                                                         *)
(* The main thread walks over the active hashers by iterators; "todo" is   *)
(* the set of hashers a loop has still to visit, "cur" the one it is at.   *)
(* The order of __registered_hashers is left open.  The interval timers    *)
(* (update_interval, report_interval) are a choice between the branch      *)
(* being due and not being due.                                            *)
(***************************************************************************)
EXTENDS Hasher

CONSTANTS
    PoolJobs,       \* what the pool may answer to getminingblock
    ThresholdHits   \* low reports before the miner gives up, 5 in the code

Versions == Nat
Jobs == [height : Nat, block_checksum : Chks, solver_address : Solvers,
         difficulty : 0..MaxDifficulty, version : Versions]

ASSUME PoolJobsAssumption == PoolJobs \subseteq Jobs

\* A block checksum is the checksum of one block: it fixes the height.
ASSUME ChecksumAssumption ==
    \A j, k \in PoolJobs :
        j.block_checksum = k.block_checksum => j.height = k.height

ASSUME ThresholdAssumption == ThresholdHits \in Nat \ {0}

VARIABLES
    mainApp,    \* main_app # NULL: the signal handler finds the miner
    running,    \* miner::__running
    settings,   \* __height ... __hash_ceil and __recommendation
    hsHits,     \* __hs_threshold_hit, saturating at ThresholdHits
    blocks,     \* __blocks_count, saturating at 2
    confirmed,  \* __confirmed, as the set of the nonces counted
    rejected,   \* __rejected, as the set of the nonces counted
    pc,         \* where the main thread is
    todo, cur,  \* iteration over the hashers
    newBlock,   \* set_input's local new_block
    batch,      \* miner::run's local hashes
    accepted,   \* history: nonces the pool answered with a result
    sent,       \* history: the shares submitted, each with its height
    tries,      \* history: how often each nonce was submitted
    expired,    \* history: nonces dropped by the checksum test
    stopAsked   \* history: miner::stop was called

minerVars == <<mainApp, running, settings, hsHits, blocks, confirmed,
               rejected, pc, todo, cur, newBlock, batch, accepted, sent, tries,
               expired, stopAsked>>
vars == <<hasherVars, minerVars>>

\* Fault: arithmetic instead of bitwise negation.
calc_hash_ceil_negated(difficulty) == -difficulty

\* calc_hash_ceil: two zero bytes, then the complement of the difficulty in
\* 64 bits, big-endian; the number these ten bytes write.
calc_hash_ceil(difficulty) == MaxDifficulty - difficulty

\* The body of a response: empty (no answer), without "result", with a
\* result and an error, with a result alone.
Responses == {"empty", "invalid", "error", "result"}

EmptySettings ==
    [height |-> 0, block_checksum |-> NoChecksum, solver_address |-> NoSolver,
     difficulty |-> 0, version |-> 0, recommendation |-> "",
     hash_ceil |-> NoCeil]

NoHasher == Free

MainPCs == {"configure", "rate", "input", "inputRest", "round", "enter",
            "loop", "scan", "clear", "submit", "update", "report",
            "reporting", "cleanup", "join", "done", "exited"}

Init ==
    /\ HasherInit
    /\ mainApp = FALSE
    /\ running = FALSE
    /\ settings = EmptySettings
    /\ hsHits = 0
    /\ blocks = 1
    /\ confirmed = {}
    /\ rejected = {}
    /\ pc = "configure"
    /\ todo = Hashers
    /\ cur = NoHasher
    /\ newBlock = FALSE
    /\ batch = {}
    /\ accepted = {}
    /\ sent = {}
    /\ tries = [n \in Nonces |-> 0]
    /\ expired = {}
    /\ stopAsked = FALSE

-----------------------------------------------------------------------------
(* miner::miner.                                                           *)

\* A hasher's turn in the constructor: it comes up or stays inactive.
Configure(h) ==
    /\ pc = "configure"
    /\ h \in todo
    /\ todo' = todo \ {h}
    /\ configure(h) \/ configure_disabled(h)
    /\ UNCHANGED <<mainApp, running, settings, hsHits, blocks, confirmed,
                   rejected, pc, cur, newBlock, batch, accepted, sent, tries,
                   expired, stopAsked>>

\* The constructor goes on to its __update_pool_data.
Configured ==
    /\ pc = "configure"
    /\ todo = {}
    /\ pc' = "rate"
    /\ todo' = active
    /\ UNCHANGED <<hasherVars, mainApp, running, settings, hsHits, blocks,
                   confirmed, rejected, cur, newBlock, batch, accepted, sent,
                   tries, expired, stopAsked>>

-----------------------------------------------------------------------------
(* __update_pool_data.                                                     *)

\* get_avg_hash_rate of one hasher.
ReadRate(h) ==
    /\ pc = "rate"
    /\ h \in todo
    /\ todo' = todo \ {h}
    /\ statistics(h)
    /\ UNCHANGED <<mainApp, running, settings, hsHits, blocks, confirmed,
                   rejected, pc, cur, newBlock, batch, accepted, sent, tries,
                   expired, stopAsked>>

\* Fault: the hashers are told only when __update_pool_data returned true.
PoolFailed_untold ==
    /\ pc = "rate"
    /\ todo = {}
    /\ settings' = [settings EXCEPT !.recommendation = "pause"]
    /\ pc' = IF mainApp THEN "report" ELSE "input"
    /\ todo' = IF mainApp THEN {} ELSE active
    /\ UNCHANGED <<hasherVars, mainApp, running, hsHits, blocks, confirmed,
                   rejected, cur, newBlock, batch, accepted, sent, tries,
                   expired, stopAsked>>

\* The request fails: nothing but __recommendation changes, and the caller
\* hands the pause to every hasher.
PoolFailed ==
    /\ pc = "rate"
    /\ todo = {}
    /\ settings' = [settings EXCEPT !.recommendation = "pause"]
    /\ pc' = "input"
    /\ todo' = active
    /\ UNCHANGED <<hasherVars, mainApp, running, hsHits, blocks, confirmed,
                   rejected, cur, newBlock, batch, accepted, sent, tries,
                   expired, stopAsked>>

\* The settings a successful update stores.
SettingsOf(job) ==
    [height |-> job.height, block_checksum |-> job.block_checksum,
     solver_address |-> job.solver_address, difficulty |-> job.difficulty,
     version |-> job.version, recommendation |-> "mine",
     hash_ceil |-> calc_hash_ceil(job.difficulty)]

\* Fault: __recommendation is left out of the test.
PoolDataDiffers_but_pause(job) ==
    \/ job.height # settings.height
    \/ job.block_checksum # settings.block_checksum
    \/ job.solver_address # settings.solver_address
    \/ job.difficulty # settings.difficulty
    \/ job.version # settings.version

\* The test of __update_pool_data on what it has and what the pool sent.
PoolDataDiffers(job) ==
    \/ job.height # settings.height
    \/ job.block_checksum # settings.block_checksum
    \/ job.solver_address # settings.solver_address
    \/ job.difficulty # settings.difficulty
    \/ job.version # settings.version
    \/ settings.recommendation # "mine"

\* The request succeeds.  The constructor calls set_input whatever
\* __update_pool_data returned, run() only when something changed.
PoolAnswered(job) ==
    /\ pc = "rate"
    /\ todo = {}
    /\ IF PoolDataDiffers(job)
         THEN /\ settings' = SettingsOf(job)
              /\ pc' = "input"
              /\ todo' = active
         ELSE /\ UNCHANGED settings
              /\ pc' = IF mainApp THEN "report" ELSE "input"
              /\ todo' = IF mainApp THEN {} ELSE active
    /\ UNCHANGED <<hasherVars, mainApp, running, hsHits, blocks, confirmed,
                   rejected, cur, newBlock, batch, accepted, sent, tries,
                   expired, stopAsked>>

-----------------------------------------------------------------------------
(* The loop over set_input, in the constructor and in run().               *)

SetInput(h) ==
    /\ pc = "input"
    /\ h \in todo
    /\ cur' = h
    /\ newBlock' = (settings.height # input[h].height)
    /\ set_input_begin(h, settings.height, settings.block_checksum,
                       settings.solver_address)
    /\ pc' = "inputRest"
    /\ UNCHANGED <<mainApp, running, settings, hsHits, blocks, confirmed,
                   rejected, todo, batch, accepted, sent, tries, expired,
                   stopAsked>>

SetInputRest ==
    /\ pc = "inputRest"
    /\ set_input_end(cur, settings.block_checksum, settings.solver_address,
                     settings.recommendation, settings.hash_ceil)
    /\ todo' = todo \ {cur}
    /\ pc' = IF newBlock THEN "round" ELSE "input"
    /\ cur' = IF newBlock THEN cur ELSE NoHasher
    /\ newBlock' = FALSE
    /\ UNCHANGED <<mainApp, running, settings, hsHits, blocks, confirmed,
                   rejected, batch, accepted, sent, tries, expired, stopAsked>>

\* The part of set_input that closes a round, for a new height only.
CloseRound ==
    /\ pc = "round"
    /\ statistics(cur)
    /\ cur' = NoHasher
    /\ pc' = "input"
    /\ UNCHANGED <<mainApp, running, settings, hsHits, blocks, confirmed,
                   rejected, todo, newBlock, batch, accepted, sent, tries,
                   expired, stopAsked>>

\* End of the loop: main stores main_app, or run() counts the block.
InputDone ==
    /\ pc = "input"
    /\ todo = {}
    /\ IF mainApp
         THEN /\ blocks' = IF settings.recommendation = "pause" THEN blocks
                                                                ELSE 2
              /\ pc' = "report"
         ELSE /\ blocks' = 1
              /\ pc' = "enter"
    /\ mainApp' = TRUE
    /\ UNCHANGED <<hasherVars, running, settings, hsHits, confirmed, rejected,
                   todo, cur, newBlock, batch, accepted, sent, tries, expired,
                   stopAsked>>

-----------------------------------------------------------------------------
(* miner::run.                                                             *)

\* Without hashers __running keeps the value it has.
Enter ==
    /\ pc = "enter"
    /\ running' = IF active = {} THEN running ELSE TRUE
    /\ pc' = "loop"
    /\ UNCHANGED <<hasherVars, mainApp, settings, hsHits, blocks, confirmed,
                   rejected, todo, cur, newBlock, batch, accepted, sent, tries,
                   expired, stopAsked>>

\* Fault: paused hashers are not visited.
LoopTest_skip_paused ==
    /\ pc = "loop"
    /\ pc' = IF running THEN "scan" ELSE "cleanup"
    /\ todo' = IF running /\ settings.recommendation = "pause" THEN {}
                                                              ELSE active
    /\ UNCHANGED <<hasherVars, mainApp, running, settings, hsHits, blocks,
                   confirmed, rejected, cur, newBlock, batch, accepted, sent,
                   tries, expired, stopAsked>>

\* while (__running).
LoopTest ==
    /\ pc = "loop"
    /\ pc' = IF running THEN "scan" ELSE "cleanup"
    /\ todo' = active
    /\ UNCHANGED <<hasherVars, mainApp, running, settings, hsHits, blocks,
                   confirmed, rejected, cur, newBlock, batch, accepted, sent,
                   tries, expired, stopAsked>>

\* Fault: break without __running = false.
ScanStopped_without_stop(h) ==
    /\ pc = "scan"
    /\ h \in todo
    /\ ~isRunning[h]
    /\ todo' = {}
    /\ pc' = "update"
    /\ UNCHANGED <<hasherVars, mainApp, running, settings, hsHits, blocks,
                   confirmed, rejected, cur, newBlock, batch, accepted, sent,
                   tries, expired, stopAsked>>

\* A hasher that stopped ends the loop over the hashers and the miner, but
\* not this turn of the while loop.
ScanStopped(h) ==
    /\ pc = "scan"
    /\ h \in todo
    /\ ~isRunning[h]
    /\ running' = FALSE
    /\ todo' = {}
    /\ pc' = "update"
    /\ UNCHANGED <<hasherVars, mainApp, settings, hsHits, blocks, confirmed,
                   rejected, cur, newBlock, batch, accepted, sent, tries,
                   expired, stopAsked>>

GetHashes(h) ==
    /\ pc = "scan"
    /\ h \in todo
    /\ isRunning[h]
    /\ get_hashes_copy(h)
    /\ batch' = hashes[h]
    /\ cur' = h
    /\ pc' = "clear"
    /\ UNCHANGED <<mainApp, running, settings, hsHits, blocks, confirmed,
                   rejected, todo, newBlock, accepted, sent, tries, expired,
                   stopAsked>>

GetHashesDone ==
    /\ pc = "clear"
    /\ get_hashes_clear(cur)
    /\ todo' = todo \ {cur}
    /\ cur' = NoHasher
    /\ pc' = "submit"
    /\ UNCHANGED <<mainApp, running, settings, hsHits, blocks, confirmed,
                   rejected, newBlock, batch, accepted, sent, tries, expired,
                   stopAsked>>

\* Fault: the "continue" is missing, and an expired share is submitted too.
SkipExpired_without_continue(share) ==
    /\ pc = "submit"
    /\ share \in batch
    /\ share.work.block_checksum # settings.block_checksum
    /\ batch' = batch \ {share}
    /\ expired' = expired \cup {share.nonce}
    /\ tries' = [tries EXCEPT ![share.nonce] = @ + 1]
    /\ UNCHANGED <<hasherVars, mainApp, running, settings, hsHits, blocks,
                   confirmed, rejected, pc, todo, cur, newBlock, accepted,
                   sent, stopAsked>>

\* "the block expired": a share of another block is dropped.
SkipExpired(share) ==
    /\ pc = "submit"
    /\ share \in batch
    /\ share.work.block_checksum # settings.block_checksum
    /\ batch' = batch \ {share}
    /\ expired' = expired \cup {share.nonce}
    /\ UNCHANGED <<hasherVars, mainApp, running, settings, hsHits, blocks,
                   confirmed, rejected, pc, todo, cur, newBlock, accepted,
                   sent, tries, stopAsked>>

\* pool_client::submit: no response at all passes for success.
SubmitSuccess(response) == response \in {"empty", "result"}

\* Fault: the checksum of the share is not compared.
Submit_unchecked(share, response) ==
    /\ pc = "submit"
    /\ share \in batch
    /\ batch' = batch \ {share}
    /\ sent' = sent \cup {[share |-> share, height |-> settings.height]}
    /\ tries' = [tries EXCEPT ![share.nonce] = @ + 1]
    /\ UNCHANGED <<hasherVars, mainApp, running, settings, hsHits, blocks,
                   confirmed, rejected, pc, todo, cur, newBlock, accepted,
                   expired, stopAsked>>

\* A share of the current block is submitted, once, whatever comes back.
Submit(share, response) ==
    /\ pc = "submit"
    /\ share \in batch
    /\ share.work.block_checksum = settings.block_checksum
    /\ batch' = batch \ {share}
    /\ sent' = sent \cup {[share |-> share, height |-> settings.height]}
    /\ accepted' = IF response = "result" THEN accepted \cup {share.nonce}
                                           ELSE accepted
    /\ tries' = [tries EXCEPT ![share.nonce] = @ + 1]
    /\ IF SubmitSuccess(response)
         THEN confirmed' = confirmed \cup {share.nonce} /\ UNCHANGED rejected
         ELSE rejected' = rejected \cup {share.nonce} /\ UNCHANGED confirmed
    /\ UNCHANGED <<hasherVars, mainApp, running, settings, hsHits, blocks, pc,
                   todo, cur, newBlock, expired, stopAsked>>

BatchDone ==
    /\ pc = "submit"
    /\ batch = {}
    /\ pc' = "scan"
    /\ UNCHANGED <<hasherVars, mainApp, running, settings, hsHits, blocks,
                   confirmed, rejected, todo, cur, newBlock, batch, accepted,
                   sent, tries, expired, stopAsked>>

ScanDone ==
    /\ pc = "scan"
    /\ todo = {}
    /\ pc' = "update"
    /\ UNCHANGED <<hasherVars, mainApp, running, settings, hsHits, blocks,
                   confirmed, rejected, todo, cur, newBlock, batch, accepted,
                   sent, tries, expired, stopAsked>>

\* The update interval has run out...
UpdateDue ==
    /\ pc = "update"
    /\ pc' = "rate"
    /\ todo' = active
    /\ UNCHANGED <<hasherVars, mainApp, running, settings, hsHits, blocks,
                   confirmed, rejected, cur, newBlock, batch, accepted, sent,
                   tries, expired, stopAsked>>

\* ...or has not.
UpdateNotDue ==
    /\ pc = "update"
    /\ pc' = "report"
    /\ UNCHANGED <<hasherVars, mainApp, running, settings, hsHits, blocks,
                   confirmed, rejected, todo, cur, newBlock, batch, accepted,
                   sent, tries, expired, stopAsked>>

\* The report interval has run out...
ReportDue ==
    /\ pc = "report"
    /\ pc' = "reporting"
    /\ todo' = active
    /\ UNCHANGED <<hasherVars, mainApp, running, settings, hsHits, blocks,
                   confirmed, rejected, cur, newBlock, batch, accepted, sent,
                   tries, expired, stopAsked>>

\* ...or has not; the turn ends.
ReportNotDue ==
    /\ pc = "report"
    /\ pc' = "loop"
    /\ UNCHANGED <<hasherVars, mainApp, running, settings, hsHits, blocks,
                   confirmed, rejected, todo, cur, newBlock, batch, accepted,
                   sent, tries, expired, stopAsked>>

\* get_current_hash_rate and get_avg_hash_rate of one hasher.
ReportRate(h) ==
    /\ pc = "reporting"
    /\ h \in todo
    /\ todo' = todo \ {h}
    /\ statistics(h)
    /\ UNCHANGED <<mainApp, running, settings, hsHits, blocks, confirmed,
                   rejected, pc, cur, newBlock, batch, accepted, sent, tries,
                   expired, stopAsked>>

\* __hs_threshold_hit after a report whose rate is under the threshold or not.
HitsAfter(low) ==
    CASE settings.recommendation = "pause" -> hsHits
      [] low -> IF hsHits = ThresholdHits THEN hsHits ELSE hsHits + 1
      [] OTHER -> 0

\* The end of __display_report; exit(0) when the rate stayed low.
Report(low) ==
    /\ pc = "reporting"
    /\ todo = {}
    /\ hsHits' = HitsAfter(low)
    /\ pc' = IF hsHits' = ThresholdHits /\ blocks > 1 THEN "exited" ELSE "loop"
    /\ UNCHANGED <<hasherVars, mainApp, running, settings, blocks, confirmed,
                   rejected, todo, cur, newBlock, batch, accepted, sent, tries,
                   expired, stopAsked>>

\* cleanup() of one hasher, up to its first join.
Cleanup(h) ==
    /\ pc = "cleanup"
    /\ h \in todo
    /\ cleanup_stop(h)
    /\ cur' = h
    /\ pc' = "join"
    /\ UNCHANGED <<mainApp, running, settings, hsHits, blocks, confirmed,
                   rejected, todo, newBlock, batch, accepted, sent, tries,
                   expired, stopAsked>>

Join ==
    /\ pc = "join"
    /\ cleanup_join(cur)
    /\ todo' = todo \ {cur}
    /\ cur' = NoHasher
    /\ pc' = "cleanup"
    /\ UNCHANGED <<mainApp, running, settings, hsHits, blocks, confirmed,
                   rejected, newBlock, batch, accepted, sent, tries, expired,
                   stopAsked>>

\* __disconnect_from_pool, and main returns.
Disconnect ==
    /\ pc = "cleanup"
    /\ todo = {}
    /\ pc' = "done"
    /\ UNCHANGED <<hasherVars, mainApp, running, settings, hsHits, blocks,
                   confirmed, rejected, todo, cur, newBlock, batch, accepted,
                   sent, tries, expired, stopAsked>>

-----------------------------------------------------------------------------
Terminated == pc \in {"done", "exited"}

\* The process is gone, whatever its threads were doing.
ProcessEnded == Terminated /\ UNCHANGED vars

\* SIGINT: shutdown() calls miner::stop() if it finds the miner.
Signal ==
    /\ ~Terminated
    /\ mainApp
    /\ running' = FALSE
    /\ stopAsked' = TRUE
    /\ UNCHANGED <<hasherVars, mainApp, settings, hsHits, blocks, confirmed,
                   rejected, pc, todo, cur, newBlock, batch, accepted, sent,
                   tries, expired>>

WorkerStep(w) ==
    /\ ~Terminated
    /\ run(w)
    /\ UNCHANGED minerVars

MainStep ==
    \/ \E h \in Hashers : \/ Configure(h)
                          \/ ReadRate(h)
                          \/ SetInput(h)
                          \/ ScanStopped(h)
                          \/ GetHashes(h)
                          \/ ReportRate(h)
                          \/ Cleanup(h)
    \/ Configured
    \/ PoolFailed
    \/ \E job \in PoolJobs : PoolAnswered(job)
    \/ SetInputRest
    \/ CloseRound
    \/ InputDone
    \/ Enter
    \/ LoopTest
    \/ GetHashesDone
    \/ \E share \in batch : \/ SkipExpired(share)
                            \/ \E response \in Responses :
                                  Submit(share, response)
    \/ BatchDone
    \/ ScanDone
    \/ UpdateDue
    \/ UpdateNotDue
    \/ ReportDue
    \/ ReportNotDue
    \/ \E low \in BOOLEAN : Report(low)
    \/ Join
    \/ Disconnect

Next ==
    \/ MainStep
    \/ \E w \in Workers : WorkerStep(w)
    \/ Signal
    \/ ProcessEnded

Spec == Init /\ [][Next]_vars

\* The scheduler runs every thread that can run, a mutex released again and
\* again is got some day, and an HTTP call returns.
Fairness == /\ SF_vars(MainStep)
            /\ \A w \in Workers : WF_vars(WorkerStep(w))

FairSpec == Spec /\ Fairness

\* What PauseLifts assumes of the environment: the update interval runs out
\* again and again, and a pool that is asked again and again answers some day.
PoolFairness == /\ SF_vars(UpdateDue)
                /\ SF_vars(\E job \in PoolJobs : PoolAnswered(job))

-----------------------------------------------------------------------------
(* Properties.                                                             *)

TypeOK ==
    /\ HasherTypeOK
    /\ mainApp \in BOOLEAN
    /\ running \in BOOLEAN
    /\ settings \in [height : Nat, block_checksum : Chks,
                     solver_address : Solvers \cup {NoSolver},
                     difficulty : 0..MaxDifficulty, version : Versions,
                     recommendation : {"", "mine", "pause"},
                     hash_ceil : Ceils]
    /\ hsHits \in 0..ThresholdHits
    /\ blocks \in {1, 2}
    /\ confirmed \subseteq Nonces
    /\ rejected \subseteq Nonces
    /\ pc \in MainPCs
    /\ todo \subseteq Hashers
    /\ cur \in Hashers \cup {NoHasher}
    /\ pc \in {"inputRest", "round", "clear", "join"} => cur \in Hashers
    /\ newBlock \in BOOLEAN
    /\ batch \subseteq Shares
    /\ accepted \subseteq Nonces
    /\ sent \subseteq [share : Shares, height : Nat]
    /\ tries \in [Nonces -> Nat]
    /\ expired \subseteq Nonces
    /\ stopAsked \in BOOLEAN

\* What a hasher hands out for a job.
WorkOf(job) ==
    [block_checksum |-> job.block_checksum,
     hash_ceil |-> calc_hash_ceil(job.difficulty),
     base |-> make_base(job.block_checksum, job.solver_address)]

Queued == UNION {hashes[h] : h \in Hashers}
InHand == UNION {out[w] : w \in Workers}

\* A worker hashes, and a found share carries, the checksum, the ceiling and
\* the base of one and the same job of the pool, never a mixture of the job
\* before and the job after a set_input (hasher.cpp, __input_mutex).
WorkIsOneJob ==
    /\ \A w \in Workers :
         wpc[w] \in {"hash", "store", "storing"} =>
            \E job \in PoolJobs : work[w] = WorkOf(job)
    /\ \A share \in InHand \cup Queued \cup batch :
         \E job \in PoolJobs : share.work = WorkOf(job)

\* A nonce reaches the pool with the height of the very block its hash was
\* computed for, although the share does not carry a height and the miner
\* adds the one it has when it submits (miner.cpp, run and
\* __update_pool_data).
SentForItsBlock ==
    \A s \in sent : \E job \in PoolJobs :
        s.share.work = WorkOf(job) /\ s.height = job.height

NoncesIn(shares) == {share.nonce : share \in shares}

\* Until the process ends every nonce found is with its worker, in its
\* hasher's queue, in the batch of the main thread, submitted or dropped as
\* expired: workers storing while get_hashes empties the queue lose none.
NoShareLost ==
    drawn = NoncesIn(InHand) \cup NoncesIn(Queued) \cup NoncesIn(batch)
               \cup {s.share.nonce : s \in sent} \cup expired

\* No nonce found is submitted twice, whatever the pool answers and however
\* the workers' _store_hash and the main thread's get_hashes interleave.
SubmittedOnce == \A n \in Nonces : tries[n] <= 1

\* Hasher h has the settings the miner holds.
FollowsMiner(h) ==
    input[h] = [height |-> settings.height,
                block_checksum |-> settings.block_checksum,
                solver_address |-> settings.solver_address,
                base |-> make_base(settings.block_checksum,
                                   settings.solver_address),
                hash_ceil |-> settings.hash_ceil,
                pause |-> (settings.recommendation = "pause")]

\* Outside an update of the hashers, every active hasher works on exactly
\* the settings the miner holds, and is paused exactly when the miner is:
\* no path through __update_pool_data forgets to hand a change on.
InputsFollowMiner ==
    pc \notin {"configure", "rate", "input", "inputRest", "round"}
      => \A h \in active : FollowsMiner(h)

\* No thread runs in a filler module that was unloaded, and none is left when
\* main returns (cpu_hasher::cleanup: join before dlclose).
NoThreadOutlivesModule ==
    /\ \A w \in Workers :
         wpc[w] \notin {"off", "done"} => HasherOf[w] \in loaded
    /\ pc = "done" => \A w \in Workers : wpc[w] \in {"off", "done"}

\* While the pool is out of reach and the miner has paused its hashers, no
\* worker goes from its pause test on to new work.  (One that had passed the
\* test before still computes a batch.)
NoNewWorkWhilePaused ==
    [][ (settings.recommendation = "pause"
          /\ pc \notin {"input", "inputRest", "round"})
        => \A w \in Workers : ~(wpc[w] = "pause" /\ wpc'[w] = "get") ]_vars

InLoop == mainApp /\ pc # "enter"

\* Once run() has entered its loop, a request to stop is final: the miner
\* joins its workers and returns (miner.cpp, stop and run).
StopHonoured == (InLoop /\ ~running) ~> Terminated

\* A worker that cannot get its memory stops its hasher, and that stops the
\* miner, whenever it happens (cpu_hasher.cpp, __run; miner.cpp, run).
DeadHasherEndsMiner == (\E h \in active : ~isRunning[h]) ~> Terminated

\* A share does not stay in a queue: the main thread takes it up unless the
\* process ends first.
QueueIsDrained ==
    \A n \in Nonces : (n \in NoncesIn(Queued)) ~> (n \notin NoncesIn(Queued) \/ Terminated)

\* A pause is over once the pool answers again, even with the very job the
\* miner had before the pool went away.
PauseLifts ==
    PoolFairness =>
        ((mainApp /\ settings.recommendation = "pause")
            ~> (Terminated \/ \A h \in active : ~input[h].pause))

\* What stop() prints: "Received termination request, please wait for
\* cleanup": a request is followed by the end, whenever it comes.
StopAlwaysHonoured == stopAsked ~> Terminated

\* What run() prints: "Nonce confirmed": the pool did answer with a result.
ConfirmedByPool == confirmed \subseteq accepted
=============================================================================
