---------------------------- MODULE MinerProofs -----------------------------
(***************************************************************************)
(* Theorems about module Miner, for every set of hashers, workers, nonces  *)
(* and jobs.                                                               *)
(***************************************************************************)
EXTENDS MinerInv, TLAPS

USE HasherOfAssumption, HolderAssumption, MaxDifficultyAssumption,
    PoolJobsAssumption, ThresholdAssumption

-----------------------------------------------------------------------------
(* Types.                                                                  *)

\* The work of a worker that has none, and the input of a hasher that has had
\* none, are well typed.
LEMMA EmptyTypes == EmptyInput \in Inputs /\ EmptyWork \in Work
  BY DEF EmptyInput, EmptyWork, Inputs, Work, make_base, Bases, Ceils, Chks,
         NoCeil

\* The settings a pool's job gives are well typed.
LEMMA SettingsType ==
  ASSUME NEW job \in PoolJobs
  PROVE  /\ job.height \in Nat
         /\ job.block_checksum \in Chks
         /\ job.solver_address \in Solvers
         /\ job.difficulty \in 0..MaxDifficulty
         /\ job.version \in Versions
         /\ calc_hash_ceil(job.difficulty) \in Ceils
  <1>1. job \in Jobs
    OBVIOUS
  <1> QED
    BY <1>1 DEF Jobs, calc_hash_ceil, Ceils

\* A step of a worker keeps the types of the hashers (cpu_hasher::__run).
LEMMA WorkerTypes ==
  ASSUME HasherTypeOK, NEW w \in Workers, run(w)
  PROVE  HasherTypeOK'
  <1> USE DEF HasherTypeOK, WorkerPCs
  <1>h. HasherOf[w] \in Hashers
    OBVIOUS
  <1>1. CASE run_alloc(w)
    BY <1>1 DEF run_alloc
  <1>2. CASE run_alloc_failed(w)
    BY <1>2, <1>h DEF run_alloc_failed
  <1>3. CASE run_loop(w)
    BY <1>3 DEF run_loop
  <1>4. CASE run_exit(w)
    BY <1>4, <1>h DEF run_exit
  <1>5. CASE should_pause(w)
    BY <1>5 DEF should_pause
  <1>6. CASE get_input_begin(w)
    <2>a. input[HasherOf[w]] \in Inputs /\ work[w] \in Work
      BY <1>h
    <2>b. work'[w] =
            [work[w] EXCEPT
               !.block_checksum = input[HasherOf[w]].block_checksum,
               !.hash_ceil = input[HasherOf[w]].hash_ceil]
      BY <1>6, <2>a DEF get_input_begin
    <2> HIDE DEF HasherTypeOK
    <2>1. work'[w] \in Work
      BY <2>a, <2>b DEF Work, Inputs
    <2> USE DEF HasherTypeOK
    <2> QED
      BY <1>6, <1>h, <2>1 DEF get_input_begin
  <1>7. CASE get_input_end(w)
    <2>1. work'[w] \in Work
      BY <1>7, <1>h DEF get_input_end, Work, Inputs
    <2> QED
      BY <1>7, <1>h, <2>1 DEF get_input_end
  <1>8. ASSUME NEW n \in Nonces, generate_found(w, n)
        PROVE  HasherTypeOK'
    <2>1. [nonce |-> n, work |-> work[w]] \in Shares
      BY DEF Shares
    <2> QED
      BY <1>8, <2>1 DEF generate_found
  <1>9. CASE generate_missed(w)
    BY <1>9 DEF generate_missed
  <1>10. CASE store_hash_begin(w)
    BY <1>10, <1>h DEF store_hash_begin
  <1>11. CASE store_hash_end(w)
    BY <1>11, <1>h, EmptyTypes DEF store_hash_end
  <1> QED
    BY <1>1, <1>2, <1>3, <1>4, <1>5, <1>6, <1>7, <1>8, <1>9, <1>10, <1>11
       DEF run

\* set_input keeps the types of the hashers.
LEMMA SetInputTypes ==
  ASSUME HasherTypeOK, NEW h \in Hashers, NEW height \in Nat,
         NEW checksum \in Chks, NEW solver \in Solvers \cup {NoSolver},
         NEW recommendation, NEW hash_ceil \in Ceils,
         \/ set_input_begin(h, height, checksum, solver)
         \/ set_input_end(h, checksum, solver, recommendation, hash_ceil)
  PROVE  HasherTypeOK'
  <1>1. CASE set_input_begin(h, height, checksum, solver)
    <2>a. input'[h] = [input[h] EXCEPT !.height = height,
                                       !.block_checksum = checksum,
                                       !.solver_address = solver]
      BY <1>1 DEF set_input_begin, HasherTypeOK
    <2>b. input[h] \in Inputs
      BY DEF HasherTypeOK
    <2>1. input'[h] \in Inputs
      BY <2>a, <2>b DEF Inputs
    <2> QED
      BY <1>1, <2>1 DEF set_input_begin, HasherTypeOK
  <1>2. CASE set_input_end(h, checksum, solver, recommendation, hash_ceil)
    <2> DEFINE p == recommendation = "pause"
    <2>a. p \in BOOLEAN
      OBVIOUS
    <2>b. input'[h] = [input[h] EXCEPT !.base = make_base(checksum, solver),
                                       !.hash_ceil = hash_ceil, !.pause = p]
      BY <1>2 DEF set_input_end, HasherTypeOK
    <2>c. make_base(checksum, solver) \in Bases
      BY DEF make_base, Bases
    <2>d. input[h] \in Inputs
      BY DEF HasherTypeOK
    <2> HIDE DEF p
    <2>1. input'[h] \in Inputs
      BY <2>a, <2>b, <2>c, <2>d DEF Inputs
    <2> QED
      BY <1>2, <2>1 DEF set_input_end, HasherTypeOK
  <1> QED
    BY <1>1, <1>2

\* The other operations of the main thread keep the types of the hashers.
LEMMA OperationTypes ==
  ASSUME HasherTypeOK, NEW h \in Hashers,
         \/ configure(h)
         \/ configure_disabled(h)
         \/ statistics(h)
         \/ get_hashes_copy(h)
         \/ get_hashes_clear(h)
         \/ cleanup_stop(h)
         \/ cleanup_join(h)
         \/ UNCHANGED hasherVars
  PROVE  HasherTypeOK'
  <1> USE DEF HasherTypeOK, WorkerPCs
  <1>1. CASE configure(h)
    BY <1>1 DEF configure
  <1>2. CASE configure_disabled(h)
    BY <1>2 DEF configure_disabled
  <1>3. CASE statistics(h)
    BY <1>3 DEF statistics, hasherVars
  <1>4. CASE get_hashes_copy(h)
    BY <1>4 DEF get_hashes_copy
  <1>5. CASE get_hashes_clear(h)
    BY <1>5 DEF get_hashes_clear
  <1>6. CASE cleanup_stop(h)
    BY <1>6 DEF cleanup_stop
  <1>7. CASE cleanup_join(h)
    BY <1>7 DEF cleanup_join
  <1>8. CASE UNCHANGED hasherVars
    BY <1>8 DEF hasherVars
  <1> QED
    BY <1>1, <1>2, <1>3, <1>4, <1>5, <1>6, <1>7, <1>8

\* A step that leaves the main thread alone keeps the types of its variables.
LEMMA MinerTypesUnchanged ==
  ASSUME TypeOK, HasherTypeOK', UNCHANGED minerVars
  PROVE  TypeOK'
  BY DEF TypeOK, minerVars

\* Every step of the system keeps its types.
LEMMA TypeStep == TypeOK /\ [Next]_vars => TypeOK'
  <1> SUFFICES ASSUME TypeOK, [Next]_vars
               PROVE  TypeOK'
    OBVIOUS
  <1> USE DEF TypeOK, MainPCs
  <1>h. HasherTypeOK /\ active \subseteq Hashers
    BY DEF HasherTypeOK
  <1>1. ASSUME NEW h \in Hashers, Configure(h)
        PROVE  TypeOK'
    <2>1. HasherTypeOK'
      BY <1>1, <1>h, OperationTypes DEF Configure
    <2> QED
      BY <1>1, <2>1 DEF Configure
  <1>2. ASSUME NEW h \in Hashers, ReadRate(h)
        PROVE  TypeOK'
    <2>1. HasherTypeOK'
      BY <1>2, <1>h, OperationTypes DEF ReadRate
    <2> QED
      BY <1>2, <2>1 DEF ReadRate
  <1>3. ASSUME NEW h \in Hashers, SetInput(h)
        PROVE  TypeOK'
    <2>1. HasherTypeOK'
      BY <1>3, <1>h, SetInputTypes DEF SetInput
    <2> QED
      BY <1>3, <2>1 DEF SetInput
  <1>4. ASSUME NEW h \in Hashers, ScanStopped(h)
        PROVE  TypeOK'
    <2>1. HasherTypeOK'
      BY <1>4, <1>h DEF ScanStopped, hasherVars, HasherTypeOK
    <2> QED
      BY <1>4, <1>h, <2>1 DEF ScanStopped
  <1>5. ASSUME NEW h \in Hashers, GetHashes(h)
        PROVE  TypeOK'
    <2>1. HasherTypeOK'
      BY <1>5, <1>h, OperationTypes DEF GetHashes
    <2>2. hashes[h] \subseteq Shares
      BY <1>h DEF HasherTypeOK
    <2> QED
      BY <1>5, <2>1, <2>2 DEF GetHashes
  <1>6. ASSUME NEW h \in Hashers, ReportRate(h)
        PROVE  TypeOK'
    <2>1. HasherTypeOK'
      BY <1>6, <1>h, OperationTypes DEF ReportRate
    <2> QED
      BY <1>6, <2>1 DEF ReportRate
  <1>7. ASSUME NEW h \in Hashers, Cleanup(h)
        PROVE  TypeOK'
    <2>1. HasherTypeOK'
      BY <1>7, <1>h, OperationTypes DEF Cleanup
    <2> QED
      BY <1>7, <2>1 DEF Cleanup
  <1>8. CASE Configured
    <2>1. HasherTypeOK'
      BY <1>8, <1>h DEF Configured, hasherVars, HasherTypeOK
    <2> QED
      BY <1>8, <1>h, <2>1 DEF Configured
  <1>9. CASE PoolFailed
    <2>1. HasherTypeOK'
      BY <1>9, <1>h DEF PoolFailed, hasherVars, HasherTypeOK
    <2> QED
      BY <1>9, <1>h, <2>1 DEF PoolFailed
  <1>10. ASSUME NEW job \in PoolJobs, PoolAnswered(job)
        PROVE  TypeOK'
    <2>1. HasherTypeOK'
      BY <1>10, <1>h DEF PoolAnswered, hasherVars, HasherTypeOK
    <2>2. CASE PoolDataDiffers(job)
      <3>1. settings' = SettingsOf(job)
        BY <1>10, <2>2 DEF PoolAnswered
      <3>2. settings' \in [height : Nat, block_checksum : Chks,
                           solver_address : Solvers \cup {NoSolver},
                           difficulty : 0..MaxDifficulty, version : Versions,
                           recommendation : {"", "mine", "pause"},
                           hash_ceil : Ceils]
        BY <3>1, SettingsType DEF SettingsOf
      <3> QED
        BY <1>10, <1>h, <2>1, <2>2, <3>2 DEF PoolAnswered
    <2>3. CASE ~PoolDataDiffers(job)
      BY <1>10, <1>h, <2>1, <2>3 DEF PoolAnswered
    <2> QED
      BY <2>2, <2>3
  <1>11. CASE SetInputRest
    <2>1. HasherTypeOK'
      BY <1>11, <1>h, SetInputTypes DEF SetInputRest
    <2> QED
      BY <1>11, <1>h, <2>1 DEF SetInputRest
  <1>12. CASE CloseRound
    <2>1. HasherTypeOK'
      BY <1>12, <1>h, OperationTypes DEF CloseRound
    <2> QED
      BY <1>12, <1>h, <2>1 DEF CloseRound
  <1>13. CASE InputDone
    <2>1. HasherTypeOK'
      BY <1>13, <1>h DEF InputDone, hasherVars, HasherTypeOK
    <2> QED
      BY <1>13, <1>h, <2>1 DEF InputDone
  <1>14. CASE Enter
    <2>1. HasherTypeOK'
      BY <1>14, <1>h DEF Enter, hasherVars, HasherTypeOK
    <2> QED
      BY <1>14, <1>h, <2>1 DEF Enter
  <1>15. CASE LoopTest
    <2>1. HasherTypeOK'
      BY <1>15, <1>h DEF LoopTest, hasherVars, HasherTypeOK
    <2> QED
      BY <1>15, <1>h, <2>1 DEF LoopTest
  <1>16. CASE GetHashesDone
    <2>1. HasherTypeOK'
      BY <1>16, <1>h, OperationTypes DEF GetHashesDone
    <2> QED
      BY <1>16, <1>h, <2>1 DEF GetHashesDone
  <1>17. ASSUME NEW share \in batch, SkipExpired(share)
        PROVE  TypeOK'
    <2>1. HasherTypeOK'
      BY <1>17, <1>h DEF SkipExpired, hasherVars, HasherTypeOK
    <2>2. share.nonce \in Nonces
      BY DEF Shares
    <2> QED
      BY <1>17, <2>1, <2>2 DEF SkipExpired
  <1>18. ASSUME NEW share \in batch, NEW response \in Responses,
               Submit(share, response)
        PROVE  TypeOK'
    <2>1. HasherTypeOK'
      BY <1>18, <1>h DEF Submit, hasherVars, HasherTypeOK
    <2>2. share \in Shares /\ share.nonce \in Nonces
      BY DEF Shares
    <2>3. [share |-> share, height |-> settings.height]
            \in [share : Shares, height : Nat]
      BY <2>2
    <2>4. tries' \in [Nonces -> Nat]
      <3> DEFINE n == share.nonce
      <3>1. n \in Nonces /\ tries' = [tries EXCEPT ![n] = @ + 1]
        BY <1>18, <2>2 DEF Submit
      <3>2. tries \in [Nonces -> Nat]
        OBVIOUS
      <3> HIDE DEF n, TypeOK
      <3> QED
        BY <3>1, <3>2
    <2>5. confirmed' \subseteq Nonces /\ rejected' \subseteq Nonces
          /\ accepted' \subseteq Nonces
      BY <1>18, <2>2 DEF Submit
    <2> QED
      BY <1>18, <2>1, <2>2, <2>3, <2>4, <2>5 DEF Submit
  <1>19. CASE BatchDone
    <2>1. HasherTypeOK'
      BY <1>19, <1>h DEF BatchDone, hasherVars, HasherTypeOK
    <2> QED
      BY <1>19, <1>h, <2>1 DEF BatchDone
  <1>20. CASE ScanDone
    <2>1. HasherTypeOK'
      BY <1>20, <1>h DEF ScanDone, hasherVars, HasherTypeOK
    <2> QED
      BY <1>20, <1>h, <2>1 DEF ScanDone
  <1>21. CASE UpdateDue
    <2>1. HasherTypeOK'
      BY <1>21, <1>h DEF UpdateDue, hasherVars, HasherTypeOK
    <2> QED
      BY <1>21, <1>h, <2>1 DEF UpdateDue
  <1>22. CASE UpdateNotDue
    <2>1. HasherTypeOK'
      BY <1>22, <1>h DEF UpdateNotDue, hasherVars, HasherTypeOK
    <2> QED
      BY <1>22, <1>h, <2>1 DEF UpdateNotDue
  <1>23. CASE ReportDue
    <2>1. HasherTypeOK'
      BY <1>23, <1>h DEF ReportDue, hasherVars, HasherTypeOK
    <2> QED
      BY <1>23, <1>h, <2>1 DEF ReportDue
  <1>24. CASE ReportNotDue
    <2>1. HasherTypeOK'
      BY <1>24, <1>h DEF ReportNotDue, hasherVars, HasherTypeOK
    <2> QED
      BY <1>24, <1>h, <2>1 DEF ReportNotDue
  <1>25. ASSUME NEW low \in BOOLEAN, Report(low)
        PROVE  TypeOK'
    <2>1. HasherTypeOK'
      BY <1>25, <1>h DEF Report, hasherVars, HasherTypeOK
    <2>2. HitsAfter(low) \in 0..ThresholdHits
      <3>1. hsHits \in 0..ThresholdHits
        OBVIOUS
      <3> HIDE DEF TypeOK
      <3>2. CASE settings.recommendation = "pause"
        BY <3>1, <3>2 DEF HitsAfter
      <3>3. CASE settings.recommendation # "pause" /\ low
        BY <3>1, <3>3 DEF HitsAfter
      <3>4. CASE settings.recommendation # "pause" /\ ~low
        BY <3>1, <3>4 DEF HitsAfter
      <3> QED
        BY <3>2, <3>3, <3>4
    <2> QED
      BY <1>25, <2>1, <2>2 DEF Report
  <1>26. CASE Join
    <2>1. HasherTypeOK'
      BY <1>26, <1>h, OperationTypes DEF Join
    <2> QED
      BY <1>26, <1>h, <2>1 DEF Join
  <1>27. CASE Disconnect
    <2>1. HasherTypeOK'
      BY <1>27, <1>h DEF Disconnect, hasherVars, HasherTypeOK
    <2> QED
      BY <1>27, <1>h, <2>1 DEF Disconnect
  <1>28. CASE Signal
    <2>1. HasherTypeOK'
      BY <1>28, <1>h DEF Signal, hasherVars, HasherTypeOK
    <2>2. running' \in BOOLEAN /\ stopAsked' \in BOOLEAN
      BY <1>28 DEF Signal
    <2>3. UNCHANGED <<mainApp, settings, hsHits, blocks, confirmed, rejected,
                      pc, todo, cur, newBlock, batch, accepted, sent, tries,
                      expired>>
      BY <1>28 DEF Signal
    <2> HIDE DEF MainPCs
    <2> QED
      BY <2>1, <2>2, <2>3
  <1>29. ASSUME NEW w \in Workers, WorkerStep(w)
        PROVE  TypeOK'
    <2>1. HasherTypeOK'
      BY <1>29, <1>h, WorkerTypes DEF WorkerStep
    <2>2. UNCHANGED minerVars
      BY <1>29 DEF WorkerStep
    <2> QED
      BY <2>1, <2>2, MinerTypesUnchanged
  <1>30. CASE UNCHANGED vars
    <2>1. UNCHANGED hasherVars /\ UNCHANGED minerVars
      BY <1>30 DEF vars
    <2>2. HasherTypeOK'
      BY <1>h, <2>1 DEF hasherVars, HasherTypeOK
    <2> QED
      BY <2>1, <2>2, MinerTypesUnchanged
  <1> QED
    BY <1>1, <1>2, <1>3, <1>4, <1>5, <1>6, <1>7, <1>8, <1>9, <1>10, <1>11, <1>12, <1>13, <1>14, <1>15, <1>16, <1>17, <1>18, <1>19, <1>20, <1>21, <1>22, <1>23, <1>24, <1>25, <1>26, <1>27, <1>28, <1>29, <1>30
       DEF Next, MainStep, ProcessEnded

\* The type invariant of the specification.
THEOREM TypeCorrect == Spec => []TypeOK
  <1>1. Init => TypeOK
    <2>1. HasherInit => HasherTypeOK
      BY EmptyTypes DEF HasherInit, HasherTypeOK, WorkerPCs
    <2>2. EmptySettings \in [height : Nat, block_checksum : Chks,
                            solver_address : Solvers \cup {NoSolver},
                            difficulty : 0..MaxDifficulty, version : Versions,
                            recommendation : {"", "mine", "pause"},
                            hash_ceil : Ceils]
      BY DEF EmptySettings, Chks, Ceils, Versions, NoCeil
    <2>3. 0 \in 0..ThresholdHits /\ [n \in Nonces |-> 0] \in [Nonces -> Nat]
      OBVIOUS
    <2>4. ASSUME Init
          PROVE  /\ mainApp \in BOOLEAN
                 /\ running \in BOOLEAN
                 /\ newBlock \in BOOLEAN
                 /\ stopAsked \in BOOLEAN
      BY <2>4 DEF Init
    <2> QED
      BY <2>1, <2>2, <2>3, <2>4 DEF Init, TypeOK, MainPCs, NoHasher
  <1> QED
    BY <1>1, TypeStep, PTL DEF Spec

-----------------------------------------------------------------------------
(* One job per piece of work, and a nonce under its own block.             *)

\* The variables WorkInv speaks of, pc and cur apart.
workVars == <<input, inputLock, hashes, wpc, work, out, settings, batch, sent>>

\* A step that changes none of workVars and neither enters nor leaves
\* set_input keeps WorkInv.
LEMMA QuietWork ==
  ASSUME WorkInv, UNCHANGED workVars,
         pc' = "inputRest" <=> pc = "inputRest",
         pc = "inputRest" => cur' = cur
  PROVE  WorkInv'
  <1> USE DEF workVars
  <1>1. InputMutex'
    BY DEF WorkInv, InputMutex
  <1>2. SettingsOneJob'
    BY DEF WorkInv, SettingsOneJob
  <1>3. InputOneJob'
    BY DEF WorkInv, InputOneJob, InputWork
  <1>4. CopyIsCurrent'
    BY DEF WorkInv, CopyIsCurrent
  <1>5. SharesMinable'
    BY DEF WorkInv, SharesMinable
  <1>6. SentForItsBlock'
    BY DEF WorkInv, SentForItsBlock
  <1> QED
    BY <1>1, <1>2, <1>3, <1>4, <1>5, <1>6 DEF WorkInv

\* set_input hands on what the miner holds: the first half takes the mutex
\* when no worker is inside _get_input...
LEMMA SetInputWork ==
  ASSUME TypeOK, WorkInv, NEW h \in Hashers, SetInput(h)
  PROVE  WorkInv'
  <1> USE DEF SetInput, set_input_begin, WorkInv
  <1>t. input[h] \in Inputs /\ input \in [Hashers -> Inputs]
        /\ inputLock \in [Hashers -> Workers \cup {Main, Free}]
    BY DEF TypeOK, HasherTypeOK
  <1>a. /\ input'[h].block_checksum = settings.block_checksum
        /\ \A g \in Hashers : g # h => input'[g] = input[g]
    BY <1>t DEF Inputs
  <1>1. InputMutex'
    BY <1>t DEF InputMutex
  <1>2. SettingsOneJob'
    BY DEF SettingsOneJob
  <1>3. InputOneJob'
    BY <1>t, <1>a, <1>1 DEF InputOneJob, InputWork, InputMutex
  <1>4. CopyIsCurrent'
    BY <1>t, <1>a DEF CopyIsCurrent, InputMutex
  <1>5. SharesMinable'
    BY DEF SharesMinable
  <1>6. SentForItsBlock'
    BY DEF SentForItsBlock
  <1> QED
    BY <1>1, <1>2, <1>3, <1>4, <1>5, <1>6

\* ...and the second half releases it with the input whole again.
LEMMA SetInputRestWork ==
  ASSUME TypeOK, WorkInv, SetInputRest
  PROVE  WorkInv'
  <1> USE DEF SetInputRest, set_input_end, WorkInv
  <1>t. /\ cur \in Hashers
        /\ input[cur] \in Inputs /\ input \in [Hashers -> Inputs]
        /\ inputLock \in [Hashers -> Workers \cup {Main, Free}]
    BY DEF TypeOK, HasherTypeOK
  <1>a. /\ input'[cur].block_checksum = settings.block_checksum
        /\ input'[cur].hash_ceil = settings.hash_ceil
        /\ input'[cur].base = make_base(settings.block_checksum,
                                        settings.solver_address)
        /\ \A g \in Hashers : g # cur => input'[g] = input[g]
    BY <1>t DEF Inputs, InputOneJob
  <1>b. inputLock[cur] = Main /\ pc = "inputRest" /\ pc' # "inputRest"
    BY <1>t DEF InputMutex
  <1>1. InputMutex'
    BY <1>t, <1>b DEF InputMutex
  <1>2. SettingsOneJob'
    BY DEF SettingsOneJob
  <1>3. InputOneJob'
    <2>1. ASSUME NEW g \in Hashers, inputLock'[g] # Main, g # cur
          PROVE  \/ input'[g].block_checksum = NoChecksum
                 \/ IsJobWork(InputWork(g)')
      BY <1>t, <1>a, <2>1 DEF InputOneJob, InputWork
    <2>2. CASE settings.block_checksum = NoChecksum
      BY <1>a, <1>b, <2>1, <2>2 DEF InputOneJob, InputWork
    <2>3. CASE \E job \in PoolJobs :
                 /\ settings.block_checksum = job.block_checksum
                 /\ settings.solver_address = job.solver_address
                 /\ settings.hash_ceil = calc_hash_ceil(job.difficulty)
      <3>1. PICK job \in PoolJobs :
                 /\ settings.block_checksum = job.block_checksum
                 /\ settings.solver_address = job.solver_address
                 /\ settings.hash_ceil = calc_hash_ceil(job.difficulty)
        BY <2>3
      <3>2. PICK c \in Hashers : c = cur
        BY <1>t
      <3>3. InputWork(c)' = WorkOf(job)
        BY <1>a, <3>1, <3>2 DEF InputWork, WorkOf
      <3>4. IsJobWork(InputWork(c)')
        BY <3>3 DEF IsJobWork
      <3> QED
        BY <1>b, <2>1, <3>2, <3>4 DEF InputOneJob
    <2> QED
      BY <2>2, <2>3 DEF SettingsOneJob
  <1>4. CopyIsCurrent'
    BY <1>t, <1>a, <1>b DEF CopyIsCurrent, InputMutex
  <1>5. SharesMinable'
    BY DEF SharesMinable
  <1>6. SentForItsBlock'
    BY DEF SentForItsBlock
  <1> QED
    BY <1>1, <1>2, <1>3, <1>4, <1>5, <1>6

\* A step of a worker keeps WorkInv: _get_input ends with the hasher's whole
\* input because the mutex kept set_input out since it began.
LEMMA WorkerWork ==
  ASSUME TypeOK, WorkInv, NEW w \in Workers, WorkerStep(w)
  PROVE  WorkInv'
  <1> DEFINE h == HasherOf[w]
  <1>h. h \in Hashers
    OBVIOUS
  <1>t. /\ wpc \in [Workers -> WorkerPCs]
        /\ work \in [Workers -> Work]
        /\ out \in [Workers -> SUBSET Shares]
        /\ hashes \in [Hashers -> SUBSET Shares]
        /\ inputLock \in [Hashers -> Workers \cup {Main, Free}]
    BY DEF TypeOK, HasherTypeOK
  <1>m. run(w) /\ UNCHANGED <<pc, cur, settings, batch, sent>>
    BY DEF WorkerStep, minerVars
  <1>s. SettingsOneJob' /\ SentForItsBlock'
    BY <1>m DEF WorkInv, SettingsOneJob, SentForItsBlock
  <1>1. ASSUME UNCHANGED <<input, inputLock, hashes, work, out>>,
               \A v \in Workers : v # w => wpc'[v] = wpc[v],
               wpc[w] # "copying", wpc'[w] # "copying",
               wpc'[w] \in {"hash", "store", "storing"} =>
                  wpc[w] \in {"hash", "store", "storing"}
        PROVE  WorkInv'
    <2>1. InputMutex'
      BY <1>m, <1>1 DEF WorkInv, InputMutex
    <2>2. InputOneJob'
      BY <1>m, <1>1 DEF WorkInv, InputOneJob, InputWork
    <2>3. CopyIsCurrent'
      BY <1>m, <1>1 DEF WorkInv, CopyIsCurrent
    <2>4. SharesMinable'
      BY <1>m, <1>1 DEF WorkInv, SharesMinable
    <2> QED
      BY <1>s, <2>1, <2>2, <2>3, <2>4 DEF WorkInv
  <1>2. CASE run_alloc(w)
    BY <1>1, <1>2, <1>t DEF run_alloc
  <1>3. CASE run_alloc_failed(w)
    BY <1>1, <1>3, <1>t DEF run_alloc_failed
  <1>4. CASE run_loop(w)
    BY <1>1, <1>4, <1>t DEF run_loop
  <1>5. CASE run_exit(w)
    BY <1>1, <1>5, <1>t DEF run_exit
  <1>6. CASE should_pause(w)
    BY <1>1, <1>6, <1>t DEF should_pause
  <1>7. CASE generate_missed(w)
    BY <1>1, <1>7, <1>t DEF generate_missed
  <1>8. CASE store_hash_begin(w)
    BY <1>1, <1>8, <1>t DEF store_hash_begin
  <1>9. CASE get_input_begin(w)
    <2> USE <1>9 DEF get_input_begin, WorkInv
    <2>a. /\ work'[w].block_checksum = input[h].block_checksum
          /\ work'[w].hash_ceil = input[h].hash_ceil
          /\ \A v \in Workers : v # w => work'[v] = work[v] /\ wpc'[v] = wpc[v]
          /\ wpc'[w] = "copying"
      BY <1>t, <1>h DEF Work
    <2>1. InputMutex'
      BY <1>m, <1>h, <1>t, <2>a DEF InputMutex
    <2>2. InputOneJob'
      <3>1. UNCHANGED <<input, pc, cur, settings>>
        BY <1>m
      <3>2. \A k \in Hashers : InputWork(k)' = InputWork(k)
        BY <3>1 DEF InputWork
      <3>3. \A k \in Hashers : inputLock[k] = Main => inputLock'[k] = Main
        BY <1>t, <1>h
      <3> QED
        BY <3>1, <3>2, <3>3 DEF InputOneJob
    <2>3. CopyIsCurrent'
      <3>1. input' = input
        OBVIOUS
      <3>2. ASSUME NEW v \in Workers, v # w
            PROVE  work'[v] = work[v] /\ wpc'[v] = wpc[v]
        BY <2>a, <3>2
      <3>3. CopyIsCurrent
        OBVIOUS
      <3> HIDE <1>9 DEF get_input_begin, WorkInv
      <3> QED
        BY <2>a, <3>1, <3>2, <3>3 DEF CopyIsCurrent
    <2>4. SharesMinable'
      BY <1>m, <2>a DEF SharesMinable
    <2> QED
      BY <1>s, <2>1, <2>2, <2>3, <2>4
  <1>10. CASE get_input_end(w)
    <2> USE <1>10 DEF get_input_end, WorkInv
    <2>l. inputLock[h] = w /\ w # Main
      BY DEF InputMutex
    <2>a. /\ work'[w] = InputWork(h)
          /\ \A v \in Workers : v # w => work'[v] = work[v] /\ wpc'[v] = wpc[v]
          /\ wpc'[w] \in {"loop", "hash"}
          /\ wpc'[w] = "hash" => input[h].block_checksum # NoChecksum
      BY <1>t, <1>h DEF Work, CopyIsCurrent, InputWork
    <2>b. wpc'[w] = "hash" => Minable(work'[w])
      BY <1>h, <2>a, <2>l DEF Minable, InputOneJob, InputWork
    <2>1. InputMutex'
      BY <1>m, <1>h, <1>t, <2>a, <2>l DEF InputMutex
    <2>2. InputOneJob'
      BY <1>m, <1>h, <1>t, <2>l DEF InputOneJob, InputWork
    <2>3. CopyIsCurrent'
      BY <1>h, <2>a DEF CopyIsCurrent
    <2>4. SharesMinable'
      BY <1>m, <2>a, <2>b DEF SharesMinable
    <2> QED
      BY <1>s, <2>1, <2>2, <2>3, <2>4
  <1>11. ASSUME NEW n \in Nonces, generate_found(w, n)
         PROVE  WorkInv'
    <2> USE <1>11 DEF generate_found, WorkInv
    <2>a. /\ out'[w] = {[nonce |-> n, work |-> work[w]]}
          /\ \A v \in Workers : v # w => out'[v] = out[v] /\ wpc'[v] = wpc[v]
          /\ wpc[w] = "hash" /\ wpc'[w] = "store"
      BY <1>t
    <2>1. InputMutex'
      BY <1>m, <2>a DEF InputMutex
    <2>2. InputOneJob'
      BY <1>m DEF InputOneJob, InputWork
    <2>3. CopyIsCurrent'
      BY <2>a DEF CopyIsCurrent
    <2>4. SharesMinable'
      BY <1>m, <2>a DEF SharesMinable
    <2> QED
      BY <1>s, <2>1, <2>2, <2>3, <2>4
  <1>12. CASE store_hash_end(w)
    <2> USE <1>12 DEF store_hash_end, WorkInv
    <2>a. /\ out'[w] = {}
          /\ \A v \in Workers : v # w =>
                out'[v] = out[v] /\ wpc'[v] = wpc[v] /\ work'[v] = work[v]
          /\ wpc[w] = "storing" /\ wpc'[w] = "loop"
          /\ hashes'[h] = hashes[h] \cup out[w]
          /\ \A g \in Hashers : g # h => hashes'[g] = hashes[g]
      BY <1>t, <1>h
    <2>1. InputMutex'
      BY <1>m, <2>a DEF InputMutex
    <2>2. InputOneJob'
      BY <1>m DEF InputOneJob, InputWork
    <2>3. CopyIsCurrent'
      BY <2>a DEF CopyIsCurrent
    <2>4. SharesMinable'
      BY <1>m, <1>h, <2>a DEF SharesMinable
    <2> QED
      BY <1>s, <2>1, <2>2, <2>3, <2>4
  <1> QED
    BY <1>m, <1>2, <1>3, <1>4, <1>5, <1>6, <1>7, <1>8, <1>9, <1>10, <1>11,
       <1>12 DEF run

\* Every step keeps WorkInv.
LEMMA WorkStep == TypeOK /\ WorkInv /\ [Next]_vars => WorkInv'
  <1> SUFFICES ASSUME TypeOK, WorkInv, [Next]_vars
               PROVE  WorkInv'
    OBVIOUS
  <1>1. ASSUME NEW h \in Hashers, Configure(h)
        PROVE  WorkInv'
    <2>1. CASE configure(h)
      <3>a. /\ wpc' \in [Workers -> WorkerPCs]
            /\ \A w \in Workers : wpc'[w] = wpc[w] \/ wpc'[w] = "alloc"
            /\ UNCHANGED <<input, inputLock, hashes, work, out, settings,
                           batch, sent, pc, cur>>
        BY <1>1, <2>1 DEF Configure, configure, TypeOK, HasherTypeOK, WorkerPCs
      <3>1. InputMutex'
        BY <3>a DEF WorkInv, InputMutex
      <3>2. SettingsOneJob' /\ SentForItsBlock'
        BY <3>a DEF WorkInv, SettingsOneJob, SentForItsBlock
      <3>3. InputOneJob'
        BY <3>a DEF WorkInv, InputOneJob, InputWork
      <3>4. CopyIsCurrent'
        BY <3>a DEF WorkInv, CopyIsCurrent
      <3>5. SharesMinable'
        BY <3>a DEF WorkInv, SharesMinable
      <3> QED
        BY <3>1, <3>2, <3>3, <3>4, <3>5 DEF WorkInv
    <2>2. CASE configure_disabled(h)
      BY <1>1, <2>2, QuietWork DEF Configure, configure_disabled, workVars
    <2> QED
      BY <1>1, <2>1, <2>2 DEF Configure
  <1>2. ASSUME NEW h \in Hashers, ReadRate(h)
        PROVE  WorkInv'
    BY <1>2, QuietWork DEF ReadRate, workVars, statistics, hasherVars
  <1>3. ASSUME NEW h \in Hashers, SetInput(h)
        PROVE  WorkInv'
    BY <1>3, SetInputWork
  <1>4. ASSUME NEW h \in Hashers, ScanStopped(h)
        PROVE  WorkInv'
    BY <1>4, QuietWork DEF ScanStopped, workVars, hasherVars
  <1>5. ASSUME NEW h \in Hashers, GetHashes(h)
        PROVE  WorkInv'
    <2>a. /\ UNCHANGED <<input, inputLock, hashes, wpc, work, out, settings,
                         sent>>
          /\ pc # "inputRest" /\ pc' # "inputRest"
          /\ batch' = hashes[h]
      BY <1>5 DEF GetHashes, get_hashes_copy
    <2>1. InputMutex' /\ CopyIsCurrent'
      BY <2>a DEF WorkInv, InputMutex, CopyIsCurrent
    <2>2. SettingsOneJob' /\ SentForItsBlock'
      BY <2>a DEF WorkInv, SettingsOneJob, SentForItsBlock
    <2>3. InputOneJob'
      BY <2>a DEF WorkInv, InputOneJob, InputWork
    <2>4. SharesMinable'
      BY <2>a DEF WorkInv, SharesMinable
    <2> QED
      BY <2>1, <2>2, <2>3, <2>4 DEF WorkInv
  <1>6. ASSUME NEW h \in Hashers, ReportRate(h)
        PROVE  WorkInv'
    BY <1>6, QuietWork DEF ReportRate, workVars, statistics, hasherVars
  <1>7. ASSUME NEW h \in Hashers, Cleanup(h)
        PROVE  WorkInv'
    BY <1>7, QuietWork DEF Cleanup, workVars, cleanup_stop
  <1>8. CASE Configured
    BY <1>8, QuietWork DEF Configured, workVars, hasherVars
  <1>9. ASSUME PoolFailed \/ \E job \in PoolJobs : PoolAnswered(job)
        PROVE  WorkInv'
    <2>a. /\ UNCHANGED <<input, inputLock, hashes, wpc, work, out, batch,
                         sent>>
          /\ pc # "inputRest" /\ pc' # "inputRest"
      BY <1>9 DEF PoolFailed, PoolAnswered, hasherVars
    <2>1. InputMutex' /\ CopyIsCurrent'
      BY <2>a DEF WorkInv, InputMutex, CopyIsCurrent
    <2>2. InputOneJob'
      BY <2>a DEF WorkInv, InputOneJob, InputWork
    <2>3. SharesMinable' /\ SentForItsBlock'
      BY <2>a DEF WorkInv, SharesMinable, SentForItsBlock
    <2>4. SettingsOneJob'
      <3>1. CASE PoolFailed
        <4>1. /\ settings'.height = settings.height
              /\ settings'.block_checksum = settings.block_checksum
              /\ settings'.solver_address = settings.solver_address
              /\ settings'.hash_ceil = settings.hash_ceil
          BY <3>1 DEF PoolFailed, TypeOK
        <4> QED
          BY <4>1 DEF WorkInv, SettingsOneJob
      <3>2. ASSUME NEW job \in PoolJobs, PoolAnswered(job)
            PROVE  SettingsOneJob'
        <4>1. CASE settings' = SettingsOf(job)
          BY <4>1 DEF SettingsOf, SettingsOneJob
        <4>2. CASE settings' = settings
          BY <4>2 DEF WorkInv, SettingsOneJob
        <4> QED
          BY <3>2, <4>1, <4>2 DEF PoolAnswered
      <3> QED
        BY <1>9, <3>1, <3>2
    <2> QED
      BY <2>1, <2>2, <2>3, <2>4 DEF WorkInv
  <1>10. CASE SetInputRest
    BY <1>10, SetInputRestWork
  <1>11. CASE CloseRound
    BY <1>11, QuietWork DEF CloseRound, workVars, statistics, hasherVars
  <1>12. CASE InputDone
    BY <1>12, QuietWork DEF InputDone, workVars, hasherVars
  <1>13. CASE Enter
    BY <1>13, QuietWork DEF Enter, workVars, hasherVars
  <1>14. CASE LoopTest
    BY <1>14, QuietWork DEF LoopTest, workVars, hasherVars
  <1>15. CASE GetHashesDone
    <2>a. /\ UNCHANGED <<input, inputLock, wpc, work, out, settings, batch,
                         sent>>
          /\ pc # "inputRest" /\ pc' # "inputRest"
          /\ \A h \in Hashers : hashes'[h] \subseteq hashes[h]
      BY <1>15 DEF GetHashesDone, get_hashes_clear, TypeOK, HasherTypeOK
    <2>1. InputMutex' /\ CopyIsCurrent'
      BY <2>a DEF WorkInv, InputMutex, CopyIsCurrent
    <2>2. SettingsOneJob' /\ SentForItsBlock'
      BY <2>a DEF WorkInv, SettingsOneJob, SentForItsBlock
    <2>3. InputOneJob'
      BY <2>a DEF WorkInv, InputOneJob, InputWork
    <2>4. SharesMinable'
      BY <2>a DEF WorkInv, SharesMinable
    <2> QED
      BY <2>1, <2>2, <2>3, <2>4 DEF WorkInv
  <1>16. ASSUME NEW share \in batch,
               \/ SkipExpired(share)
               \/ \E response \in Responses : Submit(share, response)
        PROVE  WorkInv'
    <2>a. /\ UNCHANGED <<input, inputLock, hashes, wpc, work, out, settings>>
          /\ pc # "inputRest" /\ pc' # "inputRest"
          /\ batch' \subseteq batch
      BY <1>16 DEF SkipExpired, Submit, hasherVars
    <2>1. InputMutex' /\ CopyIsCurrent'
      BY <2>a DEF WorkInv, InputMutex, CopyIsCurrent
    <2>2. SettingsOneJob'
      BY <2>a DEF WorkInv, SettingsOneJob
    <2>3. InputOneJob'
      BY <2>a DEF WorkInv, InputOneJob, InputWork
    <2>4. SharesMinable'
      BY <2>a DEF WorkInv, SharesMinable
    <2>5. SentForItsBlock'
      <3>1. CASE SkipExpired(share)
        BY <3>1 DEF SkipExpired, WorkInv, SentForItsBlock
      <3>2. CASE \E response \in Responses : Submit(share, response)
        <4>1. /\ sent' = sent \cup {[share |-> share,
                                     height |-> settings.height]}
              /\ share.work.block_checksum = settings.block_checksum
          BY <3>2 DEF Submit
        <4>2. PICK job \in PoolJobs : share.work = WorkOf(job)
          BY DEF WorkInv, SharesMinable, Minable, IsJobWork
        <4>3. settings.block_checksum # NoChecksum
          BY <4>1 DEF WorkInv, SharesMinable, Minable
        <4>4. PICK held \in PoolJobs :
                 /\ settings.height = held.height
                 /\ settings.block_checksum = held.block_checksum
          BY <4>3 DEF WorkInv, SettingsOneJob
        <4>5. settings.height = job.height
          BY <4>1, <4>2, <4>4, ChecksumAssumption DEF WorkOf
        <4> QED
          BY <4>1, <4>2, <4>5 DEF WorkInv, SentForItsBlock
      <3> QED
        BY <1>16, <3>1, <3>2
    <2> QED
      BY <2>1, <2>2, <2>3, <2>4, <2>5 DEF WorkInv
  <1>17. CASE BatchDone
    BY <1>17, QuietWork DEF BatchDone, workVars, hasherVars
  <1>18. CASE ScanDone
    BY <1>18, QuietWork DEF ScanDone, workVars, hasherVars
  <1>19. CASE UpdateDue
    BY <1>19, QuietWork DEF UpdateDue, workVars, hasherVars
  <1>20. CASE UpdateNotDue
    BY <1>20, QuietWork DEF UpdateNotDue, workVars, hasherVars
  <1>21. CASE ReportDue
    BY <1>21, QuietWork DEF ReportDue, workVars, hasherVars
  <1>22. CASE ReportNotDue
    BY <1>22, QuietWork DEF ReportNotDue, workVars, hasherVars
  <1>23. ASSUME NEW low \in BOOLEAN, Report(low)
        PROVE  WorkInv'
    BY <1>23, QuietWork DEF Report, workVars, hasherVars
  <1>24. CASE Join
    BY <1>24, QuietWork DEF Join, workVars, cleanup_join
  <1>25. CASE Disconnect
    BY <1>25, QuietWork DEF Disconnect, workVars, hasherVars
  <1>26. CASE Signal
    BY <1>26, QuietWork DEF Signal, workVars, hasherVars
  <1>27. ASSUME NEW w \in Workers, WorkerStep(w)
        PROVE  WorkInv'
    BY <1>27, WorkerWork
  <1>28. CASE UNCHANGED vars
    BY <1>28, QuietWork DEF vars, hasherVars, minerVars, workVars
  <1> QED
    BY <1>1, <1>2, <1>3, <1>4, <1>5, <1>6, <1>7, <1>8, <1>9, <1>10, <1>11,
       <1>12, <1>13, <1>14, <1>15, <1>16, <1>17, <1>18, <1>19, <1>20,
       <1>21, <1>22, <1>23, <1>24, <1>25, <1>26, <1>27, <1>28
       DEF Next, MainStep, ProcessEnded

\* WorkInv holds before the first hasher is configured.
LEMMA WorkInit == Init => WorkInv
  <1> SUFFICES ASSUME Init
               PROVE  WorkInv
    OBVIOUS
  <1> USE DEF Init, HasherInit
  <1>1. InputMutex
    BY DEF InputMutex
  <1>2. SettingsOneJob
    BY DEF SettingsOneJob, EmptySettings
  <1>3. InputOneJob
    BY DEF InputOneJob, EmptyInput
  <1>4. CopyIsCurrent
    BY DEF CopyIsCurrent
  <1>5. SharesMinable
    BY DEF SharesMinable
  <1>6. SentForItsBlock
    BY DEF SentForItsBlock
  <1> QED
    BY <1>1, <1>2, <1>3, <1>4, <1>5, <1>6 DEF WorkInv

\* A worker hashes one job, and so does a share: the hasher's mutex makes
\* _get_input a snapshot, for any number of workers.
THEOREM OneJob == Spec => []WorkIsOneJob
  <1>1. WorkInv => WorkIsOneJob
    BY DEF WorkInv, SharesMinable, Minable, IsJobWork, WorkIsOneJob, InHand,
       Queued
  <1> QED
    BY <1>1, TypeCorrect, WorkInit, WorkStep, PTL DEF Spec

\* A nonce is submitted with the height of the block it was found for, for any
\* set of jobs in which a checksum belongs to one height.
THEOREM RightHeight == Spec => []SentForItsBlock
  <1>1. WorkInv => SentForItsBlock
    BY DEF WorkInv
  <1> QED
    BY <1>1, TypeCorrect, WorkInit, WorkStep, PTL DEF Spec

-----------------------------------------------------------------------------
(* Control: the hashers follow the miner's settings, a pause reaches the   *)
(* workers, and no thread outlives the code it runs.                       *)

\* Where the main thread is while the hashers do not follow the miner.
UpdatePCs == {"configure", "rate", "input", "inputRest", "round"}

(* Inputs follow the miner.                                                *)

\* A step of the loop outside an update keeps FollowInv.
LEMMA FollowQuiet ==
  ASSUME FollowInv, UNCHANGED <<input, settings, active, wpc, mainApp>>,
         pc \notin UpdatePCs, pc' \notin UpdatePCs
  PROVE  FollowInv'
  <1>1. \A h \in active : FollowsMiner(h)
    BY DEF FollowInv, InputsFollowMiner, UpdatePCs
  <1>2. \A h \in active : FollowsMiner(h)'
    BY <1>1 DEF FollowsMiner
  <1> QED
    BY <1>2 DEF FollowInv, InputsFollowMiner, UpdatePCs

\* So does a step of another thread.
LEMMA FollowOther ==
  ASSUME FollowInv,
         UNCHANGED <<input, settings, active, pc, todo, cur, mainApp>>,
         \A w \in Workers : wpc'[w] # "off" => wpc[w] # "off"
  PROVE  FollowInv'
  <1>1. \A h : FollowsMiner(h)' <=> FollowsMiner(h)
    BY DEF FollowsMiner
  <1> QED
    BY <1>1 DEF FollowInv, InputsFollowMiner

\* No worker starts but by configure.
LEMMA WorkersStayOn ==
  ASSUME TypeOK, NEW w \in Workers, run(w)
  PROVE  \A v \in Workers : wpc'[v] # "off" => wpc[v] # "off"
  <1>1. wpc \in [Workers -> WorkerPCs]
    BY DEF TypeOK, HasherTypeOK
  <1>2. wpc[w] # "off" /\ \A v \in Workers : v # w => wpc'[v] = wpc[v]
    BY <1>1 DEF run, run_alloc, run_alloc_failed, run_loop, run_exit,
       should_pause, get_input_begin, get_input_end, generate_found,
       generate_missed, store_hash_begin, store_hash_end
  <1> QED
    BY <1>2

\* After the second half of set_input the hasher has all of the settings.
LEMMA SetInputRestFollow ==
  ASSUME TypeOK, FollowInv, SetInputRest
  PROVE  FollowInv'
  <1>t. cur \in Hashers /\ input \in [Hashers -> Inputs]
    BY DEF SetInputRest, TypeOK, HasherTypeOK
  <1>c. PICK c \in Hashers : c = cur
    BY <1>t
  <1>u. /\ UNCHANGED <<settings, active, wpc, mainApp>>
        /\ pc = "inputRest" /\ pc' \in {"input", "round"}
        /\ todo' = todo \ {c}
    BY <1>c DEF SetInputRest, set_input_end
  <1> DEFINE p == settings.recommendation = "pause"
             b == make_base(settings.block_checksum, settings.solver_address)
  <1>1. /\ input'[c] = [input[c] EXCEPT !.base = b,
                                        !.hash_ceil = settings.hash_ceil,
                                        !.pause = p]
        /\ \A g \in Hashers : g # c => input'[g] = input[g]
    BY <1>t, <1>c DEF SetInputRest, set_input_end
  <1>2. /\ input[c].height = settings.height
        /\ input[c].block_checksum = settings.block_checksum
        /\ input[c].solver_address = settings.solver_address
        /\ input[c] \in Inputs
    BY <1>t, <1>c, <1>u DEF FollowInv
  <1>3. input'[c] = [height |-> settings.height,
                     block_checksum |-> settings.block_checksum,
                     solver_address |-> settings.solver_address,
                     base |-> b, hash_ceil |-> settings.hash_ceil,
                     pause |-> p]
    <2> HIDE DEF b, p
    <2> QED
      BY <1>1, <1>2 DEF Inputs
  <1>4. FollowsMiner(c)'
    BY <1>3, <1>u DEF FollowsMiner
  <1>5. ASSUME NEW g \in active, g \notin todo'
        PROVE  FollowsMiner(g)'
    <2>1. CASE g = c
      BY <1>4, <2>1
    <2>2. CASE g # c
      <3>1. g \in Hashers /\ FollowsMiner(g)
        BY <1>5, <1>u, <2>2 DEF FollowInv, TypeOK, HasherTypeOK
      <3> QED
        BY <1>1, <1>u, <2>2, <3>1 DEF FollowsMiner
    <2> QED
      BY <2>1, <2>2
  <1> QED
    BY <1>5, <1>u DEF FollowInv, InputsFollowMiner

\* Every step keeps FollowInv.
LEMMA FollowStep == TypeOK /\ FollowInv /\ [Next]_vars => FollowInv'
  <1> SUFFICES ASSUME TypeOK, FollowInv, [Next]_vars
               PROVE  FollowInv'
    OBVIOUS
  <1>t. active \subseteq Hashers /\ wpc \in [Workers -> WorkerPCs]
        /\ input \in [Hashers -> Inputs]
    BY DEF TypeOK, HasherTypeOK
  <1>1. ASSUME NEW h \in Hashers, Configure(h)
        PROVE  FollowInv'
    <2>1. /\ pc = "configure" /\ pc' = "configure"
          /\ UNCHANGED <<settings, mainApp>>
          /\ active \subseteq active'
          /\ \A w \in Workers : wpc'[w] # "off" =>
                wpc[w] # "off" \/ HasherOf[w] \in active'
      BY <1>1, <1>t DEF Configure, configure, configure_disabled
    <2> QED
      BY <2>1 DEF FollowInv, InputsFollowMiner
  <1>2. CASE Configured
    BY <1>2 DEF Configured, hasherVars, FollowInv, InputsFollowMiner
  <1>3. ASSUME NEW h \in Hashers, ReadRate(h)
        PROVE  FollowInv'
    <2>1. UNCHANGED <<input, settings, active, wpc, mainApp>>
          /\ pc = "rate" /\ pc' = "rate"
      BY <1>3 DEF ReadRate, statistics, hasherVars
    <2> QED
      BY <2>1 DEF FollowInv, InputsFollowMiner, FollowsMiner
  <1>4. ASSUME PoolFailed \/ \E job \in PoolJobs : PoolAnswered(job)
        PROVE  FollowInv'
    <2>1. UNCHANGED <<input, active, wpc, mainApp>>
      BY <1>4 DEF PoolFailed, PoolAnswered, hasherVars
    <2>2. CASE pc' = "input" /\ todo' = active
      BY <2>1, <2>2 DEF FollowInv, InputsFollowMiner
    <2>3. CASE pc = "rate" /\ pc' = "report" /\ mainApp /\ settings' = settings
      BY <2>1, <2>3 DEF FollowInv, InputsFollowMiner, FollowsMiner
    <2> QED
      BY <1>4, <2>2, <2>3 DEF PoolFailed, PoolAnswered
  <1>5. ASSUME NEW h \in Hashers, SetInput(h)
        PROVE  FollowInv'
    <2>1. /\ UNCHANGED <<settings, active, wpc, todo>>
          /\ pc = "input" /\ pc' = "inputRest" /\ cur' = h /\ h \in todo
          /\ \A g \in Hashers : g # h => input'[g] = input[g]
      BY <1>5, <1>t DEF SetInput, set_input_begin
    <2>2. /\ input'[h].height = settings.height
          /\ input'[h].block_checksum = settings.block_checksum
          /\ input'[h].solver_address = settings.solver_address
      BY <1>5, <1>t DEF SetInput, set_input_begin, Inputs
    <2>3. \A g \in active \ todo : FollowsMiner(g)'
      BY <2>1, <1>t DEF FollowInv, FollowsMiner
    <2> QED
      BY <2>1, <2>2, <2>3 DEF FollowInv, InputsFollowMiner
  <1>6. CASE SetInputRest
    BY <1>6, SetInputRestFollow
  <1>7. CASE CloseRound
    <2>1. UNCHANGED <<input, settings, active, wpc, todo, mainApp>>
          /\ pc = "round" /\ pc' = "input"
      BY <1>7 DEF CloseRound, statistics, hasherVars
    <2> QED
      BY <2>1 DEF FollowInv, InputsFollowMiner, FollowsMiner
  <1>8. CASE InputDone
    <2>1. /\ UNCHANGED <<input, settings, active, wpc>>
          /\ pc = "input" /\ todo = {} /\ pc' \in {"report", "enter"}
          /\ mainApp' = TRUE
      BY <1>8 DEF InputDone, hasherVars
    <2> QED
      BY <2>1 DEF FollowInv, InputsFollowMiner, FollowsMiner
  <1>9. CASE Enter
    BY <1>9, FollowQuiet DEF Enter, UpdatePCs, hasherVars
  <1>10. CASE LoopTest
    BY <1>10, FollowQuiet DEF LoopTest, UpdatePCs, hasherVars
  <1>11. ASSUME NEW h \in Hashers, ScanStopped(h)
        PROVE  FollowInv'
    BY <1>11, FollowQuiet DEF ScanStopped, UpdatePCs, hasherVars
  <1>12. ASSUME NEW h \in Hashers, GetHashes(h)
        PROVE  FollowInv'
    BY <1>12, FollowQuiet DEF GetHashes, UpdatePCs, get_hashes_copy
  <1>13. CASE GetHashesDone
    BY <1>13, FollowQuiet DEF GetHashesDone, UpdatePCs, get_hashes_clear
  <1>14. ASSUME NEW share \in batch, SkipExpired(share)
        PROVE  FollowInv'
    BY <1>14, FollowQuiet DEF SkipExpired, UpdatePCs, hasherVars
  <1>15. ASSUME NEW share \in batch, NEW response \in Responses,
               Submit(share, response)
        PROVE  FollowInv'
    BY <1>15, FollowQuiet DEF Submit, UpdatePCs, hasherVars
  <1>16. CASE BatchDone
    BY <1>16, FollowQuiet DEF BatchDone, UpdatePCs, hasherVars
  <1>17. CASE ScanDone
    BY <1>17, FollowQuiet DEF ScanDone, UpdatePCs, hasherVars
  <1>18. CASE UpdateNotDue
    BY <1>18, FollowQuiet DEF UpdateNotDue, UpdatePCs, hasherVars
  <1>19. CASE ReportDue
    BY <1>19, FollowQuiet DEF ReportDue, UpdatePCs, hasherVars
  <1>20. CASE ReportNotDue
    BY <1>20, FollowQuiet DEF ReportNotDue, UpdatePCs, hasherVars
  <1>21. CASE UpdateDue
    <2>1. UNCHANGED <<input, settings, active, wpc, mainApp>>
          /\ pc = "update" /\ pc' = "rate"
      BY <1>21 DEF UpdateDue, hasherVars
    <2>2. settings.recommendation = "pause" => mainApp
      BY <2>1 DEF FollowInv
    <2> QED
      BY <2>1, <2>2 DEF FollowInv, InputsFollowMiner, FollowsMiner
  <1>22. ASSUME NEW h \in Hashers, ReportRate(h)
        PROVE  FollowInv'
    BY <1>22, FollowQuiet DEF ReportRate, UpdatePCs, statistics, hasherVars
  <1>23. ASSUME NEW low \in BOOLEAN, Report(low)
        PROVE  FollowInv'
    BY <1>23, FollowQuiet DEF Report, UpdatePCs, hasherVars
  <1>24. ASSUME NEW h \in Hashers, Cleanup(h)
        PROVE  FollowInv'
    BY <1>24, FollowQuiet DEF Cleanup, UpdatePCs, cleanup_stop
  <1>25. CASE Join
    BY <1>25, FollowQuiet DEF Join, UpdatePCs, cleanup_join
  <1>26. CASE Disconnect
    BY <1>26, FollowQuiet DEF Disconnect, UpdatePCs, hasherVars
  <1>27. CASE Signal
    BY <1>27, FollowOther DEF Signal, hasherVars
  <1>28. ASSUME NEW w \in Workers, WorkerStep(w)
        PROVE  FollowInv'
    <2>1. /\ UNCHANGED <<input, settings, active, pc, todo, cur, mainApp>>
          /\ run(w)
      BY <1>28 DEF WorkerStep, minerVars, run, run_alloc, run_alloc_failed,
         run_loop, run_exit, should_pause, get_input_begin, get_input_end,
         generate_found, generate_missed, store_hash_begin, store_hash_end
    <2> QED
      BY <2>1, FollowOther, WorkersStayOn
  <1>29. CASE UNCHANGED vars
    BY <1>29, FollowOther DEF vars, hasherVars, minerVars
  <1> QED
    BY <1>1, <1>2, <1>3, <1>4, <1>5, <1>6, <1>7, <1>8, <1>9, <1>10, <1>11,
       <1>12, <1>13, <1>14, <1>15, <1>16, <1>17, <1>18, <1>19, <1>20,
       <1>21, <1>22, <1>23, <1>24, <1>25, <1>26, <1>27, <1>28, <1>29
       DEF Next, MainStep, ProcessEnded

\* A step of the main thread moves a worker only by configuring its hasher.
LEMMA MainLeavesWorkers ==
  ASSUME TypeOK, MainStep
  PROVE  \A w \in Workers : wpc'[w] = wpc[w] \/ (pc = "configure" /\ wpc'[w] = "alloc")
  <1>1. CASE wpc' = wpc
    BY <1>1
  <1>2. ASSUME NEW h \in Hashers, Configure(h)
        PROVE  \A w \in Workers : wpc'[w] = wpc[w] \/ (pc = "configure" /\ wpc'[w] = "alloc")
    BY <1>2 DEF Configure, configure, configure_disabled
  <1> QED
    BY <1>1, <1>2 DEF MainStep, ReadRate, SetInput, ScanStopped, GetHashes,
       ReportRate, Cleanup, Configured, PoolFailed, PoolAnswered,
       SetInputRest, CloseRound, InputDone, Enter, LoopTest, GetHashesDone,
       SkipExpired, Submit, BatchDone, ScanDone, UpdateDue, UpdateNotDue,
       ReportDue, ReportNotDue, Report, Join, Disconnect, statistics,
       set_input_begin, set_input_end, get_hashes_copy, get_hashes_clear,
       cleanup_stop, cleanup_join, hasherVars

\* FollowInv holds at the start.
LEMMA FollowInit == Init => FollowInv
  <1> SUFFICES ASSUME Init
               PROVE  FollowInv
    OBVIOUS
  <1>1. /\ pc = "configure" /\ mainApp = FALSE
        /\ settings.recommendation = ""
        /\ \A w \in Workers : wpc[w] = "off"
    BY DEF Init, HasherInit, EmptySettings
  <1> QED
    BY <1>1 DEF FollowInv, InputsFollowMiner

\* Outside an update every active hasher has the miner's settings, for any
\* number of hashers and any answers of the pool.
THEOREM InputsFollow == Spec => []InputsFollowMiner
  <1>1. FollowInv => InputsFollowMiner
    BY DEF FollowInv
  <1> QED
    BY <1>1, TypeCorrect, FollowInit, FollowStep, PTL DEF Spec

\* While the miner is paused and its hashers have been told, no worker passes
\* its pause test.
THEOREM PauseIsObeyed == Spec => NoNewWorkWhilePaused
  <1> DEFINE Obeyed ==
        (settings.recommendation = "pause"
          /\ pc \notin {"input", "inputRest", "round"})
        => \A w \in Workers : ~(wpc[w] = "pause" /\ wpc'[w] = "get")
  <1>1. TypeOK /\ FollowInv /\ [Next]_vars => [Obeyed]_vars
    <2> SUFFICES ASSUME TypeOK, FollowInv, Next,
                        settings.recommendation = "pause",
                        pc \notin {"input", "inputRest", "round"},
                        NEW w \in Workers, wpc[w] = "pause", wpc'[w] = "get"
                 PROVE  FALSE
      OBVIOUS
    <2>t. wpc \in [Workers -> WorkerPCs]
      BY DEF TypeOK, HasherTypeOK
    <2>1. FollowsMiner(HasherOf[w])
      <3>1. mainApp /\ pc # "configure" /\ HasherOf[w] \in active
        BY DEF FollowInv
      <3> QED
        BY <3>1 DEF FollowInv, InputsFollowMiner
    <2>2. input[HasherOf[w]].pause = TRUE
      <3> DEFINE p == settings.recommendation = "pause"
      <3>1. input[HasherOf[w]] =
               [height |-> settings.height,
                block_checksum |-> settings.block_checksum,
                solver_address |-> settings.solver_address,
                base |-> make_base(settings.block_checksum,
                                   settings.solver_address),
                hash_ceil |-> settings.hash_ceil, pause |-> p]
        BY <2>1 DEF FollowsMiner
      <3>2. p = TRUE
        OBVIOUS
      <3> HIDE DEF p
      <3> QED
        BY <3>1, <3>2
    <2>3. PICK v \in Workers : run(v)
      BY MainLeavesWorkers DEF Next, Signal, ProcessEnded, WorkerStep, vars,
         hasherVars
    <2>4. should_pause(w)
      BY <2>3, <2>t DEF run, run_alloc, run_alloc_failed, run_loop, run_exit,
         should_pause, get_input_begin, get_input_end, generate_found,
         generate_missed, store_hash_begin, store_hash_end
    <2> QED
      BY <2>2, <2>4, <2>t DEF should_pause
  <1> QED
    BY <1>1, TypeCorrect, FollowInit, FollowStep, PTL
       DEF Spec, NoNewWorkWhilePaused

-----------------------------------------------------------------------------
(* Shutdown.                                                               *)

\* A step that starts no worker, unloads no module and does not move the main
\* thread through its shutdown keeps ShutdownInv.
LEMMA ShutdownQuiet ==
  ASSUME ShutdownInv, UNCHANGED <<active, loaded, wpc>>,
         pc' \in {"cleanup", "join"} =>
            pc \in {"cleanup", "join"} /\ todo' = todo,
         pc' = "done" => pc = "done"
  PROVE  ShutdownInv'
  BY DEF ShutdownInv, NoThreadOutlivesModule, threadsOf

\* Neither does a worker's step: done is done.
LEMMA ShutdownWorker ==
  ASSUME TypeOK, ShutdownInv, NEW w \in Workers, WorkerStep(w)
  PROVE  ShutdownInv'
  <1>t. wpc \in [Workers -> WorkerPCs]
    BY DEF TypeOK, HasherTypeOK
  <1>1. run(w) /\ UNCHANGED <<pc, todo>> /\ pc # "done"
    BY DEF WorkerStep, minerVars, Terminated
  <1>2. /\ UNCHANGED <<active, loaded>>
        /\ wpc[w] \notin {"off", "done"}
        /\ \A v \in Workers : v # w => wpc'[v] = wpc[v]
    BY <1>1, <1>t DEF run, run_alloc, run_alloc_failed, run_loop, run_exit,
       should_pause, get_input_begin, get_input_end, generate_found,
       generate_missed, store_hash_begin, store_hash_end
  <1> QED
    BY <1>1, <1>2 DEF ShutdownInv, NoThreadOutlivesModule, threadsOf

\* Every step keeps ShutdownInv.
LEMMA ShutdownStep == TypeOK /\ ShutdownInv /\ [Next]_vars => ShutdownInv'
  <1> SUFFICES ASSUME TypeOK, ShutdownInv, [Next]_vars
               PROVE  ShutdownInv'
    OBVIOUS
  <1>1. ASSUME NEW h \in Hashers, Configure(h)
        PROVE  ShutdownInv'
    <2>1. pc' = "configure"
      BY <1>1 DEF Configure
    <2>2. CASE configure(h)
      BY <2>1, <2>2 DEF configure, ShutdownInv, NoThreadOutlivesModule
    <2>3. CASE configure_disabled(h)
      BY <2>1, <2>3 DEF configure_disabled, ShutdownInv, NoThreadOutlivesModule
    <2> QED
      BY <1>1, <2>2, <2>3 DEF Configure
  <1>2. ASSUME NEW h \in Hashers, ReadRate(h)
        PROVE  ShutdownInv'
    BY <1>2, ShutdownQuiet DEF ReadRate, statistics, hasherVars
  <1>3. ASSUME NEW h \in Hashers, SetInput(h)
        PROVE  ShutdownInv'
    BY <1>3, ShutdownQuiet DEF SetInput, set_input_begin
  <1>4. ASSUME NEW h \in Hashers, ScanStopped(h)
        PROVE  ShutdownInv'
    BY <1>4, ShutdownQuiet DEF ScanStopped, hasherVars
  <1>5. ASSUME NEW h \in Hashers, GetHashes(h)
        PROVE  ShutdownInv'
    BY <1>5, ShutdownQuiet DEF GetHashes, get_hashes_copy
  <1>6. ASSUME NEW h \in Hashers, ReportRate(h)
        PROVE  ShutdownInv'
    BY <1>6, ShutdownQuiet DEF ReportRate, statistics, hasherVars
  <1>7. ASSUME NEW h \in Hashers, Cleanup(h)
        PROVE  ShutdownInv'
    BY <1>7, ShutdownQuiet DEF Cleanup, cleanup_stop
  <1>8. CASE Configured
    BY <1>8, ShutdownQuiet DEF Configured, hasherVars
  <1>9. CASE PoolFailed
    BY <1>9, ShutdownQuiet DEF PoolFailed, hasherVars
  <1>10. ASSUME NEW job \in PoolJobs, PoolAnswered(job)
        PROVE  ShutdownInv'
    BY <1>10, ShutdownQuiet DEF PoolAnswered, hasherVars
  <1>11. CASE SetInputRest
    BY <1>11, ShutdownQuiet DEF SetInputRest, set_input_end
  <1>12. CASE CloseRound
    BY <1>12, ShutdownQuiet DEF CloseRound, statistics, hasherVars
  <1>13. CASE InputDone
    BY <1>13, ShutdownQuiet DEF InputDone, hasherVars
  <1>14. CASE Enter
    BY <1>14, ShutdownQuiet DEF Enter, hasherVars
  <1>15. CASE LoopTest
    <2>1. CASE running
      BY <1>15, <2>1, ShutdownQuiet DEF LoopTest, hasherVars
    <2>2. CASE ~running
      BY <1>15, <2>2 DEF LoopTest, hasherVars, ShutdownInv, NoThreadOutlivesModule
    <2> QED
      BY <2>1, <2>2
  <1>16. CASE GetHashesDone
    BY <1>16, ShutdownQuiet DEF GetHashesDone, get_hashes_clear
  <1>17. ASSUME NEW share \in batch, SkipExpired(share)
        PROVE  ShutdownInv'
    BY <1>17, ShutdownQuiet DEF SkipExpired, hasherVars
  <1>18. ASSUME NEW share \in batch, NEW response \in Responses,
               Submit(share, response)
        PROVE  ShutdownInv'
    BY <1>18, ShutdownQuiet DEF Submit, hasherVars
  <1>19. CASE BatchDone
    BY <1>19, ShutdownQuiet DEF BatchDone, hasherVars
  <1>20. CASE ScanDone
    BY <1>20, ShutdownQuiet DEF ScanDone, hasherVars
  <1>21. CASE UpdateDue
    BY <1>21, ShutdownQuiet DEF UpdateDue, hasherVars
  <1>22. CASE UpdateNotDue
    BY <1>22, ShutdownQuiet DEF UpdateNotDue, hasherVars
  <1>23. CASE ReportDue
    BY <1>23, ShutdownQuiet DEF ReportDue, hasherVars
  <1>24. CASE ReportNotDue
    BY <1>24, ShutdownQuiet DEF ReportNotDue, hasherVars
  <1>25. ASSUME NEW low \in BOOLEAN, Report(low)
        PROVE  ShutdownInv'
    BY <1>25, ShutdownQuiet DEF Report, hasherVars
  <1>26. CASE Join
    <2>1. /\ pc = "join" /\ pc' = "cleanup" /\ UNCHANGED <<active, wpc>>
          /\ todo' = todo \ {cur} /\ loaded' = loaded \ {cur}
          /\ \A w \in threadsOf(cur) : wpc[w] = "done"
      BY <1>26 DEF Join, cleanup_join
    <2> QED
      BY <2>1 DEF ShutdownInv, NoThreadOutlivesModule, threadsOf
  <1>27. CASE Disconnect
    <2>1. /\ pc = "cleanup" /\ todo = {} /\ pc' = "done"
          /\ UNCHANGED <<active, loaded, wpc>>
      BY <1>27 DEF Disconnect, hasherVars
    <2> QED
      BY <2>1 DEF ShutdownInv, NoThreadOutlivesModule, threadsOf
  <1>28. CASE Signal
    BY <1>28, ShutdownQuiet DEF Signal, hasherVars
  <1>29. ASSUME NEW w \in Workers, WorkerStep(w)
        PROVE  ShutdownInv'
    BY <1>29, ShutdownWorker
  <1>30. CASE UNCHANGED vars
    BY <1>30, ShutdownQuiet DEF vars, hasherVars, minerVars
  <1> QED
    BY <1>1, <1>2, <1>3, <1>4, <1>5, <1>6, <1>7, <1>8, <1>9, <1>10, <1>11,
       <1>12, <1>13, <1>14, <1>15, <1>16, <1>17, <1>18, <1>19, <1>20,
       <1>21, <1>22, <1>23, <1>24, <1>25, <1>26, <1>27, <1>28, <1>29,
       <1>30
       DEF Next, MainStep, ProcessEnded

\* No thread runs in an unloaded filler module and none is left when main
\* returns, however many hashers and threads there are.
THEOREM SafeShutdown == Spec => []NoThreadOutlivesModule
  <1>1. Init => ShutdownInv
    BY DEF Init, HasherInit, ShutdownInv, NoThreadOutlivesModule
  <1>2. ShutdownInv => NoThreadOutlivesModule
    BY DEF ShutdownInv
  <1> QED
    BY <1>1, <1>2, TypeCorrect, ShutdownStep, PTL DEF Spec
-----------------------------------------------------------------------------
(* The shares: no nonce is lost, none is submitted twice, and the miner     *)
(* implements the ledger of module ShareLedger.                            *)

\* What ShareInv looks at besides pc, cur, todo and wpc.
shareVars == <<hashes, hashesLock, out, drawn, batch, tries, sent, expired>>

\* A step that leaves the shares and the mutex alone, and moves a worker
\* neither into _store_hash nor, with results in hand, out of it, keeps
\* ShareInv.
LEMMA QuietShare ==
  ASSUME ShareInv, UNCHANGED shareVars,
         pc' = "clear" <=> pc = "clear",
         pc' = "submit" <=> pc = "submit",
         pc = "clear" => cur' = cur,
         \A w \in Workers : wpc'[w] = "storing" => wpc[w] = "storing",
         \A w \in Workers : out[w] # {} => wpc'[w] \in {"store", "storing"},
         Unstarted'
  PROVE  ShareInv'
  <1> USE DEF shareVars
  <1>1. HashesMutex'
    BY DEF ShareInv, HashesMutex
  <1>2. Places'
    BY DEF ShareInv, Places
  <1>3. Ledgered'
    BY DEF ShareInv, Ledgered, Open
  <1>4. Loose' = Loose
    BY DEF Loose
  <1>5. OnePlace'
    BY <1>4 DEF ShareInv, OnePlace
  <1>6. (\A n \in drawn : Located(n))'
    BY DEF ShareInv, Located
  <1> QED
    BY <1>1, <1>2, <1>3, <1>5, <1>6 DEF ShareInv

\* The steps of the main thread that do not touch a share.
QuietMain ==
    \/ \E h \in Hashers : \/ ReadRate(h)
                          \/ SetInput(h)
                          \/ ScanStopped(h)
                          \/ ReportRate(h)
                          \/ Cleanup(h)
    \/ Configured
    \/ PoolFailed
    \/ \E job \in PoolJobs : PoolAnswered(job)
    \/ SetInputRest
    \/ CloseRound
    \/ InputDone
    \/ Enter
    \/ LoopTest
    \/ ScanDone
    \/ UpdateDue
    \/ UpdateNotDue
    \/ ReportDue
    \/ ReportNotDue
    \/ \E low \in BOOLEAN : Report(low)
    \/ Join
    \/ Disconnect
    \/ Signal

\* They leave the shares, the mutex and the workers alone.
SharesUntouched ==
    /\ UNCHANGED <<shareVars, wpc>>
    /\ \/ pc' = pc
       \/ {pc, pc'} \cap {"clear", "submit", "configure"} = {}
       \/ pc = "configure" /\ pc' = "rate"
    /\ pc \in {"clear", "configure"} =>
         cur' = cur /\ (pc' = pc => todo' = todo)

\* Each of these steps is one of those the last definition describes.
LEMMA QuietMainFacts ==
  ASSUME QuietMain
  PROVE  SharesUntouched
  <1> USE DEF SharesUntouched
  <1> USE DEF shareVars
  <1>1. ASSUME NEW h \in Hashers, ReadRate(h)
        PROVE  SharesUntouched
    BY <1>1 DEF ReadRate, statistics, hasherVars
  <1>2. ASSUME NEW h \in Hashers, SetInput(h)
        PROVE  SharesUntouched
    BY <1>2 DEF SetInput, set_input_begin
  <1>3. ASSUME NEW h \in Hashers, ScanStopped(h)
        PROVE  SharesUntouched
    BY <1>3 DEF ScanStopped, hasherVars
  <1>4. ASSUME NEW h \in Hashers, ReportRate(h)
        PROVE  SharesUntouched
    BY <1>4 DEF ReportRate, statistics, hasherVars
  <1>5. ASSUME NEW h \in Hashers, Cleanup(h)
        PROVE  SharesUntouched
    BY <1>5 DEF Cleanup, cleanup_stop
  <1>6. ASSUME NEW job \in PoolJobs, PoolAnswered(job)
        PROVE  SharesUntouched
    BY <1>6 DEF PoolAnswered, hasherVars
  <1>7. ASSUME NEW low \in BOOLEAN, Report(low)
        PROVE  SharesUntouched
    BY <1>7 DEF Report, hasherVars
  <1>8. CASE Configured
    BY <1>8 DEF Configured, hasherVars
  <1>9. CASE PoolFailed
    BY <1>9 DEF PoolFailed, hasherVars
  <1>10. CASE CloseRound
    BY <1>10 DEF CloseRound, statistics, hasherVars
  <1>11. CASE InputDone
    BY <1>11 DEF InputDone, hasherVars
  <1>12. CASE Enter
    BY <1>12 DEF Enter, hasherVars
  <1>13. CASE LoopTest
    BY <1>13 DEF LoopTest, hasherVars
  <1>14. CASE ScanDone
    BY <1>14 DEF ScanDone, hasherVars
  <1>15. CASE UpdateDue
    BY <1>15 DEF UpdateDue, hasherVars
  <1>16. CASE UpdateNotDue
    BY <1>16 DEF UpdateNotDue, hasherVars
  <1>17. CASE ReportDue
    BY <1>17 DEF ReportDue, hasherVars
  <1>18. CASE ReportNotDue
    BY <1>18 DEF ReportNotDue, hasherVars
  <1>19. CASE Join
    BY <1>19 DEF Join, cleanup_join
  <1>20. CASE Disconnect
    BY <1>20 DEF Disconnect, hasherVars
  <1>21. CASE Signal
    BY <1>21 DEF Signal, hasherVars
  <1>22. CASE SetInputRest
    BY <1>22 DEF SetInputRest, set_input_end
  <1> HIDE DEF SharesUntouched
  <1> QED
    BY <1>1, <1>2, <1>3, <1>4, <1>5, <1>6, <1>7, <1>8, <1>9, <1>10,
       <1>11, <1>12, <1>13, <1>14, <1>15, <1>16, <1>17, <1>18,
       <1>19, <1>20, <1>21, <1>22
       DEF QuietMain

-----------------------------------------------------------------------------
(* The steps that move a share.                                            *)

\* The functions ShareInv reads are functions on hashers and workers.
LEMMA ShareTypes ==
  ASSUME TypeOK
  PROVE  /\ wpc \in [Workers -> WorkerPCs]
         /\ out \in [Workers -> SUBSET Shares]
         /\ hashes \in [Hashers -> SUBSET Shares]
         /\ hashesLock \in [Hashers -> Workers \cup {Main, Free}]
         /\ tries \in [Nonces -> Nat]
         /\ drawn \subseteq Nonces
         /\ batch \subseteq Shares
  BY DEF TypeOK, HasherTypeOK

\* A share that met the ceiling is new (argon2::encode_hashes).
LEMMA FoundShare ==
  ASSUME TypeOK, ShareInv, NEW w \in Workers, NEW n \in Nonces,
         generate_found(w, n), UNCHANGED minerVars
  PROVE  ShareInv'
  <1> DEFINE new == [nonce |-> n, work |-> work[w]]
  <1>t. /\ wpc \in [Workers -> WorkerPCs]
        /\ out \in [Workers -> SUBSET Shares]
        /\ hashes \in [Hashers -> SUBSET Shares]
        /\ tries \in [Nonces -> Nat]
        /\ drawn \subseteq Nonces
        /\ batch \subseteq Shares
    BY ShareTypes
  <1>a. /\ UNCHANGED <<hashes, hashesLock, batch, tries, sent, expired, pc,
                       cur, todo>>
        /\ wpc[w] = "hash" /\ wpc'[w] = "store"
        /\ n \notin drawn /\ drawn' = drawn \cup {n}
        /\ out'[w] = {new}
        /\ \A v \in Workers : v # w => out'[v] = out[v] /\ wpc'[v] = wpc[v]
    BY <1>t DEF generate_found, minerVars
  <1>n. new.nonce = n
    OBVIOUS
  <1> HIDE DEF new
  <1>o. out[w] = {}
    BY <1>a DEF ShareInv, Places
  <1>l. Loose' = Loose /\ Loose \subseteq batch
    BY <1>a DEF Loose
  <1>1. HashesMutex'
    BY <1>a DEF ShareInv, HashesMutex
  <1>2. Places' /\ Unstarted'
    BY <1>a DEF ShareInv, Places, Unstarted
  <1>f. tries[n] = 0 /\ n \notin expired
    BY <1>a DEF ShareInv, Ledgered
  <1>3. Ledgered'
    BY <1>a, <1>n, <1>f DEF ShareInv, Ledgered, Open
  <1>4. OnePlace'
    <2>1. /\ \A v \in Workers : \A s \in out[v] : s.nonce # n
          /\ \A h \in Hashers : \A s \in hashes[h] : s.nonce # n
          /\ \A s \in batch : s.nonce # n
      BY <1>a DEF ShareInv, Ledgered, Open
    <2> QED
      BY <1>a, <1>n, <1>l, <2>1 DEF ShareInv, OnePlace
  <1>5. (\A m \in drawn : Located(m))'
    <2> SUFFICES ASSUME NEW m \in drawn'
                 PROVE  Located(m)'
      OBVIOUS
    <2>1. CASE m = n
      BY <1>a, <1>n, <2>1 DEF Located
    <2>2. CASE m \in drawn
      BY <1>a, <1>o, <2>2 DEF ShareInv, Located
    <2> QED
      BY <1>a, <2>1, <2>2
  <1> QED
    BY <1>1, <1>2, <1>3, <1>4, <1>5 DEF ShareInv

\* _store_hash moves the results from the worker to the queue while the mutex
\* keeps get_hashes out.
LEMMA StoredShare ==
  ASSUME TypeOK, ShareInv, NEW w \in Workers, store_hash_end(w),
         UNCHANGED minerVars
  PROVE  ShareInv'
  <1> DEFINE h == HasherOf[w]
  <1>h. h \in Hashers
    OBVIOUS
  <1>t. /\ wpc \in [Workers -> WorkerPCs]
        /\ out \in [Workers -> SUBSET Shares]
        /\ hashes \in [Hashers -> SUBSET Shares]
        /\ hashesLock \in [Hashers -> Workers \cup {Main, Free}]
    BY ShareTypes
  <1>a. /\ UNCHANGED <<drawn, batch, tries, sent, expired, pc, cur, todo>>
        /\ wpc[w] = "storing" /\ wpc'[w] = "loop"
        /\ out'[w] = {}
        /\ hashes'[h] = hashes[h] \cup out[w]
        /\ hashesLock'[h] = Free
        /\ \A v \in Workers : v # w => out'[v] = out[v] /\ wpc'[v] = wpc[v]
        /\ \A k \in Hashers : k # h =>
              hashes'[k] = hashes[k] /\ hashesLock'[k] = hashesLock[k]
    BY <1>t, <1>h DEF store_hash_end, minerVars
  <1>m. hashesLock[h] = w
    BY <1>a DEF ShareInv, HashesMutex
  <1>c. pc = "clear" => cur \in Hashers /\ cur # h
    BY <1>m DEF ShareInv, HashesMutex, TypeOK
  <1> HIDE DEF h
  <1>l. Loose' = Loose
    BY <1>a DEF Loose
  <1>1. HashesMutex'
    <2>1. pc = "clear" => hashesLock'[cur] = Main /\ hashes'[cur] = batch
      BY <1>a, <1>c DEF ShareInv, HashesMutex
    <2>2. ASSUME NEW v \in Workers, wpc'[v] = "storing"
          PROVE  hashesLock'[HasherOf[v]] = v
      <3>1. v # w /\ hashesLock[HasherOf[v]] = v
        BY <1>a, <2>2 DEF ShareInv, HashesMutex
      <3>2. HasherOf[v] # h /\ HasherOf[v] \in Hashers
        BY <1>m, <3>1
      <3> QED
        BY <1>a, <3>1, <3>2
    <2> QED
      BY <1>a, <2>1, <2>2 DEF HashesMutex
  <1>2. Places' /\ Unstarted'
    BY <1>a DEF ShareInv, Places, Unstarted
  <1>3. Ledgered'
    BY <1>a, <1>h DEF ShareInv, Ledgered, Open
  <1>4. OnePlace'
    <2>1. \A k \in Hashers : \A s \in hashes'[k] :
             s \in hashes[k] \/ (k = h /\ s \in out[w])
      <3>1. hashes'[h] = hashes[h] \cup out[w]
        BY <1>a
      <3>2. \A k \in Hashers : k # h => hashes'[k] = hashes[k]
        BY <1>a
      <3> QED
        BY <3>1, <3>2
    <2>2. \A v \in Workers : \A s \in out'[v] : s \in out[v] /\ v # w
      BY <1>a
    <2> QED
      BY <1>h, <1>l, <2>1, <2>2 DEF ShareInv, OnePlace
  <1>5. (\A m \in drawn : Located(m))'
    <2> SUFFICES ASSUME NEW m \in drawn
                 PROVE  Located(m)'
      BY <1>a
    <2>1. Located(m)
      BY DEF ShareInv
    <2>2. CASE \E v \in Workers : \E s \in out[v] : s.nonce = m
      BY <1>a, <1>h, <2>2 DEF Located
    <2>3. CASE \E k \in Hashers : \E s \in hashes[k] : s.nonce = m
      BY <1>a, <1>h, <2>3 DEF Located
    <2> QED
      BY <1>a, <2>1, <2>2, <2>3 DEF Located
  <1> QED
    BY <1>1, <1>2, <1>3, <1>4, <1>5 DEF ShareInv

\* The other steps of a worker touch no share.
LEMMA WorkerShare ==
  ASSUME TypeOK, ShareInv, NEW w \in Workers, WorkerStep(w)
  PROVE  ShareInv'
  <1>t. wpc \in [Workers -> WorkerPCs]
    BY ShareTypes
  <1>m. run(w) /\ UNCHANGED <<minerVars, pc, cur, todo, batch, tries, sent,
                              expired>>
    BY DEF WorkerStep, minerVars
  <1>u. wpc[w] # "off" /\ (\A v \in Workers : v # w => wpc'[v] = wpc[v])
          => Unstarted'
    BY <1>m DEF ShareInv, Unstarted
  <1>1. ASSUME UNCHANGED <<hashes, hashesLock, out, drawn>>, wpc[w] # "off",
               \A v \in Workers : v # w => wpc'[v] = wpc[v],
               wpc[w] \notin {"store", "storing"}, wpc'[w] # "storing"
        PROVE  ShareInv'
    <2>1. \A v \in Workers : wpc'[v] = "storing" => wpc[v] = "storing"
      BY <1>1
    <2>2. \A v \in Workers : out[v] # {} => wpc'[v] \in {"store", "storing"}
      BY <1>1 DEF ShareInv, Places
    <2> QED
      BY <1>m, <1>u, <1>1, <2>1, <2>2, QuietShare DEF shareVars
  <1>2. CASE run_alloc(w)
    BY <1>1, <1>2, <1>t DEF run_alloc
  <1>3. CASE run_alloc_failed(w)
    BY <1>1, <1>3, <1>t DEF run_alloc_failed
  <1>4. CASE run_loop(w)
    BY <1>1, <1>4, <1>t DEF run_loop
  <1>5. CASE run_exit(w)
    BY <1>1, <1>5, <1>t DEF run_exit
  <1>6. CASE should_pause(w)
    BY <1>1, <1>6, <1>t DEF should_pause
  <1>7. CASE get_input_begin(w)
    BY <1>1, <1>7, <1>t DEF get_input_begin
  <1>8. CASE get_input_end(w)
    BY <1>1, <1>8, <1>t DEF get_input_end
  <1>9. CASE generate_missed(w)
    BY <1>1, <1>9, <1>t DEF generate_missed
  <1>10. CASE \E n \in Nonces : generate_found(w, n)
    BY <1>10, <1>m, FoundShare
  <1>11. CASE store_hash_begin(w)
    <2>h. HasherOf[w] \in Hashers
      OBVIOUS
    <2>a. /\ UNCHANGED <<hashes, out, drawn>>
          /\ wpc[w] = "store" /\ wpc'[w] = "storing"
          /\ \A v \in Workers : v # w => wpc'[v] = wpc[v]
          /\ hashesLock[HasherOf[w]] = Free
          /\ hashesLock'[HasherOf[w]] = w
          /\ \A k \in Hashers : k # HasherOf[w] =>
                hashesLock'[k] = hashesLock[k]
      BY <1>11, <1>t, <2>h, ShareTypes DEF store_hash_begin
    <2>1. HashesMutex'
      <3>1. pc = "clear" => cur \in Hashers /\ cur # HasherOf[w]
        BY <2>a DEF ShareInv, HashesMutex, TypeOK
      <3>2. ASSUME NEW v \in Workers, wpc'[v] = "storing"
            PROVE  hashesLock'[HasherOf[v]] = v
        <4>1. CASE v = w
          BY <2>a, <4>1
        <4>2. CASE v # w
          <5>1. hashesLock[HasherOf[v]] = v
            BY <2>a, <3>2, <4>2 DEF ShareInv, HashesMutex
          <5>2. HasherOf[v] # HasherOf[w] /\ HasherOf[v] \in Hashers
            BY <2>a, <5>1
          <5> QED
            BY <2>a, <5>1, <5>2
        <4> QED
          BY <4>1, <4>2
      <3> QED
        BY <1>m, <2>a, <3>1, <3>2 DEF ShareInv, HashesMutex
    <2>2. Places'
      BY <1>m, <2>a DEF ShareInv, Places
    <2>3. Unstarted'
      BY <1>u, <2>a
    <2>4. Ledgered'
      BY <1>m, <2>a DEF ShareInv, Ledgered, Open
    <2>5. Loose' = Loose
      BY <1>m DEF Loose
    <2>6. OnePlace'
      BY <2>a, <2>5 DEF ShareInv, OnePlace
    <2>7. (\A n \in drawn : Located(n))'
      BY <1>m, <2>a DEF ShareInv, Located
    <2> QED
      BY <2>1, <2>2, <2>3, <2>4, <2>6, <2>7 DEF ShareInv
  <1>12. CASE store_hash_end(w)
    BY <1>12, <1>m, StoredShare
  <1> QED
    BY <1>m, <1>2, <1>3, <1>4, <1>5, <1>6, <1>7, <1>8, <1>9, <1>10, <1>11,
       <1>12 DEF run

\* The threads configure starts have no results.
LEMMA ConfigureShare ==
  ASSUME TypeOK, ShareInv, NEW h \in Hashers, Configure(h)
  PROVE  ShareInv'
  <1>a. /\ UNCHANGED <<shareVars, cur, pc>>
        /\ pc = "configure" /\ h \in todo /\ todo' = todo \ {h}
    BY DEF Configure, configure, configure_disabled, shareVars
  <1>b. \A w \in Workers :
           \/ wpc'[w] = wpc[w]
           \/ HasherOf[w] = h /\ wpc'[w] = "alloc"
    BY DEF Configure, configure, configure_disabled
  <1>c. \A w \in Workers : HasherOf[w] = h => out[w] = {}
    BY <1>a DEF ShareInv, Unstarted, Places
  <1>1. Unstarted'
    BY <1>a, <1>b DEF ShareInv, Unstarted
  <1>2. \A w \in Workers : wpc'[w] = "storing" => wpc[w] = "storing"
    BY <1>b
  <1>3. \A w \in Workers : out[w] # {} => wpc'[w] \in {"store", "storing"}
    BY <1>b, <1>c DEF ShareInv, Places
  <1> QED
    BY <1>a, <1>1, <1>2, <1>3, QuietShare

\* get_hashes, the copy: no worker is inside _store_hash.
LEMMA CopyShare ==
  ASSUME TypeOK, ShareInv, NEW h \in Hashers, GetHashes(h)
  PROVE  ShareInv'
  <1>t. /\ hashes \in [Hashers -> SUBSET Shares]
        /\ hashesLock \in [Hashers -> Workers \cup {Main, Free}]
    BY ShareTypes
  <1>a. /\ UNCHANGED <<hashes, out, drawn, wpc, tries, sent, expired>>
        /\ pc = "scan" /\ pc' = "clear" /\ cur' = h
        /\ batch' = hashes[h]
        /\ hashesLock[h] = Free
        /\ hashesLock'[h] = Main
        /\ \A k \in Hashers : k # h => hashesLock'[k] = hashesLock[k]
    BY <1>t DEF GetHashes, get_hashes_copy
  <1>b. batch = {}
    BY <1>a DEF ShareInv, Places
  <1>1. HashesMutex'
    <2> SUFFICES ASSUME NEW w \in Workers, wpc[w] = "storing"
                 PROVE  hashesLock'[HasherOf[w]] = w
      BY <1>a DEF HashesMutex
    <2>1. hashesLock[HasherOf[w]] = w /\ HasherOf[w] \in Hashers
      BY DEF ShareInv, HashesMutex
    <2> QED
      BY <1>a, <2>1
  <1>2. Places' /\ Unstarted'
    BY <1>a DEF ShareInv, Places, Unstarted
  <1>3. Ledgered'
    BY <1>a DEF ShareInv, Ledgered, Open
  <1>4. OnePlace'
    <2>1. Loose = {} /\ Loose' = {}
      BY <1>a DEF Loose
    <2> QED
      BY <1>a, <2>1 DEF ShareInv, OnePlace
  <1>5. (\A n \in drawn : Located(n))'
    BY <1>a, <1>b DEF ShareInv, Located
  <1> QED
    BY <1>1, <1>2, <1>3, <1>4, <1>5 DEF ShareInv

\* get_hashes, the clear: the batch holds all that is cleared.
LEMMA ClearShare ==
  ASSUME TypeOK, ShareInv, GetHashesDone
  PROVE  ShareInv'
  <1>t. /\ hashes \in [Hashers -> SUBSET Shares]
        /\ hashesLock \in [Hashers -> Workers \cup {Main, Free}]
    BY ShareTypes
  <1>p. pc = "clear" /\ pc' = "submit"
    BY DEF GetHashesDone
  <1>c. PICK c \in Hashers : c = cur
    BY <1>p DEF TypeOK
  <1>a. /\ UNCHANGED <<out, drawn, wpc, batch, tries, sent, expired>>
        /\ hashes[c] = batch /\ hashes'[c] = {}
        /\ hashesLock[c] = Main
        /\ \A k \in Hashers : k # c =>
              hashes'[k] = hashes[k] /\ hashesLock'[k] = hashesLock[k]
    BY <1>t, <1>p, <1>c DEF GetHashesDone, get_hashes_clear, ShareInv,
       HashesMutex
  <1>1. HashesMutex'
    <2> SUFFICES ASSUME NEW w \in Workers, wpc[w] = "storing"
                 PROVE  hashesLock'[HasherOf[w]] = w
      BY <1>a, <1>p DEF HashesMutex
    <2>1. hashesLock[HasherOf[w]] = w /\ HasherOf[w] \in Hashers
      BY DEF ShareInv, HashesMutex
    <2> QED
      BY <1>a, <2>1
  <1>2. Places' /\ Unstarted'
    BY <1>a, <1>p DEF ShareInv, Places, Unstarted
  <1>b. \A k \in Hashers : \A s \in hashes'[k] : s \in hashes[k] /\ k # c
    BY <1>a
  <1>3. Ledgered'
    BY <1>a, <1>b DEF ShareInv, Ledgered, Open
  <1>4. OnePlace'
    <2>1. Loose' = hashes[c]
      BY <1>a, <1>p DEF Loose
    <2> QED
      BY <1>a, <1>b, <2>1 DEF ShareInv, OnePlace
  <1>5. (\A n \in drawn : Located(n))'
    <2> SUFFICES ASSUME NEW n \in drawn
                 PROVE  Located(n)'
      BY <1>a
    <2>1. Located(n)
      BY DEF ShareInv
    <2>2. CASE \E k \in Hashers : \E s \in hashes[k] : s.nonce = n
      <3>1. PICK k \in Hashers : \E s \in hashes[k] : s.nonce = n
        BY <2>2
      <3>2. CASE k = c
        BY <1>a, <3>1, <3>2 DEF Located
      <3>3. CASE k # c
        BY <1>a, <3>1, <3>3 DEF Located
      <3> QED
        BY <3>2, <3>3
    <2> QED
      BY <1>a, <2>1, <2>2 DEF Located
  <1> QED
    BY <1>1, <1>2, <1>3, <1>4, <1>5 DEF ShareInv

\* A share leaves the batch when it is submitted or dropped.
LEMMA ClosedShare ==
  ASSUME TypeOK, ShareInv, NEW share \in batch,
         \/ SkipExpired(share)
         \/ \E response \in Responses : Submit(share, response)
  PROVE  ShareInv'
  <1> DEFINE n == share.nonce
  <1>t. tries \in [Nonces -> Nat] /\ batch \subseteq Shares
    BY ShareTypes
  <1>n. n \in Nonces /\ Open(n)
    BY <1>t DEF Shares, ShareInv, Ledgered
  <1> DEFINE record == [share |-> share, height |-> settings.height]
  <1>a. /\ UNCHANGED <<hashes, hashesLock, out, drawn, wpc, pc, cur, todo>>
        /\ pc = "submit" /\ batch' = batch \ {share}
        /\ \A m \in Nonces : m # n => tries'[m] = tries[m]
        /\ \/ /\ expired' = expired \cup {n}
              /\ UNCHANGED <<tries, sent>>
           \/ /\ tries'[n] = 1
              /\ UNCHANGED expired
              /\ sent' = sent \cup {record}
    <2>1. CASE SkipExpired(share)
      BY <2>1 DEF SkipExpired, hasherVars
    <2>2. ASSUME NEW response \in Responses, Submit(share, response)
          PROVE  /\ UNCHANGED <<hashes, hashesLock, out, drawn, wpc, pc, cur,
                                todo, expired>>
                 /\ pc = "submit" /\ batch' = batch \ {share}
                 /\ tries' = [tries EXCEPT ![n] = @ + 1]
                 /\ sent' = sent \cup {record}
      BY <2>2 DEF Submit, hasherVars
    <2>3. ASSUME NEW response \in Responses, Submit(share, response)
          PROVE  /\ tries'[n] = 1
                 /\ \A m \in Nonces : m # n => tries'[m] = tries[m]
      <3> HIDE DEF n
      <3>1. tries' = [tries EXCEPT ![n] = tries[n] + 1] /\ tries[n] = 0
        BY <1>n, <2>2, <2>3 DEF Open
      <3> QED
        BY <1>n, <1>t, <3>1
    <2> HIDE DEF n, record
    <2> QED
      BY <2>1, <2>2, <2>3
  <1>r. record.share = share
    OBVIOUS
  <1> HIDE DEF record
  <1>s. /\ \A r \in sent' : r \in sent \/ (r.share = share /\ tries'[n] = 1)
        /\ sent \subseteq sent'
        /\ expired \subseteq expired' /\ expired' \subseteq expired \cup {n}
    BY <1>a, <1>r
  <1>u. \A s \in batch : s.nonce \in Nonces
    BY <1>t DEF Shares
  <1>v. /\ \A w \in Workers : \A s \in out[w] : s.nonce \in Nonces
        /\ \A h \in Hashers : \A s \in hashes[h] : s.nonce \in Nonces
    BY ShareTypes DEF Shares
  <1>o. /\ \A w \in Workers : \A s \in out[w] : s.nonce # n
        /\ \A h \in Hashers : \A s \in hashes[h] : s.nonce # n
        /\ \A s \in batch : s # share => s.nonce # n
    BY <1>a DEF ShareInv, OnePlace, Loose
  <1>1. HashesMutex'
    BY <1>a DEF ShareInv, HashesMutex
  <1>2. Places' /\ Unstarted'
    BY <1>a DEF ShareInv, Places, Unstarted
  <1>3. Ledgered'
    <2> HIDE DEF n
    <2>1. /\ \A w \in Workers : \A s \in out'[w] : Open(s.nonce)'
          /\ \A h \in Hashers : \A s \in hashes'[h] : Open(s.nonce)'
      BY <1>a, <1>s, <1>v, <1>o DEF ShareInv, Ledgered, Open
    <2>2. \A s \in batch' : Open(s.nonce)'
      BY <1>a, <1>s, <1>u, <1>o DEF ShareInv, Ledgered, Open
    <2>3. \A m \in Nonces : tries'[m] # 0 =>
             tries'[m] = 1 /\ m \in drawn /\ m \notin expired'
      BY <1>a, <1>n DEF ShareInv, Ledgered, Open
    <2>4. \A r \in sent' : tries'[r.share.nonce] # 0
      <3> SUFFICES ASSUME NEW r \in sent'
                   PROVE  tries'[r.share.nonce] # 0
        OBVIOUS
      <3>1. CASE r.share = share /\ tries'[n] = 1
        BY <3>1 DEF n
      <3>2. CASE r \in sent
        <4>1. tries[r.share.nonce] # 0 /\ r.share.nonce \in Nonces
          BY <3>2 DEF ShareInv, Ledgered, TypeOK, Shares
        <4>2. r.share.nonce # n
          BY <1>n, <4>1 DEF Open
        <4> QED
          BY <1>a, <4>1, <4>2
      <3> QED
        BY <1>s, <3>1, <3>2
    <2>5. expired' \subseteq drawn'
      BY <1>a, <1>s, <1>n DEF ShareInv, Ledgered, Open
    <2> QED
      BY <1>a, <2>1, <2>2, <2>3, <2>4, <2>5 DEF Ledgered
  <1>4. OnePlace'
    <2>1. Loose = batch /\ Loose' = batch'
      BY <1>a DEF Loose
    <2> QED
      BY <1>a, <2>1 DEF ShareInv, OnePlace
  <1>5. (\A m \in drawn : Located(m))'
    <2> SUFFICES ASSUME NEW m \in drawn
                 PROVE  Located(m)'
      BY <1>a
    <2>1. CASE m = n
      BY <1>a, <1>r, <2>1 DEF Located
    <2>2. CASE m # n
      BY <1>a, <1>s, <2>2 DEF ShareInv, Located
    <2> QED
      BY <2>1, <2>2
  <1> QED
    BY <1>1, <1>2, <1>3, <1>4, <1>5 DEF ShareInv

-----------------------------------------------------------------------------
(* The theorems.                                                           *)

\* A step of the system is one of these.
LEMMA ShareCases ==
  ASSUME [Next]_vars
  PROVE  \/ QuietMain
         \/ UNCHANGED vars
         \/ \E h \in Hashers : Configure(h) \/ GetHashes(h)
         \/ GetHashesDone
         \/ \E share \in batch :
               \/ SkipExpired(share)
               \/ \E response \in Responses : Submit(share, response)
         \/ BatchDone
         \/ \E w \in Workers : WorkerStep(w)
  <1>1. CASE MainStep
    BY <1>1 DEF MainStep, QuietMain
  <1>2. CASE Signal
    BY <1>2 DEF QuietMain
  <1> QED
    BY <1>1, <1>2 DEF Next, ProcessEnded

\* Every step keeps ShareInv.
LEMMA ShareStep == TypeOK /\ ShareInv /\ [Next]_vars => ShareInv'
  <1> SUFFICES ASSUME TypeOK, ShareInv, [Next]_vars
               PROVE  ShareInv'
    OBVIOUS
  <1>1. CASE QuietMain
    <2>1. SharesUntouched
      BY <1>1, QuietMainFacts
    <2>2. Unstarted'
      BY <2>1 DEF SharesUntouched, ShareInv, Unstarted
    <2>3. \A w \in Workers : out[w] # {} => wpc'[w] \in {"store", "storing"}
      BY <2>1 DEF SharesUntouched, ShareInv, Places
    <2> QED
      BY <2>1, <2>2, <2>3, QuietShare DEF SharesUntouched
  <1>2. CASE UNCHANGED vars
    <2>1. UNCHANGED <<shareVars, wpc, pc, cur, todo>>
      BY <1>2 DEF vars, hasherVars, minerVars, shareVars
    <2>2. Unstarted'
      BY <2>1 DEF ShareInv, Unstarted
    <2>3. \A w \in Workers : out[w] # {} => wpc'[w] \in {"store", "storing"}
      BY <2>1 DEF ShareInv, Places
    <2> QED
      BY <2>1, <2>2, <2>3, QuietShare
  <1>3. CASE BatchDone
    <2>1. /\ UNCHANGED <<shareVars, wpc, cur, todo>>
          /\ pc = "submit" /\ pc' = "scan" /\ batch = {}
      BY <1>3 DEF BatchDone, hasherVars, shareVars
    <2>2. HashesMutex' /\ Places' /\ Unstarted'
      BY <2>1 DEF shareVars, ShareInv, HashesMutex, Places, Unstarted
    <2>3. Ledgered'
      BY <2>1 DEF shareVars, ShareInv, Ledgered, Open
    <2>4. Loose = {} /\ Loose' = {}
      BY <2>1 DEF Loose
    <2>5. OnePlace'
      BY <2>1, <2>4 DEF shareVars, ShareInv, OnePlace
    <2>6. (\A n \in drawn : Located(n))'
      BY <2>1 DEF shareVars, ShareInv, Located
    <2> QED
      BY <2>2, <2>3, <2>5, <2>6 DEF ShareInv
  <1> QED
    BY <1>1, <1>2, <1>3, ShareCases, ConfigureShare, CopyShare, ClearShare,
       ClosedShare, WorkerShare

\* Before the first hasher is configured there are no shares.
LEMMA ShareInit == Init => ShareInv
  <1> SUFFICES ASSUME Init
               PROVE  ShareInv
    OBVIOUS
  <1> USE DEF Init, HasherInit
  <1>1. HashesMutex /\ Places /\ Unstarted
    BY DEF HashesMutex, Places, Unstarted
  <1>2. Ledgered
    BY DEF Ledgered
  <1>3. OnePlace
    BY DEF OnePlace, Loose
  <1> QED
    BY <1>1, <1>2, <1>3 DEF ShareInv

\* ShareInv holds throughout.
LEMMA ShareAlways == Spec => [](TypeOK /\ ShareInv)
  BY TypeCorrect, ShareInit, ShareStep, PTL DEF Spec

\* No nonce found is lost, however many workers store into however many queues
\* while the main thread empties them.
THEOREM NothingLost == Spec => []NoShareLost
  <1>1. TypeOK /\ ShareInv => NoShareLost
    <2> SUFFICES ASSUME TypeOK, ShareInv
                 PROVE  NoShareLost
      OBVIOUS
    <2> DEFINE places == NoncesIn(InHand) \cup NoncesIn(Queued)
                            \cup NoncesIn(batch)
                            \cup {s.share.nonce : s \in sent} \cup expired
    <2>1. ASSUME NEW n \in drawn
          PROVE  n \in places
      <3>1. Located(n)
        BY DEF ShareInv
      <3> QED
        BY <3>1 DEF Located, NoncesIn, InHand, Queued
    <2>2. ASSUME NEW n \in places
          PROVE  n \in drawn
      <3>1. CASE n \in NoncesIn(InHand) \cup NoncesIn(Queued)
                         \cup NoncesIn(batch)
        BY <3>1 DEF NoncesIn, InHand, Queued, ShareInv, Ledgered, Open
      <3>2. CASE n \in {s.share.nonce : s \in sent}
        <4>1. PICK r \in sent : n = r.share.nonce
          BY <3>2
        <4>2. n \in Nonces
          BY <4>1 DEF TypeOK, Shares
        <4> QED
          BY <4>1, <4>2 DEF ShareInv, Ledgered
      <3>3. CASE n \in expired
        BY <3>3 DEF ShareInv, Ledgered
      <3> QED
        BY <2>2, <3>1, <3>2, <3>3
    <2> QED
      BY <2>1, <2>2 DEF NoShareLost
  <1> QED
    BY <1>1, ShareAlways, PTL

\* No nonce found is submitted twice.
THEOREM OnlyOnce == Spec => []SubmittedOnce
  <1>1. TypeOK /\ ShareInv => SubmittedOnce
    <2> SUFFICES ASSUME TypeOK, ShareInv, NEW n \in Nonces
                 PROVE  tries[n] <= 1
      BY DEF SubmittedOnce
    <2>1. tries[n] = 0 \/ tries[n] = 1
      BY DEF ShareInv, Ledgered
    <2> QED
      BY <2>1
  <1> QED
    BY <1>1, ShareAlways, PTL

\* The miner implements the ledger: a step finds, submits or drops one nonce
\* that may be found, submitted or dropped, or does not show in the ledger.
THEOREM KeepsLedger == Spec => ImplementsLedger
  <1> DEFINE status == [n \in Nonces |-> StatusOf(n)]
  <1>1. Init => Ledger!Init
    BY DEF Init, HasherInit, Ledger!Init, StatusOf
  <1>2. TypeOK /\ ShareInv /\ [Next]_vars => [Ledger!Next]_<<status, tries>>
    <2> SUFFICES ASSUME TypeOK, ShareInv, [Next]_vars
                 PROVE  [Ledger!Next]_<<status, tries>>
      OBVIOUS
    <2>t. tries \in [Nonces -> Nat]
      BY DEF TypeOK
    <2>1. ASSUME UNCHANGED <<drawn, tries, expired>>
          PROVE  UNCHANGED <<status, tries>>
      BY <2>1 DEF StatusOf
    <2>2. ASSUME NEW w \in Workers, WorkerStep(w)
          PROVE  [Ledger!Next]_<<status, tries>>
      <3>1. CASE \E n \in Nonces : generate_found(w, n)
        <4>1. PICK n \in Nonces : generate_found(w, n)
          BY <3>1
        <4>2. /\ n \notin drawn /\ drawn' = drawn \cup {n}
              /\ UNCHANGED <<tries, expired>>
          BY <2>2, <4>1 DEF generate_found, WorkerStep, minerVars
        <4>3. tries[n] = 0 /\ n \notin expired
          BY <4>2 DEF ShareInv, Ledgered
        <4>4. status[n] = "unknown" /\ status' = [status EXCEPT ![n] = "found"]
          BY <4>2, <4>3 DEF StatusOf
        <4> HIDE DEF status
        <4>5. Ledger!Find(n)
          BY <4>2, <4>4 DEF Ledger!Find, status
        <4> QED
          BY <4>5 DEF Ledger!Next
      <3>2. CASE ~\E n \in Nonces : generate_found(w, n)
        <4>1. UNCHANGED <<drawn, tries, expired>>
          BY <2>2, <3>2 DEF WorkerStep, minerVars, run, run_alloc,
             run_alloc_failed, run_loop, run_exit, should_pause,
             get_input_begin, get_input_end, generate_missed,
             store_hash_begin, store_hash_end
        <4> QED
          BY <2>1, <4>1
      <3> QED
        BY <3>1, <3>2
    <2>3. ASSUME NEW share \in batch, SkipExpired(share)
          PROVE  [Ledger!Next]_<<status, tries>>
      <3> DEFINE n == share.nonce
      <3>1. n \in Nonces /\ Open(n)
        BY DEF TypeOK, Shares, ShareInv, Ledgered
      <3>2. expired' = expired \cup {n} /\ UNCHANGED <<drawn, tries>>
        BY <2>3 DEF SkipExpired, hasherVars
      <3> HIDE DEF n
      <3>3. status[n] = "found" /\ status' = [status EXCEPT ![n] = "expired"]
        BY <3>1, <3>2 DEF StatusOf, Open
      <3>4. Ledger!Drop(n)
        BY <3>2, <3>3 DEF Ledger!Drop
      <3> QED
        BY <3>1, <3>4 DEF Ledger!Next
    <2>4. ASSUME NEW share \in batch, NEW response \in Responses,
                 Submit(share, response)
          PROVE  [Ledger!Next]_<<status, tries>>
      <3> DEFINE n == share.nonce
      <3>1. n \in Nonces /\ Open(n)
        BY DEF TypeOK, Shares, ShareInv, Ledgered
      <3>2. /\ tries' = [tries EXCEPT ![n] = @ + 1]
            /\ UNCHANGED <<drawn, expired>>
        BY <2>4 DEF Submit, hasherVars
      <3> HIDE DEF n
      <3>3. status[n] = "found" /\ status' = [status EXCEPT ![n] = "sent"]
        <4>1. status[n] = "found"
          BY <3>1 DEF StatusOf, Open
        <4>2. tries'[n] = 1
          BY <2>t, <3>1, <3>2 DEF Open
        <4>3. ASSUME NEW m \in Nonces, m # n
              PROVE  StatusOf(m)' = StatusOf(m)
          <5>1. tries'[m] = tries[m]
            BY <2>t, <3>1, <3>2, <4>3
          <5> QED
            BY <3>2, <5>1 DEF StatusOf
        <4>4. StatusOf(n)' = "sent"
          BY <3>1, <3>2, <4>2 DEF StatusOf, Open
        <4> QED
          BY <3>1, <4>1, <4>3, <4>4
      <3>4. Ledger!Send(n)
        BY <3>2, <3>3 DEF Ledger!Send
      <3> QED
        BY <3>1, <3>4 DEF Ledger!Next
    <2>5. CASE \/ QuietMain
               \/ UNCHANGED vars
               \/ \E h \in Hashers : Configure(h) \/ GetHashes(h)
               \/ GetHashesDone
               \/ BatchDone
      <3>1. UNCHANGED <<drawn, tries, expired>>
        BY <2>5, QuietMainFacts DEF SharesUntouched, shareVars, vars,
           hasherVars, minerVars, Configure, configure, configure_disabled,
           GetHashes, get_hashes_copy, GetHashesDone, get_hashes_clear,
           BatchDone
      <3> QED
        BY <2>1, <3>1
    <2> QED
      BY <2>2, <2>3, <2>4, <2>5, ShareCases
  <1> QED
    BY <1>1, <1>2, ShareAlways, PTL DEF Spec, ImplementsLedger, Ledger!Spec
=============================================================================
