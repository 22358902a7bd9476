---------------------------- MODULE OpenclProofs ----------------------------
(***************************************************************************)
(* Theorems about module OpenclHasher, for any number of devices.          *)
(***************************************************************************)
EXTENDS OpenclHasher, TLAPS

USE FreeAssumption, ValuesAssumption

\* A thread is its device and its thread_id.
LEMMA RunnerParts ==
  ASSUME NEW r \in Runners
  PROVE  /\ DeviceOf(r) \in Devices
         /\ IdOf(r) \in ThreadIds
         /\ r = <<DeviceOf(r), IdOf(r)>>
  BY DEF Runners, DeviceOf, IdOf

\* A kernel makes a content of a content.
LEMMA OutputType ==
  ASSUME NEW r \in Runners, NEW k \in Kernels, NEW src \in [Runners -> Contents],
         NEW dst \in [Runners -> Contents],
         \A end \in Ends : Buffer(r, k, end) \in Runners
  PROVE  Output(r, k, src, dst) \in [Runners -> Contents]
  <1> DEFINE from == Buffer(r, k, "from")
             to   == Buffer(r, k, "to")
             made == IF from = to THEN Hashed(src[from]) ELSE Other
  <1>1. /\ from \in Runners
        /\ to \in Runners
        /\ Output(r, k, src, dst) = [dst EXCEPT ![to] = made]
    BY DEF Output, Ends
  <1> HIDE DEF from, to
  <1>2. made \in Contents
    BY <1>1 DEF Hashed, Contents
  <1> HIDE DEF made
  <1> QED
    BY <1>1, <1>2

-----------------------------------------------------------------------------
(* Types.                                                                  *)

\* The steps of the main thread keep the types.
LEMMA MainTypes ==
  ASSUME TypeOK, Main
  PROVE  TypeOK'
  <1>1. GpuTypeOK(PCs)'
    <2> USE DEF Main, MainNext, TypeOK, GpuTypeOK, MainPCs, PCs
    <2>1. CASE initialize
      BY <2>1 DEF initialize
    <2>2. CASE initialize_disabled
      BY <2>2 DEF initialize_disabled
    <2>3. ASSUME NEW d \in todo, setup_filtered(d)
          PROVE  GpuTypeOK(PCs)'
      BY <2>3 DEF setup_filtered
    <2>4. ASSUME NEW d \in todo, NEW o \in SetupOutcomes, setup_device(d, o)
          PROVE  GpuTypeOK(PCs)'
      <3>1. o.threads \in BOOLEAN /\ o.ready \in BOOLEAN
        BY DEF SetupOutcomes
      <3>2. \A e \in Devices : error'[e] \in BOOLEAN
        <4> SUFFICES ASSUME NEW e \in Devices
                     PROVE  error'[e] \in BOOLEAN
          OBVIOUS
        <4>1. CASE e = d
          <5>1. error'[e] = ~o.ready
            BY <2>4, <4>1 DEF setup_device
          <5> QED
            BY ONLY <5>1, Zenon
        <4>2. CASE e # d
          BY <2>4, <4>2 DEF setup_device
        <4> QED
          BY <4>1, <4>2
      <3>3. error' = [e \in Devices |-> error'[e]]
        BY <2>4 DEF setup_device
      <3>4. error' \in [Devices -> BOOLEAN]
        BY ONLY <3>2, <3>3
      <3>5. threads' \in [Devices -> BOOLEAN]
        BY <2>4, <3>1 DEF setup_device
      <3> QED
        BY <2>4, <3>4, <3>5 DEF setup_device
    <2>5. CASE configure_start("loop")
      BY <2>5 DEF configure_start
    <2>6. CASE configure_disabled
      BY <2>6 DEF configure_disabled
    <2>7. CASE cleanup_stop
      BY <2>7 DEF cleanup_stop
    <2>8. CASE cleanup_join
      BY <2>8 DEF cleanup_join
    <2> QED
      BY <2>1, <2>2, <2>3, <2>4, <2>5, <2>6, <2>7, <2>8
  <1> QED
    BY <1>1 DEF Main, TypeOK, bufferVars

\* So do the steps of __run outside the callbacks.
LEMMA RunLoopTypes ==
  ASSUME TypeOK, NEW r \in Runners, RunLoop(r)
  PROVE  TypeOK'
  <1> USE RunnerParts DEF RunLoop, TypeOK, GpuTypeOK, MainUnchanged, bufferVars,
          PCs
  <1>1. CASE run_loop(r)
    BY <1>1 DEF run_loop
  <1>2. CASE run_exit(r)
    BY <1>2 DEF run_exit
  <1>3. CASE run_wait(r)
    BY <1>3 DEF run_wait
  <1>4. CASE run_check(r)
    <2>1. CASE error[DeviceOf(r)]
      BY <1>4, <2>1 DEF run_check
    <2>2. CASE ~error[DeviceOf(r)]
      BY <1>4, <2>2 DEF run_check, AfterStore
    <2> QED
      BY <2>1, <2>2
  <1>5. CASE run_store(r)
    BY <1>5 DEF run_store
  <1> QED
    BY <1>1, <1>2, <1>3, <1>4, <1>5

\* And the steps of the callbacks.
LEMMA CallbackTypes ==
  ASSUME TypeOK, NEW r \in Runners, Run(r), ~RunLoop(r)
  PROVE  TypeOK'
  <1> USE RunnerParts DEF TypeOK, GpuTypeOK, MainUnchanged, bufferVars, Goto,
          PCs, Inside
  <1>1. 0 \in Contents /\ Other \in Contents
    BY DEF Contents
  <1>2. /\ "prehash" \in Kernels /\ "fill_blocks" \in Kernels
        /\ "posthash" \in Kernels
    BY DEF Kernels
  <1>3. CASE generate_begin(r)
    BY <1>1, <1>3 DEF generate_begin, run_input
  <1>4. CASE prehasher_lock(r)
    BY <1>4 DEF prehasher_lock
  <1>5. CASE prehasher_write(r)
    BY <1>5 DEF prehasher_write
  <1>6. ASSUME NEW k \in Kernels, NEW before, NEW after \in Inside,
               set_kernel_arg(r, k, before, after)
        PROVE  TypeOK'
    <2>1. PICK done \in SUBSET Ends : SetArgs(r, k, IdOf(r), done)
      BY <1>6 DEF set_kernel_arg
    <2>2. arg' \in [Devices -> [Kernels \X Ends -> ThreadIds \cup {NotSet}]]
      BY <2>1 DEF SetArgs
    <2>3. misset' \in [Runners -> BOOLEAN]
      <3>1. CASE done # Ends
        <4>1. misset' = [misset EXCEPT ![r] = TRUE]
          BY <2>1, <3>1 DEF SetArgs
        <4> QED
          BY <4>1
      <3>2. CASE done = Ends
        <4>1. misset' = [misset EXCEPT ![r] = misset[r]]
          BY <2>1, <3>2 DEF SetArgs
        <4> QED
          BY <4>1
      <3> QED
        BY <3>1, <3>2
    <2> QED
      BY <1>6, <2>1, <2>2, <2>3 DEF set_kernel_arg, SetArgs
  <1>7. CASE prehasher_run(r)
    <2>1. seed' \in [Runners -> Contents]
      BY <1>2, <1>7, OutputType DEF prehasher_run, Enqueue
    <2> QED
      BY <1>7, <2>1 DEF prehasher_run
  <1>8. CASE filler_run(r)
    <2>1. outMem' \in [Runners -> Contents]
      BY <1>2, <1>8, OutputType DEF filler_run, Enqueue
    <2> QED
      BY <1>8, <2>1 DEF filler_run
  <1>9. CASE posthasher_run(r)
    <2>1. hashMem' \in [Runners -> Contents]
      BY <1>2, <1>9, OutputType DEF posthasher_run, Enqueue
    <2> QED
      BY <1>9, <2>1 DEF posthasher_run
  <1>10. CASE posthasher_read(r)
    BY <1>10 DEF posthasher_read
  <1>11. CASE posthasher_finish(r)
    BY <1>1, <1>11 DEF posthasher_finish, BatchOver
  <1>12. CASE callback_error(r)
    BY <1>1, <1>12 DEF callback_error, BatchOver
  <1>13. /\ "preRun" \in Inside
         /\ "fillRun" \in Inside
         /\ "postRun" \in Inside
    OBVIOUS
  <1> QED
    BY <1>2, <1>3, <1>4, <1>5, <1>6, <1>7, <1>8, <1>9, <1>10, <1>11, <1>12,
       <1>13 DEF Run

\* Every variable keeps its type, for any number of devices.
THEOREM TypeCorrect == Spec => []TypeOK
  <1>1. Init => TypeOK
    <2> SUFFICES ASSUME Init
                 PROVE  TypeOK
      OBVIOUS
    <2>1. GpuTypeOK(PCs)
      BY DEF Init, GpuInit, GpuTypeOK, MainPCs, PCs
    <2>2. host \in [Runners -> Contents]
      BY DEF Init, Contents
    <2>3. misset \in [Runners -> BOOLEAN]
      BY DEF Init
    <2> QED
      BY <2>1, <2>2, <2>3 DEF Init, TypeOK
  <1>2. TypeOK /\ [Next]_vars => TypeOK'
    <2> SUFFICES ASSUME TypeOK, [Next]_vars
                 PROVE  TypeOK'
      OBVIOUS
    <2>1. CASE UNCHANGED vars
      BY <2>1 DEF vars, gpuVars, bufferVars, TypeOK, GpuTypeOK
    <2>2. CASE Main
      BY <2>2, MainTypes
    <2>3. ASSUME NEW r \in Runners, Run(r)
          PROVE  TypeOK'
      BY <2>3, RunLoopTypes, CallbackTypes
    <2> QED
      BY <2>1, <2>2, <2>3 DEF Next
  <1> QED
    BY <1>1, <1>2, PTL DEF Spec
-----------------------------------------------------------------------------
(* The invariant.                                                          *)

\* Before the first device is set up there is nothing to keep.
LEMMA OpenclInit == Init => OpenclInv
  <1> SUFFICES ASSUME Init
               PROVE  OpenclInv
    OBVIOUS
  <1>1. \A r \in Runners : /\ rpc[r] = "off"
                           /\ ~failed[r]
                           /\ lock[DeviceOf(r)] # r
    BY RunnerParts DEF Init, GpuInit
  <1> QED
    BY <1>1 DEF OpenclInv, ErrorKept, LockInsideCallbacks, Inside, ArgsAreOwn,
       BatchOnItsWay, BatchAt, OwnResults, FailedBatchNotStored

\* The main thread starts the threads outside the callbacks and touches
\* neither lock, arguments nor buffers.
LEMMA MainKeeps ==
  ASSUME TypeOK, OpenclInv, Main
  PROVE  OpenclInv'
  <1>1. /\ UNCHANGED <<lock, failed, arg, misset, host, preseed, seed, outMem,
                       hashMem>>
        /\ hpc \notin {"initialize", "setup"} => UNCHANGED error
        /\ \/ UNCHANGED rpc
           \/ /\ hpc = "setup"
              /\ hpc' = "mining"
              /\ \A r \in Runners : rpc'[r] \in {"off", "loop"}
        /\ hpc' \in {"initialize", "setup"} =>
              hpc \in {"initialize", "setup"} /\ UNCHANGED rpc
    BY DEF Main, MainNext, bufferVars, initialize, initialize_disabled,
       setup_filtered, setup_device, configure_start, configure_disabled,
       cleanup_stop, cleanup_join
  <1>2. ErrorKept'
    <2>1. CASE hpc \in {"initialize", "setup"}
      BY <1>1, <2>1 DEF OpenclInv, ErrorKept
    <2>2. CASE hpc \notin {"initialize", "setup"}
      BY <1>1, <2>2 DEF OpenclInv, ErrorKept
    <2> QED
      BY <2>1, <2>2
  <1>3. CASE UNCHANGED rpc
    BY <1>1, <1>2, <1>3 DEF OpenclInv, LockInsideCallbacks, ArgsAreOwn,
       ArgsAre, BatchOnItsWay, BatchAt, OwnResults, FailedBatchNotStored
  <1>4. CASE /\ hpc = "setup"
             /\ \A r \in Runners : rpc'[r] \in {"off", "loop"}
    <2>1. \A r \in Runners : rpc[r] = "off"
      BY <1>4 DEF OpenclInv, ErrorKept
    <2>2. LockInsideCallbacks'
      BY <1>1, <1>4, <2>1 DEF OpenclInv, LockInsideCallbacks, Inside
    <2> QED
      BY <1>1, <1>2, <1>4, <2>2 DEF OpenclInv, ArgsAreOwn, BatchOnItsWay,
         BatchAt, OwnResults, FailedBatchNotStored
  <1> QED
    BY <1>1, <1>3, <1>4

\* What a step of thread r cannot disturb: the part of the invariant that is
\* about another thread, when r stays out of its memory and, while the other is
\* in the callbacks of a device they share, out of arguments and buffers.
Others(r) ==
    \A s \in Runners \ {r} :
        /\ rpc'[s] = rpc[s]
        /\ failed'[s] = failed[s]
        /\ misset'[s] = misset[s]
        /\ host'[s] = host[s]
        /\ lock'[DeviceOf(s)] = s <=> lock[DeviceOf(s)] = s
        /\ rpc[s] \in Inside =>
             /\ arg'[DeviceOf(s)] = arg[DeviceOf(s)]
             /\ preseed'[s] = preseed[s]
             /\ seed'[s] = seed[s]
             /\ outMem'[s] = outMem[s]
             /\ hashMem'[s] = hashMem[s]
        /\ error[DeviceOf(s)] => error'[DeviceOf(s)]

\* The invariant of one thread's arguments and buffers.
OwnBatch(r) ==
    /\ rpc[r] = "preRun" => ArgsAre(r, "prehash")
    /\ rpc[r] = "fillRun" => ArgsAre(r, "fill_blocks")
    /\ rpc[r] = "postRun" => ArgsAre(r, "posthash")
    /\ BatchAt(r, {"prehash", "preWrite"}, host, 0)
    /\ BatchAt(r, {"preArgs", "preRun"}, preseed, 0)
    /\ BatchAt(r, {"fillArgs", "fillRun"}, seed, 1)
    /\ BatchAt(r, {"postArgs", "postRun"}, outMem, 2)
    /\ BatchAt(r, {"postRead"}, hashMem, 3)
    /\ rpc[r] \in {"postFinish", "check", "store"} /\ ~failed[r] => host[r] = 3

\* The invariant of one thread, but for what is said of the main thread.
Own(r) ==
    /\ failed[r] => error[DeviceOf(r)]
    /\ lock[DeviceOf(r)] = r <=> rpc[r] \in Inside
    /\ ~misset[r] => OwnBatch(r)
    /\ rpc[r] = "store" => ~failed[r]

\* The invariant thread by thread.
LEMMA ThreadByThread ==
  OpenclInv <=> /\ \A r \in Runners : Own(r)
                /\ hpc \in {"initialize", "setup"} =>
                     \A r \in Runners : rpc[r] = "off" /\ ~failed[r]
  BY DEF OpenclInv, Own, OwnBatch, ErrorKept, LockInsideCallbacks, ArgsAreOwn,
     BatchOnItsWay, OwnResults, FailedBatchNotStored

\* A thread other than r keeps its part.
LEMMA OthersKeep ==
  ASSUME NEW r \in Runners, NEW s \in Runners, s # r, Own(s), Others(r)
  PROVE  Own(s)'
  <1>1. /\ rpc'[s] = rpc[s] /\ failed'[s] = failed[s]
        /\ misset'[s] = misset[s] /\ host'[s] = host[s]
        /\ lock'[DeviceOf(s)] = s <=> lock[DeviceOf(s)] = s
        /\ rpc[s] \in Inside =>
             /\ arg'[DeviceOf(s)] = arg[DeviceOf(s)]
             /\ preseed'[s] = preseed[s]
             /\ seed'[s] = seed[s]
             /\ outMem'[s] = outMem[s]
             /\ hashMem'[s] = hashMem[s]
        /\ error[DeviceOf(s)] => error'[DeviceOf(s)]
    BY DEF Others
  <1>2. rpc[s] \notin Inside =>
          rpc[s] \notin {"preArgs", "preRun", "fillArgs", "fillRun",
                         "postArgs", "postRun", "postRead"}
    BY DEF Inside
  <1>3. OwnBatch(s) => OwnBatch(s)'
    <2>1. CASE rpc[s] \in Inside
      BY <1>1, <2>1 DEF OwnBatch, BatchAt, ArgsAre
    <2>2. CASE rpc[s] \notin Inside
      BY <1>1, <1>2, <2>2 DEF OwnBatch, BatchAt
    <2> QED
      BY <2>1, <2>2
  <1> QED
    BY <1>1, <1>3 DEF Own

\* It is enough to look at the thread that moves.
LEMMA OneMoves ==
  ASSUME OpenclInv, NEW r \in Runners, rpc[r] # "off", UNCHANGED hpc,
         Own(r)', Others(r)
  PROVE  OpenclInv'
  <1>1. \A s \in Runners : Own(s)
    BY ThreadByThread
  <1>2. \A s \in Runners : Own(s)'
    BY <1>1, OthersKeep
  <1>3. hpc' \notin {"initialize", "setup"}
    BY ThreadByThread
  <1>4. OpenclInv' <=> /\ \A s \in Runners : Own(s)'
                       /\ hpc' \in {"initialize", "setup"} =>
                            \A s \in Runners : rpc'[s] = "off" /\ ~failed'[s]
    BY DEF OpenclInv, Own, OwnBatch, ErrorKept, LockInsideCallbacks,
       ArgsAreOwn, BatchOnItsWay, OwnResults, FailedBatchNotStored
  <1> QED
    BY <1>2, <1>3, <1>4

\* The steps of __run outside the callbacks keep the invariant.
LEMMA RunLoopKeeps ==
  ASSUME TypeOK, OpenclInv, NEW r \in Runners, RunLoop(r)
  PROVE  OpenclInv'
  <1>1. /\ rpc[r] \in {"loop", "gate", "check", "none", "store"}
        /\ \/ UNCHANGED rpc
           \/ /\ rpc' = [rpc EXCEPT ![r] = "store"]
              /\ rpc[r] = "check"
              /\ ~error[DeviceOf(r)]
           \/ \E pc \in {"loop", "gate", "done"} : rpc' = [rpc EXCEPT ![r] = pc]
        /\ UNCHANGED <<hpc, error, lock, failed, arg, misset, host, preseed,
                       seed, outMem, hashMem>>
    BY DEF RunLoop, run_loop, run_exit, run_wait, run_check, run_store,
       MainUnchanged, bufferVars, Returned, AfterStore
  <1>2. Own(r)
    BY ThreadByThread
  <1>3. rpc \in [Runners -> PCs]
    BY DEF TypeOK, GpuTypeOK
  <1>4. Others(r)
    BY <1>1, <1>3 DEF Others
  <1>5. Own(r)'
    <2>1. rpc'[r] = rpc[r] \/ rpc'[r] \in {"loop", "gate", "done"}
             \/ (rpc'[r] = "store" /\ rpc[r] = "check" /\ ~error[DeviceOf(r)])
      BY <1>1, <1>3
    <2> QED
      BY <1>1, <1>2, <2>1 DEF Own, OwnBatch, BatchAt, ArgsAre, Inside
  <1> QED
    BY <1>1, <1>4, <1>5, OneMoves

\* The steps of the callbacks keep the invariant.
LEMMA CallbackKeeps ==
  ASSUME TypeOK, OpenclInv, NEW r \in Runners, Run(r), ~RunLoop(r)
  PROVE  OpenclInv'
  <1> DEFINE d == DeviceOf(r)
  <1>r. /\ d \in Devices
        /\ IdOf(r) \in ThreadIds
        /\ r = <<d, IdOf(r)>>
        /\ \A s \in Runners : DeviceOf(s) \in Devices
    BY RunnerParts
  <1>t. /\ rpc \in [Runners -> PCs]
        /\ failed \in [Runners -> BOOLEAN]
        /\ error \in [Devices -> BOOLEAN]
        /\ lock \in [Devices -> Runners \cup {Free}]
        /\ arg \in [Devices -> [Kernels \X Ends -> ThreadIds \cup {NotSet}]]
        /\ misset \in [Runners -> BOOLEAN]
        /\ host \in [Runners -> Contents]
        /\ preseed \in [Runners -> Contents]
        /\ seed \in [Runners -> Contents]
        /\ outMem \in [Runners -> Contents]
        /\ hashMem \in [Runners -> Contents]
    BY DEF TypeOK, GpuTypeOK
  <1>o. Own(r)
    BY ThreadByThread
  <1>a. rpc[r] \in Inside =>
          \A s \in Runners \ {r} : DeviceOf(s) = d =>
              rpc[s] \notin Inside /\ lock[d] # s
    BY DEF OpenclInv, LockInsideCallbacks
  <1>b. /\ {"prehash", "fill_blocks", "posthash"} \subseteq Kernels
        /\ {"preArgs", "preRun", "fillArgs", "fillRun", "postArgs",
            "postRun"} \subseteq Inside
    BY DEF Kernels, Inside
  <1> HIDE DEF d
  <1> USE DEF Goto, bufferVars
  <1>1. CASE generate_begin(r)
    <2>1. rpc[r] = "gate"
      BY <1>1 DEF generate_begin, run_input
    <2>2. Others(r)
      BY <1>1, <1>t DEF Others, generate_begin, run_input
    <2>3. /\ rpc'[r] = "prehash"
          /\ host'[r] = 0
          /\ failed'[r] = FALSE
          /\ UNCHANGED <<hpc, lock>>
      BY <1>1, <1>t DEF generate_begin, run_input, MainUnchanged
    <2>4. Own(r)'
      BY <1>o, <2>1, <2>3 DEF Own, OwnBatch, BatchAt, Inside
    <2> QED
      BY <2>1, <2>2, <2>3, <2>4, OneMoves
  <1>2. CASE prehasher_lock(r)
    <2>1. /\ rpc[r] = "prehash"
          /\ rpc'[r] = "preWrite"
          /\ lock[d] = Free
          /\ lock'[d] = r
          /\ UNCHANGED <<hpc, error, failed, misset, host>>
      BY <1>2, <1>r, <1>t DEF prehasher_lock, d
    <2>2. Others(r)
      BY <1>2, <1>r, <1>t DEF Others, prehasher_lock, d
    <2>3. Own(r)'
      BY <1>o, <2>1 DEF Own, OwnBatch, BatchAt, Inside, d
    <2> QED
      BY <2>1, <2>2, <2>3, OneMoves
  <1>3. CASE prehasher_write(r)
    <2>1. /\ rpc[r] = "preWrite"
          /\ rpc'[r] = "preArgs"
          /\ preseed'[r] = host[r]
          /\ UNCHANGED <<hpc, error, failed, lock, misset>>
      BY <1>3, <1>t DEF prehasher_write
    <2>2. Others(r)
      BY <1>3, <1>t DEF Others, prehasher_write
    <2>3. Own(r)'
      BY <1>o, <2>1 DEF Own, OwnBatch, BatchAt, Inside
    <2> QED
      BY <2>1, <2>2, <2>3, OneMoves
  <1>4. ASSUME NEW k \in Kernels, NEW before \in Inside, NEW after \in Inside,
               set_kernel_arg(r, k, before, after)
        PROVE  /\ rpc[r] = before
               /\ rpc'[r] = after
               /\ ~misset'[r] => ~misset[r] /\ ArgsAre(r, k)'
               /\ UNCHANGED <<hpc, error, failed, lock, host, preseed, seed,
                              outMem, hashMem>>
               /\ Others(r)
    <2>1. PICK done \in SUBSET Ends : SetArgs(r, k, IdOf(r), done)
      BY <1>4 DEF set_kernel_arg
    <2>2. /\ rpc[r] = before
          /\ rpc' = [rpc EXCEPT ![r] = after]
          /\ UNCHANGED <<hpc, error, failed, lock, host, preseed, seed, outMem,
                         hashMem>>
      BY <1>4, <2>1 DEF set_kernel_arg, SetArgs
    <2>3. ASSUME ~misset'[r]
          PROVE  ~misset[r] /\ ArgsAre(r, k)'
      <3>1. done = Ends /\ ~misset[r]
        BY <1>t, <2>1, <2>3 DEF SetArgs
      <3> QED
        BY <1>r, <1>t, <2>1, <3>1 DEF SetArgs, ArgsAre, d
    <2>4. Others(r)
      <3>1. /\ \A e \in Devices \ {d} : arg'[e] = arg[e]
            /\ \A s \in Runners \ {r} : misset'[s] = misset[s]
        BY <1>r, <1>t, <2>1 DEF SetArgs, d
      <3> QED
        BY <1>a, <1>r, <1>t, <2>2, <3>1 DEF Others
    <2> QED
      BY <1>t, <2>2, <2>3, <2>4
  <1>5. CASE set_kernel_arg(r, "prehash", "preArgs", "preRun")
    <2>1. Own(r)'
      BY <1>o, <1>4, <1>b, <1>5 DEF Own, OwnBatch, BatchAt, Inside
    <2> QED
      BY <1>4, <1>b, <1>5, <2>1, OneMoves
  <1>6. CASE set_kernel_arg(r, "fill_blocks", "fillArgs", "fillRun")
    <2>1. Own(r)'
      BY <1>o, <1>4, <1>b, <1>6 DEF Own, OwnBatch, BatchAt, Inside
    <2> QED
      BY <1>4, <1>b, <1>6, <2>1, OneMoves
  <1>7. CASE set_kernel_arg(r, "posthash", "postArgs", "postRun")
    <2>1. Own(r)'
      BY <1>o, <1>4, <1>b, <1>7 DEF Own, OwnBatch, BatchAt, Inside
    <2> QED
      BY <1>4, <1>b, <1>7, <2>1, OneMoves
  <1>8. ASSUME NEW k \in Kernels, NEW src \in [Runners -> Contents],
               NEW dst \in [Runners -> Contents]
        PROVE  /\ ArgsAre(r, k) =>
                    Output(r, k, src, dst)[r] = Hashed(src[r])
               /\ \A s \in Runners :
                    DeviceOf(s) # d => Output(r, k, src, dst)[s] = dst[s]
    <2>1. ASSUME ArgsAre(r, k)
          PROVE  Output(r, k, src, dst)[r] = Hashed(src[r])
      <3>1. Buffer(r, k, "from") = r /\ Buffer(r, k, "to") = r
        BY <1>r, <2>1 DEF ArgsAre, Buffer, Ends, d
      <3>2. Output(r, k, src, dst) = [dst EXCEPT ![r] = Hashed(src[r])]
        BY <3>1 DEF Output
      <3> QED
        BY <3>2
    <2>2. ASSUME NEW s \in Runners, DeviceOf(s) # d
          PROVE  Output(r, k, src, dst)[s] = dst[s]
      <3>1. Buffer(r, k, "to") # s
        BY <2>2 DEF Buffer, DeviceOf, d
      <3> QED
        BY <3>1 DEF Output
    <2> QED
      BY <2>1, <2>2
  <1>9. CASE prehasher_run(r)
    <2>1. /\ rpc[r] = "preRun"
          /\ rpc'[r] = "fillArgs"
          /\ rpc' = [rpc EXCEPT ![r] = "fillArgs"]
          /\ UNCHANGED <<hpc, error, failed, lock, arg, misset, host, preseed,
                         outMem, hashMem>>
      BY <1>9, <1>t DEF prehasher_run
    <2>2. /\ ArgsAre(r, "prehash") => seed'[r] = Hashed(preseed[r])
          /\ \A s \in Runners : DeviceOf(s) # d => seed'[s] = seed[s]
      BY <1>8, <1>9, <1>b, <1>t DEF prehasher_run, Enqueue
    <2>3. Others(r)
      BY <1>a, <1>b, <1>t, <2>1, <2>2 DEF Others
    <2>4. ~misset[r] => seed'[r] = 1
      BY <1>o, <2>1, <2>2 DEF Own, OwnBatch, BatchAt, Hashed
    <2>5. Own(r)'
      BY <1>o, <2>1, <2>4 DEF Own, OwnBatch, BatchAt, Inside
    <2> QED
      BY <2>1, <2>3, <2>5, OneMoves
  <1>10. CASE filler_run(r)
    <2>1. /\ rpc[r] = "fillRun"
          /\ rpc'[r] = "postArgs"
          /\ rpc' = [rpc EXCEPT ![r] = "postArgs"]
          /\ UNCHANGED <<hpc, error, failed, lock, arg, misset, host, preseed,
                         seed, hashMem>>
      BY <1>10, <1>t DEF filler_run
    <2>2. /\ ArgsAre(r, "fill_blocks") => outMem'[r] = Hashed(seed[r])
          /\ \A s \in Runners : DeviceOf(s) # d => outMem'[s] = outMem[s]
      BY <1>8, <1>10, <1>b, <1>t DEF filler_run, Enqueue
    <2>3. Others(r)
      BY <1>a, <1>b, <1>t, <2>1, <2>2 DEF Others
    <2>4. ~misset[r] => outMem'[r] = 2
      BY <1>o, <2>1, <2>2 DEF Own, OwnBatch, BatchAt, Hashed
    <2>5. Own(r)'
      BY <1>o, <2>1, <2>4 DEF Own, OwnBatch, BatchAt, Inside
    <2> QED
      BY <2>1, <2>3, <2>5, OneMoves
  <1>11. CASE posthasher_run(r)
    <2>1. /\ rpc[r] = "postRun"
          /\ rpc'[r] = "postRead"
          /\ rpc' = [rpc EXCEPT ![r] = "postRead"]
          /\ UNCHANGED <<hpc, error, failed, lock, arg, misset, host, preseed,
                         seed, outMem>>
      BY <1>11, <1>t DEF posthasher_run
    <2>2. /\ ArgsAre(r, "posthash") => hashMem'[r] = Hashed(outMem[r])
          /\ \A s \in Runners : DeviceOf(s) # d => hashMem'[s] = hashMem[s]
      BY <1>8, <1>11, <1>b, <1>t DEF posthasher_run, Enqueue
    <2>3. Others(r)
      BY <1>a, <1>b, <1>t, <2>1, <2>2 DEF Others
    <2>4. ~misset[r] => hashMem'[r] = 3
      BY <1>o, <2>1, <2>2 DEF Own, OwnBatch, BatchAt, Hashed
    <2>5. Own(r)'
      BY <1>o, <2>1, <2>4 DEF Own, OwnBatch, BatchAt, Inside
    <2> QED
      BY <2>1, <2>3, <2>5, OneMoves
  <1>12. CASE posthasher_read(r)
    <2>1. /\ rpc[r] = "postRead"
          /\ rpc'[r] = "postFinish"
          /\ host'[r] = hashMem[r]
          /\ UNCHANGED <<hpc, error, failed, lock, misset>>
      BY <1>12, <1>t DEF posthasher_read
    <2>2. Others(r)
      BY <1>12, <1>t DEF Others, posthasher_read
    <2>3. Own(r)'
      BY <1>o, <2>1 DEF Own, OwnBatch, BatchAt, Inside
    <2> QED
      BY <2>1, <2>2, <2>3, OneMoves
  <1>13. CASE posthasher_finish(r)
    <2>1. /\ rpc[r] = "postFinish"
          /\ rpc'[r] = "check"
          /\ lock'[d] = Free
          /\ UNCHANGED <<hpc, error, failed, misset, host>>
      BY <1>13, <1>r, <1>t DEF posthasher_finish, d
    <2>2. rpc[r] \in Inside
      BY <2>1 DEF Inside
    <2>3. Others(r)
      BY <1>13, <1>a, <1>r, <1>t, <2>2
         DEF Others, posthasher_finish, BatchOver, d
    <2>4. Own(r)'
      BY <1>o, <2>1 DEF Own, OwnBatch, BatchAt, Inside, d
    <2> QED
      BY <2>1, <2>3, <2>4, OneMoves
  <1>14. CASE callback_error(r)
    <2>1. /\ rpc[r] \in MayFail
          /\ rpc'[r] = "none"
          /\ failed'[r] = TRUE
          /\ error'[d] = TRUE
          /\ lock'[d] = Free
          /\ UNCHANGED hpc
      BY <1>14, <1>r, <1>t DEF callback_error, MainUnchanged, d
    <2>2. rpc[r] \in Inside
      BY <2>1 DEF Inside, MayFail
    <2>3. Others(r)
      BY <1>14, <1>a, <1>r, <1>t, <2>2 DEF Others, callback_error, BatchOver, d
    <2>4. Own(r)'
      BY <2>1 DEF Own, OwnBatch, BatchAt, Inside, d
    <2> QED
      BY <2>1, <2>2, <2>3, <2>4, OneMoves DEF Inside
  <1> QED
    BY <1>1, <1>2, <1>3, <1>5, <1>6, <1>7, <1>9, <1>10, <1>11, <1>12, <1>13,
       <1>14 DEF Run

\* OpenclInv is inductive.
LEMMA OpenclAlways == Spec => []OpenclInv
  <1>1. TypeOK /\ OpenclInv /\ [Next]_vars => OpenclInv'
    <2> SUFFICES ASSUME TypeOK, OpenclInv, [Next]_vars
                 PROVE  OpenclInv'
      OBVIOUS
    <2>1. CASE UNCHANGED vars
      BY <2>1 DEF vars, gpuVars, bufferVars, OpenclInv, ErrorKept,
         LockInsideCallbacks, ArgsAreOwn, ArgsAre, BatchOnItsWay, BatchAt,
         OwnResults, FailedBatchNotStored
    <2>2. CASE Main
      BY <2>2, MainKeeps
    <2>3. ASSUME NEW r \in Runners, Run(r)
          PROVE  OpenclInv'
      BY <2>3, RunLoopKeeps, CallbackKeeps
    <2> QED
      BY <2>1, <2>2, <2>3 DEF Next
  <1> QED
    BY <1>1, OpenclInit, TypeCorrect, PTL DEF Spec

-----------------------------------------------------------------------------
\* On every path through the callbacks the device lock is released exactly
\* once, by the thread that took it.
THEOREM LockReleased == Spec => []LockInsideCallbacks
  <1>1. OpenclInv => LockInsideCallbacks
    BY DEF OpenclInv
  <1> QED
    BY <1>1, OpenclAlways, PTL

\* A thread's results are its own batch's, although it shares queue and
\* kernel arguments with another thread.
THEOREM NoMixedBatches == Spec => []OwnResults
  <1>1. OpenclInv => OwnResults
    BY DEF OpenclInv
  <1> QED
    BY <1>1, OpenclAlways, PTL

\* No result of a failed batch is stored: the shared device->error is never
\* reset.
THEOREM FailuresSeen == Spec => []FailedBatchNotStored
  <1>1. OpenclInv => FailedBatchNotStored
    BY DEF OpenclInv
  <1> QED
    BY <1>1, OpenclAlways, PTL
=============================================================================
