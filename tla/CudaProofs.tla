----------------------------- MODULE CudaProofs -----------------------------
(***************************************************************************)
(* Theorems about module CudaHasher, for any number of devices and places. *)
(***************************************************************************)
EXTENDS CudaHasher, TLAPS

USE FreeAssumption

\* Where a thread of __run may be; Inside is where it holds the lock, if there
\* is one.
Inside == {"preCopy", "preTest", "fill", "postCopy", "postTest", "query"}
RunPCs == {"off", "stream", "streamTest", "loop", "gate", "prehash", "check",
           "none", "store", "done"} \cup Inside

CudaTypes ==
    /\ rpc \in [Runners -> RunPCs]
    /\ lock \in [Devices -> Runners \cup {Free}]
    /\ error \in [Devices -> BOOLEAN]
    /\ inflight \subseteq Runners
    /\ clean \subseteq Devices
    /\ parallel \in BOOLEAN

\* On a device on which no call has failed the first call of a thread has
\* cleared what the set-up has left in device->error.
NoErrorSeen(r) ==
    rpc[r] \notin {"off", "stream"} /\ DeviceOf(r) \in clean
        => ~error[DeviceOf(r)]

\* Without PARALLEL_CUDA a thread in the callbacks holds the lock.
LockHeld(r) == ~parallel /\ rpc[r] \in Inside => lock[DeviceOf(r)] = r

\* A thread waits for its kernels, unless a call has failed.
KernelsAwaited(r) ==
    r \in inflight /\ DeviceOf(r) \in clean
        => rpc[r] \in {"postCopy", "postTest", "query"}

Own(r) == NoErrorSeen(r) /\ LockHeld(r) /\ KernelsAwaited(r)

\* Before the threads are started there are none, and no kernels.
NotStarted ==
    hpc \in {"initialize", "setup", "disabled"} =>
        inflight = {} /\ \A r \in Runners : rpc[r] = "off"

CudaInv ==
    /\ CudaTypes
    /\ NotStarted
    /\ \A r \in Runners : Own(r)

\* A thread is its device and its thread_id.
LEMMA RunnerParts ==
  ASSUME NEW r \in Runners
  PROVE  /\ DeviceOf(r) \in Devices
         /\ IdOf(r) \in ThreadIds
         /\ r = <<DeviceOf(r), IdOf(r)>>
  BY DEF Runners, DeviceOf, IdOf

-----------------------------------------------------------------------------
(* One thread moves.                                                       *)

\* What a step of thread r may do to the others of its device: nothing but
\* take the lock when it is free, release its own, and change device->error,
\* to an error only if the device is not clean any more.
OthersSafe(r) ==
    /\ parallel' = parallel
    /\ clean' \subseteq clean
    /\ \A s \in Runners \ {r} : /\ rpc'[s] = rpc[s]
                                /\ s \in inflight' => s \in inflight
    /\ \A d \in Devices : /\ error'[d] => error[d] \/ d \notin clean'
                          /\ \/ lock'[d] = lock[d]
                             \/ lock[d] \in {Free, r}

\* A step that is safe for the others keeps what is said of each.
LEMMA OthersKeep ==
  ASSUME CudaInv, NEW r \in Runners, OthersSafe(r), NEW s \in Runners \ {r}
  PROVE  Own(s)'
  <1>1. DeviceOf(s) \in Devices /\ Own(s) /\ s # Free
    BY RunnerParts DEF CudaInv
  <1>2. NoErrorSeen(s)'
    BY <1>1 DEF OthersSafe, Own, NoErrorSeen
  <1>3. LockHeld(s)'
    BY <1>1 DEF OthersSafe, Own, LockHeld
  <1>4. KernelsAwaited(s)'
    BY <1>1 DEF OthersSafe, Own, KernelsAwaited
  <1> QED
    BY <1>2, <1>3, <1>4 DEF Own

\* It is enough to look at the thread that moves.
LEMMA OneMoves ==
  ASSUME CudaInv, NEW r \in Runners, rpc[r] # "off", hpc' = hpc, CudaTypes',
         OthersSafe(r), Own(r)'
  PROVE  CudaInv'
  <1>1. \A s \in Runners : Own(s)'
    BY OthersKeep
  <1>2. NotStarted'
    BY DEF CudaInv, NotStarted
  <1> QED
    BY <1>1, <1>2 DEF CudaInv

\* The result of a call in device->error.
LEMMA CallResult ==
  ASSUME CudaInv, NEW r \in Runners, NEW ok \in BOOLEAN, call(r, ok)
  PROVE  /\ error' \in [Devices -> BOOLEAN]
         /\ clean' \subseteq clean
         /\ \A d \in Devices : error'[d] => error[d] \/ d \notin clean'
         /\ DeviceOf(r) \in clean' => ~error'[DeviceOf(r)]
  <1> USE RunnerParts DEF CudaInv, CudaTypes
  <1>1. CASE ok
    <2>1. error' = [error EXCEPT ![DeviceOf(r)] = FALSE] /\ clean' = clean
      BY <1>1 DEF call
    <2> QED
      BY <2>1
  <1>2. CASE ~ok
    <2>1. /\ error' = [error EXCEPT ![DeviceOf(r)] = TRUE]
          /\ clean' = clean \ {DeviceOf(r)}
      BY <1>2 DEF call
    <2> QED
      BY <2>1
  <1> QED
    BY <1>1, <1>2

\* Taking and releasing the lock.
LEMMA TakeLock ==
  ASSUME CudaInv, NEW r \in Runners, take(r)
  PROVE  /\ lock' \in [Devices -> Runners \cup {Free}]
         /\ \A d \in Devices : lock'[d] = lock[d] \/ lock[d] \in {Free, r}
         /\ ~parallel => lock'[DeviceOf(r)] = r
  BY RunnerParts DEF CudaInv, CudaTypes, take

\* Only the holder releases the lock of a device.
LEMMA ReleaseLock ==
  ASSUME CudaInv, NEW r \in Runners, rpc[r] \in Inside, release(r)
  PROVE  /\ lock' \in [Devices -> Runners \cup {Free}]
         /\ \A d \in Devices : lock'[d] = lock[d] \/ lock[d] \in {Free, r}
  BY RunnerParts DEF CudaInv, CudaTypes, release, Own, LockHeld

-----------------------------------------------------------------------------
(* The steps.                                                              *)

\* A thread goes on to pc.
LEMMA GoesOn ==
  ASSUME CudaInv, NEW r \in Runners, NEW pc \in RunPCs,
         rpc' = [rpc EXCEPT ![r] = pc]
  PROVE  /\ rpc' \in [Runners -> RunPCs]
         /\ rpc'[r] = pc
         /\ \A s \in Runners \ {r} : rpc'[s] = rpc[s]
  BY DEF CudaInv, CudaTypes

\* The steps of __run outside the callbacks keep CudaInv.
LEMMA RunLoopKeeps ==
  ASSUME CudaInv, NEW r \in Runners, RunLoop(r)
  PROVE  CudaInv'
  <1>1. /\ rpc[r] \notin {"off", "stream"} /\ rpc[r] \notin Inside
        /\ hpc' = hpc
        /\ UNCHANGED <<error, lock, cudaVars>>
    BY DEF RunLoop, run_loop, run_exit, run_wait, run_input, run_check,
           run_store, Returned, MainUnchanged, Inside
  <1>2. /\ parallel' = parallel /\ inflight' = inflight
        /\ clean' = clean
    BY <1>1 DEF cudaVars
  <1>3. \E pc \in RunPCs \ ({"off", "stream"} \cup Inside) :
           rpc' = [rpc EXCEPT ![r] = pc]
    <2>1. rpc' = [rpc EXCEPT ![r] = rpc[r]] \/
             \E pc \in {"gate", "done", "loop", "prehash", "store"} :
                rpc' = [rpc EXCEPT ![r] = pc]
      BY DEF RunLoop, run_loop, run_exit, run_wait, run_input, run_check,
             run_store, AfterStore, CudaInv, CudaTypes
    <2>2. {"gate", "done", "loop", "prehash", "store"}
             \subseteq RunPCs \ ({"off", "stream"} \cup Inside)
      BY DEF RunPCs, Inside
    <2>3. rpc[r] \in RunPCs
      BY DEF CudaInv, CudaTypes
    <2> QED
      BY <1>1, <2>1, <2>2, <2>3
  <1>4. PICK pc \in RunPCs \ ({"off", "stream"} \cup Inside) :
           rpc' = [rpc EXCEPT ![r] = pc]
    BY <1>3
  <1>5. CudaTypes'
    BY <1>1, <1>2, <1>4, GoesOn DEF CudaInv, CudaTypes
  <1>6. OthersSafe(r)
    BY <1>1, <1>2, <1>4, GoesOn DEF OthersSafe
  <1>7. Own(r)'
    <2>1. rpc'[r] = pc
      BY <1>4, GoesOn
    <2>2. Own(r)
      BY DEF CudaInv
    <2>3. rpc[r] \notin {"postCopy", "postTest", "query"}
      BY <1>1 DEF Inside
    <2> QED
      BY <1>1, <1>2, <2>1, <2>2, <2>3
         DEF Own, NoErrorSeen, LockHeld, KernelsAwaited
  <1> QED
    BY <1>1, <1>5, <1>6, <1>7, OneMoves
\* A call and its result.
LEMMA CallKeeps ==
  ASSUME CudaInv, NEW r \in Runners, NEW ok \in BOOLEAN,
         \/ stream_create(r, ok)
         \/ prehasher_copy(r, ok)
         \/ posthasher_copy(r, ok)
  PROVE  CudaInv'
  <1>1. \E to \in RunPCs :
          /\ <<rpc[r], to>> \in {<<"stream", "streamTest">>,
                                 <<"preCopy", "preTest">>,
                                 <<"postCopy", "postTest">>}
          /\ rpc' = [rpc EXCEPT ![r] = to]
    BY DEF stream_create, prehasher_copy, posthasher_copy, Goto, RunPCs, Inside
  <1>2. PICK to \in RunPCs :
          /\ <<rpc[r], to>> \in {<<"stream", "streamTest">>,
                                 <<"preCopy", "preTest">>,
                                 <<"postCopy", "postTest">>}
          /\ rpc' = [rpc EXCEPT ![r] = to]
    BY <1>1
  <1>3. /\ call(r, ok) /\ hpc' = hpc
        /\ UNCHANGED <<lock, parallel, inflight>>
    BY DEF stream_create, prehasher_copy, posthasher_copy, Goto, MainUnchanged
  <1>4. CudaTypes'
    BY <1>2, <1>3, CallResult, GoesOn DEF CudaInv, CudaTypes
  <1>5. OthersSafe(r)
    BY <1>2, <1>3, CallResult, GoesOn DEF OthersSafe
  <1>6. Own(r)'
    <2>1. rpc'[r] = to /\ Own(r)
      BY <1>2, GoesOn DEF CudaInv
    <2>2. NoErrorSeen(r)'
      BY <1>3, CallResult DEF NoErrorSeen
    <2>3. LockHeld(r)'
      BY <1>2, <1>3, <2>1 DEF Own, LockHeld, Inside
    <2>4. KernelsAwaited(r)'
      BY <1>2, <1>3, <2>1, CallResult DEF Own, KernelsAwaited
    <2> QED
      BY <2>2, <2>3, <2>4 DEF Own
  <1> QED
    BY <1>2, <1>3, <1>4, <1>5, <1>6, OneMoves

\* The test of device->error in the callbacks, and the loop over
\* cudaStreamQuery.
LEMMA TestKeeps ==
  ASSUME CudaInv, NEW r \in Runners,
         prehasher_test(r) \/ posthasher_test(r) \/ stream_query(r)
  PROVE  CudaInv'
  <1>1. /\ rpc[r] \in {"preTest", "postTest", "query"}
        /\ hpc' = hpc
        /\ UNCHANGED <<error, parallel, inflight, clean>>
    BY DEF prehasher_test, posthasher_test, stream_query, Goto, MainUnchanged,
           cudaVars
  <1>2. rpc[r] \in Inside /\ Own(r)
    BY <1>1 DEF Inside, CudaInv
  <1>3. CASE /\ ~error[DeviceOf(r)]
             /\ prehasher_test(r) \/ posthasher_test(r)
    <2>1. /\ lock' = lock
          /\ \/ rpc[r] = "preTest" /\ rpc' = [rpc EXCEPT ![r] = "fill"]
             \/ rpc[r] = "postTest" /\ rpc' = [rpc EXCEPT ![r] = "query"]
      BY <1>3 DEF prehasher_test, posthasher_test, Goto
    <2>2. PICK to \in RunPCs :
            /\ rpc' = [rpc EXCEPT ![r] = to]
            /\ \/ rpc[r] = "preTest" /\ to = "fill"
               \/ rpc[r] = "postTest" /\ to = "query"
      BY <2>1 DEF RunPCs, Inside
    <2>3. CudaTypes' /\ OthersSafe(r)
      BY <1>1, <2>1, <2>2, GoesOn DEF CudaInv, CudaTypes, OthersSafe
    <2>4. Own(r)'
      <3>1. rpc'[r] = to
        BY <2>2, GoesOn
      <3> QED
        BY <1>1, <1>2, <1>3, <2>1, <2>2, <3>1
           DEF Own, NoErrorSeen, LockHeld, KernelsAwaited, Inside
    <2> QED
      BY <1>1, <2>3, <2>4, OneMoves
  <1>4. CASE \/ error[DeviceOf(r)] /\ (prehasher_test(r) \/ posthasher_test(r))
             \/ stream_query(r)
    <2>1. /\ release(r)
          /\ \E pc \in {"check", "none"} : rpc' = [rpc EXCEPT ![r] = pc]
      BY <1>4 DEF prehasher_test, posthasher_test, stream_query, Goto
    <2>2. PICK pc \in RunPCs \ Inside : /\ rpc' = [rpc EXCEPT ![r] = pc]
                                      /\ pc \in {"check", "none"}
      BY <2>1 DEF RunPCs, Inside
    <2>3. CudaTypes' /\ OthersSafe(r)
      BY <1>1, <1>2, <2>1, <2>2, GoesOn, ReleaseLock
         DEF CudaInv, CudaTypes, OthersSafe
    <2>4. r \in inflight => DeviceOf(r) \notin clean
      BY <1>1, <1>2, <1>4 DEF Own, NoErrorSeen, stream_query
    <2>5. Own(r)'
      <3>1. rpc'[r] = pc
        BY <2>2, GoesOn
      <3> QED
        BY <1>1, <1>2, <2>2, <2>4, <3>1
           DEF Own, NoErrorSeen, LockHeld, KernelsAwaited, Inside
    <2> QED
      BY <1>1, <2>3, <2>5, OneMoves
  <1> QED
    BY <1>3, <1>4

\* The other steps of the callbacks.
LEMMA CallbackKeeps ==
  ASSUME CudaInv, NEW r \in Runners,
         \/ stream_test(r)
         \/ prehasher_lock(r)
         \/ \E launched \in BOOLEAN : filler(r, launched)
  PROVE  CudaInv'
  <1>0. Own(r)
    BY DEF CudaInv
  <1>1. CASE stream_test(r)
    <2>1. /\ rpc[r] = "streamTest" /\ hpc' = hpc
          /\ UNCHANGED <<error, lock, parallel, inflight, clean>>
      BY <1>1 DEF stream_test, MainUnchanged, cudaVars
    <2>2. PICK to \in {"done", "loop"} : rpc' = [rpc EXCEPT ![r] = to]
      BY <1>1 DEF stream_test
    <2>3. to \in RunPCs /\ to \notin Inside
      BY DEF RunPCs, Inside
    <2>4. CudaTypes' /\ OthersSafe(r)
      BY <2>1, <2>2, <2>3, GoesOn DEF CudaInv, CudaTypes, OthersSafe
    <2>5. Own(r)'
      <3>1. rpc'[r] = to
        BY <2>2, <2>3, GoesOn
      <3> QED
        BY <1>0, <2>1, <2>3, <3>1
           DEF Own, NoErrorSeen, LockHeld, KernelsAwaited
    <2> QED
      BY <2>1, <2>4, <2>5, OneMoves
  <1>2. CASE prehasher_lock(r)
    <2>1. /\ rpc[r] = "prehash" /\ hpc' = hpc /\ take(r)
          /\ rpc' = [rpc EXCEPT ![r] = "preCopy"]
          /\ UNCHANGED <<error, parallel, inflight, clean>>
      BY <1>2 DEF prehasher_lock, Goto, MainUnchanged, cudaVars
    <2>2. "preCopy" \in RunPCs
      BY DEF RunPCs, Inside
    <2>3. CudaTypes' /\ OthersSafe(r)
      BY <2>1, <2>2, GoesOn, TakeLock DEF CudaInv, CudaTypes, OthersSafe
    <2>4. Own(r)'
      <3>1. rpc'[r] = "preCopy"
        BY <2>1, <2>2, GoesOn
      <3> QED
        BY <1>0, <2>1, <3>1, TakeLock
           DEF Own, NoErrorSeen, LockHeld, KernelsAwaited
    <2> QED
      BY <2>1, <2>3, <2>4, OneMoves
  <1>3. CASE \E launched \in BOOLEAN : filler(r, launched)
    <2>1. /\ rpc[r] = "fill" /\ hpc' = hpc
          /\ rpc' = [rpc EXCEPT ![r] = "postCopy"]
          /\ inflight' \in {inflight, inflight \cup {r}}
          /\ UNCHANGED <<error, lock, parallel, clean>>
      BY <1>3 DEF filler, Goto, MainUnchanged
    <2>2. "postCopy" \in RunPCs
      BY DEF RunPCs, Inside
    <2>3. CudaTypes' /\ OthersSafe(r)
      BY <2>1, <2>2, GoesOn DEF CudaInv, CudaTypes, OthersSafe
    <2>4. Own(r)'
      <3>1. rpc'[r] = "postCopy"
        BY <2>1, <2>2, GoesOn
      <3> QED
        BY <1>0, <2>1, <3>1
           DEF Own, NoErrorSeen, LockHeld, KernelsAwaited, Inside
    <2> QED
      BY <2>1, <2>3, <2>4, OneMoves
  <1> QED
    BY <1>1, <1>2, <1>3

\* The device's steps.
LEMMA KernelKeeps ==
  ASSUME CudaInv, NEW r \in Runners, kernel_done(r) \/ kernel_fault(r)
  PROVE  CudaInv'
  <1>1. /\ inflight' \subseteq inflight
        /\ UNCHANGED <<hpc, rpc, lock, error, parallel, clean>>
    BY DEF kernel_done, kernel_fault, gpuVars
  <1>2. CudaTypes' /\ NotStarted'
    BY <1>1 DEF CudaInv, CudaTypes, NotStarted
  <1>3. ASSUME NEW s \in Runners
        PROVE  Own(s)'
    BY <1>1 DEF CudaInv, Own, NoErrorSeen, LockHeld, KernelsAwaited
  <1> QED
    BY <1>2, <1>3 DEF CudaInv

\* The main thread's steps.
LEMMA MainKeeps ==
  ASSUME CudaInv, Main
  PROVE  CudaInv'
  <1>1. UNCHANGED <<parallel, inflight, clean>> /\ MainNext("stream")
    BY DEF Main, cudaVars
  <1>2. CASE configure_start("stream")
    <2>1. /\ hpc = "setup" /\ hpc' = "mining"
          /\ rpc' = [r \in Runners |-> IF threads[DeviceOf(r)] THEN "stream"
                                                              ELSE "off"]
          /\ UNCHANGED <<error, lock>>
      BY <1>2 DEF configure_start
    <2>2. rpc' \in [Runners -> {"stream", "off"}] /\ inflight = {}
      BY <2>1 DEF CudaInv, NotStarted
    <2>3. CudaTypes' /\ NotStarted'
      BY <1>1, <2>1, <2>2 DEF CudaInv, CudaTypes, RunPCs, NotStarted
    <2>4. ASSUME NEW s \in Runners
          PROVE  Own(s)'
      BY <1>1, <2>2 DEF Own, NoErrorSeen, LockHeld, KernelsAwaited, Inside
    <2> QED
      BY <2>3, <2>4 DEF CudaInv
  <1>3. ASSUME NEW d \in todo, NEW o \in SetupOutcomes, setup_device(d, o)
        PROVE  CudaInv'
    <2>1. /\ hpc = "setup" /\ hpc' = hpc
          /\ error' = [error EXCEPT ![d] = ~o.ready]
          /\ UNCHANGED <<lock, rpc>>
      BY <1>3 DEF setup_device
    <2>2. error' \in [Devices -> BOOLEAN]
      <3>1. CASE o.ready
        <4>1. error' = [error EXCEPT ![d] = FALSE]
          BY <2>1, <3>1
        <4> QED
          BY <4>1 DEF CudaInv, CudaTypes
      <3>2. CASE ~o.ready
        <4>1. error' = [error EXCEPT ![d] = TRUE]
          BY <2>1, <3>2
        <4> QED
          BY <4>1 DEF CudaInv, CudaTypes
      <3> QED
        BY <3>1, <3>2
    <2>3. inflight = {} /\ \A r \in Runners : rpc[r] = "off"
      BY <2>1 DEF CudaInv, NotStarted
    <2>4. CudaTypes' /\ NotStarted'
      BY <1>1, <2>1, <2>2, <2>3 DEF CudaInv, CudaTypes, NotStarted
    <2>5. ASSUME NEW s \in Runners
          PROVE  Own(s)'
      BY <1>1, <2>1, <2>3
         DEF Own, NoErrorSeen, LockHeld, KernelsAwaited, Inside
    <2> QED
      BY <2>4, <2>5 DEF CudaInv
  <1>4. CASE \/ initialize \/ initialize_disabled \/ configure_disabled
             \/ cleanup_stop \/ cleanup_join
             \/ \E d \in todo : setup_filtered(d)
    <2>1. UNCHANGED <<error, lock, rpc>>
      BY <1>4 DEF initialize, initialize_disabled, configure_disabled,
                  cleanup_stop, cleanup_join, setup_filtered
    <2>2. \/ hpc' \notin {"initialize", "setup", "disabled"}
          \/ hpc \in {"initialize", "setup", "disabled"}
      BY <1>4 DEF initialize, initialize_disabled, configure_disabled,
                  cleanup_stop, cleanup_join, setup_filtered
    <2>3. CudaTypes' /\ NotStarted'
      BY <1>1, <2>1, <2>2 DEF CudaInv, CudaTypes, NotStarted
    <2>4. ASSUME NEW s \in Runners
          PROVE  Own(s)'
      BY <1>1, <2>1 DEF CudaInv, Own, NoErrorSeen, LockHeld, KernelsAwaited
    <2> QED
      BY <2>3, <2>4 DEF CudaInv
  <1> QED
    BY <1>1, <1>2, <1>3, <1>4 DEF MainNext

-----------------------------------------------------------------------------
(* Theorems.                                                               *)

\* CudaInv is inductive.
LEMMA CudaInvariant == Spec => []CudaInv
  <1>1. Init => CudaInv
    BY DEF Init, GpuInit, CudaInv, CudaTypes, RunPCs, Inside, NotStarted, Own,
           NoErrorSeen, LockHeld, KernelsAwaited
  <1>2. CudaInv /\ [Next]_vars => CudaInv'
    <2> SUFFICES ASSUME CudaInv, [Next]_vars
                 PROVE  CudaInv'
      OBVIOUS
    <2>1. CASE UNCHANGED vars
      <3>1. UNCHANGED <<hpc, rpc, lock, error, inflight, parallel, clean>>
        BY <2>1 DEF vars, gpuVars, cudaVars
      <3> QED
        BY <3>1 DEF CudaInv, CudaTypes, NotStarted, Own, NoErrorSeen,
                    LockHeld, KernelsAwaited
    <2>2. CASE Main
      BY <2>2, MainKeeps
    <2>3. ASSUME NEW r \in Runners, Run(r)
          PROVE  CudaInv'
      BY <2>3, RunLoopKeeps, CallKeeps, TestKeeps, CallbackKeeps DEF Run
    <2>4. ASSUME NEW r \in Runners, kernel_done(r) \/ kernel_fault(r)
          PROVE  CudaInv'
      BY <2>4, KernelKeeps
    <2> QED
      BY <2>1, <2>2, <2>3, <2>4 DEF Next
  <1> QED
    BY <1>1, <1>2, PTL DEF Spec

\* The halves of PARALLEL_CUDA have no place in common.
LEMMA HalvesDisjoint ==
  ASSUME NEW r \in Runners, NEW s \in Runners, r # s,
         DeviceOf(r) = DeviceOf(s), parallel
  PROVE  places(r) \cap places(s) = {}
  <1>1. {IdOf(r), IdOf(s)} = {0, 1}
    BY RunnerParts DEF ThreadIds
  <1>2. Places \div 2 \in Nat
    BY PlacesAssumption
  <1>3. 0..(Places \div 2 - 1) \cap (Places \div 2)..(Places - 1) = {}
    BY <1>2, PlacesAssumption
  <1> QED
    BY <1>1, <1>3 DEF places

\* Kernels that fill blocks at the same time use different places, by halves
\* or by the lock, for any number of devices.
THEOREM DisjointPlaces == Spec => []PlacesNotShared
  <1>1. CudaInv => PlacesNotShared
    <2> SUFFICES ASSUME CudaInv, NEW r \in inflight, NEW s \in inflight, r # s,
                        DeviceOf(r) = DeviceOf(s), DeviceOf(r) \in clean
                 PROVE  places(r) \cap places(s) = {}
      BY DEF PlacesNotShared
    <2>1. r \in Runners /\ s \in Runners /\ Own(r) /\ Own(s)
      BY DEF CudaInv, CudaTypes
    <2>2. rpc[r] \in Inside /\ rpc[s] \in Inside
      BY <2>1 DEF Own, KernelsAwaited, Inside
    <2>3. parallel
      BY <2>1, <2>2 DEF Own, LockHeld
    <2> QED
      BY <2>1, <2>3, HalvesDisjoint
  <1> QED
    BY <1>1, CudaInvariant, PTL

\* No thread reads results before its kernels have finished.
THEOREM ResultsAwaited == Spec => []ResultsComplete
  <1>1. CudaInv => ResultsComplete
    BY DEF CudaInv, Own, KernelsAwaited, ResultsComplete
  <1> QED
    BY <1>1, CudaInvariant, PTL
=============================================================================
