----------------------------- MODULE CudaHasher -----------------------------
(***************************************************************************)
(* The threads of hash/gpu/cuda/cuda_hasher.cpp with the callbacks of      *)
(* cuda_kernel.cu.  Each thread has a stream and buffers of its own; both  *)
(* fill the same memory chunks.  With PARALLEL_CUDA (all builds but the    *)
(* Windows one) each thread has half of the hashes' places there and the   *)
(* lock is compiled out; without it each batch takes all places under the  *)
(* lock.                                                                   *)
(*                                                                         *)
(* The results of the calls are assigned to device->error, which both      *)
(* threads write and read without synchronisation: an assignment and the   *)
(* test after it are two steps.  Whether a kernel could be launched is not *)
(* looked at.  Kernels run after their launch; a device on which a kernel  *)
(* has faulted answers every later call with an error.                     *)
(***************************************************************************)
EXTENDS GpuHasher

CONSTANTS
    Places      \* profile_info.threads: hashes in the memory of a device

ASSUME PlacesAssumption == Places \in Nat \ {0} /\ Places % 2 = 0

VARIABLES
    parallel,   \* PARALLEL_CUDA: how the program was built
    inflight,   \* threads with a fill_blocks kernel launched and not finished
    broken,     \* devices on which a kernel has faulted
    clean       \* history: devices on which no call whose result is
                \* assigned to device->error has failed

cudaVars == <<parallel, inflight, broken, clean>>
vars == <<gpuVars, cudaVars>>

Init ==
    /\ GpuInit
    /\ parallel \in BOOLEAN
    /\ inflight = {}
    /\ broken = {}
    /\ clean = Devices

\* Fault: the second thread begins at the first place too.
places_from_zero(r) ==
    IF parallel THEN 0..(Places \div 2 - 1) ELSE 0..(Places - 1)

\* threads_idx and threads of a thread: its places in the memory chunks.
places(r) ==
    IF ~parallel THEN 0..(Places - 1)
    ELSE IF IdOf(r) = 0 THEN 0..(Places \div 2 - 1)
    ELSE (Places \div 2)..(Places - 1)

-----------------------------------------------------------------------------
\* Thread r goes on to pc; nothing else of GpuHasher changes but the lock,
\* device->error and whether the batch has failed.
Goto(r, pc) ==
    /\ rpc' = [rpc EXCEPT ![r] = pc]
    /\ MainUnchanged
    /\ UNCHANGED <<running, isRunning, exited>>

take(r) == IF parallel THEN UNCHANGED lock
           ELSE /\ lock[DeviceOf(r)] = Free
                /\ lock' = [lock EXCEPT ![DeviceOf(r)] = r]

release(r) == IF parallel THEN UNCHANGED lock
              ELSE lock' = [lock EXCEPT ![DeviceOf(r)] = Free]

\* device->error = a call of thread r that may fail, and must on a device
\* with a fault.
call(r, ok) ==
    /\ ok => DeviceOf(r) \notin broken
    /\ error' = [error EXCEPT ![DeviceOf(r)] = ~ok]
    /\ clean' = IF ok THEN clean ELSE clean \ {DeviceOf(r)}

\* __run: cudaStreamCreate, its result in device->error.  A thread whose call
\* failed and that passes the test below all the same, because the other
\* thread's call succeeded in between, mines on with an uninitialised stream:
\* its calls fail or not, like any other.
stream_create(r, ok) ==
    /\ rpc[r] = "stream"
    /\ call(r, ok)
    /\ Goto(r, "streamTest")
    /\ UNCHANGED <<lock, failed, parallel, inflight, broken>>

\* __run: the test of device->error after it.
stream_test(r) ==
    /\ rpc[r] = "streamTest"
    /\ IF error[DeviceOf(r)]
         THEN /\ running' = FALSE
              /\ isRunning' = FALSE
              /\ rpc' = [rpc EXCEPT ![r] = "done"]
         ELSE /\ rpc' = [rpc EXCEPT ![r] = "loop"]
              /\ UNCHANGED <<running, isRunning>>
    /\ MainUnchanged
    /\ UNCHANGED <<error, exited, lock, failed, cudaVars>>

prehasher_lock(r) ==
    /\ rpc[r] = "prehash"
    /\ take(r)
    /\ Goto(r, "preCopy")
    /\ UNCHANGED <<error, failed, cudaVars>>

\* prehasher: cudaMemcpyAsync to the device.
prehasher_copy(r, ok) ==
    /\ rpc[r] = "preCopy"
    /\ call(r, ok)
    /\ failed' = [failed EXCEPT ![r] = @ \/ ~ok]
    /\ Goto(r, "preTest")
    /\ UNCHANGED <<lock, parallel, inflight, broken>>

\* prehasher: the test of device->error, which the other thread may have
\* overwritten meanwhile, and the launch of prehash.  After an error
\* generate_hashes returns 0.
prehasher_test(r) ==
    /\ rpc[r] = "preTest"
    /\ IF error[DeviceOf(r)]
         THEN release(r) /\ Goto(r, "none")
         ELSE UNCHANGED lock /\ Goto(r, "fill")
    /\ UNCHANGED <<error, failed, cudaVars>>

\* filler: the launch of fill_blocks on the places of the thread.  Nobody asks
\* whether it succeeded.
filler(r, launched) ==
    /\ rpc[r] = "fill"
    /\ inflight' = IF launched THEN inflight \cup {r} ELSE inflight
    /\ Goto(r, "postCopy")
    /\ UNCHANGED <<lock, error, failed, parallel, broken, clean>>

\* posthasher: the launch of posthash and cudaMemcpyAsync to the host.
posthasher_copy(r, ok) ==
    /\ rpc[r] = "postCopy"
    /\ call(r, ok)
    /\ failed' = [failed EXCEPT ![r] = @ \/ ~ok]
    /\ Goto(r, "postTest")
    /\ UNCHANGED <<lock, parallel, inflight, broken>>

\* posthasher: the test of device->error.
posthasher_test(r) ==
    /\ rpc[r] = "postTest"
    /\ IF error[DeviceOf(r)]
         THEN release(r) /\ Goto(r, "none")
         ELSE UNCHANGED lock /\ Goto(r, "query")
    /\ UNCHANGED <<error, failed, cudaVars>>

\* Fault: the lock is not released.
stream_query_locked(r) ==
    /\ rpc[r] = "query"
    /\ DeviceOf(r) \notin broken
    /\ r \notin inflight
    /\ Goto(r, "check")
    /\ UNCHANGED <<lock, error, failed, cudaVars>>

\* Fault: the result is not waited for.
stream_query_once(r) ==
    /\ rpc[r] = "query"
    /\ release(r)
    /\ Goto(r, "check")
    /\ UNCHANGED <<error, failed, cudaVars>>

\* posthasher: the loop over cudaStreamQuery ends when all work of the stream
\* is done; with any error it goes on.
stream_query(r) ==
    /\ rpc[r] = "query"
    /\ DeviceOf(r) \notin broken
    /\ r \notin inflight
    /\ release(r)
    /\ Goto(r, "check")
    /\ UNCHANGED <<error, failed, cudaVars>>

\* The device finishes the kernels of a stream.
kernel_done(r) ==
    /\ r \in inflight
    /\ DeviceOf(r) \notin broken
    /\ inflight' = inflight \ {r}
    /\ UNCHANGED <<gpuVars, parallel, broken, clean>>

\* A kernel faults (watchdog, memory error, device lost).
kernel_fault(r) ==
    /\ r \in inflight
    /\ DeviceOf(r) \notin broken
    /\ broken' = broken \cup {DeviceOf(r)}
    /\ UNCHANGED <<gpuVars, parallel, inflight, clean>>

-----------------------------------------------------------------------------
RunLoop(r) ==
    /\ run_loop(r) \/ run_exit(r) \/ run_wait(r) \/ run_input(r)
          \/ run_check(r) \/ run_store(r)
    /\ UNCHANGED cudaVars

Run(r) ==
    \/ RunLoop(r)
    \/ \E ok \in BOOLEAN : stream_create(r, ok)
    \/ stream_test(r)
    \/ prehasher_lock(r)
    \/ \E ok \in BOOLEAN : prehasher_copy(r, ok)
    \/ prehasher_test(r)
    \/ \E launched \in BOOLEAN : filler(r, launched)
    \/ \E ok \in BOOLEAN : posthasher_copy(r, ok)
    \/ posthasher_test(r)
    \/ stream_query(r)

Main == MainNext("stream") /\ UNCHANGED cudaVars

Next ==
    \/ /\ ~exited
       /\ \/ Main
          \/ \E r \in Runners : Run(r) \/ kernel_done(r) \/ kernel_fault(r)
    \/ Ended /\ UNCHANGED vars
    \/ /\ \E r \in Runners : rpc[r] = "query" /\ DeviceOf(r) \in broken
       /\ UNCHANGED vars

Spec == Init /\ [][Next]_vars

\* The operating system runs every thread that can run; a thread that waits
\* for the device's lock gets it some day; kernels that do not fault finish.
FairSpec ==
    /\ Spec
    /\ \A r \in Runners : /\ WF_vars(~exited /\ Run(r))
                          /\ WF_vars(~exited /\ kernel_done(r))
    /\ WF_vars(~exited /\ Main /\ ~cleanup_stop)

-----------------------------------------------------------------------------
\* Two kernels that fill blocks on one device at the same time use different
\* places of its memory, by the halves of PARALLEL_CUDA or by the lock, as
\* long as no call on the device has failed.
PlacesNotShared ==
    \A r, s \in inflight :
        /\ r # s
        /\ DeviceOf(r) = DeviceOf(s)
        /\ DeviceOf(r) \in clean
        => places(r) \cap places(s) = {}

\* A thread reads its results when the kernels of its stream have finished, as
\* long as no call on the device has failed.
ResultsComplete ==
    \A r \in Runners :
        rpc[r] \in {"check", "store"} /\ DeviceOf(r) \in clean
            => r \notin inflight

\* cleanup returns, or the process has ended, unless a kernel has faulted: no
\* thread is left waiting for the device or for its lock.  After a fault the
\* loop over cudaStreamQuery takes every answer for "not ready" and does not
\* end.
CleanupEndsUnlessFault ==
    hpc = "join" ~> hpc = "cleaned" \/ exited \/ broken # {}
=============================================================================
