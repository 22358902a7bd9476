---------------------------- MODULE OpenclHasher ----------------------------
(***************************************************************************)
(* The threads of hash/gpu/opencl/opencl_hasher.cpp.  Two threads share a  *)
(* device: one command queue, one kernel object of each kind with its      *)
(* arguments, and buffers of their own.  generate_hashes of argon2.cpp     *)
(* calls the three callbacks; the device lock is taken in the first and    *)
(* released in the third, or wherever a call fails.                        *)
(*                                                                         *)
(* The queue runs its commands in order and takes a kernel's arguments     *)
(* when it is enqueued, so a command is modelled by its effect at that     *)
(* moment; a thread reads its results after clFinish.  The content of a    *)
(* thread's buffer is told from its current batch: how many kernels that   *)
(* went through to get there, or Other if it is anything else, an earlier  *)
(* batch or the other thread's.                                            *)
(*                                                                         *)
(* The results of clSetKernelArg are dropped.  If the call fails, the      *)
(* argument stays what it was, most often a buffer of the other thread,    *)
(* and the kernel is enqueued with it.                                     *)
(***************************************************************************)
EXTENDS GpuHasher

CONSTANTS
    NotSet,     \* a kernel's argument before the first clSetKernelArg
    Other       \* content that is not the current batch's

ASSUME ValuesAssumption == NotSet \notin ThreadIds /\ Other \notin Nat

Kernels == {"prehash", "fill_blocks", "posthash"}

\* The arguments that differ between the threads: the buffer a kernel reads
\* and the one it writes.
Ends == {"from", "to"}

VARIABLES
    arg,        \* whose buffer each of a kernel's two arguments is
    misset,     \* history: a clSetKernelArg of the thread's batch failed
    host,       \* content of the memory of __run
    preseed, seed, outMem, hashMem      \* content of the device's buffers

bufferVars == <<preseed, seed, outMem, hashMem>>
vars == <<gpuVars, arg, misset, host, bufferVars>>

Contents == Nat \cup {Other}

Init ==
    /\ GpuInit
    /\ arg = [d \in Devices |-> [a \in Kernels \X Ends |-> NotSet]]
    /\ misset = [r \in Runners |-> FALSE]
    /\ host = [r \in Runners |-> Other]
    /\ preseed = host
    /\ seed = host
    /\ outMem = host
    /\ hashMem = host

-----------------------------------------------------------------------------
(* generate_hashes and its callbacks.                                      *)

\* Thread r goes on to pc; nothing else of GpuHasher changes but the lock.
Goto(r, pc) ==
    /\ rpc' = [rpc EXCEPT ![r] = pc]
    /\ UNCHANGED <<hpc, todo, selected, threads, ready, error, running,
                   isRunning, exited, failed>>

\* A new batch of nonces in the thread's memory.
generate_begin(r) ==
    /\ run_input(r)
    /\ host' = [host EXCEPT ![r] = 0]
    /\ misset' = [misset EXCEPT ![r] = FALSE]
    /\ UNCHANGED <<arg, bufferVars>>

\* The callbacks are done with the batch: what the thread's buffers hold is
\* not the current batch's any more.
BatchOver(r) ==
    /\ preseed' = [preseed EXCEPT ![r] = Other]
    /\ seed' = [seed EXCEPT ![r] = Other]
    /\ outMem' = [outMem EXCEPT ![r] = Other]
    /\ hashMem' = [hashMem EXCEPT ![r] = Other]

\* prehasher: the lock.
prehasher_lock(r) ==
    /\ rpc[r] = "prehash"
    /\ lock[DeviceOf(r)] = Free
    /\ lock' = [lock EXCEPT ![DeviceOf(r)] = r]
    /\ Goto(r, "preWrite")
    /\ UNCHANGED <<arg, misset, host, bufferVars>>

\* prehasher: clEnqueueWriteBuffer.
prehasher_write(r) ==
    /\ rpc[r] = "preWrite"
    /\ preseed' = [preseed EXCEPT ![r] = host[r]]
    /\ Goto(r, "preArgs")
    /\ UNCHANGED <<lock, arg, misset, host, seed, outMem, hashMem>>

\* clSetKernelArg for the buffers of kernel k, in one of the callbacks; done
\* are the arguments for which it succeeds, id the thread of the buffers.
SetArgs(r, k, id, done) ==
    /\ arg' = [arg EXCEPT ![DeviceOf(r)] =
                 [a \in Kernels \X Ends |->
                    IF a[1] = k /\ a[2] \in done THEN id ELSE @[a]]]
    /\ misset' = [misset EXCEPT ![r] = @ \/ done # Ends]
    /\ UNCHANGED <<lock, host, bufferVars>>

\* Fault: the buffers are counted from one.
set_kernel_arg_shifted(r, k, before, after) ==
    /\ rpc[r] = before
    /\ \E done \in SUBSET Ends : SetArgs(r, k, IdOf(r) + 1, done)
    /\ Goto(r, after)

\* The results are not looked at: the kernel is enqueued all the same.
set_kernel_arg(r, k, before, after) ==
    /\ rpc[r] = before
    /\ \E done \in SUBSET Ends : SetArgs(r, k, IdOf(r), done)
    /\ Goto(r, after)

\* The thread whose buffer kernel k reads or writes when it is enqueued now.
Buffer(r, k, end) == <<DeviceOf(r), arg[DeviceOf(r)][<<k, end>>]>>

\* What a kernel makes of content c of one thread's buffer in another of its
\* buffers.
Hashed(c) == IF c = Other THEN Other ELSE c + 1

\* Kernel k takes its input from buffers src and leaves its output in dst.
Output(r, k, src, dst) ==
    LET from == Buffer(r, k, "from")
        to   == Buffer(r, k, "to")
    IN  [dst EXCEPT ![to] = IF from = to THEN Hashed(src[from]) ELSE Other]

\* A kernel with an argument that was never set cannot be enqueued.
Enqueue(r, k, src, dst) ==
    /\ \A end \in Ends : Buffer(r, k, end) \in Runners
    /\ dst' = Output(r, k, src, dst)

\* Fault: the lock is released when the first kernel is enqueued.
prehasher_run_unlock(r) ==
    /\ rpc[r] = "preRun"
    /\ Enqueue(r, "prehash", preseed, seed)
    /\ lock' = [lock EXCEPT ![DeviceOf(r)] = Free]
    /\ Goto(r, "fillArgs")
    /\ UNCHANGED <<arg, misset, host, preseed, outMem, hashMem>>

\* prehasher: the prehash kernel.
prehasher_run(r) ==
    /\ rpc[r] = "preRun"
    /\ Enqueue(r, "prehash", preseed, seed)
    /\ Goto(r, "fillArgs")
    /\ UNCHANGED <<lock, arg, misset, host, preseed, outMem, hashMem>>

\* filler: the fill_blocks kernel.
filler_run(r) ==
    /\ rpc[r] = "fillRun"
    /\ Enqueue(r, "fill_blocks", seed, outMem)
    /\ Goto(r, "postArgs")
    /\ UNCHANGED <<lock, arg, misset, host, preseed, seed, hashMem>>

\* posthasher: the posthash kernel.
posthasher_run(r) ==
    /\ rpc[r] = "postRun"
    /\ Enqueue(r, "posthash", outMem, hashMem)
    /\ Goto(r, "postRead")
    /\ UNCHANGED <<lock, arg, misset, host, preseed, seed, outMem>>

\* posthasher: clEnqueueReadBuffer.
posthasher_read(r) ==
    /\ rpc[r] = "postRead"
    /\ host' = [host EXCEPT ![r] = hashMem[r]]
    /\ Goto(r, "postFinish")
    /\ UNCHANGED <<lock, arg, misset, bufferVars>>

\* Fault: the lock is not released.
posthasher_finish_locked(r) ==
    /\ rpc[r] = "postFinish"
    /\ BatchOver(r)
    /\ Goto(r, "check")
    /\ UNCHANGED <<lock, arg, misset, host>>

\* posthasher: clFinish and the release of the lock.
posthasher_finish(r) ==
    /\ rpc[r] = "postFinish"
    /\ lock' = [lock EXCEPT ![DeviceOf(r)] = Free]
    /\ BatchOver(r)
    /\ Goto(r, "check")
    /\ UNCHANGED <<arg, misset, host>>

\* Where a call may fail whose result the code looks at.
MayFail == {"preWrite", "preRun", "fillRun", "postRun", "postRead",
            "postFinish"}

\* Fault: the callback neither keeps nor returns the error.
callback_error_ignored(r) ==
    /\ rpc[r] \in MayFail
    /\ failed' = [failed EXCEPT ![r] = TRUE]
    /\ lock' = [lock EXCEPT ![DeviceOf(r)] = Free]
    /\ rpc' = [rpc EXCEPT ![r] = "check"]
    /\ BatchOver(r)
    /\ MainUnchanged
    /\ UNCHANGED <<error, running, isRunning, exited, arg, misset, host>>

\* Fault: the callback returns with the lock held.
callback_error_locked(r) ==
    /\ rpc[r] \in MayFail
    /\ error' = [error EXCEPT ![DeviceOf(r)] = TRUE]
    /\ failed' = [failed EXCEPT ![r] = TRUE]
    /\ rpc' = [rpc EXCEPT ![r] = "none"]
    /\ BatchOver(r)
    /\ MainUnchanged
    /\ UNCHANGED <<lock, running, isRunning, exited, arg, misset, host>>

\* Such a call fails: the callback keeps the error, releases the lock and
\* returns false or NULL, and generate_hashes returns 0.
callback_error(r) ==
    /\ rpc[r] \in MayFail
    /\ error' = [error EXCEPT ![DeviceOf(r)] = TRUE]
    /\ failed' = [failed EXCEPT ![r] = TRUE]
    /\ lock' = [lock EXCEPT ![DeviceOf(r)] = Free]
    /\ rpc' = [rpc EXCEPT ![r] = "none"]
    /\ BatchOver(r)
    /\ MainUnchanged
    /\ UNCHANGED <<running, isRunning, exited, arg, misset, host>>

-----------------------------------------------------------------------------
RunLoop(r) ==
    /\ run_loop(r) \/ run_exit(r) \/ run_wait(r) \/ run_check(r)
          \/ run_store(r)
    /\ UNCHANGED <<arg, misset, host, bufferVars>>

Run(r) ==
    \/ RunLoop(r)
    \/ generate_begin(r)
    \/ prehasher_lock(r)
    \/ prehasher_write(r)
    \/ set_kernel_arg(r, "prehash", "preArgs", "preRun")
    \/ prehasher_run(r)
    \/ set_kernel_arg(r, "fill_blocks", "fillArgs", "fillRun")
    \/ filler_run(r)
    \/ set_kernel_arg(r, "posthash", "postArgs", "postRun")
    \/ posthasher_run(r)
    \/ posthasher_read(r)
    \/ posthasher_finish(r)
    \/ callback_error(r)

Main == MainNext("loop") /\ UNCHANGED <<arg, misset, host, bufferVars>>

Next ==
    \/ ~exited /\ (Main \/ \E r \in Runners : Run(r))
    \/ Ended /\ UNCHANGED vars

Spec == Init /\ [][Next]_vars

\* The operating system runs every thread that can run, and OpenCL calls
\* return.  Nothing makes the miner call cleanup.
FairSpec ==
    /\ Spec
    /\ \A r \in Runners : WF_vars(~exited /\ Run(r))
    /\ WF_vars(~exited /\ Main /\ ~cleanup_stop)

-----------------------------------------------------------------------------
Inside == {"preWrite", "preArgs", "preRun", "fillArgs", "fillRun",
           "postArgs", "postRun", "postRead", "postFinish"}

PCs == {"off", "loop", "gate", "prehash", "check", "none", "store", "done"}
         \cup Inside

TypeOK ==
    /\ GpuTypeOK(PCs)
    /\ arg \in [Devices -> [Kernels \X Ends -> ThreadIds \cup {NotSet}]]
    /\ misset \in [Runners -> BOOLEAN]
    /\ host \in [Runners -> Contents]
    /\ preseed \in [Runners -> Contents]
    /\ seed \in [Runners -> Contents]
    /\ outMem \in [Runners -> Contents]
    /\ hashMem \in [Runners -> Contents]

\* The device lock is held from the first callback to the third by the thread
\* that executes them, and by no thread outside: it is taken once and released
\* once on every path, the ones of the six errors included.
LockInsideCallbacks ==
    \A r \in Runners : lock[DeviceOf(r)] = r <=> rpc[r] \in Inside

\* What a thread finds in its memory after a batch in which no call has failed
\* are the hashes of that batch, through all three kernels: none was enqueued
\* with the other thread's buffers and no result is an earlier batch's.  A
\* failed clSetKernelArg, which nobody looks at, spoils the batch in which it
\* failed and no other: it may direct the thread's kernels to the other
\* thread's buffers, of which that one then makes nothing.
OwnResults ==
    \A r \in Runners :
        rpc[r] \in {"postFinish", "check", "store"} /\ ~failed[r] /\ ~misset[r]
            => host[r] = 3

-----------------------------------------------------------------------------
(* The inductive invariant of the three properties.                        *)

\* Before configure ends there are no threads; afterwards nothing resets
\* device->error, so that a failure is still there when it is looked for.
ErrorKept ==
    /\ hpc \in {"initialize", "setup"} =>
         \A r \in Runners : rpc[r] = "off" /\ ~failed[r]
    /\ \A r \in Runners : failed[r] => error[DeviceOf(r)]

\* A kernel about to be enqueued has the arguments of the thread that
\* enqueues it.
ArgsAre(r, k) == \A end \in Ends : arg[DeviceOf(r)][<<k, end>>] = IdOf(r)

ArgsAreOwn ==
    \A r \in Runners :
        ~misset[r] =>
            /\ rpc[r] = "preRun" => ArgsAre(r, "prehash")
            /\ rpc[r] = "fillRun" => ArgsAre(r, "fill_blocks")
            /\ rpc[r] = "postRun" => ArgsAre(r, "posthash")

\* How far the batch has come.
BatchAt(r, pcs, buffer, kernels) ==
    rpc[r] \in pcs => buffer[r] = kernels

BatchOnItsWay ==
    \A r \in Runners :
        ~misset[r] =>
            /\ BatchAt(r, {"prehash", "preWrite"}, host, 0)
            /\ BatchAt(r, {"preArgs", "preRun"}, preseed, 0)
            /\ BatchAt(r, {"fillArgs", "fillRun"}, seed, 1)
            /\ BatchAt(r, {"postArgs", "postRun"}, outMem, 2)
            /\ BatchAt(r, {"postRead"}, hashMem, 3)

OpenclInv == /\ ErrorKept
             /\ LockInsideCallbacks
             /\ ArgsAreOwn
             /\ BatchOnItsWay
             /\ OwnResults
             /\ FailedBatchNotStored
=============================================================================
