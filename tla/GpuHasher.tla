------------------------------ MODULE GpuHasher ------------------------------
(***************************************************************************)
(* What the OpenCL and the CUDA hasher have in common: the devices found   *)
(* by initialize, their set-up in configure, the two threads started for   *)
(* each, and cleanup.  hash/gpu/opencl/opencl_hasher.cpp and               *)
(* hash/gpu/cuda/cuda_hasher.cpp have the same code here; what their       *)
(* threads do is in modules OpenclHasher and CudaHasher.                   *)
(*                                                                         *)
(* A count of hashes per batch (profile_info.threads) is kept as zero or   *)
(* not; module GpuMemory has the numbers.                                  *)
(***************************************************************************)
EXTENDS Naturals, FiniteSets

CONSTANTS
    Devices,    \* __devices
    Free        \* nobody holds a device's lock

ThreadIds == 0..1
Runners == Devices \X ThreadIds     \* __runners: a device and a thread_id

DeviceOf(r) == r[1]
IdOf(r) == r[2]

ASSUME FreeAssumption == Free \notin Runners

VARIABLES
    hpc,        \* where the main thread is in the hasher's operations
    todo,       \* devices configure has still to set up
    selected,   \* configure: cards_selected
    threads,    \* profile_info.threads # 0
    ready,      \* devices whose __setup_device_info returned true
    error,      \* device->error is not success
    running,    \* __running
    isRunning,  \* hasher::__is_running
    exited,     \* a thread has called exit(0)
    lock,       \* holder of device_lock
    rpc,        \* where each thread is in __run
    failed      \* history: in the thread's last generate_hashes a call failed
                \* whose result the code looks at

gpuVars == <<hpc, todo, selected, threads, ready, error, running, isRunning,
             exited, lock, rpc, failed>>

MainPCs == {"initialize", "setup", "mining", "join", "cleaned", "disabled"}

GpuInit ==
    /\ hpc = "initialize"
    /\ todo = Devices
    /\ selected = FALSE
    /\ threads = [d \in Devices |-> FALSE]
    /\ ready = {}
    /\ error = [d \in Devices |-> FALSE]
    /\ running = FALSE
    /\ isRunning = FALSE
    /\ exited = FALSE
    /\ lock = [d \in Devices |-> Free]
    /\ rpc = [r \in Runners |-> "off"]
    /\ failed = [r \in Runners |-> FALSE]

\* initialize with every device answering; and an intensity that is not 0.
initialize ==
    /\ hpc = "initialize"
    /\ hpc' = "setup"
    /\ UNCHANGED <<todo, selected, threads, ready, error, running, isRunning,
                   exited, lock, rpc, failed>>

\* No device, an error while querying any of them, or an intensity of 0.
initialize_disabled ==
    /\ hpc = "initialize"
    /\ hpc' = "disabled"
    /\ UNCHANGED <<todo, selected, threads, ready, error, running, isRunning,
                   exited, lock, rpc, failed>>

\* The ways out of __setup_device_info: an error before profile_info.threads
\* is assigned (context, queue, program, kernels, no memory), an error after
\* it (buffers), success with the intensity of this device 0 or more.
SetupOutcomes == [threads : BOOLEAN, ready : BOOLEAN]

\* A device in the loop of configure, when the filter lets it pass.
setup_device(d, outcome) ==
    /\ hpc = "setup"
    /\ d \in todo
    /\ todo' = todo \ {d}
    /\ selected' = TRUE
    /\ threads' = [threads EXCEPT ![d] = outcome.threads]
    /\ ready' = IF outcome.ready THEN ready \cup {d} ELSE ready
    /\ error' = [error EXCEPT ![d] = ~outcome.ready]
    /\ UNCHANGED <<hpc, running, isRunning, exited, lock, rpc, failed>>

\* A device the filter leaves out.
setup_filtered(d) ==
    /\ hpc = "setup"
    /\ d \in todo
    /\ todo' = todo \ {d}
    /\ threads' = [threads EXCEPT ![d] = FALSE]
    /\ UNCHANGED <<hpc, selected, ready, error, running, isRunning, exited,
                   lock, rpc, failed>>

\* total_threads # 0: only devices set up without error are counted.
Counted == \E d \in ready : threads[d]

\* The end of configure.  Threads are started for every device with
\* profile_info.threads # 0; first is where __run begins.
configure_start(first) ==
    /\ hpc = "setup"
    /\ todo = {}
    /\ selected
    /\ Counted
    /\ hpc' = "mining"
    /\ running' = TRUE
    /\ isRunning' = TRUE
    /\ rpc' = [r \in Runners |-> IF threads[DeviceOf(r)] THEN first ELSE "off"]
    /\ UNCHANGED <<todo, selected, threads, ready, error, exited, lock, failed>>

configure_disabled ==
    /\ hpc = "setup"
    /\ todo = {}
    /\ ~(selected /\ Counted)
    /\ hpc' = "disabled"
    /\ UNCHANGED <<todo, selected, threads, ready, error, running, isRunning,
                   exited, lock, rpc, failed>>

\* cleanup up to the joins; the miner calls it when it was stopped or when a
\* hasher is not running any more.
cleanup_stop ==
    /\ hpc = "mining"
    /\ hpc' = "join"
    /\ running' = FALSE
    /\ UNCHANGED <<todo, selected, threads, ready, error, isRunning, exited,
                   lock, rpc, failed>>

\* The joins have returned and the objects of the devices are released.
cleanup_join ==
    /\ hpc = "join"
    /\ \A r \in Runners : rpc[r] \in {"off", "done"}
    /\ hpc' = "cleaned"
    /\ UNCHANGED <<todo, selected, threads, ready, error, running, isRunning,
                   exited, lock, rpc, failed>>

MainNext(first) ==
    \/ initialize
    \/ initialize_disabled
    \/ \E d \in todo : \/ setup_filtered(d)
                       \/ \E o \in SetupOutcomes : setup_device(d, o)
    \/ configure_start(first)
    \/ configure_disabled
    \/ cleanup_stop
    \/ cleanup_join

-----------------------------------------------------------------------------
(* The loop of __run, the same in both hashers.                            *)

MainUnchanged == UNCHANGED <<hpc, todo, selected, threads, ready>>

\* while(__running).
run_loop(r) ==
    /\ rpc[r] = "loop"
    /\ running
    /\ rpc' = [rpc EXCEPT ![r] = "gate"]
    /\ MainUnchanged
    /\ UNCHANGED <<error, running, isRunning, exited, lock, failed>>

\* The end of __run.
run_exit(r) ==
    /\ rpc[r] = "loop"
    /\ ~running
    /\ isRunning' = running
    /\ rpc' = [rpc EXCEPT ![r] = "done"]
    /\ MainUnchanged
    /\ UNCHANGED <<error, running, exited, lock, failed>>

\* _should_pause, or a _get_input without a base.
run_wait(r) ==
    /\ rpc[r] = "gate"
    /\ rpc' = [rpc EXCEPT ![r] = "loop"]
    /\ MainUnchanged
    /\ UNCHANGED <<error, running, isRunning, exited, lock, failed>>

\* _get_input and the beginning of generate_hashes.
run_input(r) ==
    /\ rpc[r] = "gate"
    /\ rpc' = [rpc EXCEPT ![r] = "prehash"]
    /\ failed' = [failed EXCEPT ![r] = FALSE]
    /\ MainUnchanged
    /\ UNCHANGED <<error, running, isRunning, exited, lock>>

\* generate_hashes has returned the count of the batch's hashes ("check") or 0
\* ("none"), of which _store_hash makes nothing.
Returned == {"check", "none"}
AfterStore(pc) == IF pc = "check" THEN "store" ELSE "loop"

\* Fault: the loop goes on to its next turn instead of ending the process.
run_check_without_exit(r) ==
    /\ rpc[r] \in Returned
    /\ rpc' = [rpc EXCEPT ![r] = IF error[DeviceOf(r)] THEN "loop"
                                ELSE AfterStore(@)]
    /\ MainUnchanged
    /\ UNCHANGED <<error, running, isRunning, exited, lock, failed>>

\* After generate_hashes: an error of the device ends the process, whatever
\* was returned.
run_check(r) ==
    /\ rpc[r] \in Returned
    /\ IF error[DeviceOf(r)]
         THEN /\ running' = FALSE
              /\ exited' = TRUE
              /\ UNCHANGED rpc
         ELSE /\ rpc' = [rpc EXCEPT ![r] = AfterStore(@)]
              /\ UNCHANGED <<running, exited>>
    /\ MainUnchanged
    /\ UNCHANGED <<error, isRunning, lock, failed>>

\* _store_hash of a batch.
run_store(r) ==
    /\ rpc[r] = "store"
    /\ rpc' = [rpc EXCEPT ![r] = "loop"]
    /\ MainUnchanged
    /\ UNCHANGED <<error, running, isRunning, exited, lock, failed>>

GpuTypeOK(pcs) ==
    /\ hpc \in MainPCs
    /\ todo \subseteq Devices
    /\ selected \in BOOLEAN
    /\ threads \in [Devices -> BOOLEAN]
    /\ ready \subseteq Devices
    /\ error \in [Devices -> BOOLEAN]
    /\ running \in BOOLEAN
    /\ isRunning \in BOOLEAN
    /\ exited \in BOOLEAN
    /\ lock \in [Devices -> Runners \cup {Free}]
    /\ rpc \in [Runners -> pcs]
    /\ failed \in [Runners -> BOOLEAN]

Ended == exited \/ hpc \in {"cleaned", "disabled"}

-----------------------------------------------------------------------------
(* Properties of both hashers.                                             *)

\* Hashes of a batch are never stored if a call failed in it whose result the
\* code looks at: generate_hashes returns 0, and __run reads device->error
\* after it and ends the process.
FailedBatchNotStored ==
    \A r \in Runners : rpc[r] = "store" => ~failed[r]

\* A failing call ends the process (LOG "Error running kernel", exit(0)),
\* whatever the other thread of the device does meanwhile, if the code looks
\* at its result.
ErrorEndsProcess ==
    \A r \in Runners : failed[r] ~> exited

\* cleanup returns, or the process has ended: no thread is left waiting for
\* a device or for its lock.
CleanupEnds == hpc = "join" ~> hpc = "cleaned" \/ exited
=============================================================================
