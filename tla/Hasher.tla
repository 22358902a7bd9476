------------------------------- MODULE Hasher -------------------------------
(***************************************************************************)
(* The hasher objects of iximiner and the threads that work for them.      *)
(*                                                                         *)
(* hash/hasher.cpp is the shared object between the main thread and the    *)
(* worker threads: the mining input behind __input_mutex (set_input,       *)
(* _get_input, _should_pause) and the queue of found nonces behind         *)
(* __hashes_mutex (_store_hash, get_hashes).  hash/cpu/cpu_hasher.cpp      *)
(* starts the workers (configure), is their loop (__run) and joins them    *)
(* (cleanup).                                                              *)
(*                                                                         *)
(* A critical section is modelled as two steps, one that takes the mutex   *)
(* and makes the first half of the accesses, one that makes the rest and   *)
(* releases it: what keeps a reader from seeing half an update is the      *)
(* mutex, not the grain of the model.  The operations of the main thread   *)
(* are operators over a hasher h; module Miner says when it calls them.    *)
(*                                                                         *)
(* Left to data: the hash statistics (__hash_count, __hash_timings,        *)
(* __hashrate...), which no operation here tests; their critical sections  *)
(* are kept as steps that need the mutex.                                  *)
(***************************************************************************)
EXTENDS Naturals, Integers, FiniteSets

CONSTANTS
    Hashers,        \* the registered hashers (__registered_hashers)
    Workers,        \* the worker threads of all hashers (__runners)
    HasherOf,       \* the hasher whose __run a worker executes
    Nonces,         \* successful draws of a random nonce, named one by one:
                    \* the generator is not locked, so that the bytes of two
                    \* draws may be equal, and nothing here compares bytes
    Checksums, NoChecksum,  \* block checksums; the empty string
    Solvers, NoSolver,      \* solver addresses; the empty string
    Main, Free,     \* holder of a mutex: the main thread, nobody
    MaxDifficulty   \* 2^64 - 1 in the code

ASSUME HasherOfAssumption == HasherOf \in [Workers -> Hashers]
ASSUME HolderAssumption == /\ Main \notin Workers
                           /\ Free \notin Workers
                           /\ Main # Free
ASSUME MaxDifficultyAssumption == MaxDifficulty \in Nat

VARIABLES
    active,     \* hashers whose configure succeeded (_intensity # 0)
    loaded,     \* hashers whose argon2 filler module is loaded (__dll_handle)
    cpuRunning, \* cpu_hasher::__running
    isRunning,  \* hasher::__is_running
    input,      \* the fields guarded by __input_mutex
    inputLock,  \* holder of __input_mutex
    hashes,     \* hasher::__hashes
    hashesLock, \* holder of __hashes_mutex
    wpc,        \* where each worker is in cpu_hasher::__run
    work,       \* the hash_data a worker got from _get_input
    out,        \* the results of a worker's last generate_hashes
    drawn       \* history: the nonces found so far

hasherVars == <<active, loaded, cpuRunning, isRunning, input, inputLock,
                hashes, hashesLock, wpc, work, out, drawn>>

threadsOf(h) == {w \in Workers : HasherOf[w] = h}

-----------------------------------------------------------------------------
(* Data.                                                                   *)

\* __make_base: the decoded checksum followed by the decoded solver address.
make_base(checksum, solver) == [checksum |-> checksum, solver |-> solver]

\* The empty hash_ceil of a miner and a hasher that have seen no job.
NoCeil == -1

Chks == Checksums \cup {NoChecksum}
Bases == [checksum : Chks, solver : Solvers \cup {NoSolver}]
Ceils == 0..MaxDifficulty \cup {NoCeil}

Inputs == [height : Nat, block_checksum : Chks,
           solver_address : Solvers \cup {NoSolver},
           base : Bases, hash_ceil : Ceils, pause : BOOLEAN]

\* hash_data without its nonce, as _get_input returns it.
Work == [block_checksum : Chks, hash_ceil : Ceils, base : Bases]

\* hash_data of a nonce that met the ceiling.
Shares == [nonce : Nonces, work : Work]

EmptyInput == [height |-> 0, block_checksum |-> NoChecksum,
               solver_address |-> NoSolver,
               base |-> make_base(NoChecksum, NoSolver),
               hash_ceil |-> NoCeil, pause |-> FALSE]

EmptyWork == [block_checksum |-> NoChecksum, hash_ceil |-> NoCeil,
              base |-> make_base(NoChecksum, NoSolver)]

WorkerPCs == {"off", "alloc", "loop", "pause", "get", "copying", "hash",
              "store", "storing", "done"}

HasherInit ==
    /\ active = {}
    /\ loaded = {}
    /\ cpuRunning = [h \in Hashers |-> FALSE]
    /\ isRunning = [h \in Hashers |-> FALSE]
    /\ input = [h \in Hashers |-> EmptyInput]
    /\ inputLock = [h \in Hashers |-> Free]
    /\ hashes = [h \in Hashers |-> {}]
    /\ hashesLock = [h \in Hashers |-> Free]
    /\ wpc = [w \in Workers |-> "off"]
    /\ work = [w \in Workers |-> EmptyWork]
    /\ out = [w \in Workers |-> {}]
    /\ drawn = {}

-----------------------------------------------------------------------------
(* Operations the main thread calls.                                       *)

\* configure, when a filler module, threads and an intensity are there: the
\* running flags are set before the first thread starts.
configure(h) ==
    /\ active' = active \cup {h}
    /\ loaded' = loaded \cup {h}
    /\ cpuRunning' = [cpuRunning EXCEPT ![h] = TRUE]
    /\ isRunning' = [isRunning EXCEPT ![h] = TRUE]
    /\ wpc' = [w \in Workers |-> IF HasherOf[w] = h THEN "alloc" ELSE wpc[w]]
    /\ UNCHANGED <<input, inputLock, hashes, hashesLock, work, out, drawn>>

\* configure with _intensity = 0.  The module stays loaded when it was the
\* threads or the intensity that were missing.
configure_disabled(h) ==
    /\ \/ loaded' = loaded \cup {h}
       \/ UNCHANGED loaded
    /\ UNCHANGED <<active, cpuRunning, isRunning, input, inputLock, hashes,
                   hashesLock, wpc, work, out, drawn>>

\* set_input, first half: the fields up to __solver_address.
set_input_begin(h, height, checksum, solver) ==
    /\ inputLock[h] = Free
    /\ inputLock' = [inputLock EXCEPT ![h] = Main]
    /\ input' = [input EXCEPT ![h] = [@ EXCEPT !.height = height,
                                              !.block_checksum = checksum,
                                              !.solver_address = solver]]
    /\ UNCHANGED <<active, loaded, cpuRunning, isRunning, hashes, hashesLock,
                   wpc, work, out, drawn>>

\* Fault: __pause is not assigned.
set_input_end_without_pause(h, checksum, solver, recommendation, hash_ceil) ==
    /\ inputLock' = [inputLock EXCEPT ![h] = Free]
    /\ input' = [input EXCEPT ![h].base = make_base(checksum, solver),
                              ![h].hash_ceil = hash_ceil]
    /\ UNCHANGED <<active, loaded, cpuRunning, isRunning, hashes, hashesLock,
                   wpc, work, out, drawn>>

\* set_input, second half: __base, __hash_ceil and __pause.
set_input_end(h, checksum, solver, recommendation, hash_ceil) ==
    /\ inputLock' = [inputLock EXCEPT ![h] = Free]
    /\ input' = [input EXCEPT ![h] =
                   [@ EXCEPT !.base = make_base(checksum, solver),
                             !.hash_ceil = hash_ceil,
                             !.pause = (recommendation = "pause")]]
    /\ UNCHANGED <<active, loaded, cpuRunning, isRunning, hashes, hashesLock,
                   wpc, work, out, drawn>>

\* A critical section of __hashes_mutex that touches the statistics alone:
\* the end of a round in set_input, get_avg_hash_rate, get_current_hash_rate.
statistics(h) ==
    /\ hashesLock[h] = Free
    /\ UNCHANGED hasherVars

\* get_hashes, first half; the copy is the caller's.
get_hashes_copy(h) ==
    /\ hashesLock[h] = Free
    /\ hashesLock' = [hashesLock EXCEPT ![h] = Main]
    /\ UNCHANGED <<active, loaded, cpuRunning, isRunning, input, inputLock,
                   hashes, wpc, work, out, drawn>>

\* Fault: the queue is copied and not emptied.
get_hashes_without_clear(h) ==
    /\ hashesLock' = [hashesLock EXCEPT ![h] = Free]
    /\ UNCHANGED <<active, loaded, cpuRunning, isRunning, input, inputLock,
                   hashes, wpc, work, out, drawn>>

\* get_hashes, second half.
get_hashes_clear(h) ==
    /\ hashes' = [hashes EXCEPT ![h] = {}]
    /\ hashesLock' = [hashesLock EXCEPT ![h] = Free]
    /\ UNCHANGED <<active, loaded, cpuRunning, isRunning, input, inputLock,
                   wpc, work, out, drawn>>

\* Fault: cleanup joins threads it never told to stop.
cleanup_without_stop(h) == UNCHANGED hasherVars

\* cleanup up to the first join.
cleanup_stop(h) ==
    /\ cpuRunning' = [cpuRunning EXCEPT ![h] = FALSE]
    /\ UNCHANGED <<active, loaded, isRunning, input, inputLock, hashes,
                   hashesLock, wpc, work, out, drawn>>

\* Fault: the module is unloaded without waiting for the threads.
cleanup_without_join(h) ==
    /\ loaded' = loaded \ {h}
    /\ UNCHANGED <<active, cpuRunning, isRunning, input, inputLock, hashes,
                   hashesLock, wpc, work, out, drawn>>

\* cleanup from the last join on: dlclose follows when every thread is done.
cleanup_join(h) ==
    /\ \A w \in threadsOf(h) : wpc[w] = "done"
    /\ loaded' = loaded \ {h}
    /\ UNCHANGED <<active, cpuRunning, isRunning, input, inputLock, hashes,
                   hashesLock, wpc, work, out, drawn>>

-----------------------------------------------------------------------------
(* cpu_hasher::__run, worker w.                                            *)

run_alloc(w) ==
    /\ wpc[w] = "alloc"
    /\ wpc' = [wpc EXCEPT ![w] = "loop"]
    /\ UNCHANGED <<active, loaded, cpuRunning, isRunning, input, inputLock,
                   hashes, hashesLock, work, out, drawn>>

\* "Error allocating memory": the whole hasher stops.
run_alloc_failed(w) ==
    /\ wpc[w] = "alloc"
    /\ wpc' = [wpc EXCEPT ![w] = "done"]
    /\ cpuRunning' = [cpuRunning EXCEPT ![HasherOf[w]] = FALSE]
    /\ isRunning' = [isRunning EXCEPT ![HasherOf[w]] = FALSE]
    /\ UNCHANGED <<active, loaded, input, inputLock, hashes, hashesLock,
                   work, out, drawn>>

run_loop(w) ==
    /\ wpc[w] = "loop"
    /\ cpuRunning[HasherOf[w]]
    /\ wpc' = [wpc EXCEPT ![w] = "pause"]
    /\ UNCHANGED <<active, loaded, cpuRunning, isRunning, input, inputLock,
                   hashes, hashesLock, work, out, drawn>>

run_exit(w) ==
    /\ wpc[w] = "loop"
    /\ ~cpuRunning[HasherOf[w]]
    /\ wpc' = [wpc EXCEPT ![w] = "done"]
    /\ isRunning' = [isRunning EXCEPT ![HasherOf[w]] = FALSE]
    /\ UNCHANGED <<active, loaded, cpuRunning, input, inputLock, hashes,
                   hashesLock, work, out, drawn>>

\* One read under the mutex; a paused worker sleeps and goes round.
should_pause(w) ==
    /\ wpc[w] = "pause"
    /\ inputLock[HasherOf[w]] = Free
    /\ wpc' = [wpc EXCEPT ![w] = IF input[HasherOf[w]].pause THEN "loop"
                                                             ELSE "get"]
    /\ UNCHANGED <<active, loaded, cpuRunning, isRunning, input, inputLock,
                   hashes, hashesLock, work, out, drawn>>

\* Fault: _get_input does not take __input_mutex.
get_input_unlocked(w) ==
    LET h == HasherOf[w] IN
    /\ wpc[w] = "get"
    /\ work' = [work EXCEPT ![w].block_checksum = input[h].block_checksum,
                            ![w].hash_ceil = input[h].hash_ceil]
    /\ wpc' = [wpc EXCEPT ![w] = "copying"]
    /\ UNCHANGED <<active, loaded, cpuRunning, isRunning, input, inputLock,
                   hashes, hashesLock, out, drawn>>

\* _get_input, first half: __block_checksum and __hash_ceil.
get_input_begin(w) ==
    LET h == HasherOf[w] IN
    /\ wpc[w] = "get"
    /\ inputLock[h] = Free
    /\ inputLock' = [inputLock EXCEPT ![h] = w]
    /\ work' = [work EXCEPT ![w].block_checksum = input[h].block_checksum,
                            ![w].hash_ceil = input[h].hash_ceil]
    /\ wpc' = [wpc EXCEPT ![w] = "copying"]
    /\ UNCHANGED <<active, loaded, cpuRunning, isRunning, input, hashes,
                   hashesLock, out, drawn>>

\* _get_input, second half: __base; without a checksum nothing is hashed.
get_input_end(w) ==
    LET h == HasherOf[w] IN
    /\ wpc[w] = "copying"
    /\ inputLock' = [inputLock EXCEPT ![h] = Free]
    /\ work' = [work EXCEPT ![w].base = input[h].base]
    /\ wpc' = [wpc EXCEPT ![w] = IF work[w].block_checksum = NoChecksum
                                   THEN "loop" ELSE "hash"]
    /\ UNCHANGED <<active, loaded, cpuRunning, isRunning, input, hashes,
                   hashesLock, out, drawn>>

\* generate_hashes on one random nonce that meets the ceiling...
generate_found(w, n) ==
    /\ wpc[w] = "hash"
    /\ n \notin drawn
    /\ drawn' = drawn \cup {n}
    /\ out' = [out EXCEPT ![w] = {[nonce |-> n, work |-> work[w]]}]
    /\ wpc' = [wpc EXCEPT ![w] = "store"]
    /\ UNCHANGED <<active, loaded, cpuRunning, isRunning, input, inputLock,
                   hashes, hashesLock, work>>

\* ...and on one that does not.
generate_missed(w) ==
    /\ wpc[w] = "hash"
    /\ wpc' = [wpc EXCEPT ![w] = "store"]
    /\ UNCHANGED <<active, loaded, cpuRunning, isRunning, input, inputLock,
                   hashes, hashesLock, work, out, drawn>>

\* Fault: _store_hash does not take __hashes_mutex.
store_hash_unlocked(w) ==
    /\ wpc[w] = "store"
    /\ wpc' = [wpc EXCEPT ![w] = "storing"]
    /\ UNCHANGED <<active, loaded, cpuRunning, isRunning, input, inputLock,
                   hashes, hashesLock, work, out, drawn>>

\* _store_hash: take the mutex...
store_hash_begin(w) ==
    /\ wpc[w] = "store"
    /\ hashesLock[HasherOf[w]] = Free
    /\ hashesLock' = [hashesLock EXCEPT ![HasherOf[w]] = w]
    /\ wpc' = [wpc EXCEPT ![w] = "storing"]
    /\ UNCHANGED <<active, loaded, cpuRunning, isRunning, input, inputLock,
                   hashes, work, out, drawn>>

\* ...append the results; input and results are local to one turn of the loop.
store_hash_end(w) ==
    LET h == HasherOf[w] IN
    /\ wpc[w] = "storing"
    /\ hashes' = [hashes EXCEPT ![h] = @ \cup out[w]]
    /\ hashesLock' = [hashesLock EXCEPT ![h] = Free]
    /\ out' = [out EXCEPT ![w] = {}]
    /\ work' = [work EXCEPT ![w] = EmptyWork]
    /\ wpc' = [wpc EXCEPT ![w] = "loop"]
    /\ UNCHANGED <<active, loaded, cpuRunning, isRunning, input, inputLock,
                   drawn>>

run(w) ==
    \/ run_alloc(w)
    \/ run_alloc_failed(w)
    \/ run_loop(w)
    \/ run_exit(w)
    \/ should_pause(w)
    \/ get_input_begin(w)
    \/ get_input_end(w)
    \/ \E n \in Nonces : generate_found(w, n)
    \/ generate_missed(w)
    \/ store_hash_begin(w)
    \/ store_hash_end(w)

-----------------------------------------------------------------------------
HasherTypeOK ==
    /\ active \subseteq Hashers
    /\ loaded \subseteq Hashers
    /\ cpuRunning \in [Hashers -> BOOLEAN]
    /\ isRunning \in [Hashers -> BOOLEAN]
    /\ input \in [Hashers -> Inputs]
    /\ inputLock \in [Hashers -> Workers \cup {Main, Free}]
    /\ hashes \in [Hashers -> SUBSET Shares]
    /\ hashesLock \in [Hashers -> Workers \cup {Main, Free}]
    /\ wpc \in [Workers -> WorkerPCs]
    /\ work \in [Workers -> Work]
    /\ out \in [Workers -> SUBSET Shares]
    /\ drawn \subseteq Nonces
=============================================================================
