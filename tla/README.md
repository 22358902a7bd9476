# iximiner: verification project

TLA+ models of the mining core of iximiner, checked with TLC on small instances
and, where it matters most, proved with TLAPS for every instance. File and line
references are to the repository's source.

## 1. The system

iximiner is one process. The **main thread** constructs a `miner`, runs its loop
and ends; **worker threads** of the hashers search nonces; a **signal handler**
asks for the end; **pools** are reached by blocking HTTP calls of the main
thread.

| Part | State | Operations | Interacts with |
|---|---|---|---|
| `miner` (miner/miner.cpp) | current job (`__height`, `__block_checksum`, `__solver_address`, `__difficulty`, `__version`, `__recommendation`, `__hash_ceil`), `__running`, counters, `__hs_threshold_hit`, `__blocks_count` | constructor, `run`, `__update_pool_data`, `__display_report`, `stop`, `get_status` | calls hashers and the pool client; `stop` is called by the signal handler |
| `hasher` (hash/hasher.cpp) | input behind `__input_mutex`; queue `__hashes` and statistics behind `__hashes_mutex`; `__is_running` | `set_input`, `_get_input`, `_should_pause`, `_store_hash`, `get_hashes`, rates | main thread on one side, workers on the other |
| `cpu_hasher` (hash/cpu/cpu_hasher.cpp) | threads, `__running`, filler library handle | `configure`, `__run`, `cleanup` | is a hasher; starts and joins the workers |
| OpenCL, CUDA, AMDGCN hashers (hash/gpu) | per device: queue or stream, lock, error field | same interface; three callbacks per batch | two threads share a device |
| `argon2` (hash/argon2/argon2.cpp) | buffers of one worker | `generate_hashes`, `__check_hash` | called by workers; filler from a library or a GPU |
| fillers (cpu/argon2_opt/implementation.c, opencl_kernel.cpp, cuda_kernel.cu) | the memory of a hash; on a GPU one group of work items per lane | `fill_memory_blocks`, `fill_blocks` | called by `argon2`; driven by the tables of an `argon2profile` |
| blake2b (hash/argon2/blake2) | the state of one stream | `blake2b_update`, `blake2b_update_static`, `blake2b_final`, `blake2b_long` | called by `argon2` |
| `pool_client` (http/client.cpp) | start time, `__is_devfee_time` | `update`, `submit`, `disconnect`, `__get_pool_settings` | HTTP; settings provider |
| `pool_settings_provider` (http/pool_settings_provider.cpp) | user's and developer's settings, time of the last fetch, a file in the user's folder | `get_user_settings`, `get_dev_settings`, `__update_devfee_data` | HTTP, files |
| `autotune` (autotune/autotune.cpp) | `__running`, best intensity | `run`, `stop` | one GPU hasher |
| signal handler, `main` (app/main.cpp) | `main_app` | `shutdown` | calls `stop` |
| arguments, status API, HTTP wrappers, codecs, random numbers | - | sequential, pure or I/O | - |
| proxy | disabled in the build | - | - |

What makes each part correct, and why it is hard:

* **Hashers**: a worker must hash one job, not a mixture of two, although the
  main thread replaces the job field by field; a nonce stored while the queue is
  being emptied must be neither lost nor handed out twice.
* **Miner**: a nonce must be sent for the block it was computed for, although a
  share carries no height; every way through an update must leave all hashers
  with the miner's settings; a pause must be obeyed and must end; a stop, or a
  hasher that died, must end the process without a thread left in an unloaded
  library.
* **Pool client**: the developer gets one minute in a hundred and no more;
  requests are chosen by what *this* pool announced; settings survive restarts.
* **GPU hashers**: two threads share a device, its kernel objects and one error
  field. The device lock, taken in one callback and released in another or on an
  error path, must be released exactly once; a thread must get the hashes of its
  own batch; an error of one thread must not be hidden by the other; the memory
  of every hash must lie in an allocated chunk.

* **Filling**: the GPU kernels let the lanes of a hash run side by side and load
  references ahead of time; they must still compute what the sequential CPU code
  computes, and their index arithmetic is not the same formula.
* **Statistics**: the rate decides when the miner gives up and which intensity
  autotune recommends; hashes must be counted once, in the right window and round.
* **Miner and pool client together**: the account in effect moves by the minute,
  by new settings and by a pool that calls itself a proxy, between the fetch of a
  job, its hashing and the submission of its shares.

`PROJECT.json` lists the hazards at their lines.

## 2. Modules

| Module | Models |
|---|---|
| `Hasher` | hash/hasher.cpp and hash/cpu/cpu_hasher.cpp: variables, the operations the main thread calls, the worker loop |
| `Miner` (extends `Hasher`) | miner/miner.cpp, the handler and the end of app/main.cpp, the pool as the main thread meets it; specification, properties |
| `MinerInv` (extends `Miner`) | the inductive invariants; the mapping of `Miner`'s state to `ShareLedger`'s |
| `ShareLedger` | what the miner promises of a found nonce, without threads, queues or pools: found, then submitted once or dropped as expired |
| `MinerProofs` | theorems about `Miner` |
| `MCMiner` and `MCMiner_*.cfg` | instances of `Miner` |
| `PoolClient` | http/client.cpp and http/pool_settings_provider.cpp over time and over several runs of the process |
| `MCPoolClient` and `MCPoolClient_*.cfg` | instances of `PoolClient` |
| `MinerAccount` (extends `PoolClient`) | the loop of miner/miner.cpp over `PoolClient`: whose job is mined, to whom shares go, how long a pause lasts |
| `AccountProofs` | theorems about `PoolClient` and `MinerAccount` |
| `MCMinerAccount` and its `.cfg` | instance of `MinerAccount` |
| `HashStats` | the statistics of hash/hasher.cpp: window, rounds, counters |
| `Rates` (extends `HashStats`) | what uses them: the report of miner.cpp and autotune/autotune.cpp |
| `RatesProofs` | theorems about `HashStats` and `Rates` |
| `Counting` | lemmas for the proofs: induction on numbers, recursive functions, sums over finite sets |
| `Argon2Fill` | fill_memory_blocks and the two kernels fill_blocks: order of reads and writes, references, barriers |
| `Blake2b` | blake2b.c: streaming, padding, variable-length output |
| `Argon2Hash` (extends `Argon2Fill`, `Blake2b`) | argon2.cpp's generate_hashes, and the hash ceiling of miner.cpp |
| `Argon2Proofs` | theorems about `Argon2Fill`, `Blake2b` and `Argon2Hash` |
| `MCRates`, `MCArgon2` and their `.cfg` | instances |
| `GpuHasher` | what opencl_hasher.cpp and cuda_hasher.cpp have in common: devices, `configure`, the loop of `__run`, `cleanup` |
| `OpenclHasher` (extends `GpuHasher`) | hash/gpu/opencl/opencl_hasher.cpp: the three callbacks, the device lock, kernel arguments and buffers; its inductive invariant |
| `OpenclProofs` | theorems about `OpenclHasher` |
| `CudaHasher` (extends `GpuHasher`) | hash/gpu/cuda/cuda_hasher.cpp and cuda_kernel.cu: streams, callbacks, the error field that every call assigns |
| `GpuMemory` | the number of hashes of a device and the six memory chunks that hold them, in both hashers |
| `CudaProofs`, `MemoryProofs` | theorems about `CudaHasher` and `GpuMemory` |
| `MCOpencl`, `MCCuda`, `MCGpuMemory` and their `.cfg` | instances of the GPU modules |

Definitions whose comment begins with "Fault" are wrong variants of the
definition that follows; replacing the one by the other must break a property,
which shows that the property depends on that piece of code. No specification
uses them.

### Hasher and Miner

`wpc[w]` is where worker `w` is in `cpu_hasher::__run`, `pc` where the main
thread is in the constructor, `run` or a function it calls.

| Code | Actions |
|---|---|
| `cpu_hasher::__run`: allocation, `while(__running)`, `_should_pause` | `run_alloc`, `run_alloc_failed`, `run_loop`, `run_exit`, `should_pause` |
| `_get_input` | `get_input_begin`, `get_input_end` |
| `generate_hashes` | `generate_found`, `generate_missed` |
| `_store_hash` | `store_hash_begin`, `store_hash_end` |
| `miner::miner` | `Configure`, `Configured`, then an update as below |
| `__update_pool_data` | `ReadRate`, then `PoolFailed` or `PoolAnswered` |
| loop over `set_input` | `SetInput`, `SetInputRest`, `CloseRound`, `InputDone` |
| `run`: entry and `while` | `Enter`, `LoopTest` |
| `run`: loop over the hashers | `ScanStopped`, `GetHashes`, `GetHashesDone`, `SkipExpired`, `Submit`, `BatchDone`, `ScanDone` |
| `run`: intervals | `UpdateDue`, `UpdateNotDue`, `ReportDue`, `ReportNotDue` |
| `__display_report` | `ReportRate`, `Report` |
| `cleanup`, end of `run` and `main` | `Cleanup`, `Join`, `Disconnect`, `ProcessEnded` |
| `shutdown` in app/main.cpp | `Signal` |

A critical section is two steps, with the mutex held in between: a model in which
it were one step could not show a torn read. An operation outside a mutex that
reads or writes one shared variable is one step. Both mutexes are variables
holding their owner. The order of the registered hashers is left open, so the
properties hold for every order.

Data: a job's checksum, solver and version are model values or numbers; `__base`
is the pair it is decoded from; the hash ceiling is the number
`MaxDifficulty - difficulty` that the complemented bytes write. A found nonce is
named by its draw: `random_generator` has its lock commented out, so that two
draws may have the same bytes, and nothing here compares bytes. The queue is a
set of shares. HTTP answers are reduced to the four cases that `submit` tells
apart; a failed `update` (no answer, invalid answer, error) is one case for the
miner. The statistics (rates, counts) are in `HashStats`; here their critical
sections are steps that wait for the mutex. The report's comparison with
`--hs-threshold` is a free choice (`Rates` computes it); what follows from it
(`__hs_threshold_hit`, `exit(0)`) is modelled.

### PoolClient

`now` counts time units from the start of a process, `Minute` of them to a
minute. Every request first runs `__get_pool_settings`: the hourly fetch, the
test for the developer's minute, the choice of settings. `update` may store
extensions the pool announces; `request_silent` is every request that stores
nothing (an `update` without `extensions`, a `submit`). `start` is a new process
that finds the file an earlier one left; `Kill` ends a process anywhere between
requests, and `save_devfee_settings` may leave the file emptied. A settings
document is the set of its entries, one of which is chosen by `rand()`.

### MinerAccount

One unit of time is a turn of the loop. `FirstUpdate` is the constructor's
request; a turn is `get_hashes`, then `submit` or `skip_expired` for each share
taken, then `Update` if the interval is over, then `Sleep`. Every request is an
action of `PoolClient`, so that the hourly fetch, the developer's minute and the
extensions take effect between any two of them. `PassPause`, `BeginBatch` and
`EndBatch` are one hasher's worker: the test for a pause, the fetch of the input and
the end of a batch, with any steps of the loop in between (the test and the fetch are
two critical sections of the code). The locking itself is the subject of
`Miner`. A share carries, as history, the account it was found for and the update
that was the last one when its worker passed the test for a pause; `turnedAt` is when
the account in effect last changed.

### HashStats and Rates

A rate is kept as a count and the two ends of its window, and compared by cross
multiplication. In a unit of time each device finishes at most one batch. `mode`
is the choice of app/main.cpp: in the miner's mode devices compute any number of
hashes of a set, the pool changes the block, is lost and comes back (`NewBlock`,
`PoolLost`, `PoolBack`), and `Report` is `__display_report`; in autotune's mode
the speed of every device at every intensity is chosen in the initial state, 0
where the set-up fails (`Hardware`: any device may fail while others work, with an
error before `profile_info.threads` is assigned), and the actions follow
`autotune::run` line by line.
`marks`, `lowWindows` and `measured` are history.

### Argon2Fill, Blake2b, Argon2Hash

The content of a block is the number of times it was written, which tells a read
that comes too early or too late; `reads` holds what a lane has loaded and not yet
used, the references loaded ahead included. `device` is the filler: on a CPU lanes
take turns, with CUDA they meet at `syncthreads` at the head of a segment, with
OpenCL at a `barrier` after every block. References of the first two segments come
from the table of the profile; the model lets them be anything the formula of the
data-dependent branch could give, in the first segment in the lane itself. (The
1020 rows of argon2profile_2_2_2048.c all lie in these sets.)

A byte of a message is its position, and the calls of the compression function
are recorded with block, counter and flag. `Argon2Hash` runs `__initial_hash` with
pieces of any length, `__fill_first_blocks`, the filling, and `encode_hashes` with
any digest and any difficulty; a byte has `Base` values, so that the ceiling can be
checked for every difficulty and digest.

### GpuHasher, OpenclHasher, CudaHasher

`hpc` is where the main thread is in the hasher's operations, `rpc[r]` where
thread `r`, a device and a thread id, is in `__run` or in a callback.

| Code | Actions |
|---|---|
| `initialize`, `configure` | `initialize`, `initialize_disabled`, `setup_device`, `setup_filtered`, `configure_start`, `configure_disabled` |
| `cleanup` | `cleanup_stop`, `cleanup_join` |
| `__run` | `run_loop`, `run_exit`, `run_wait`, `run_input`, `run_check`, `run_store`; CUDA also `stream_create`, `stream_test` |
| OpenCL prehasher | `prehasher_lock`, `prehasher_write`, `set_kernel_arg`, `prehasher_run` |
| OpenCL filler, posthasher | `filler_run`, `posthasher_run`, `posthasher_read`, `posthasher_finish` |
| OpenCL: a failing call whose result is looked at | `callback_error` |
| CUDA callbacks | `prehasher_lock`, `prehasher_copy`, `prehasher_test`, `filler`, `posthasher_copy`, `posthasher_test`, `stream_query` |
| the CUDA device (external) | `kernel_done`, `kernel_fault` |

The OpenCL queue executes in order and fixes a kernel's arguments when it is
enqueued, so a command is modelled by its effect on the buffers at that moment.
The content of a thread's buffer is a history: through how many kernels the
thread's current batch went to get there, or `Other`. The six calls whose results
the callbacks look at fail by `callback_error`. The results of `clSetKernelArg` are
dropped (opencl_hasher.cpp:717-720, 744-746, 768-770): `set_kernel_arg` sets any
subset of a kernel's two buffers, the rest stay what the last thread left, and the
kernel is enqueued with them unless one was never set. (The other arguments are the
same for both threads, so once set they are right.) With CUDA, kernels run after
their launch (`inflight`), an assignment to `device->error` and the test of it are
two steps, a fault of a kernel makes every later call on the device fail, and a
launch may fail, which nobody looks at: the kernel does not run. `generate_hashes`
returns the number of hashes (`check`), or 0 if a callback returned an error
(`none`), and `_store_hash` makes nothing of 0 (hasher.cpp:155). `parallel` is the build option
`PARALLEL_CUDA`; it is chosen in the initial state, so each run covers both
builds. What the hashers do with input, pause and queue is in `Hasher`; here
`run_wait`, `run_input` and `run_store` stand for it. A count of hashes is kept
as zero or not.

### GpuMemory

`Answers` is what a device may report, `setup_size` computes the counts, and six
times `setup_chunk` gives a chunk what it holds of the hashes left. `chunk_index`,
`chunk_offset` and `memory` are the addresses `fill_blocks` computes. The code
computes with `double`. Its counter is a number of hashes divided by those of a
chunk, and is compared and decremented only; the model has the number of hashes.
Where a quotient is multiplied again the product may come out a little above or
below the integer it stands for, and which is a choice: `max_threads` may be one
less where the hashes fit the memory exactly, and `chunk_bytes` one byte more. (That
the error of a product is less than one is a matter of the sizes: they are far below
2^53.) The kernels compute the address with a 32-bit product
(opencl_kernel.cpp:788, cuda_kernel.cu:424); `IntProduct` is exact up to `MaxInt` and
above it either exact or wrapped, as signed overflow is undefined.

## 3. What is checked

Safety runs check every reachable state of their instance.

| Run | Instance | Shows |
|---|---|---|
| `contention` | one hasher, two workers, one nonce, two blocks, with symmetry of workers | `TypeOK`; `WorkIsOneJob`; `NoShareLost`; `SubmittedOnce`; `SentForItsBlock`; `InputsFollowMiner`; `NoThreadOutlivesModule`; `NoNewWorkWhilePaused`; `ImplementsLedger` (every step is a step of `ShareLedger` or a stutter) |
| `stop` | one hasher, two workers, one nonce, one block, fairness | `StopHonoured`; `DeadHasherEndsMiner`; `QueueIsDrained`; `PauseLifts` |
| `account` | two pools, three wallets, a settings URL that answers or not, two checksums with symmetry, restarts, time to the second fee minute | `AccountTypeOK`; `SharesFollowAccount`; `PauseFollowsAccount`; `ExtensionsOfPool`; `FeeShare`; `SavedSettingsRestored` |
| `opencl` | one device, two threads, every call of the callbacks failing or not, `clSetKernelArg` included, fairness | `TypeOK`; `LockInsideCallbacks`; `OwnResults`; `FailedBatchNotStored`; `ErrorEndsProcess`; `CleanupEnds` |
| `cuda` | one device, two threads, both builds, calls that fail and kernels that fault, fairness | `PlacesNotShared`; `ResultsComplete`; `CleanupEndsUnlessFault` |
| `memory` | memories, buffer limits and intensities around the multiples of a hash's size, every rounding, buffers below and above the limit of an int | `EveryHashHasMemory`; `HalvesFit` |
| `rates` | two devices; the miner for a window and two block changes; autotune with two intensities, three speeds for each device and set-ups that fail | `RoundsAddUp`; `ExitEarned`; `BestIsBest` |
| `argon2` | two lanes, two passes, segments of four blocks; CPU, OpenCL and CUDA; messages up to 10 bytes in pieces; every digest and difficulty | `TypeOK`; `ReadsAsSequential`; `ReferencesAllowed`; `ResultOfAllLanes`; `StreamAsOneMessage`; `LongOutput`; `CeilingIsNumeric` |
| `early_stop` | one hasher, one worker, fairness | `StopAlwaysHonoured` is **violated** |
| `empty_answer` | one hasher, one worker | `ConfirmedByPool` is **violated** |
| `download` | two pools, three wallets, time up to three periods | `DownloadedAtSwitch` is **violated** |
| `hidden_error` | one CUDA device, two threads, both builds | `FailedBatchNotStored` is **violated** |

Findings (each is a run that expects the violation):

1. `early_stop`: `run` sets `__running = true` on entry. A SIGINT between
   `main_app = &m` and that line has printed "Received termination request" and
   is then overwritten. From inside the loop a stop is final (`StopHonoured`).
2. `empty_answer`: an empty response to `submit`, which is what the HTTP wrapper
   returns for any connection error, counts as success; the nonce is logged as
   confirmed although the pool never answered. `update` treats the same response
   as an error.
3. `download`: README.md says the developer's settings are downloaded each time
   the miner switches to them; the code fetches them when they are more than an
   hour old, on whichever request comes then.
4. `hidden_error`: both threads of a CUDA device assign the result of every call
   to `device->error` and test it in a statement of their own. On TLC's trace the
   copy of one thread's results fails, the `cudaStreamCreate` of the other succeeds
   before the first has tested the field, and so the first takes its batch for good:
   `generate_hashes` returns the full count and `_store_hash` stores it. If its own
   test sees the error, 0 is returned and nothing is stored. With OpenCL each
   callback tests a local variable, the field is only ever set, under the lock, and
   the same property is a theorem.
   The result of `cudaStreamCreate` is lost in the same way: a thread without a
   stream may mine on.

What some of the properties say, and no more:

* `SharesFollowAccount`: shares do cross from one account to another, because
  `submit` uses the settings of the moment and the miner compares nothing but the
  checksum. They do so only if their worker had passed the test for a pause before
  the update that follows the change of accounts, that is for about two seconds and
  one batch. It is the test that counts: a worker between the test and the fetch takes
  the old account's job even after an update that failed and paused the hashers.
* `PauseFollowsAccount`: a developer's pool that is down pauses the miner for the
  developer's minute and at most one update interval more.
* `NoNewWorkWhilePaused` is about the test too: a worker that has passed it when the
  pause comes still fetches its input and computes one batch.
* `OwnResults`: a batch is the thread's own unless a `clSetKernelArg` of that very
  batch failed. Then a kernel runs on the other thread's buffers (which that thread,
  outside the lock, makes nothing of) and the batch is stored without the results it
  should have. The property says that the harm ends there: every batch sets all
  arguments again.
* `FailedBatchNotStored` and `ErrorEndsProcess` are about calls whose result the code
  looks at.
* `EveryHashHasMemory`: six chunks hold all hashes, for every memory and buffer limit;
  the address computed by a kernel is right for buffers of up to 2^31 units, that is
  16 GB with OpenCL (units of 8 bytes) and 32 GB with CUDA (16 bytes). In a larger
  buffer the product overflows, and the model shows it going wrong without that
  condition.
* `ExitEarned` is about reports at least a window (10 s) apart, the default. With
  `--report-interval` from 1 to 9 s two reports may count the same window.
* `BestIsBest`: the window is closed by the device that stores first, so of every
  other device a batch may be missing at its end, or one too many counted from its
  beginning, and the answer is the best one up to these batches. It assumes steps
  of two windows, which is autotune's default (20 s), and windows of three batches.
  With the least step allowed (10 s) a window can hold hashes of two intensities.
  With two batches to a window, when a batch takes some four seconds or more, an
  intensity at which no device works can be named best: the result of `configure`
  is not looked at, the counters are reset only for devices that were set up, and
  what the intensity before has left in them is taken for its rate. For the same
  reason it assumes `SetUpsAgree`: at an intensity at which one device fails and another
  works, what the first one's counter holds is added to the other's rate. With
  batches of very different speeds TLC finds a wrong answer then (speeds 1, 20 and
  52 per unit instead of those of `MCRates.cfg`, and no time for the set-up).

`configure` of the OpenCL and CUDA hashers starts threads for every device with
`profile_info.threads != 0`, which the set-up assigns before it allocates
buffers: a device that failed later gets its threads. The models have this outcome
(`SetupOutcomes`, `configure_start`). With OpenCL the first batch of such a device
ends the process, because the error of the set-up is still in `device->error`; with
CUDA the thread's `cudaStreamCreate` (cuda_hasher.cpp:293) overwrites it.

`CleanupEndsUnlessFault` says what the code does and no more: after a kernel
fault the loop over `cudaStreamQuery` (cuda_kernel.cu:1097) does not end, because
every answer but success counts as "not ready", and `cleanup` waits for ever in
its join.

### Bounds

* Two workers are the fewest that contend for a hasher's mutexes with each other
  as well as with the main thread. One hasher is enough for what happens between
  a hasher and the miner; the loops of the main thread over several hashers are
  covered by the theorems, which hold for any set of hashers.
* Two jobs let every field change; one is enough for the liveness properties, of
  which `PauseLifts` is hardest when the same job comes back. The pool may give
  any job at any update, go back to an old one, fail, and recover, without a
  bound.
* `Nonces` bounds the number of nonces found, not of hashes tried. One is enough
  for a nonce to be stored while the queue is being taken, empty or not, by either
  worker; that nonces do not get into each other's way, however many there are,
  is what the theorems about `ShareInv` show.
* `ThresholdHits = 1` (5 in the code): the counter's only effect is the exit, and
  a run with 1 reaches it from every state in which it can be reached.
* `MaxDifficulty = 3` stands for 2^64 - 1; only equality of ceilings matters to
  the properties.
* `PoolClient` (run `download`): a minute is 2 units, a period 2 minutes, an hour
  3 units, the clock stops at 13, that is after three fee minutes and three
  fetches. `MinerAccount`: a minute is 2 turns of the loop, so
  that an update, a batch and a submission fit into it; a period is 2 minutes, an
  hour 3 turns, the clock stops at 8, at the second fee minute. A fee minute begins
  and ends, updates fail before, in and after it, and a fetch may change the
  account in the middle of it. As in the program the first hour ends (3600 s)
  before the first fee minute begins (6000 s). The first process finds no file;
  later ones find what an earlier one saved or left empty.
  The URL's document and the file beside the program have one entry each: the first
  puts the developer on a pool of their own, the second on the user's.
* `Rates`: the window is 3 units, the shortest for which `BestIsBest` holds; two low
  reports end the process, one round is kept: four units hold the windows the exit
  needs, with pauses and block changes between, and two rounds push one out. A step
  of autotune is two windows, as by default; two intensities and set-up times of
  one or two units put the end of a window before, at and after the change of
  intensity. Two devices, one four times as fast as the other, are needed for
  windows that count more or less of a device than they last; with one device the
  bound of `BestIsBest` would be narrower.
* `Argon2Hash`: four blocks are the shortest segment with a first, a middle and a
  last index that also make two of CUDA's chunks (`Chunk = 2`); two passes and two
  lanes are those of the profile. `RandRange = 32` values for each half of the random number are
  enough to reach every allowed block, which `ReferencesAllowed` requires. A blake2b block
  of three bytes and pieces of 1, 2, 3, 5 and 7 bytes end before, at and after the
  end of a block, with none or several whole blocks in a piece; messages reach
  into a fourth block. Output lengths reach from one byte to five digests.
  `Base = 3` and two bytes of difficulty cover every order of two bytes.
* GPU: the code starts exactly two threads for a device, and devices share
  nothing but `__running`; one device shows all of the contention. `Places = 4` gives each CUDA thread two.
* `GpuMemory`: a hash needs 16 bytes, the least that is a whole number of a kernel's
  units, and `MaxInt` is 7, so that an int reaches 64 bytes with OpenCL and 128 with
  CUDA; buffers are smaller and larger than that. Memories and buffer limits lie one
  byte below, at and one above multiples of 16, from one hash to devices that fill
  all six chunks.
  `Answers` assumes what OpenCL promises and CUDA code sets: a buffer may be at least
  a quarter of the memory, and holds a hash.

### Fairness

`FairSpec` has weak fairness for each worker: the operating system runs every
thread that can run, and every step of a worker but the two lock acquisitions
and `should_pause` is always enabled once reached. The main thread has strong
fairness: a worker may take and release a mutex again and again, and
`std::mutex` gives no queue, but every holder releases it after a few
assignments and hashing takes the rest of the time, so a waiting thread gets it
eventually. The same fairness assumes that an HTTP call returns, which cpr does
not guarantee without a timeout (http/http.cpp:287, listed as a hazard). There is
no fairness for `Signal`, for allocation failures or for finding a nonce.
`PauseLifts` states its own assumption, `PoolFairness`: the update interval runs
out again and again and a pool asked again and again answers some day. It is
about the environment, and without it a pause is right to last.

The GPU modules have weak fairness for each thread and for the main thread's
steps but `cleanup_stop`, which the miner may never call; a driver call is
assumed to return, and a CUDA kernel that does not fault to finish. Weak fairness
is enough although threads wait for the device lock: `cleanup` needs only that
they leave, and once `__running` is false the holder does not come back.

## 4. What is proved

The first nine theorems are about `Spec` of module `Miner`, for any sets of
hashers, workers, nonces and jobs, under the assumptions on the constants stated in the
modules: each worker belongs to a hasher, the main thread is not a worker, jobs
are well typed, and `ChecksumAssumption`: jobs with the same block checksum have
the same height (a checksum identifies a block).

| Theorem | States |
|---|---|
| `TypeCorrect` | `Spec => []TypeOK` |
| `OneJob` | `Spec => []WorkIsOneJob` |
| `RightHeight` | `Spec => []SentForItsBlock` |
| `InputsFollow` | `Spec => []InputsFollowMiner` |
| `PauseIsObeyed` | `Spec => NoNewWorkWhilePaused` |
| `SafeShutdown` | `Spec => []NoThreadOutlivesModule` |
| `NothingLost` | `Spec => []NoShareLost` |
| `OnlyOnce` | `Spec => []SubmittedOnce` |
| `KeepsLedger` | `Spec => ImplementsLedger`, that is `Spec` implements `ShareLedger!Spec` |
| `LockReleased`, `NoMixedBatches`, `FailuresSeen`, `TypeCorrect` (`OpenclHasher`) | `Spec =>` always `LockInsideCallbacks`, `OwnResults`, `FailedBatchNotStored`, `TypeOK` |
| `AccountImplementsPool` | `AccountSpec => Spec`: the miner's loop implements `PoolClient` |
| `ExtensionsTheorem`, `FeeShareTheorem`, `SavedSettingsTheorem` (`PoolClient`, in the miner's loop) | `AccountSpec =>` always `ExtensionsOfPool`, `FeeShare`, `SavedSettingsRestored` |
| `AccountTypes`, `PauseTheorem` (`MinerAccount`) | `AccountSpec =>` always `AccountTypeOK`, `PauseFollowsAccount` |
| `SharesTheorem` (`MinerAccount`) | `AccountSpec => SharesFollowAccount`, an action property |
| `DisjointPlaces`, `ResultsAwaited` (`CudaHasher`) | `Spec =>` always `PlacesNotShared`, `ResultsComplete` |
| `MemoryForEveryHash`, `HalvesTheorem` (`GpuMemory`) | `Spec =>` always `EveryHashHasMemory`, `HalvesFit` |
| `HashImplementsFill` | `HashSpec => Spec`: the whole hash implements `Argon2Fill` |
| `FillTypeCorrect`, `FillAsSequential`, `SumOfAllLanes` (`Argon2Fill`) | `HashSpec =>` always `TypeOK`, `ReadsAsSequential`, `ResultOfAllLanes` |
| `StreamTheorem`, `LongOutputTheorem` (`Blake2b`) | `HashSpec =>` always `StreamAsOneMessage`, `LongOutput` |
| `OpenclReference`, `ReferenceWithin` (`Argon2Fill`) | about the operators: OpenCL's reference is the CPU's; a reference is an allowed block |
| `ReferencesTheorem` (`Argon2Fill`) | if `RandRange >= 2 * LaneLength` and `Passes <= 2`, `HashSpec => []ReferencesAllowed` |
| `CeilingTheorem` (`Argon2Hash`) | `HashSpec => []CeilingIsNumeric` |
| `ExitTheorem` (`Rates`) | if `ReportInterval >= Window`, `Spec => []ExitEarned` |
| `RoundsTheorem`, `AverageTheorem` (`HashStats`) | `Spec =>` always `RoundsKept`, `RoundsAddUp` |
| `AnswerTheorem` (`Rates`) | if `Window >= 3` and `StepTime >= 2 * Window`, `Spec => []BestIsBest` |

**Counting.** Induction is proved from the library's theorem that every non-empty
set of numbers has a least one, with a set in the place of the property
(`LeastNat`, `AllNumbers`). From it come a discrete intermediate value theorem
(`StepByStep`), the existence of functions defined by recursion
(`RecursionExists`), and what is needed of `SumFunction`, a fold over a set: sums
exist and are numbers (`SumsExist`, `SumType`), any summand may be taken out first
(`SumRemove`), they are monotone and linear (`SumAtMost`, `SumScaled`), and
differences add up (`SumOfDifferences`).

**Miner.** None of the properties is inductive. `WorkInv` adds to the first two what makes
them so: which thread owns `__input_mutex` inside `set_input` and `_get_input`;
that a hasher's input is whole unless the main thread owns it; that the half a
worker has copied is still the hasher's; that the miner's settings are those of
one job; that every share was made from a job with a checksum. `RightHeight` then
follows from the test in `run`: share and settings have the same checksum, both
come from jobs, and a checksum fixes the height. `FollowInv` says how far the loop
over `set_input` has come: hashers it has passed follow the miner, the one it is
at has the first half of the settings. `ShutdownInv` says the same of the loop
over `cleanup`: hashers it has passed have no thread left.

`ShareInv` follows a nonce from the worker that found it to the pool. Between the
copy and the clear in `get_hashes` the main thread owns `__hashes_mutex`, and a
worker owns it while it appends (`HashesMutex`), so what is cleared is what was
copied. Each nonce is in one place: a worker's result, a queue, or the batch once
its queue is cleared (`OnePlace`; `Loose` leaves out the moment in which batch
and queue are the same). Whatever waits in one of these places was never
submitted nor dropped (`Ledgered`), and every nonce found is in one of them or
closed (`Located`). The last gives `NothingLost`, `Ledgered` gives `OnlyOnce`.
For `KeepsLedger` the status of a nonce is computed from `tries`, `expired` and
`drawn`; a draw is `Find`, `Submit` is `Send`, `SkipExpired` is `Drop`, and
`ShareInv` supplies their guards. Every other step leaves the ledger unchanged.

**OpenclHasher.** The theorems of `OpenclProofs` hold for any set of devices; they assume
only that `Free`, `NotSet` and `Other` are none of the values they stand beside. Their invariant `OpenclInv` joins three of the
properties, which need each other. A thread is inside the callbacks exactly while
it holds the lock, so no other thread of the device is. Therefore the arguments it
has set are still its own when it enqueues (`ArgsAreOwn`), and its batch moves
through its own buffers, one kernel at a time (`BatchOnItsWay`), to
`OwnResults`; both are claimed of batches without a failed `clSetKernelArg` (`misset`),
and hold again in the next batch, which sets every argument before it is used. After `configure` nothing resets `device->error`, so a failure is
still there when `__run` looks for it (`ErrorKept`), which gives
`FailedBatchNotStored`; the CUDA code, where `ErrorKept` is false, violates it.

**PoolClient and MinerAccount.** The theorems hold for any pools, wallets,
documents, announcements and any `Minute`, `Period`, `Hour` and `Interval`. They
assume that documents have well-formed entries and that "*" and the empty string
are not names of pools. `PoolInv` is inductive for `PoolClient`: both accounts of
a running process have a wallet and a pool (`SettingsUsable`); a pool that has said
nothing counts as having announced the empty set, which is why settings without
extensions are right for any pool (`SilentPools`); what was written last is the only
entry of the file (`FileIsSaved`), so that reading it back gives nothing else;
minutes that went to the developer are multiples of `Period` up to the present one
(`FeeMinutesOnly`), of which there are `minutes \div Period`. Each step of the
miner's loop is a step of `PoolClient` or leaves it alone (`AccountImplementsPool`),
so `PoolInv` holds in the loop too. `AccountInv` adds: whatever is at work or
paused belongs to the account in effect, or to an update no later than `turnedAt`
(`WorkFollowsAccount`, `PauseIsOf`); an update is never more than an interval and a
turn old (`LoopOrder`). The only steps that could break the first are those in
which the account changes, and they set `turnedAt` to the present.

**CudaHasher.** For any set of devices and both builds. `CudaInv` says of each
thread, on a device without a failed call: it holds the lock inside the callbacks
unless the build is parallel (`LockHeld`); `device->error` is clear once the thread
has made its first call (`NoErrorSeen`), so no error path lets it leave early; its
kernels are at work only while it waits for them (`KernelsAwaited`). A step of one
thread is safe for the others (`OthersSafe`), hence one thread need be looked at.
The theorems say nothing of a device on which a call has failed: there the code
loses errors (finding 4).

**GpuMemory.** For every memory size, buffer limit and intensity, and every choice of
rounding: of a buffer of `t` hashes, at least a quarter of the memory, the memory holds
at most `4t + 3` hashes (`SixChunks`); that is at most `6t` for `t >= 2`, and for
`t = 1` because the count is even (`CountFits`). What is left after `c` chunks is the
count less `c` full ones (`LeftOver`), and a chunk holds what falls to it, rounded
either way (`ChunkHolds`). Every hash ends inside its buffer, so the product a kernel
computes is less than the buffer's size in units, and `IntProduct` is exact if that is
at most `MaxInt + 1`.

**Argon2Fill.** For any number of lanes, passes and blocks to a segment (at least
three), and any number of random values. `FillInv` says how far apart lanes may be
(`InStep`): with CUDA all have begun the same segments, with OpenCL all that are in
a segment are at the same block, on a CPU one moves at a time. It follows that a block outside
the running segments has been written as often for every lane as in the sequential
order, and that a block of the lane itself depends on the lane only; `MemCount`
gives the count of every block by the progress of its lane, and so the content of
everything a lane may load, also ahead of time. The refinement
`HashImplementsFill` carries this to the whole hash. `OpenclReference` compares the
kernel's arithmetic with the formula in each of the eight segments of the profile.
`ReferencesTheorem` adds that no allowed block is left out. The formula maps a
random number x to `(area * (x^2 \div R)) \div R`, R being the number of random
values (2^32 in the code). From one x to the next the quotient of the square goes
up by at most two (`SquareSteps`), so with R at least twice the blocks of a lane the
whole goes up by at most one, from one end of the area to the other, and by
`StepByStep` it takes every value between. Two passes are what the OpenCL kernel's
arithmetic is written for.

**The ceiling.** For any number of values of a byte and any number of bytes. The
first bytes of a digest are a number in base `Base` (`Leading`); `FirstDifference`
gives the least position at which digest and ceiling differ, at which
`__check_hash` decides, and there the numbers decide the same way, whatever follows
(`FirstByteDecides`). The ceiling's own number is the complement of the difficulty
(`CeilNumber`).

**Blake2b.** For any block size, any pieces and any output length: what has been
compressed are the whole blocks of the message so far, and buffer and remaining
input are its rest (`BlocksSoFar`, `Remainder`); a full buffer is kept back until
more input comes (`Kept`), so the last block is flagged and none before it.
`Halves` says the same of the digests of `blake2b_long`.

**Rates.** `ExitTheorem` is for reports at least a window apart, as by default (10 s
each); `--report-interval` may be as little as one second, and then several hits may
be for the same window. `ExitInv`: the rate in force ends at `hashrateTime`, windows
already counted ended by the last report. At a report the window in force is less
than `Window` old, hence younger than the last report: it is a new one.
`RoundsKept` holds for any number of rounds: each round kept lies between two
successive marks, hence times and hashes add up to what lies between the oldest of
these marks and the present (`AverageTheorem`).

`AnswerTheorem` is for any finite set of devices and any speeds, if at each intensity
the set-ups of all devices succeed or all fail (`Agreeing`). `AnswerInv` has
three parts. While the devices work, `Counters` bounds what each counter holds by
the units since the window was closed, or since the set-up, give or take the batch
still due and the one stored after the window was closed; `WindowClosed` says that
the first batch after its end closes a window, so a window in the step is exactly
one unit longer than `Window`. Hence the rate read after two windows is the speed
of this intensity, up to these batches (`RateInStep`). After the measurement the
counters hold at most a window of hashes (`Measured`). If the next set-up fails they
are not reset, but by then they are divided by a step and more, which is less than
the rate already measured (`Leftover`, `LittleLeft`: here a window of three batches
is needed). `BestSoFar` then compares counts over windows of the same length.

The inductive invariants also hold of every state TLC reaches on the instances of
section 3 (but for the part of `MemoryInv` that quantifies over all numbers, which
TLC cannot evaluate); they are no properties of the runs, since the theorems
include them.

Left to TLC: liveness (`StopHonoured`, `DeadHasherEndsMiner`, `QueueIsDrained`,
`PauseLifts`, `ErrorEndsProcess`, `CleanupEnds`, `CleanupEndsUnlessFault`), which the
prover does not cover. Every invariant and every action property of a passing run
is a theorem.

## 5. Plan

All modules of the plan are written: `Hasher`, `Miner`, `ShareLedger`; `PoolClient`
and `MinerAccount`; the GPU hashers and `GpuMemory`; `HashStats` and `Rates`;
`Argon2Fill`, `Blake2b` and `Argon2Hash`, each with theorems.

Next: an abstract specification of the device lock that both GPU hashers implement.

## 6. Not modelled

Most of the repository's lines are not iximiner's own: of about 139000 lines of
implementation all but some 16000 are vendored, the CLRX assembler under
hash/gpu/amdgcn, civetweb, mini-gmp, http_parser, simplejson, cpr and cpu_features. They
are third-party libraries with an interface the models use (a request returns a
text, a call of a driver succeeds or not). CLRX is not even built, being under the
same `if(0)` as the AMDGCN hasher, and mini-gmp is built and never called. The map
therefore covers a small share of all lines, although the miner's own control is
modelled nearly in full.

Of the program's own code the following is left out:

* the AMDGCN hasher, which CMakeLists.txt has under `if(0)` and which calls
  functions of the argument parser that no longer exist;
* the proxy, commented out in CMakeLists.txt and app/main.cpp, with `node_api`,
  which only it calls, and `http_internal_impl`, which no class of the build uses;
* the argument parser, the GPU filters and the registry of hashers: sequential
  code whose results are constants of the models;
* the status API, reports, URLs and JSON: formatting of what is read;
* base64 and hex: pure functions on data the models keep as model values (hex is
  part of `hash_ceil`, where the bytes matter);
* the compression function of blake2b, the mixing of blocks and the pre- and
  posthash kernels: bit operations on kilobytes of data;
* the choice of a filler library by CPU features, platform shims, packaging.

`get_device_infos` and the unlocked random generator are data races in code that
the models abstract; they are listed as hazards, as is the reliance of the OpenCL
kernel on work items that run in step.
