------------------------------ MODULE MinerInv ------------------------------
(***************************************************************************)
(* Inductive invariants of module Miner: each strengthens one or two of    *)
(* its properties until a step of any thread preserves it.                 *)
(***************************************************************************)
EXTENDS Miner

-----------------------------------------------------------------------------
(* For WorkIsOneJob and SentForItsBlock.                                   *)

IsJobWork(x) == \E job \in PoolJobs : x = WorkOf(job)

\* What a worker may hash: the work of a job that has a checksum.
Minable(x) == x.block_checksum # NoChecksum /\ IsJobWork(x)

\* What _get_input would return now.
InputWork(h) == [block_checksum |-> input[h].block_checksum,
                 hash_ceil |-> input[h].hash_ceil,
                 base |-> input[h].base]

\* __input_mutex is held by the main thread exactly inside set_input, and by
\* a worker while it is inside _get_input.
InputMutex ==
    /\ \A h \in Hashers : inputLock[h] = Main <=> pc = "inputRest" /\ cur = h
    /\ \A w \in Workers : wpc[w] = "copying" => inputLock[HasherOf[w]] = w

\* The miner's own settings come from one job.
SettingsOneJob ==
    \/ settings.block_checksum = NoChecksum
    \/ \E job \in PoolJobs :
          /\ settings.height = job.height
          /\ settings.block_checksum = job.block_checksum
          /\ settings.solver_address = job.solver_address
          /\ settings.hash_ceil = calc_hash_ceil(job.difficulty)

\* A hasher's input is whole except between the halves of set_input, where
\* the first half agrees with the miner's settings.
InputOneJob ==
    /\ \A h \in Hashers :
         inputLock[h] # Main =>
            input[h].block_checksum = NoChecksum \/ IsJobWork(InputWork(h))
    /\ pc = "inputRest" =>
         input[cur].block_checksum = settings.block_checksum

\* Inside _get_input the first half read is still the hasher's.
CopyIsCurrent ==
    \A w \in Workers : wpc[w] = "copying" =>
        /\ work[w].block_checksum = input[HasherOf[w]].block_checksum
        /\ work[w].hash_ceil = input[HasherOf[w]].hash_ceil

SharesMinable ==
    /\ \A w \in Workers :
         wpc[w] \in {"hash", "store", "storing"} => Minable(work[w])
    /\ \A w \in Workers : \A share \in out[w] : Minable(share.work)
    /\ \A h \in Hashers : \A share \in hashes[h] : Minable(share.work)
    /\ \A share \in batch : Minable(share.work)

WorkInv == /\ InputMutex
           /\ SettingsOneJob
           /\ InputOneJob
           /\ CopyIsCurrent
           /\ SharesMinable
           /\ SentForItsBlock

-----------------------------------------------------------------------------
(* For InputsFollowMiner and NoNewWorkWhilePaused.                         *)

\* While the loop over set_input runs, the hashers it has passed follow the
\* miner, and the one it is at has the first half of the settings.
FollowInv ==
    /\ pc \notin {"input", "inputRest", "round"}
          /\ settings.recommendation = "pause" => mainApp
    /\ pc = "configure" => ~mainApp
    /\ pc = "inputRest" =>
         /\ cur \in todo
         /\ input[cur].height = settings.height
         /\ input[cur].block_checksum = settings.block_checksum
         /\ input[cur].solver_address = settings.solver_address
    /\ pc \in {"input", "inputRest", "round"} =>
         \A h \in active \ todo : FollowsMiner(h)
    /\ pc = "rate" /\ mainApp => \A h \in active : FollowsMiner(h)
    /\ InputsFollowMiner
    /\ \A w \in Workers : wpc[w] # "off" => HasherOf[w] \in active

-----------------------------------------------------------------------------
(* For NoThreadOutlivesModule.                                             *)

\* The hashers cleanup has passed have no thread left.
ShutdownInv ==
    /\ \A w \in Workers : wpc[w] # "off" => HasherOf[w] \in active
    /\ pc \in {"cleanup", "join"} =>
         \A h \in active \ todo : \A w \in threadsOf(h) : wpc[w] = "done"
    /\ NoThreadOutlivesModule

-----------------------------------------------------------------------------
(* For NoShareLost, SubmittedOnce and ImplementsLedger.                    *)

\* The main thread owns __hashes_mutex between the copy and the clear, a
\* worker while it appends; so the copy is still the whole queue when the
\* queue is cleared.
HashesMutex ==
    /\ pc = "clear" => hashesLock[cur] = Main /\ hashes[cur] = batch
    /\ \A w \in Workers : wpc[w] = "storing" => hashesLock[HasherOf[w]] = w

\* Results are kept from generate_hashes to _store_hash, and the batch from
\* get_hashes to the end of the loop over it.
Places ==
    /\ \A w \in Workers : out[w] # {} => wpc[w] \in {"store", "storing"}
    /\ pc \notin {"clear", "submit"} => batch = {}

\* Found, and neither submitted nor dropped.
Open(n) == n \in drawn /\ tries[n] = 0 /\ n \notin expired

\* What waits for submission is open, and nothing was closed twice.
Ledgered ==
    /\ \A w \in Workers : \A s \in out[w] : Open(s.nonce)
    /\ \A h \in Hashers : \A s \in hashes[h] : Open(s.nonce)
    /\ \A s \in batch : Open(s.nonce)
    /\ \A n \in Nonces : tries[n] # 0 =>
          tries[n] = 1 /\ n \in drawn /\ n \notin expired
    /\ \A r \in sent : tries[r.share.nonce] # 0
    /\ expired \subseteq drawn

\* The batch once the queue it was copied from is empty.
Loose == IF pc = "submit" THEN batch ELSE {}

\* A nonce is in one place only.
OnePlace ==
    /\ \A w, v \in Workers : \A s \in out[w], t \in out[v] :
          s.nonce = t.nonce => w = v /\ s = t
    /\ \A h, k \in Hashers : \A s \in hashes[h], t \in hashes[k] :
          s.nonce = t.nonce => h = k /\ s = t
    /\ \A s, t \in Loose : s.nonce = t.nonce => s = t
    /\ \A w \in Workers, h \in Hashers : \A s \in out[w], t \in hashes[h] :
          s.nonce # t.nonce
    /\ \A s \in Loose, w \in Workers : \A t \in out[w] : s.nonce # t.nonce
    /\ \A s \in Loose, h \in Hashers : \A t \in hashes[h] : s.nonce # t.nonce

\* NoShareLost, nonce by nonce.
Located(n) == \/ \E w \in Workers : \E s \in out[w] : s.nonce = n
              \/ \E h \in Hashers : \E s \in hashes[h] : s.nonce = n
              \/ \E s \in batch : s.nonce = n
              \/ \E r \in sent : r.share.nonce = n
              \/ n \in expired

\* Threads are started by configure only.
Unstarted ==
    pc = "configure" =>
        \A w \in Workers : HasherOf[w] \in todo => wpc[w] = "off"

ShareInv == /\ HashesMutex
            /\ Places
            /\ Unstarted
            /\ Ledgered
            /\ OnePlace
            /\ \A n \in drawn : Located(n)

-----------------------------------------------------------------------------
(* Refinement of the ledger.                                               *)

StatusOf(n) == CASE n \in expired -> "expired"
                 [] n \notin expired /\ tries[n] # 0 -> "sent"
                 [] n \in drawn \ expired /\ tries[n] = 0 -> "found"
                 [] OTHER -> "unknown"

Ledger == INSTANCE ShareLedger WITH status <- [n \in Nonces |-> StatusOf(n)],
                                    sends <- tries

\* Whatever the threads, the pool and the signal handler do, each nonce found
\* is submitted once or dropped as expired, never both and never again: the
\* miner implements the ledger (miner.cpp, run; hasher.cpp, get_hashes and
\* _store_hash).
ImplementsLedger == Ledger!Spec
=============================================================================
