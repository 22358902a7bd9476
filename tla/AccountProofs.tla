--------------------------- MODULE AccountProofs ----------------------------
(***************************************************************************)
(* Theorems about modules PoolClient and MinerAccount, for all pools,      *)
(* wallets, settings documents, announcements and lengths of time.         *)
(***************************************************************************)
EXTENDS MinerAccount, FiniteSetTheorems, TLAPS

USE DocumentsAssumption, PoolsAssumption, TimeAssumption

-----------------------------------------------------------------------------
(* The inductive invariant of the pool client.                             *)

\* Settings a request can be sent with, and their target.
UsableSettings == [wallet : Wallets, pool : Pools, extensions : KnownExtensions]
UsableTargets == [wallet : Wallets, pool : Pools]

\* A running process has a pool and a wallet for both accounts.
SettingsUsable == up => {user, dev} \subseteq UsableSettings

\* Every pool counts as one without extensions until it announces some.
SilentPools == \A p \in Pools : {} \in announced[p]

\* What was written last is what the file has, unless the write was cut short.
FileIsSaved == saved # NoTarget => saved \in UsableTargets /\ file = {saved}

\* Where there is no process nothing was read.
NothingRead == ~up => ~fromFile

\* Only fee minutes that have begun went to the developer.
FeeMinutesOnly == feeMinutes \subseteq {m \in 1..minutes : m % Period = 0}

PoolInv ==
    /\ TypeOK
    /\ SettingsUsable
    /\ SilentPools
    /\ FileIsSaved
    /\ NothingRead
    /\ FeeMinutesOnly
    /\ ExtensionsOfPool
    /\ SavedSettingsRestored

-----------------------------------------------------------------------------
(* Settings documents.                                                     *)

\* The document chosen has entries, of which each names a wallet and a pool
\* or the place holder.
LEMMA FirstUsableType ==
  ASSUME TypeOK, NEW url \in UrlDocuments
  PROVE  FirstUsable(url) \subseteq Entries
  BY DEF TypeOK, FirstUsable

\* One entry makes usable settings of any settings, for a user with a pool.
LEMMA EntryUsable ==
  ASSUME NEW old \in Settings, NEW u \in UsableSettings, NEW e \in Entries
  PROVE  process_devfee_json(old, u, e) \in UsableSettings
  <1>1. CASE e.pool = AnyPool
    BY <1>1 DEF Settings, process_devfee_json, UsableSettings, Entries
  <1>2. CASE e.pool \notin {AnyPool, old.pool}
    BY <1>2 DEF process_devfee_json, UsableSettings, Entries, KnownExtensions
  <1>3. CASE e.pool # AnyPool /\ e.pool = old.pool
    BY <1>3 DEF process_devfee_json, UsableSettings, Entries, Settings
  <1> QED
    BY <1>1, <1>2, <1>3

\* So does the last resort.
LEMMA BuiltInUsable ==
  ASSUME NEW old \in Settings, NEW u \in UsableSettings
  PROVE  built_in(old, u) \in UsableSettings
  BY DEF built_in, UsableSettings, Settings

\* Whatever is fetched is usable.
LEMMA FetchedUsable ==
  ASSUME TypeOK, NEW old \in Settings, NEW u \in UsableSettings,
         NEW url \in UrlDocuments, NEW d \in Fetched(old, u, url)
  PROVE  d \in UsableSettings
  BY FirstUsableType, EntryUsable, BuiltInUsable DEF Fetched

\* The extensions of settings fetched were announced by their pool, if those
\* of the settings they are made of were.
LEMMA FetchedExtensions ==
  ASSUME TypeOK, NEW old \in Settings, NEW u \in UsableSettings,
         NEW url \in UrlDocuments, NEW d \in Fetched(old, u, url),
         NEW known \in [Pools -> SUBSET KnownExtensions],
         \A p \in Pools : {} \in known[p],
         u.extensions \in known[u.pool],
         old.pool \in Pools => old.extensions \in known[old.pool]
  PROVE  d.extensions \in known[d.pool]
  <1>1. CASE FirstUsable(url) = {}
    BY <1>1 DEF Fetched, built_in, Settings, UsableSettings
  <1>2. CASE FirstUsable(url) # {}
    <2>1. PICK e \in FirstUsable(url) : d = process_devfee_json(old, u, e)
      BY <1>2 DEF Fetched
    <2>2. e \in Entries
      BY FirstUsableType
    <2>3. CASE e.pool = AnyPool
      BY <2>1, <2>2, <2>3 DEF Settings, process_devfee_json, UsableSettings
    <2>4. CASE e.pool \notin {AnyPool, old.pool}
      BY <2>1, <2>2, <2>4 DEF process_devfee_json, Entries
    <2>5. CASE e.pool # AnyPool /\ e.pool = old.pool
      BY <2>1, <2>2, <2>5 DEF process_devfee_json, Entries, Settings
    <2> QED
      BY <2>3, <2>4, <2>5
  <1> QED
    BY <1>1, <1>2

\* Read from the file that was written last, the settings are those written.
LEMMA FetchedFromFile ==
  ASSUME TypeOK, FileIsSaved, saved # NoTarget,
         NEW old \in Settings, NEW u \in UsableSettings,
         NEW d \in Fetched(old, u, {})
  PROVE  Target(d) = saved
  <1>1. FirstUsable({}) = {saved}
    BY DEF FirstUsable, FileIsSaved
  <1>2. d = process_devfee_json(old, u, saved)
    BY <1>1 DEF Fetched
  <1>3. saved \in UsableTargets
    BY DEF FileIsSaved
  <1>4. saved.pool # AnyPool
    BY <1>3 DEF UsableTargets
  <1>5. CASE saved.pool = old.pool
    BY <1>2, <1>3, <1>4, <1>5
       DEF process_devfee_json, Target, UsableTargets, Settings
  <1>6. CASE saved.pool # old.pool
    BY <1>2, <1>3, <1>4, <1>6
       DEF process_devfee_json, Target, UsableTargets
  <1> QED
    BY <1>5, <1>6
-----------------------------------------------------------------------------
(* Time.                                                                   *)

\* The minute of the clock is a number no larger than the clock.
LEMMA MinutesType ==
  ASSUME TypeOK
  PROVE  minutes \in Nat /\ minutes <= now
  <1>1. now \in Nat /\ Minute \in Nat /\ Minute > 0
    BY DEF TypeOK
  <1> QED
    BY <1>1, SMTT(30) DEF minutes

\* A later time is in no earlier minute.
LEMMA MinutesGrow ==
  ASSUME TypeOK, now' = now + 1
  PROVE  minutes' \in Nat /\ minutes <= minutes'
  <1>1. now \in Nat /\ Minute \in Nat /\ Minute > 0
    BY DEF TypeOK
  <1> QED
    BY <1>1, SMTT(30) DEF minutes

-----------------------------------------------------------------------------
(* A request.                                                              *)

\* Before a request is sent: what may be fetched, and what the file then has.
LEMMA RequestPrelude ==
  ASSUME PoolInv, NEW url \in UrlDocuments, NEW d,
         get_pool_settings(d, url)
  PROVE  /\ d \in UsableSettings
         /\ d.extensions \in announced[d.pool]
         /\ fetchedAt' \in 0..MaxTime
         /\ file' \subseteq Entries
         /\ saved' \in Targets
         /\ fromFile' \in BOOLEAN
         /\ FileIsSaved'
         /\ fromFile' /\ saved' # NoTarget => Target(d) = saved'
  <1>1. /\ up
        /\ user \in UsableSettings
        /\ dev \in UsableSettings
        /\ dev \in Settings
        /\ user.extensions \in announced[user.pool]
        /\ dev.extensions \in announced[dev.pool]
    BY DEF get_pool_settings, PoolInv, SettingsUsable, ExtensionsOfPool, TypeOK
  <1>2. CASE now - fetchedAt > Hour
    <2>1. update_devfee_data(dev, d, user, url, now)
      BY <1>2 DEF get_pool_settings, refreshed
    <2>2. d \in Fetched(dev, user, url)
      BY <2>1 DEF update_devfee_data
    <2>3. d \in UsableSettings
      BY <1>1, <2>2, FetchedUsable DEF PoolInv
    <2>4. d.extensions \in announced[d.pool]
      BY <1>1, <2>2, FetchedExtensions DEF PoolInv, TypeOK, SilentPools
    <2>5. save_devfee_settings(d, url)
      BY <2>1 DEF update_devfee_data
    <2>6. Target(d) \in UsableTargets
      BY <2>3 DEF Target, UsableSettings, UsableTargets
    <2>7. UsableTargets \subseteq Targets /\ UsableTargets \subseteq Entries
      BY DEF UsableTargets, Targets, Entries
    <2>8. file' \subseteq Entries /\ saved' \in Targets /\ FileIsSaved'
      BY <2>5, <2>6, <2>7
         DEF save_devfee_settings, FileOf, PoolInv, TypeOK, FileIsSaved,
             Targets, NoTarget
    <2>9. fromFile' = (url = {} /\ file # {}) /\ fetchedAt' = now
      BY <2>1 DEF update_devfee_data
    <2>10. ASSUME fromFile', saved' # NoTarget
           PROVE  Target(d) = saved'
      <3>1. url = {} /\ saved' = saved
        BY <2>5, <2>9, <2>10 DEF save_devfee_settings
      <3> QED
        BY <1>1, <2>2, <2>10, <3>1, FetchedFromFile DEF PoolInv
    <2> QED
      BY <2>3, <2>4, <2>8, <2>9, <2>10 DEF PoolInv, TypeOK
  <1>3. CASE ~(now - fetchedAt > Hour)
    <2>1. d = dev /\ UNCHANGED <<file, saved, fetchedAt, fromFile>>
      BY <1>3 DEF get_pool_settings, refreshed
    <2> QED
      BY <1>1, <2>1
         DEF PoolInv, TypeOK, FileIsSaved, SavedSettingsRestored
  <1> QED
    BY <1>2, <1>3

\* The histories a request keeps.
LEMMA RequestHistory ==
  ASSUME PoolInv, NEW url \in UrlDocuments, NEW d,
         get_pool_settings(d, url)
  PROVE  /\ devfeeTime' \in BOOLEAN
         /\ fresh' \in BOOLEAN
         /\ feeMinutes' \subseteq 0..MaxTime
         /\ FeeMinutesOnly'
  <1>1. devfeeTime' \in BOOLEAN
    BY DEF get_pool_settings, FeeMinute, PoolInv, TypeOK
  <1>2. fresh' \in BOOLEAN
    BY <1>1 DEF get_pool_settings, PoolInv, TypeOK
  <1>3. minutes' = minutes /\ minutes \in 0..MaxTime
    BY MinutesType DEF get_pool_settings, minutes, PoolInv, TypeOK
  <1>4. UsesDev => minutes \in 1..minutes /\ minutes % Period = 0
    BY <1>3 DEF UsesDev, FeeMinute
  <1>5. feeMinutes' \subseteq {m \in 1..minutes : m % Period = 0}
    BY <1>4 DEF get_pool_settings, PoolInv, FeeMinutesOnly
  <1>6. FeeMinutesOnly'
    BY <1>3, <1>5 DEF FeeMinutesOnly
  <1> QED
    BY <1>1, <1>2, <1>3, <1>5, <1>6
\* An answer that announces extensions.
LEMMA UpdateKeeps ==
  ASSUME PoolInv, NEW url \in UrlDocuments, NEW d,
         NEW extensions \in Announcements, update(d, url, extensions)
  PROVE  PoolInv'
  <1>0. get_pool_settings(d, url)
    BY DEF update
  <1>1. up /\ up' /\ now' = now
    BY <1>0 DEF get_pool_settings
  <1>2. /\ user \in UsableSettings
        /\ user.extensions \in announced[user.pool]
    BY <1>1 DEF PoolInv, SettingsUsable, ExtensionsOfPool
  <1> DEFINE target == IF UsesDev THEN d ELSE user
             known  == [target EXCEPT !.extensions = extensions]
  <1>3. /\ announced' = [announced EXCEPT ![target.pool] = @ \cup {extensions}]
        /\ user' = IF UsesDev THEN user ELSE known
        /\ dev' = IF UsesDev THEN known ELSE d
    BY DEF update
  <1>4. target \in UsableSettings
    BY <1>0, <1>2, RequestPrelude
  <1>5. /\ known \in UsableSettings
        /\ known.extensions = extensions
        /\ known.pool = target.pool
        /\ known.wallet = target.wallet
    BY <1>4 DEF UsableSettings, KnownExtensions
  <1> HIDE DEF known
  <1>6. user' \in UsableSettings /\ dev' \in UsableSettings
    BY <1>0, <1>2, <1>3, <1>5, RequestPrelude
  <1>7. /\ announced' \in [Pools -> SUBSET KnownExtensions]
        /\ \A p \in Pools : announced[p] \subseteq announced'[p]
        /\ extensions \in announced'[target.pool]
    <2>1. /\ target.pool \in Pools
          /\ announced \in [Pools -> SUBSET KnownExtensions]
          /\ extensions \in KnownExtensions
      BY <1>4 DEF UsableSettings, PoolInv, TypeOK, KnownExtensions
    <2> QED
      BY <1>3, <2>1
  <1>8. /\ user.pool \in Pools
        /\ d.pool \in Pools
        /\ d.extensions \in announced[d.pool]
    BY <1>0, <1>2, RequestPrelude DEF UsableSettings
  <1>9. ExtensionsOfPool'
    BY <1>2, <1>3, <1>5, <1>7, <1>8 DEF ExtensionsOfPool
  <1>10. Target(dev') = Target(d)
    BY <1>3, <1>5 DEF Target
  <1>11. SavedSettingsRestored'
    BY <1>0, <1>10, RequestPrelude DEF SavedSettingsRestored
  <1>12. UsableSettings \subseteq Settings
    BY DEF UsableSettings, Settings
  <1>13. TypeOK'
    BY <1>0, <1>1, <1>6, <1>7, <1>12, RequestPrelude, RequestHistory
       DEF TypeOK, PoolInv
  <1>14. SilentPools'
    BY <1>7 DEF SilentPools, PoolInv
  <1> QED
    BY <1>0, <1>1, <1>6, <1>9, <1>11, <1>13, <1>14, RequestPrelude,
       RequestHistory
       DEF PoolInv, SettingsUsable, NothingRead

\* Any other answer, or none.
LEMMA SilentKeeps ==
  ASSUME PoolInv, NEW url \in UrlDocuments, NEW d, request_silent(d, url)
  PROVE  PoolInv'
  <1>1. /\ get_pool_settings(d, url)
        /\ dev' = d
        /\ user' = user
        /\ announced' = announced
    BY DEF request_silent
  <1>2. up /\ up' /\ now' = now
    BY <1>1 DEF get_pool_settings
  <1>3. UsableSettings \subseteq Settings
    BY DEF UsableSettings, Settings
  <1>4. TypeOK'
    BY <1>1, <1>2, <1>3, RequestPrelude, RequestHistory DEF TypeOK, PoolInv
  <1>5. SettingsUsable'
    BY <1>1, <1>2, RequestPrelude DEF SettingsUsable, PoolInv
  <1>6. ExtensionsOfPool'
    BY <1>1, <1>2, RequestPrelude DEF ExtensionsOfPool, PoolInv
  <1>7. SavedSettingsRestored'
    BY <1>1, RequestPrelude DEF SavedSettingsRestored
  <1>8. SilentPools'
    BY <1>1 DEF SilentPools, PoolInv
  <1> QED
    BY <1>1, <1>2, <1>4, <1>5, <1>6, <1>7, <1>8, RequestPrelude,
       RequestHistory
       DEF PoolInv, NothingRead

-----------------------------------------------------------------------------
(* Processes come and go.                                                  *)

\* A process that has ended leaves no more than the file.
LEMMA EndKeeps ==
  ASSUME PoolInv, EndProcess,
         file' \subseteq Entries, saved' \in Targets, FileIsSaved'
  PROVE  PoolInv'
  <1>1. NoDev \in Settings
    BY DEF NoDev, NewSettings, Settings, KnownExtensions
  <1>2. [p \in Pools |-> {{}}] \in [Pools -> SUBSET KnownExtensions]
    BY DEF KnownExtensions
  <1>3. TypeOK'
    <2>1. now' \in 0..MaxTime /\ fetchedAt' \in 0..MaxTime
      BY DEF EndProcess
    <2> QED
      BY <1>1, <1>2, <2>1, Zenon DEF EndProcess, TypeOK, PoolInv
  <1>4. SettingsUsable' /\ NothingRead' /\ ExtensionsOfPool'
    BY DEF EndProcess, SettingsUsable, NothingRead, ExtensionsOfPool
  <1>5. SilentPools'
    BY DEF EndProcess, SilentPools
  <1>6. FeeMinutesOnly'
    BY DEF EndProcess, FeeMinutesOnly
  <1>7. SavedSettingsRestored'
    BY DEF EndProcess, SavedSettingsRestored
  <1> QED
    BY <1>3, <1>4, <1>5, <1>6, <1>7 DEF PoolInv

\* Writing usable settings, or failing to, leaves a file that can be read.
LEMMA SaveKeepsFile ==
  ASSUME PoolInv, NEW url \in UrlDocuments, NEW d \in UsableSettings,
         save_devfee_settings(d, url)
  PROVE  file' \subseteq Entries /\ saved' \in Targets /\ FileIsSaved'
  <1>1. Target(d) \in UsableTargets
    BY DEF Target, UsableSettings, UsableTargets
  <1>2. UsableTargets \subseteq Targets /\ UsableTargets \subseteq Entries
    BY DEF UsableTargets, Targets, Entries
  <1> QED
    BY <1>1, <1>2
       DEF save_devfee_settings, FileOf, PoolInv, TypeOK, FileIsSaved,
           Targets, NoTarget

\* disconnect, which may save fetched settings, keeps PoolInv.
LEMMA DisconnectKeeps ==
  ASSUME PoolInv, NEW url \in UrlDocuments, NEW d, disconnect(d, url)
  PROVE  PoolInv'
  <1>1. EndProcess /\ user \in UsableSettings /\ dev \in Settings
    BY DEF disconnect, EndProcess, PoolInv, SettingsUsable, TypeOK
  <1>2. CASE now - fetchedAt > Hour
    <2>1. d \in UsableSettings
      BY <1>1, <1>2, FetchedUsable DEF disconnect, PoolInv
    <2> QED
      BY <1>1, <1>2, <2>1, SaveKeepsFile, EndKeeps DEF disconnect
  <1>3. CASE ~(now - fetchedAt > Hour)
    <2>1. file' = file /\ saved' = saved
      BY <1>3 DEF disconnect
    <2> QED
      BY <1>1, <2>1, EndKeeps DEF PoolInv, TypeOK, FileIsSaved
  <1> QED
    BY <1>2, <1>3

\* A kill between requests keeps PoolInv.
LEMMA KillKeeps ==
  ASSUME PoolInv, Kill
  PROVE  PoolInv'
  <1>1. file' = file /\ saved' = saved /\ EndProcess
    BY DEF Kill
  <1> QED
    BY <1>1, EndKeeps DEF PoolInv, TypeOK, FileIsSaved

\* A new process that reads the file, or finds none, keeps PoolInv.
LEMMA StartKeeps ==
  ASSUME PoolInv, NEW url \in UrlDocuments, NEW pool \in Pools, NEW d,
         start(d, pool, url)
  PROVE  PoolInv'
  <1> DEFINE u == NewSettings(UserWallet, pool)
             none == [p \in Pools |-> {{}}]
  <1>1. /\ up' /\ now' = 0 /\ user' = u /\ dev' = d
        /\ announced' = none
        /\ update_devfee_data(NoDev, d, u, url, 0)
    BY DEF start
  <1>2. u \in UsableSettings /\ u.extensions = {} /\ u.pool = pool
    BY DEF NewSettings, UsableSettings, KnownExtensions
  <1>3. NoDev \in Settings /\ NoDev.pool \notin Pools
    BY DEF NoDev, NewSettings, Settings, KnownExtensions
  <1>4. none \in [Pools -> SUBSET KnownExtensions]
    BY DEF KnownExtensions
  <1>5. d \in Fetched(NoDev, u, url) /\ save_devfee_settings(d, url)
    BY <1>1 DEF update_devfee_data
  <1> HIDE DEF u
  <1>6. d \in UsableSettings
    BY <1>2, <1>3, <1>5, FetchedUsable DEF PoolInv
  <1>7. d.extensions \in none[d.pool]
    <2>1. /\ \A p \in Pools : {} \in none[p]
          /\ u.extensions \in none[u.pool]
      BY <1>2
    <2> HIDE DEF none
    <2> QED
      BY <1>2, <1>3, <1>4, <1>5, <2>1, FetchedExtensions DEF PoolInv
  <1>8. file' \subseteq Entries /\ saved' \in Targets /\ FileIsSaved'
    BY <1>5, <1>6, SaveKeepsFile
  <1>9. ASSUME fromFile', saved' # NoTarget
        PROVE  Target(d) = saved'
    <2>1. url = {} /\ saved' = saved
      BY <1>1, <1>9 DEF update_devfee_data, save_devfee_settings
    <2> QED
      BY <1>2, <1>3, <1>5, <1>9, <2>1, FetchedFromFile DEF PoolInv
  <1>10. UsableSettings \subseteq Settings
    BY DEF UsableSettings, Settings
  <1>11. TypeOK'
    <2>1. now' \in 0..MaxTime /\ fetchedAt' \in 0..MaxTime
      BY DEF start, update_devfee_data
    <2>2. fromFile' \in BOOLEAN
      BY <1>1 DEF update_devfee_data
    <2> QED
      BY <1>1, <1>2, <1>4, <1>6, <1>8, <1>10, <2>1, <2>2, Zenon
         DEF start, TypeOK
  <1>12. SettingsUsable' /\ NothingRead'
    BY <1>1, <1>2, <1>6 DEF SettingsUsable, NothingRead
  <1>13. SilentPools'
    BY <1>1 DEF SilentPools
  <1>14. FeeMinutesOnly'
    BY DEF start, FeeMinutesOnly
  <1>15. ExtensionsOfPool'
    BY <1>1, <1>2, <1>7 DEF ExtensionsOfPool
  <1>16. SavedSettingsRestored'
    BY <1>1, <1>9 DEF SavedSettingsRestored
  <1> QED
    BY <1>8, <1>11, <1>12, <1>13, <1>14, <1>15, <1>16 DEF PoolInv

\* Time passing keeps PoolInv.
LEMMA TickKeeps ==
  ASSUME PoolInv, Tick
  PROVE  PoolInv'
  <1>1. UNCHANGED <<up, user, dev, fetchedAt, devfeeTime, file, announced,
                    feeMinutes, fresh, saved, fromFile>>
    BY DEF Tick
  <1>2. TypeOK'
    BY DEF Tick, TypeOK, PoolInv
  <1>3. FeeMinutesOnly'
    BY MinutesType, MinutesGrow DEF Tick, FeeMinutesOnly, PoolInv
  <1> QED
    BY <1>1, <1>2, <1>3
       DEF PoolInv, SettingsUsable, SilentPools, FileIsSaved, NothingRead,
           ExtensionsOfPool, SavedSettingsRestored

\* PoolInv is about the variables of PoolClient alone.
LEMMA PoolStutterKeeps ==
  ASSUME PoolInv, UNCHANGED vars
  PROVE  PoolInv'
  BY DEF vars, PoolInv, TypeOK, SettingsUsable, SilentPools, FileIsSaved,
         NothingRead, FeeMinutesOnly, minutes, ExtensionsOfPool,
         SavedSettingsRestored

\* Every step of PoolClient keeps PoolInv.
LEMMA PoolNextKeeps ==
  ASSUME PoolInv, [Next]_vars
  PROVE  PoolInv'
  <1>1. CASE UNCHANGED vars
    BY <1>1, PoolStutterKeeps
  <1>2. CASE Next
    BY <1>2, UpdateKeeps, SilentKeeps, DisconnectKeeps, StartKeeps, KillKeeps,
       TickKeeps
       DEF Next
  <1> QED
    BY <1>1, <1>2

\* The initial states satisfy PoolInv.
LEMMA PoolInitInv ==
  ASSUME Init
  PROVE  PoolInv
  <1>1. NoDev \in Settings /\ NoTarget \in Targets
    BY DEF NoDev, NewSettings, Settings, KnownExtensions, NoTarget, Targets
  <1>2. [p \in Pools |-> {{}}] \in [Pools -> SUBSET KnownExtensions]
    BY DEF KnownExtensions
  <1>3. TypeOK
    <2>1. now \in 0..MaxTime /\ fetchedAt \in 0..MaxTime
      BY DEF Init
    <2>2. file \subseteq Entries
      BY DEF Init
    <2> QED
      BY <1>1, <1>2, <2>1, <2>2, Zenon DEF Init, TypeOK
  <1> QED
    BY <1>3
       DEF Init, PoolInv, SettingsUsable, SilentPools, FileIsSaved,
           NothingRead, FeeMinutesOnly, ExtensionsOfPool,
           SavedSettingsRestored
-----------------------------------------------------------------------------
(* The developer's share.                                                  *)

\* A multiple of n is n times its quotient.
LEMMA QuotientOfMultiple ==
  ASSUME NEW n \in Nat \ {0}, NEW m \in Nat, m % n = 0
  PROVE  m \div n \in Nat /\ m = n * (m \div n)
  BY SMTT(30)

\* What \div computes, as a multiple of the divisor.
LEMMA QuotientFloor ==
  ASSUME NEW n \in Nat \ {0}, NEW m \in Nat
  PROVE  /\ m \div n \in Nat
         /\ n * (m \div n) <= m
         /\ m < n * (m \div n) + n
  BY SMTT(30)

\* A product compared with the next multiple compares the factors.
LEMMA FactorOrder ==
  ASSUME NEW n \in Nat \ {0}, NEW a \in Nat, NEW b \in Nat,
         n * a < n * b + n
  PROVE  a <= b
  <1>1. SUFFICES ASSUME a >= b + 1 PROVE FALSE
    OBVIOUS
  <1>2. n * a >= n * (b + 1)
    BY <1>1, SMTT(30)
  <1>3. n * (b + 1) = n * b + n
    BY SMTT(30)
  <1> QED
    BY <1>2, <1>3

\* There are q numbers from 1 to q.
LEMMA FirstNumbers ==
  ASSUME NEW q \in Nat
  PROVE  IsFiniteSet(1..q) /\ Cardinality(1..q) = q
  <1>1. 1 \in Int /\ q \in Int
    OBVIOUS
  <1>2. /\ IsFiniteSet(1..q)
        /\ Cardinality(1..q) = IF 1 > q THEN 0 ELSE q - 1 + 1
    BY <1>1, FS_Interval, Zenon
  <1>3. (IF 1 > q THEN 0 ELSE q - 1 + 1) = q
    OBVIOUS
  <1> QED
    BY <1>2, <1>3

\* Among the minutes up to M there is one fee minute to each full period.
LEMMA FeeMinutesBound ==
  ASSUME NEW M \in Nat, NEW S \in SUBSET {m \in 1..M : m % Period = 0}
  PROVE  Cardinality(S) * Period <= M
  <1> DEFINE q == M \div Period
             f == [m \in S |-> m \div Period]
  <1>0. Period \in Nat \ {0}
    OBVIOUS
  <1>1. q \in Nat /\ Period * q <= M /\ M < Period * q + Period
    BY <1>0, QuotientFloor
  <1>2. ASSUME NEW m \in S
        PROVE  m \div Period \in 1..q /\ m = Period * (m \div Period)
    <2>1. m \in Nat /\ m # 0 /\ m <= M /\ m % Period = 0
      OBVIOUS
    <2>2. m \div Period \in Nat /\ m = Period * (m \div Period)
      BY <1>0, <2>1, QuotientOfMultiple
    <2> DEFINE k == m \div Period
    <2>3. k \in Nat /\ m = Period * k
      BY <2>2
    <2> HIDE DEF k, q
    <2>4. k # 0
      BY <1>0, <2>1, <2>3
    <2>5. Period * k < Period * q + Period
      BY <1>0, <1>1, <2>1, <2>3
    <2>6. k <= q
      BY <1>0, <1>1, <2>3, <2>5, FactorOrder
    <2> QED
      BY <1>1, <2>3, <2>4, <2>6 DEF k
  <1>3. f \in Injection(S, 1..q)
    <2>1. f \in [S -> 1..q]
      BY <1>2
    <2>2. \A a, b \in S : f[a] = f[b] => a = b
      BY <1>2
    <2> QED
      BY <2>1, <2>2 DEF Injection, IsInjective
  <1>4. IsFiniteSet(1..q) /\ Cardinality(1..q) = q
    BY <1>1, FirstNumbers
  <1>5. Cardinality(S) \in Nat /\ Cardinality(S) <= q
    BY <1>3, <1>4, FS_Injection, FS_CardinalityType
  <1>6. Cardinality(S) * Period <= Period * q
    <2> DEFINE c == Cardinality(S)
    <2> HIDE DEF c, q
    <2>1. c \in Nat /\ q \in Nat /\ c <= q
      BY <1>1, <1>5 DEF c
    <2>2. c * Period <= Period * q
      BY <1>0, <2>1, SMTT(30)
    <2> QED
      BY <2>2 DEF c
  <1> QED
    BY <1>0, <1>1, <1>5, <1>6

\* PoolInv bounds the fee minutes as FeeShare says.
LEMMA FeeShareHolds ==
  ASSUME PoolInv
  PROVE  FeeShare
  BY MinutesType, FeeMinutesBound DEF PoolInv, FeeMinutesOnly, FeeShare

-----------------------------------------------------------------------------
(* Theorems about the pool client by itself.                               *)

\* PoolInv is inductive.
LEMMA PoolInvariant == Spec => []PoolInv
  <1>1. Init => PoolInv
    BY PoolInitInv
  <1>2. PoolInv /\ [Next]_vars => PoolInv'
    BY PoolNextKeeps
  <1> QED
    BY <1>1, <1>2, PTL DEF Spec
-----------------------------------------------------------------------------
(* The miner's loop takes the steps of the pool client.                    *)

\* Each step of the loop of miner.cpp is, for the client, one of its steps.
LEMMA StepsOfPool ==
  ASSUME Steps
  PROVE  [Next]_vars
  <1>1. ASSUME NEW url \in UrlDocuments,
               NEW d \in Fetched(dev, user, url) \cup {dev},
               \/ FirstUpdate(d, url)
               \/ Update(d, url)
               \/ \E share \in taken : submit(share, d, url)
               \/ EndRun(d, url)
        PROVE  Next
    BY <1>1
       DEF FirstUpdate, Update, update_pool_data, submit, EndRun, Next
  <1>2. CASE \E share \in taken : skip_expired(share)
    BY <1>2 DEF skip_expired
  <1>3. ASSUME NEW url \in UrlDocuments, NEW pool \in Pools,
               NEW d \in Fetched(NoDev, NewSettings(UserWallet, pool), url),
               Start(d, pool, url)
        PROVE  Next
    BY <1>3 DEF Start, Next
  <1>4. CASE get_hashes \/ PassPause \/ BeginBatch \/ EndBatch
    BY <1>4 DEF get_hashes, PassPause, BeginBatch, EndBatch
  <1>5. CASE SetUp \/ Sleep \/ Killed
    BY <1>5 DEF SetUp, Sleep, Killed, Next
  <1> QED
    BY <1>1, <1>2, <1>3, <1>4, <1>5 DEF Steps

\* The loop of miner.cpp uses the pool client as module PoolClient says it is
\* used: what is proved of the one holds in the other.
THEOREM AccountImplementsPool == AccountSpec => Spec
  <1>1. AccountInit => Init
    BY DEF AccountInit
  <1>2. [AccountNext]_allVars => [Next]_vars
    BY StepsOfPool DEF AccountNext, allVars
  <1> QED
    BY <1>1, <1>2, PTL DEF AccountSpec, Spec

\* Extensions never outlive a change of pools, in the loop of the miner, for
\* any settings documents and announcements.
THEOREM ExtensionsTheorem == AccountSpec => []ExtensionsOfPool
  <1>1. PoolInv => ExtensionsOfPool
    BY DEF PoolInv
  <1> QED
    BY <1>1, AccountImplementsPool, PoolInvariant, PTL

\* At most one minute in each period goes to the developer, for any period
\* and length of run.
THEOREM FeeShareTheorem == AccountSpec => []FeeShare
  BY FeeShareHolds, AccountImplementsPool, PoolInvariant, PTL

\* What is read back from the user's file is what was downloaded, whatever
\* writes were cut short and processes killed.
THEOREM SavedSettingsTheorem == AccountSpec => []SavedSettingsRestored
  <1>1. PoolInv => SavedSettingsRestored
    BY DEF PoolInv
  <1> QED
    BY <1>1, AccountImplementsPool, PoolInvariant, PTL
-----------------------------------------------------------------------------
(* The inductive invariant of the loop.                                    *)

\* The shares found or being looked for.
AtWork == hashes \cup taken \cup ({batch} \ {NoJob})

\* No process, or one whose miner has not asked for a job yet.
BeforeFirstUpdate ==
    /\ ~up => mpc = "construct"
    /\ mpc = "construct" =>
         /\ job = NoJob /\ batch = NoJob /\ hashes = {} /\ taken = {}
         /\ ~paused
         /\ lastUpdate = LongAgo
         /\ passed \in {NoJob, LongAgo}
         /\ up => user.extensions = {}

\* Where the loop is and when it last asked.
LoopOrder ==
    /\ mpc # "submit" => taken = {}
    /\ mpc = "sleep" => lastUpdate = now
    /\ lastUpdate \in 0..now \cup {LongAgo}
    /\ lastUpdate # LongAgo => now <= lastUpdate + Interval + 1

\* The shares at work are for the account in effect, or older than the last
\* change of accounts; so is the job, for a worker that passes the pause test
\* now and for one that has passed it, paused since or not.
WorkFollowsAccount ==
    /\ \A share \in AtWork :
          /\ share.asOf <= now
          /\ share.holder = InEffect \/ share.asOf <= turnedAt
    /\ up /\ ~paused /\ job # NoJob =>
          holder = InEffect \/ lastUpdate <= turnedAt
    /\ up /\ passed # NoJob =>
          /\ passed <= now
          /\ job # NoJob => holder = InEffect \/ passed <= turnedAt

\* So is the account that paused the miner; and the pause of the very first
\* request lasts no longer than to the next.
PauseIsOf ==
    up /\ paused =>
       /\ pausedBy = InEffect \/ lastUpdate <= turnedAt
       /\ lastUpdate = LongAgo =>
            /\ job = NoJob /\ batch = NoJob /\ hashes = {} /\ taken = {}
            /\ pausedBy = InEffect

AccountInv ==
    /\ AccountTypeOK
    /\ holder \in Targets
    /\ BeforeFirstUpdate
    /\ LoopOrder
    /\ WorkFollowsAccount
    /\ PauseIsOf
-----------------------------------------------------------------------------
(* Changes of the account in effect.                                       *)

USE IntervalAssumption

\* What every step does to turnedAt.
Turned == turnedAt' = IF InEffect' # InEffect THEN now' ELSE turnedAt

\* What is for the account in effect, or older than the last change, stays so.
LEMMA Carried ==
  ASSUME Turned, NEW who, NEW t, t <= now',
         who = InEffect \/ t <= turnedAt
  PROVE  who = InEffect' \/ t <= turnedAt'
  BY DEF Turned

\* An account lasts until its target changes.
LEMMA SameAccount ==
  ASSUME UNCHANGED vars, Turned
  PROVE  InEffect' = InEffect /\ turnedAt' = turnedAt
  BY DEF vars, Turned, InEffect, UsesDev, Proxied, FeeMinute, minutes

\* An answer may change the extensions, and leaves the target.
LEMMA SameTarget ==
  ASSUME NEW r \in UsableSettings, NEW extensions
  PROVE  Target([r EXCEPT !.extensions = extensions]) = Target(r)
  BY DEF Target, UsableSettings

\* The target of a request for a job is a pool.
LEMMA RequestUsable ==
  ASSUME PoolInv, NEW url \in UrlDocuments, NEW d, update_pool_data(d, url)
  PROVE  /\ get_pool_settings(d, url)
         /\ d \in UsableSettings
         /\ user \in UsableSettings
  <1>1. get_pool_settings(d, url)
    BY DEF update_pool_data, update, request_silent
  <1>2. user \in UsableSettings
    BY <1>1 DEF get_pool_settings, PoolInv, SettingsUsable
  <1> QED
    BY <1>1, <1>2, RequestPrelude

\* A request for a job goes to the account in effect, before or after the
\* settings fetched and the extensions announced in it.
LEMMA RequestTarget ==
  ASSUME PoolInv, NEW url \in UrlDocuments, NEW d, update_pool_data(d, url)
  PROVE  /\ up /\ up' /\ now' = now
         /\ UsesDev => InEffect' = Target(d)
         /\ ~UsesDev => InEffect = Target(user) /\ Target(user') = Target(user)
  <1>1. /\ get_pool_settings(d, url)
        /\ d \in UsableSettings
        /\ user \in UsableSettings
    BY RequestUsable
  <1>2. up /\ up' /\ now' = now
    BY <1>1 DEF get_pool_settings
  <1>3. ASSUME ~UsesDev
        PROVE  InEffect = Target(user) /\ Target(user') = Target(user)
    <2>1. user' = user \/
             \E extensions \in Announcements :
                user' = [user EXCEPT !.extensions = extensions]
      BY <1>3 DEF update_pool_data, update, request_silent
    <2> QED
      BY <1>1, <1>3, <2>1, SameTarget DEF InEffect
  <1>4. ASSUME UsesDev
        PROVE  InEffect' = Target(d)
    <2>1. user' = user /\ (dev' = d \/
             \E extensions \in Announcements :
                dev' = [d EXCEPT !.extensions = extensions])
      BY <1>4 DEF update_pool_data, update, request_silent
    <2>2. UsesDev'
      BY <1>2, <1>4, <2>1 DEF UsesDev, Proxied, FeeMinute, minutes
    <2>3. Target(dev') = Target(d)
      BY <1>1, <2>1, SameTarget
    <2> QED
      BY <2>2, <2>3 DEF InEffect
  <1> QED
    BY <1>2, <1>3, <1>4

\* What the answer leaves: a job of the target, or a pause of its making.
LEMMA AnswerTypes ==
  ASSUME PoolInv, AccountInv, NEW url \in UrlDocuments, NEW d,
         update_pool_data(d, url)
  PROVE  /\ job' \in Jobs \cup {NoJob}
         /\ paused' \in BOOLEAN
         /\ holder' \in Targets
  <1> DEFINE target == IF UsesDev THEN d ELSE user
  <1>1. target \in UsableSettings
    BY RequestUsable
  <1>2. Target(target) \in Targets /\ target.pool \in Pools
    BY <1>1 DEF Target, Targets, UsableSettings
  <1>3. update_success(target) \/ update_failed(target)
    BY DEF update_pool_data
  <1> HIDE DEF target
  <1>4. CASE update_success(target)
    <2>1. job' \in Jobs
      BY <1>2, <1>4 DEF update_success, Jobs
    <2>2. paused' = FALSE /\ holder' = Target(target)
      BY <1>4 DEF update_success
    <2> QED
      BY <1>2, <2>1, <2>2
  <1>5. CASE update_failed(target)
    <2>1. paused' = TRUE /\ job' = job /\ holder' = holder
      BY <1>5 DEF update_failed
    <2> QED
      BY <2>1 DEF AccountInv, AccountTypeOK
  <1> QED
    BY <1>3, <1>4, <1>5

\* The time of the last update is one the type allows.
LEMMA LongAgoType == LongAgo \in Int /\ LongAgo < 0 /\ LongAgo = -(Interval + 1)
  BY DEF LongAgo

\* turnedAt is a time.
LEMMA TurnedType ==
  ASSUME AccountInv, PoolInv', Turned
  PROVE  turnedAt' \in 0..MaxTime
  BY DEF Turned, AccountInv, AccountTypeOK, PoolInv, TypeOK

-----------------------------------------------------------------------------
(* The steps of the loop.                                                  *)

\* The request of the miner's constructor keeps AccountInv.
LEMMA FirstUpdateKeeps ==
  ASSUME PoolInv, PoolInv', AccountInv, Turned,
         NEW url \in UrlDocuments, NEW d, FirstUpdate(d, url)
  PROVE  AccountInv'
  <1> DEFINE target == IF UsesDev THEN d ELSE user
  <1>1. /\ mpc = "construct" /\ mpc' = "scan"
        /\ update_pool_data(d, url)
        /\ UNCHANGED <<lastUpdate, passed, batch, hashes, taken>>
    BY DEF FirstUpdate
  <1>2. /\ Target(target) \in {InEffect, InEffect'}
        /\ up /\ up' /\ now' = now
        /\ UsesDev => InEffect' = Target(target)
        /\ ~UsesDev => Target(user') = Target(target)
    BY <1>1, RequestTarget
  <1>3. /\ job = NoJob /\ batch' = NoJob /\ hashes' = {} /\ taken' = {}
        /\ lastUpdate' = LongAgo /\ passed' \in {NoJob, LongAgo}
        /\ user.extensions = {}
    BY <1>1, <1>2 DEF AccountInv, BeforeFirstUpdate
  <1>4. AccountTypeOK' /\ holder' \in Targets
    <2>1. /\ lastUpdate' \in LongAgo..MaxTime
          /\ passed' \in (LongAgo..MaxTime) \cup {NoJob}
      BY <1>1 DEF AccountInv, AccountTypeOK
    <2> QED
      BY <1>1, <1>3, <2>1, AnswerTypes, TurnedType
         DEF AccountTypeOK, PoolInv
  <1>5. BeforeFirstUpdate'
    BY <1>1, <1>2 DEF BeforeFirstUpdate
  <1>6. LoopOrder'
    BY <1>1, <1>3 DEF LoopOrder
  <1>7. turnedAt' \in Nat
    BY TurnedType
  <1>8. lastUpdate' <= turnedAt'
    BY <1>3, <1>7, LongAgoType
  <1>9. WorkFollowsAccount'
    <2>1. AtWork' = {}
      BY <1>3 DEF AtWork
    <2>2. ASSUME passed' # NoJob
          PROVE  passed' <= now' /\ passed' <= turnedAt'
      <3>1. passed' = LongAgo /\ now' \in Nat
        BY <1>3, <2>2 DEF PoolInv, TypeOK
      <3> QED
        BY <1>7, <3>1, LongAgoType
    <2> QED
      BY <1>8, <2>1, <2>2 DEF WorkFollowsAccount
  <1>10. ASSUME paused'
         PROVE  job' = NoJob /\ pausedBy' = InEffect'
    <2>1. update_failed(target)
      BY <1>1, <1>10 DEF update_pool_data, update_success
    <2>2. job' = NoJob /\ pausedBy' = Target(target)
      BY <1>3, <2>1 DEF update_failed
    <2>3. Target(target) = InEffect'
      <3>1. CASE UsesDev
        BY <1>2, <3>1
      <3>2. CASE ~UsesDev
        <4>1. ~FeeMinute
          BY <1>3, <3>2 DEF UsesDev, Proxied
        <4>2. ~UsesDev'
          BY <1>2, <4>1 DEF UsesDev, FeeMinute, minutes
        <4> QED
          BY <1>2, <3>2, <4>2 DEF InEffect
      <3> QED
        BY <3>1, <3>2
    <2> QED
      BY <2>2, <2>3
  <1>11. PauseIsOf'
    BY <1>3, <1>10 DEF PauseIsOf
  <1> QED
    BY <1>4, <1>5, <1>6, <1>9, <1>11 DEF AccountInv

\* __update_pool_data keeps AccountInv, whether the pool answers or not.
LEMMA UpdateStepKeeps ==
  ASSUME PoolInv, PoolInv', AccountInv, Turned,
         NEW url \in UrlDocuments, NEW d, Update(d, url)
  PROVE  AccountInv'
  <1> DEFINE target == IF UsesDev THEN d ELSE user
  <1>1. /\ mpc' = "sleep" /\ taken = {} /\ lastUpdate' = now
        /\ update_pool_data(d, url)
        /\ UNCHANGED <<passed, batch, hashes, taken>>
    BY DEF Update
  <1>2. /\ Target(target) \in {InEffect, InEffect'}
        /\ up /\ up' /\ now' = now
        /\ UsesDev => InEffect' = Target(target)
        /\ ~UsesDev => Target(user') = Target(target)
    BY <1>1, RequestTarget
  <1>3. now \in 0..MaxTime
    BY DEF PoolInv, TypeOK
  <1>4. AccountTypeOK' /\ holder' \in Targets
    <2>1. lastUpdate' \in LongAgo..MaxTime
      BY <1>1, <1>3, LongAgoType
    <2>2. /\ batch' \in Shares \cup {NoJob} /\ hashes' \subseteq Shares
          /\ passed' \in (LongAgo..MaxTime) \cup {NoJob}
      BY <1>1 DEF AccountInv, AccountTypeOK
    <2> QED
      BY <1>1, <2>1, <2>2, AnswerTypes, TurnedType DEF AccountTypeOK, PoolInv
  <1>5. BeforeFirstUpdate'
    BY <1>1, <1>2 DEF BeforeFirstUpdate
  <1>6. LoopOrder'
    BY <1>1, <1>2, <1>3 DEF LoopOrder
  <1>7. Target(target) = InEffect' \/ lastUpdate' <= turnedAt'
    BY <1>1, <1>2, <1>3 DEF Turned
  <1>8. WorkFollowsAccount'
    <2>1. AtWork' = AtWork
      BY <1>1 DEF AtWork
    <2>2. ASSUME NEW share \in AtWork'
          PROVE  /\ share.asOf <= now'
                 /\ share.holder = InEffect' \/ share.asOf <= turnedAt'
      BY <1>2, <2>1, <2>2, Carried DEF AccountInv, WorkFollowsAccount
    <2>3. ASSUME ~paused'
          PROVE  holder' = InEffect' \/ lastUpdate' <= turnedAt'
      <3>1. update_success(target)
        BY <1>1, <2>3 DEF update_pool_data, update_failed
      <3> QED
        BY <1>7, <3>1 DEF update_success
    <2>4. ASSUME passed' # NoJob
          PROVE  /\ passed' <= now'
                 /\ job' # NoJob => holder' = InEffect' \/ passed' <= turnedAt'
      <3>1. passed' = passed /\ passed \in Int /\ passed <= now
        BY <1>1, <1>2, <2>4, LongAgoType
           DEF AccountInv, AccountTypeOK, WorkFollowsAccount
      <3>2. CASE update_success(target)
        <4>1. holder' = Target(target)
          BY <3>2 DEF update_success
        <4>2. turnedAt' \in Nat
          BY TurnedType
        <4> QED
          BY <1>1, <1>2, <1>3, <1>7, <3>1, <4>1, <4>2
      <3>3. CASE update_failed(target)
        <4>1. holder' = holder /\ job' = job
          BY <3>3 DEF update_failed
        <4> QED
          BY <1>2, <2>4, <3>1, <4>1, Carried
             DEF AccountInv, WorkFollowsAccount
      <3> QED
        BY <1>1, <3>2, <3>3 DEF update_pool_data
    <2> QED
      BY <2>2, <2>3, <2>4 DEF WorkFollowsAccount
  <1>9. PauseIsOf'
    <2>1. ASSUME paused'
          PROVE  pausedBy' = InEffect' \/ lastUpdate' <= turnedAt'
      <3>1. update_failed(target)
        BY <1>1, <2>1 DEF update_pool_data, update_success
      <3> QED
        BY <1>7, <3>1 DEF update_failed
    <2>2. lastUpdate' # LongAgo
      BY <1>1, <1>3, LongAgoType
    <2>3. LongAgo' = LongAgo
      BY DEF LongAgo
    <2> QED
      BY <2>1, <2>2, <2>3 DEF PauseIsOf
  <1> QED
    BY <1>4, <1>5, <1>6, <1>8, <1>9 DEF AccountInv
\* Steps that move no clock, ask for no job and end no process.
LEMMA SubmitKeeps ==
  ASSUME PoolInv, PoolInv', AccountInv, Turned,
         NEW url \in UrlDocuments, NEW d, NEW share \in taken,
         submit(share, d, url)
  PROVE  AccountInv'
  <1>1. /\ mpc = "submit" /\ mpc' = "submit"
        /\ request_silent(d, url)
        /\ taken' = taken \ {share}
        /\ UNCHANGED <<job, paused, lastUpdate, passed, batch, hashes,
                       holder, pausedBy>>
    BY DEF submit
  <1>2. up /\ up' /\ now' = now /\ now \in 0..MaxTime
    BY <1>1 DEF request_silent, get_pool_settings, PoolInv, TypeOK
  <1>3. AccountTypeOK' /\ holder' \in Targets
    BY <1>1, TurnedType DEF AccountInv, AccountTypeOK, PoolInv
  <1>4. BeforeFirstUpdate' /\ LoopOrder'
    BY <1>1, <1>2 DEF AccountInv, BeforeFirstUpdate, LoopOrder
  <1>5. lastUpdate <= now
    BY <1>2, LongAgoType DEF AccountInv, LoopOrder
  <1>6. WorkFollowsAccount'
    <2>1. AtWork' \subseteq AtWork
      BY <1>1 DEF AtWork
    <2>2. ASSUME NEW s \in AtWork
          PROVE  /\ s.asOf <= now'
                 /\ s.holder = InEffect' \/ s.asOf <= turnedAt'
      BY <1>2, <2>2, Carried DEF AccountInv, WorkFollowsAccount
    <2>3. ASSUME ~paused', job' # NoJob
          PROVE  holder' = InEffect' \/ lastUpdate' <= turnedAt'
      BY <1>1, <1>2, <1>5, <2>3, Carried DEF AccountInv, WorkFollowsAccount
    <2>4. ASSUME passed' # NoJob
          PROVE  /\ passed' <= now'
                 /\ job' # NoJob => holder' = InEffect' \/ passed' <= turnedAt'
      BY <1>1, <1>2, <2>4, Carried DEF AccountInv, WorkFollowsAccount
    <2> QED
      BY <2>1, <2>2, <2>3, <2>4 DEF WorkFollowsAccount
  <1>7. PauseIsOf'
    <2>1. ASSUME paused
          PROVE  pausedBy = InEffect' \/ lastUpdate <= turnedAt'
      BY <1>2, <1>5, <2>1, Carried DEF AccountInv, PauseIsOf
    <2>2. ASSUME paused, lastUpdate = LongAgo
          PROVE  FALSE
      BY <1>2, <2>2 DEF AccountInv, PauseIsOf
    <2>3. LongAgo' = LongAgo
      BY DEF LongAgo
    <2> QED
      BY <1>1, <2>1, <2>2, <2>3 DEF PauseIsOf
  <1> QED
    BY <1>3, <1>4, <1>6, <1>7 DEF AccountInv

\* The end of a process.
LEMMA ForgetKeeps ==
  ASSUME PoolInv', AccountInv, Turned, EndProcess, Forget
  PROVE  AccountInv'
  <1>1. LongAgo \in LongAgo..MaxTime /\ NoTarget \in Targets
    BY LongAgoType DEF NoTarget, Targets
  <1>2. AccountTypeOK' /\ holder' \in Targets
    BY <1>1, TurnedType, Zenon DEF Forget, AccountTypeOK, PoolInv
  <1>3. LongAgo' = LongAgo
    BY DEF LongAgo
  <1>4. BeforeFirstUpdate' /\ LoopOrder'
    BY <1>3 DEF Forget, EndProcess, BeforeFirstUpdate, LoopOrder
  <1>5. WorkFollowsAccount' /\ PauseIsOf'
    BY DEF Forget, EndProcess, WorkFollowsAccount, AtWork, PauseIsOf
  <1> QED
    BY <1>2, <1>4, <1>5 DEF AccountInv

\* A new process has no job, no shares and no batch.
LEMMA StartStepKeeps ==
  ASSUME PoolInv', AccountInv, Turned, NEW url, NEW pool, NEW d,
         Start(d, pool, url)
  PROVE  AccountInv'
  <1>1. /\ ~up /\ up' /\ now' = 0 /\ user'.extensions = {}
        /\ UNCHANGED accountVars
    BY DEF Start, start, NewSettings
  <1>2. /\ mpc = "construct" /\ job = NoJob /\ batch = NoJob /\ hashes = {}
        /\ taken = {} /\ ~paused /\ lastUpdate = LongAgo
        /\ passed \in {NoJob, LongAgo}
    BY <1>1 DEF AccountInv, BeforeFirstUpdate
  <1>3. LongAgo' = LongAgo
    BY DEF LongAgo
  <1>4. AccountTypeOK' /\ holder' \in Targets
    BY <1>1, TurnedType DEF accountVars, AccountInv, AccountTypeOK, PoolInv
  <1>5. BeforeFirstUpdate' /\ LoopOrder'
    BY <1>1, <1>2, <1>3 DEF accountVars, BeforeFirstUpdate, LoopOrder
  <1>6. WorkFollowsAccount' /\ PauseIsOf'
    <2>1. LongAgo <= now'
      BY <1>1, LongAgoType
    <2> QED
      BY <1>1, <1>2, <2>1
         DEF accountVars, WorkFollowsAccount, AtWork, PauseIsOf
  <1> QED
    BY <1>4, <1>5, <1>6 DEF AccountInv

\* Time passes, in the constructor or at the end of a turn.
LEMMA TimePassesKeeps ==
  ASSUME PoolInv, PoolInv', AccountInv, Turned, SetUp \/ Sleep
  PROVE  AccountInv'
  <1>1. /\ Tick /\ up /\ up' /\ now' = now + 1 /\ user' = user
        /\ now \in 0..MaxTime
    BY DEF SetUp, Sleep, Tick, PoolInv, TypeOK
  <1>2. UNCHANGED <<job, paused, lastUpdate, passed, batch, hashes, taken,
                    holder, pausedBy>>
    BY DEF SetUp, Sleep, accountVars
  <1>3. mpc' \in {"construct", "scan"} /\ (mpc' = "construct" <=> SetUp)
    BY DEF SetUp, Sleep, accountVars
  <1>4. AccountTypeOK' /\ holder' \in Targets
    BY <1>2, <1>3, TurnedType DEF AccountInv, AccountTypeOK, PoolInv
  <1>5. BeforeFirstUpdate'
    BY <1>1, <1>2, <1>3 DEF SetUp, AccountInv, BeforeFirstUpdate
  <1>6. lastUpdate \in 0..now \cup {LongAgo} /\ lastUpdate <= now
    BY <1>1, LongAgoType DEF AccountInv, LoopOrder
  <1>7. taken = {}
    BY DEF SetUp, Sleep, AccountInv, LoopOrder
  <1>8. lastUpdate # LongAgo => now <= lastUpdate + Interval
    <2>1. CASE SetUp
      BY <2>1 DEF SetUp, AccountInv, BeforeFirstUpdate
    <2>2. CASE Sleep
      BY <1>1, <1>6, <2>2 DEF Sleep, UpdateDue, AccountInv, LoopOrder
    <2> QED
      BY <2>1, <2>2
  <1>9. LoopOrder'
    <2>1. LongAgo' = LongAgo
      BY DEF LongAgo
    <2> QED
      BY <1>1, <1>2, <1>3, <1>6, <1>7, <1>8, <2>1 DEF LoopOrder
  <1>10. WorkFollowsAccount'
    <2>1. AtWork' = AtWork
      BY <1>2 DEF AtWork
    <2>2. ASSUME NEW s \in AtWork
          PROVE  /\ s.asOf <= now'
                 /\ s.holder = InEffect' \/ s.asOf <= turnedAt'
      <3>1. s.asOf \in Int /\ s.asOf <= now
        <4>1. s \in Shares
          BY <2>2 DEF AtWork, AccountInv, AccountTypeOK
        <4> QED
          BY <2>2, <4>1, LongAgoType
             DEF Shares, AccountInv, WorkFollowsAccount
      <3>2. s.asOf <= now'
        BY <1>1, <3>1
      <3> QED
        BY <2>2, <3>2, Carried DEF AccountInv, WorkFollowsAccount
    <2>3. ASSUME ~paused', job' # NoJob
          PROVE  holder' = InEffect' \/ lastUpdate' <= turnedAt'
      <3>1. lastUpdate <= now'
        BY <1>1, <1>6, LongAgoType
      <3> QED
        BY <1>1, <1>2, <2>3, <3>1, Carried DEF AccountInv, WorkFollowsAccount
    <2>4. ASSUME passed' # NoJob
          PROVE  /\ passed' <= now'
                 /\ job' # NoJob => holder' = InEffect' \/ passed' <= turnedAt'
      <3>1. passed' = passed /\ passed \in Int /\ passed <= now
        BY <1>1, <1>2, <2>4, LongAgoType
           DEF AccountInv, AccountTypeOK, WorkFollowsAccount
      <3>2. passed' <= now'
        BY <1>1, <3>1
      <3> QED
        BY <1>1, <1>2, <2>4, <3>2, Carried DEF AccountInv, WorkFollowsAccount
    <2> QED
      BY <2>1, <2>2, <2>3, <2>4 DEF WorkFollowsAccount
  <1>11. PauseIsOf'
    <2>1. ASSUME paused, lastUpdate = LongAgo
          PROVE  FALSE
      <3>0. mpc # "construct" /\ mpc # "sleep"
        <4>1. mpc # "construct"
          BY <2>1 DEF AccountInv, BeforeFirstUpdate
        <4>2. now # LongAgo
          BY <1>1, LongAgoType
        <4> QED
          BY <2>1, <4>1, <4>2 DEF AccountInv, LoopOrder
      <3>1. Sleep /\ mpc = "submit" /\ ~UpdateDue
        BY <3>0 DEF SetUp, Sleep
      <3> QED
        BY <1>1, <2>1, <3>1, LongAgoType DEF UpdateDue
    <2>2. ASSUME paused
          PROVE  pausedBy = InEffect' \/ lastUpdate <= turnedAt'
      <3>1. lastUpdate <= now'
        BY <1>1, <1>6, LongAgoType
      <3> QED
        BY <1>1, <2>2, <3>1, Carried DEF AccountInv, PauseIsOf
    <2>3. LongAgo' = LongAgo
      BY DEF LongAgo
    <2> QED
      BY <1>2, <2>1, <2>2, <2>3 DEF PauseIsOf
  <1> QED
    BY <1>4, <1>5, <1>9, <1>10, <1>11 DEF AccountInv
-----------------------------------------------------------------------------
(* The steps that leave the pool client alone.                             *)

\* Taking the queue keeps AccountInv.
LEMMA GetHashesKeeps ==
  ASSUME PoolInv', AccountInv, Turned, get_hashes
  PROVE  AccountInv'
  <1>1. /\ UNCHANGED vars /\ mpc = "scan" /\ mpc' = "submit"
        /\ taken' = hashes /\ hashes' = {}
        /\ UNCHANGED <<job, paused, lastUpdate, passed, batch, holder,
                       pausedBy>>
    BY DEF get_hashes
  <1>2. InEffect' = InEffect /\ turnedAt' = turnedAt
    BY <1>1, SameAccount
  <1>3. up' = up /\ now' = now /\ LongAgo' = LongAgo /\ up
    BY <1>1 DEF vars, LongAgo, get_hashes
  <1>4. AccountTypeOK' /\ holder' \in Targets
    BY <1>1, TurnedType DEF AccountInv, AccountTypeOK, PoolInv
  <1>5. BeforeFirstUpdate' /\ LoopOrder'
    BY <1>1, <1>3 DEF AccountInv, BeforeFirstUpdate, LoopOrder
  <1>6. AtWork' \subseteq AtWork
    BY <1>1 DEF AtWork
  <1>7. WorkFollowsAccount'
    BY <1>1, <1>2, <1>3, <1>6 DEF AccountInv, WorkFollowsAccount
  <1>8. PauseIsOf'
    BY <1>1, <1>2, <1>3 DEF AccountInv, PauseIsOf
  <1> QED
    BY <1>4, <1>5, <1>7, <1>8 DEF AccountInv

\* Dropping an expired share keeps AccountInv.
LEMMA SkipKeeps ==
  ASSUME PoolInv', AccountInv, Turned, NEW share \in taken,
         skip_expired(share)
  PROVE  AccountInv'
  <1>1. /\ UNCHANGED vars /\ mpc = "submit" /\ mpc' = "submit"
        /\ taken' = taken \ {share}
        /\ UNCHANGED <<job, paused, lastUpdate, passed, batch, hashes,
                       holder, pausedBy>>
    BY DEF skip_expired
  <1>2. InEffect' = InEffect /\ turnedAt' = turnedAt
    BY <1>1, SameAccount
  <1>3. up' = up /\ now' = now /\ LongAgo' = LongAgo /\ up
    BY <1>1 DEF vars, LongAgo, skip_expired
  <1>4. AccountTypeOK' /\ holder' \in Targets
    BY <1>1, TurnedType DEF AccountInv, AccountTypeOK, PoolInv
  <1>5. BeforeFirstUpdate' /\ LoopOrder'
    BY <1>1, <1>3 DEF AccountInv, BeforeFirstUpdate, LoopOrder
  <1>6. AtWork' \subseteq AtWork
    BY <1>1 DEF AtWork
  <1>7. WorkFollowsAccount'
    BY <1>1, <1>2, <1>3, <1>6 DEF AccountInv, WorkFollowsAccount
  <1>8. PauseIsOf'
    BY <1>1, <1>2, <1>3 DEF AccountInv, PauseIsOf
  <1> QED
    BY <1>4, <1>5, <1>7, <1>8 DEF AccountInv

\* A worker that finds no pause has a job for the account in effect, or one
\* older than the last change.
LEMMA PassPauseKeeps ==
  ASSUME PoolInv, PoolInv', AccountInv, Turned, PassPause
  PROVE  AccountInv'
  <1>1. /\ UNCHANGED vars /\ up /\ ~paused /\ passed' = lastUpdate
        /\ UNCHANGED <<mpc, job, paused, lastUpdate, batch, hashes, taken,
                       holder, pausedBy>>
    BY DEF PassPause
  <1>2. InEffect' = InEffect /\ turnedAt' = turnedAt
    BY <1>1, SameAccount
  <1>3. up' = up /\ now' = now /\ LongAgo' = LongAgo /\ now \in Nat
    BY <1>1 DEF vars, LongAgo, PoolInv, TypeOK
  <1>4. AccountTypeOK' /\ holder' \in Targets
    BY <1>1, TurnedType DEF AccountInv, AccountTypeOK, PoolInv
  <1>5. BeforeFirstUpdate' /\ LoopOrder'
    <2>1. user' = user
      BY <1>1 DEF vars
    <2> QED
      BY <1>1, <1>3, <2>1 DEF AccountInv, BeforeFirstUpdate, LoopOrder
  <1>6. lastUpdate <= now
    BY <1>3, LongAgoType DEF AccountInv, LoopOrder
  <1>7. AtWork' = AtWork
    BY <1>1 DEF AtWork
  <1>8. WorkFollowsAccount'
    BY <1>1, <1>2, <1>3, <1>6, <1>7 DEF AccountInv, WorkFollowsAccount
  <1>9. PauseIsOf'
    BY <1>1 DEF PauseIsOf
  <1> QED
    BY <1>4, <1>5, <1>8, <1>9 DEF AccountInv

\* A batch begins with the job and the account of the last successful update,
\* as old as the worker's test for a pause.
LEMMA BeginBatchKeeps ==
  ASSUME PoolInv, PoolInv', AccountInv, Turned, BeginBatch
  PROVE  AccountInv'
  <1> DEFINE new == [checksum |-> job.checksum, holder |-> holder,
                     asOf |-> passed]
  <1>1. /\ UNCHANGED vars /\ up /\ passed # NoJob /\ passed' = NoJob
        /\ batch' = IF job = NoJob THEN NoJob ELSE new
        /\ UNCHANGED <<mpc, job, paused, lastUpdate, hashes, taken, holder,
                       pausedBy>>
    BY DEF BeginBatch
  <1>2. InEffect' = InEffect /\ turnedAt' = turnedAt
    BY <1>1, SameAccount
  <1>3. /\ up' = up /\ now' = now /\ LongAgo' = LongAgo /\ user' = user
        /\ now \in Nat
    BY <1>1 DEF vars, LongAgo, PoolInv, TypeOK
  <1>4. job # NoJob => new \in Shares
    BY <1>1 DEF Shares, Jobs, AccountInv, AccountTypeOK
  <1>5. job # NoJob => /\ new.asOf <= now
                       /\ new.holder = InEffect \/ new.asOf <= turnedAt
    BY <1>1 DEF AccountInv, WorkFollowsAccount
  <1>6. AtWork' \subseteq AtWork \cup (IF job = NoJob THEN {} ELSE {new})
    BY <1>1 DEF AtWork
  <1>7. job = NoJob => batch' = NoJob
    BY <1>1
  <1> HIDE DEF new
  <1>8. AccountTypeOK' /\ holder' \in Targets
    BY <1>1, <1>4, TurnedType DEF AccountInv, AccountTypeOK, PoolInv
  <1>9. BeforeFirstUpdate' /\ LoopOrder'
    BY <1>1, <1>3, <1>7 DEF AccountInv, BeforeFirstUpdate, LoopOrder
  <1>10. WorkFollowsAccount'
    BY <1>1, <1>2, <1>3, <1>5, <1>6 DEF AccountInv, WorkFollowsAccount
  <1>11. PauseIsOf'
    BY <1>1, <1>2, <1>3, <1>7 DEF AccountInv, PauseIsOf
  <1> QED
    BY <1>8, <1>9, <1>10, <1>11 DEF AccountInv

\* A batch that ends may leave a share in the queue.
LEMMA EndBatchKeeps ==
  ASSUME PoolInv', AccountInv, Turned, EndBatch
  PROVE  AccountInv'
  <1>1. /\ UNCHANGED vars /\ up /\ batch # NoJob /\ batch' = NoJob
        /\ hashes' \in {hashes, hashes \cup {batch}}
        /\ UNCHANGED <<mpc, job, paused, lastUpdate, passed, taken, holder,
                       pausedBy>>
    BY DEF EndBatch
  <1>2. InEffect' = InEffect /\ turnedAt' = turnedAt
    BY <1>1, SameAccount
  <1>3. up' = up /\ now' = now /\ LongAgo' = LongAgo
    BY <1>1 DEF vars, LongAgo
  <1>4. mpc # "construct"
    BY <1>1 DEF AccountInv, BeforeFirstUpdate
  <1>5. AccountTypeOK' /\ holder' \in Targets
    BY <1>1, TurnedType DEF AccountInv, AccountTypeOK, PoolInv
  <1>6. BeforeFirstUpdate' /\ LoopOrder'
    BY <1>1, <1>3, <1>4 DEF AccountInv, BeforeFirstUpdate, LoopOrder
  <1>7. AtWork' \subseteq AtWork
    BY <1>1 DEF AtWork
  <1>8. WorkFollowsAccount'
    BY <1>1, <1>2, <1>3, <1>7 DEF AccountInv, WorkFollowsAccount
  <1>9. PauseIsOf'
    BY <1>1, <1>2, <1>3 DEF AccountInv, PauseIsOf
  <1> QED
    BY <1>5, <1>6, <1>8, <1>9 DEF AccountInv

-----------------------------------------------------------------------------
(* Theorems about the loop.                                                *)

\* Every step of the loop keeps AccountInv.
LEMMA AccountNextKeeps ==
  ASSUME PoolInv, PoolInv', AccountInv, [AccountNext]_allVars
  PROVE  AccountInv'
  <1>1. CASE UNCHANGED allVars
    <2>1. UNCHANGED vars /\ UNCHANGED accountVars /\ turnedAt' = turnedAt
      BY <1>1 DEF allVars
    <2>2. /\ Turned
          /\ UNCHANGED <<mpc, job, paused, lastUpdate, passed, batch, hashes,
                         taken, holder, pausedBy>>
      BY <2>1 DEF vars, accountVars, Turned, InEffect, UsesDev, Proxied,
                  FeeMinute, minutes
    <2>3. InEffect' = InEffect /\ AtWork' = AtWork /\ LongAgo' = LongAgo
      BY <2>1, <2>2, SameAccount DEF AtWork, LongAgo
    <2>4. up' = up /\ now' = now /\ user' = user
      BY <2>1 DEF vars
    <2>5. AccountTypeOK' /\ holder' \in Targets
      BY <2>1, <2>2, TurnedType DEF AccountInv, AccountTypeOK, PoolInv
    <2>6. BeforeFirstUpdate' /\ LoopOrder'
      BY <2>2, <2>3, <2>4 DEF AccountInv, BeforeFirstUpdate, LoopOrder
    <2>7. WorkFollowsAccount' /\ PauseIsOf'
      BY <2>1, <2>2, <2>3, <2>4 DEF AccountInv, WorkFollowsAccount, PauseIsOf
    <2> QED
      BY <2>5, <2>6, <2>7 DEF AccountInv
  <1>2. CASE AccountNext
    <2>1. Turned /\ Steps
      BY <1>2 DEF AccountNext, Turned
    <2>2. ASSUME NEW url \in UrlDocuments,
                 NEW d \in Fetched(dev, user, url) \cup {dev},
                 \/ FirstUpdate(d, url)
                 \/ Update(d, url)
                 \/ \E share \in taken : submit(share, d, url)
                 \/ EndRun(d, url)
          PROVE  AccountInv'
      <3>1. CASE FirstUpdate(d, url)
        BY <2>1, <3>1, FirstUpdateKeeps
      <3>2. CASE Update(d, url)
        BY <2>1, <3>2, UpdateStepKeeps
      <3>3. CASE \E share \in taken : submit(share, d, url)
        BY <2>1, <3>3, SubmitKeeps
      <3>4. CASE EndRun(d, url)
        BY <2>1, <3>4, ForgetKeeps DEF EndRun, disconnect
      <3> QED
        BY <2>2, <3>1, <3>2, <3>3, <3>4
    <2>3. CASE \E share \in taken : skip_expired(share)
      BY <2>1, <2>3, SkipKeeps
    <2>4. ASSUME NEW url \in UrlDocuments, NEW pool \in Pools,
                 NEW d \in Fetched(NoDev, NewSettings(UserWallet, pool), url),
                 Start(d, pool, url)
          PROVE  AccountInv'
      BY <2>1, <2>4, StartStepKeeps
    <2>5. CASE get_hashes
      BY <2>1, <2>5, GetHashesKeeps
    <2>6. CASE SetUp \/ Sleep
      BY <2>1, <2>6, TimePassesKeeps
    <2>7. CASE BeginBatch
      BY <2>1, <2>7, BeginBatchKeeps
    <2>8. CASE EndBatch
      BY <2>1, <2>8, EndBatchKeeps
    <2>9. CASE Killed
      BY <2>1, <2>9, ForgetKeeps DEF Killed, Kill
    <2>10. CASE PassPause
      BY <2>1, <2>10, PassPauseKeeps
    <2> QED
      BY <2>1, <2>2, <2>3, <2>4, <2>5, <2>6, <2>7, <2>8, <2>9, <2>10
         DEF Steps
  <1> QED
    BY <1>1, <1>2

\* The initial states satisfy AccountInv.
LEMMA AccountInitInv ==
  ASSUME AccountInit
  PROVE  AccountInv
  <1>1. PoolInv
    BY PoolInitInv DEF AccountInit
  <1>2. LongAgo \in LongAgo..MaxTime /\ NoTarget \in Targets
    BY LongAgoType DEF NoTarget, Targets
  <1>3. turnedAt \in 0..MaxTime /\ ~up /\ now = 0
    BY DEF AccountInit, Init
  <1>4. AccountTypeOK /\ holder \in Targets
    BY <1>1, <1>2, <1>3, Zenon DEF AccountInit, AccountTypeOK, PoolInv
  <1>5. BeforeFirstUpdate /\ LoopOrder
    BY <1>3 DEF AccountInit, BeforeFirstUpdate, LoopOrder
  <1>6. WorkFollowsAccount /\ PauseIsOf
    BY <1>3 DEF AccountInit, WorkFollowsAccount, AtWork, PauseIsOf
  <1> QED
    BY <1>4, <1>5, <1>6 DEF AccountInv

\* Both invariants hold together.
LEMMA AccountInvariant == AccountSpec => [](PoolInv /\ AccountInv)
  <1>1. AccountInit => AccountInv
    BY AccountInitInv
  <1>2. PoolInv /\ PoolInv' /\ AccountInv /\ [AccountNext]_allVars
          => AccountInv'
    BY AccountNextKeeps
  <1>3. AccountSpec => []PoolInv
    BY AccountImplementsPool, PoolInvariant, PTL
  <1> QED
    BY <1>1, <1>2, <1>3, PTL DEF AccountSpec

\* Every variable of the loop and of the pool client keeps its type: no
\* request is sent to the place holder "*", no job is without a pool.
THEOREM AccountTypes == AccountSpec => []AccountTypeOK
  <1>1. AccountInv => AccountTypeOK
    BY DEF AccountInv
  <1> QED
    BY <1>1, AccountInvariant, PTL

\* A pool that does not answer keeps the miner paused no longer than one
\* update interval after the account has changed.
THEOREM PauseTheorem == AccountSpec => []PauseFollowsAccount
  <1>1. AccountInv => PauseFollowsAccount
    BY DEF AccountInv, PauseIsOf, LoopOrder, PauseFollowsAccount
  <1> QED
    BY <1>1, AccountInvariant, PTL

\* A share for another account than the one it is sent to is of a worker that
\* had passed the pause test before the first update after the change.
THEOREM SharesTheorem == AccountSpec => SharesFollowAccount
  <1> DEFINE Follows ==
               \A share \in taken \ taken' :
                 up' /\ share.checksum = job.checksum =>
                   \/ share.holder = Target(IF UsesDev THEN dev' ELSE user)
                   \/ share.asOf <= turnedAt'
  <1>1. PoolInv /\ AccountInv /\ [AccountNext]_allVars => [Follows]_allVars
    <2> SUFFICES ASSUME PoolInv, AccountInv, AccountNext,
                        NEW share \in taken \ taken', up',
                        share.checksum = job.checksum
                 PROVE  \/ share.holder =
                             Target(IF UsesDev THEN dev' ELSE user)
                        \/ share.asOf <= turnedAt'
      OBVIOUS
    <2>1. Turned /\ Steps
      BY DEF AccountNext, Turned
    <2>2. PICK url \in UrlDocuments :
             \E d \in Fetched(dev, user, url) \cup {dev} :
                submit(share, d, url)
      <3>1. taken # {} /\ taken' # taken /\ mpc = "submit"
        BY DEF AccountInv, LoopOrder
      <3> QED
        BY <2>1, <3>1
           DEF Steps, FirstUpdate, Update, submit, EndRun, disconnect,
               EndProcess, skip_expired, Start, get_hashes, SetUp, Sleep,
               PassPause, BeginBatch, EndBatch, Killed, Kill, accountVars
    <2>3. /\ now' = now /\ user' = user /\ UsesDev' = UsesDev
      BY <2>2 DEF submit, request_silent, get_pool_settings, UsesDev, Proxied,
                  FeeMinute, minutes
    <2>4. InEffect' = Target(IF UsesDev THEN dev' ELSE user)
      BY <2>3 DEF InEffect
    <2>5. share.asOf <= now' /\
          (share.holder = InEffect \/ share.asOf <= turnedAt)
      BY <2>3 DEF AccountInv, WorkFollowsAccount, AtWork
    <2> QED
      BY <2>1, <2>4, <2>5, Carried
  <1> QED
    BY <1>1, AccountInvariant, PTL DEF AccountSpec, SharesFollowAccount
=============================================================================
