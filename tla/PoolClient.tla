----------------------------- MODULE PoolClient -----------------------------
(***************************************************************************)
(* http/client.cpp and http/pool_settings_provider.cpp: which pool and     *)
(* wallet a request goes to, how the developer fee takes turns with the    *)
(* user, where the developer's settings come from, and what the answers of *)
(* a pool change.                                                          *)
(*                                                                         *)
(* Time is a count of units, Minute of them to a minute; within one        *)
(* request it stands still.  An answer is modelled by what update() and    *)
(* submit() look at.  A settings document is the set of its "ixian"        *)
(* entries, of which rand() picks one; the empty set stands for a document *)
(* that is missing, unreadable or has no entry with both fields.           *)
(***************************************************************************)
EXTENDS Naturals, FiniteSets

CONSTANTS
    Pools,          \* pool addresses
    Wallets,        \* wallets of developers and of the user
    UserWallet,     \* --wallet
    DevWallet,      \* DEV_WALLET_ADDRESS
    AnyPool,        \* the pool "*" of a settings document
    None,           \* an empty string
    UrlDocuments,   \* what DEV_SETTINGS_URL may return
    FileDocuments,  \* what an earlier run may have left in the user's folder
    AppDocument,    \* devfee.json beside the program
    Announcements,  \* the extensions a pool may announce, as sets
    Minute,         \* units in a minute
    Period,         \* minutes from one fee minute to the next: 100
    Hour,           \* age in units at which the settings are fetched: 3600
    MaxTime         \* bound on the clock of one run

Entries == [wallet : Wallets, pool : Pools \cup {AnyPool}]

ASSUME DocumentsAssumption ==
    /\ UrlDocuments \subseteq SUBSET Entries
    /\ FileDocuments \subseteq SUBSET Entries
    /\ AppDocument \subseteq Entries
ASSUME PoolsAssumption == /\ AnyPool \notin Pools \cup {None}
                          /\ None \notin Pools
                          /\ None \notin Wallets
                          /\ {UserWallet, DevWallet} \subseteq Wallets
ASSUME TimeAssumption == /\ {Minute, Period} \subseteq Nat \ {0}
                         /\ {Hour, MaxTime} \subseteq Nat

VARIABLES
    up,         \* the process runs
    now,        \* microseconds() - __timestamp
    user,       \* __user_pool_settings
    dev,        \* __dev_pool_settings
    fetchedAt,  \* __last_devfee_update
    devfeeTime, \* __is_devfee_time
    file,       \* devfee.json in the user's configuration folder
    announced,  \* history: the extensions each pool has announced
    feeMinutes, \* history: minutes in which a request went to the developer
    fresh,      \* history: those of this switch were fetched at the switch
    saved,      \* history: the settings last written to the file
    fromFile    \* history: the settings in use were read from the file

vars == <<up, now, user, dev, fetchedAt, devfeeTime, file, announced,
          feeMinutes, fresh, saved, fromFile>>

KnownExtensions == Announcements \cup {{}}

\* struct pool_settings; pool_version only feeds the log.
Settings == [wallet : Wallets \cup {None}, pool : Pools \cup {None},
             extensions : KnownExtensions]

Target(settings) == [wallet |-> settings.wallet, pool |-> settings.pool]
NoTarget == [wallet |-> None, pool |-> None]
Targets == [wallet : Wallets \cup {None}, pool : Pools \cup {None}]

-----------------------------------------------------------------------------
(* pool_settings_provider.                                                 *)

\* Fault: the extensions are kept when the pool changes.
process_devfee_json_stale(d, u, entry) ==
    IF entry.pool = AnyPool
      THEN [wallet |-> entry.wallet, pool |-> u.pool,
            extensions |-> u.extensions]
      ELSE [d EXCEPT !.wallet = entry.wallet, !.pool = entry.pool]

\* Fault: the place holder "*" is taken for an address.
process_devfee_json_literal(d, u, entry) ==
    [wallet |-> entry.wallet, pool |-> entry.pool, extensions |-> {}]

\* __process_devfee_json for the entry chosen.
process_devfee_json(d, u, entry) ==
    CASE entry.pool = AnyPool ->
            [wallet |-> entry.wallet, pool |-> u.pool,
             extensions |-> u.extensions]
      [] entry.pool \notin {AnyPool, d.pool} ->
            [wallet |-> entry.wallet, pool |-> entry.pool, extensions |-> {}]
      [] entry.pool = d.pool -> [d EXCEPT !.wallet = entry.wallet]

\* The last resort: the built-in wallet on the user's pool.
built_in(d, u) ==
    IF u.pool = d.pool
      THEN [d EXCEPT !.wallet = DevWallet]
      ELSE [wallet |-> DevWallet, pool |-> u.pool, extensions |-> u.extensions]

\* The first document with an entry: the URL's, the user's file, the program's.
FirstUsable(url) == CASE url # {} -> url
                      [] url = {} /\ file # {} -> file
                      [] OTHER -> AppDocument

\* What may become of the developer's settings when they are fetched.
Fetched(d, u, url) ==
    LET document == FirstUsable(url) IN
    IF document = {} THEN {built_in(d, u)}
                     ELSE {process_devfee_json(d, u, e) : e \in document}

\* Fault: the place holder is written instead of the pool it stood for.
FileOf_any(d) == {[wallet |-> d.wallet, pool |-> AnyPool]}

\* The document written for settings d.
FileOf(d) == {Target(d)}

\* Settings that came from the URL are written to the user's file; the write
\* may find no folder, or be cut short after the file was emptied.
save_devfee_settings(d, url) ==
    \/ /\ url # {}
       /\ file' = FileOf(d)
       /\ saved' = Target(d)
    \/ UNCHANGED <<file, saved>>
    \/ /\ url # {}
       /\ file' = {}
       /\ saved' = NoTarget

\* __update_devfee_data at time t for user u: settings "old" become "d", which
\* the caller stores, since an answer of the pool may change them again.
update_devfee_data(old, d, u, url, t) ==
    /\ d \in Fetched(old, u, url)
    /\ save_devfee_settings(d, url)
    /\ fetchedAt' = t
    /\ fromFile' = (url = {} /\ file # {})

-----------------------------------------------------------------------------
(* pool_client.                                                            *)

Proxied == "Proxy" \in user.extensions

minutes == now \div Minute

\* Fault: minute zero counts as a fee minute.
FeeMinute_from_zero == minutes % Period = 0

\* The developer's minute.
FeeMinute == minutes # 0 /\ minutes % Period = 0

\* get_user_settings and get_dev_settings fetch when the hour is over.
refreshed(d, url) ==
    IF now - fetchedAt > Hour
      THEN update_devfee_data(dev, d, user, url, now)
      ELSE d = dev /\ UNCHANGED <<file, saved, fetchedAt, fromFile>>

\* __get_pool_settings returns the developer's settings.
UsesDev == ~Proxied /\ FeeMinute

\* The part of a request before it is sent; "d" are the developer's settings.
get_pool_settings(d, url) ==
    /\ up
    /\ refreshed(d, url)
    /\ devfeeTime' = IF Proxied THEN devfeeTime ELSE FeeMinute
    /\ fresh' = CASE devfeeTime' /\ ~devfeeTime -> fetchedAt' = now
                  [] devfeeTime' /\ devfeeTime  -> fresh
                  [] ~devfeeTime'               -> TRUE
    /\ feeMinutes' = IF UsesDev THEN feeMinutes \cup {minutes} ELSE feeMinutes
    /\ UNCHANGED <<up, now>>

\* update, when the answer, with a job or with an error, announces the pool's
\* extensions.
update(d, url, extensions) ==
    LET target == IF UsesDev THEN d ELSE user
        known  == [target EXCEPT !.extensions = extensions]
    IN
    /\ get_pool_settings(d, url)
    /\ announced' = [announced EXCEPT ![target.pool] = @ \cup {extensions}]
    /\ user' = IF UsesDev THEN user ELSE known
    /\ dev' = IF UsesDev THEN known ELSE d

\* update when the answer has no "extensions" or is no valid answer; submit,
\* which never looks for them.
request_silent(d, url) ==
    /\ get_pool_settings(d, url)
    /\ dev' = d
    /\ UNCHANGED <<user, announced>>

NewSettings(wallet, pool) ==
    [wallet |-> wallet, pool |-> pool, extensions |-> {}]

NoDev == NewSettings(None, None)

\* A process ends, and what it held in memory with it.
EndProcess ==
    /\ up
    /\ up' = FALSE
    /\ now' = 0
    /\ user' = NoDev
    /\ dev' = NoDev
    /\ fetchedAt' = 0
    /\ devfeeTime' = FALSE
    /\ announced' = [p \in Pools |-> {{}}]
    /\ feeMinutes' = {}
    /\ fresh' = TRUE
    /\ fromFile' = FALSE

\* disconnect looks at the user's settings, whatever the time, which may
\* fetch and save the developer's; then the process ends.
disconnect(d, url) ==
    /\ d \in IF now - fetchedAt > Hour THEN Fetched(dev, user, url) ELSE {dev}
    /\ IF now - fetchedAt > Hour THEN save_devfee_settings(d, url)
                                 ELSE UNCHANGED <<file, saved>>
    /\ EndProcess

\* The process is killed.
Kill == EndProcess /\ UNCHANGED <<file, saved>>

Tick ==
    /\ up
    /\ now < MaxTime
    /\ now' = now + 1
    /\ UNCHANGED <<up, user, dev, fetchedAt, devfeeTime, file, announced,
                   feeMinutes, fresh, saved, fromFile>>

\* The constructors of a new process, with --pool pool.
start(d, pool, url) ==
    /\ ~up
    /\ up' = TRUE
    /\ now' = 0
    /\ user' = NewSettings(UserWallet, pool)
    /\ update_devfee_data(NoDev, d, user', url, 0)
    /\ dev' = d
    /\ devfeeTime' = FALSE
    /\ announced' = [p \in Pools |-> {{}}]
    /\ feeMinutes' = {}
    /\ fresh' = TRUE

Init ==
    /\ up = FALSE
    /\ now = 0
    /\ user = NoDev
    /\ dev = NoDev
    /\ fetchedAt = 0
    /\ devfeeTime = FALSE
    /\ file \in FileDocuments
    /\ announced = [p \in Pools |-> {{}}]
    /\ feeMinutes = {}
    /\ fresh = TRUE
    /\ saved = NoTarget
    /\ fromFile = FALSE

Next ==
    \/ \E url \in UrlDocuments : \E d \in Fetched(dev, user, url) \cup {dev} :
          \/ \E extensions \in Announcements : update(d, url, extensions)
          \/ request_silent(d, url)
          \/ disconnect(d, url)
    \/ \E url \in UrlDocuments, pool \in Pools :
          \E d \in Fetched(NoDev, NewSettings(UserWallet, pool), url) :
             start(d, pool, url)
    \/ Kill
    \/ Tick

Spec == Init /\ [][Next]_vars

-----------------------------------------------------------------------------
(* Properties.                                                             *)

TypeOK ==
    /\ up \in BOOLEAN
    /\ now \in 0..MaxTime
    /\ user \in Settings
    /\ dev \in Settings
    /\ fetchedAt \in 0..MaxTime
    /\ devfeeTime \in BOOLEAN
    /\ file \subseteq Entries
    /\ announced \in [Pools -> SUBSET KnownExtensions]
    /\ feeMinutes \subseteq 0..MaxTime
    /\ fresh \in BOOLEAN
    /\ saved \in Targets
    /\ fromFile \in BOOLEAN

\* The extensions by which the client chooses its requests were announced by
\* the pool it sends them to: they never outlive a change of the developer's
\* pool (__process_devfee_json, __update_devfee_data, update).
ExtensionsOfPool ==
    up => \A settings \in {user, dev} :
             settings.extensions \in announced[settings.pool]

\* README: "1 minute from 100 minutes it will mine for developer": at no time
\* have more minutes gone to the developer than one in each full period.
FeeShare == up => Cardinality(feeMinutes) * Period <= minutes

\* Settings read back from the user's file, in this or in a later process and
\* for whatever --pool, are the settings last downloaded and written.
SavedSettingsRestored == fromFile /\ saved # NoTarget => Target(dev) = saved

\* README: the developer's settings are downloaded "each time it switches to
\* developer mining mode".
DownloadedAtSwitch == fresh
=============================================================================
