---------------------------- MODULE ClientPools -----------------------------
(***************************************************************************)
(* The two pools of gRPC clients of an x-pdb process: the one for remote   *)
(* state servers (internal/state/client) and the one for disruption probes *)
(* (internal/disruptionprobe), each a map from endpoints to clients behind *)
(* a mutex that Get holds while it reads certificate files and makes a     *)
(* client.  A key is an endpoint of one of the pools.                      *)
(*                                                                         *)
(* A caller calls Get once, so that a client is named after the caller     *)
(* whose Get has made it.  A state client also has a certificate watcher,  *)
(* a goroutine that newClient starts and nobody waits for: it loads the    *)
(* key pair again when the files change, as long as its watch lasts.       *)
(***************************************************************************)
EXTENDS Integers

CONSTANTS
  Caller,          \* the goroutines that call Get
  Key,             \* the endpoints of both pools
  KeysOf,          \* KeysOf[g]: the endpoints that caller g may ask for
  ProbeKey,        \* the endpoints that belong to the probe pool
  Unusable,        \* the endpoints that grpc.NewClient rejects
  MaxFileChanges,  \* how many times the files on disk change
  NoOne            \* nobody holds a mutex, no client

ASSUME PoolAssumption ==
  /\ KeysOf \in [Caller -> SUBSET Key]
  /\ ProbeKey \subseteq Key
  /\ NoOne \notin Caller
  /\ MaxFileChanges \in Nat

VARIABLES
  files,      \* the files that can be read and parsed: "pair" and "ca"
  changes,    \* how many times the files have changed
  mux,        \* mux[p]: who holds the mutex of pool p
  clients,    \* clients[k]: the client in the map, NoOne if there is none
  watch,      \* watch[c]: what the certificate watcher of client c does
  stale,      \* the watchers that have loaded another pair than the one on disk
  quiet,      \* the watchers that have had no event since they watch
  gpc,        \* gpc[g]: where caller g is
  key,        \* key[g]: the endpoint that caller g asks for
  got         \* got[g]: the client that caller g makes or has

watcherVars == <<watch, stale, quiet>>

poolVars == <<files, changes, mux, clients, watcherVars, gpc, key, got>>

Pool == {"state", "probe"}

PoolOf(k) == IF k \in ProbeKey THEN "probe" ELSE "state"

Mux(g) == mux[PoolOf(key[g])]

InNewClient == {"pair", "ca", "probe"}

Returned == {"answered", "denied", "failed"}

Watch == {"none", "starting", "watching", "event", "gone"}

PInit ==
  /\ files \in SUBSET {"pair", "ca"}
  /\ changes = 0
  /\ mux = [p \in Pool |-> NoOne]
  /\ clients = [k \in Key |-> NoOne]
  /\ watch = [c \in Caller |-> "none"]
  /\ stale = {}
  /\ quiet = {}
  /\ gpc = [g \in Caller |-> "idle"]
  /\ key \in {k \in [Caller -> Key] : \A g \in Caller : k[g] \in KeysOf[g]}
  /\ got = [g \in Caller |-> NoOne]

Step(g, l) == gpc' = [gpc EXCEPT ![g] = l]

-----------------------------------------------------------------------------
\* A handler needs a client.
Ask(g) ==
  /\ gpc[g] = "idle"
  /\ Step(g, "get")
  /\ UNCHANGED <<files, changes, mux, clients, watcherVars, got, key>>

\* Get finds a client in the map.
Found(g) ==
  /\ clients[key[g]] # NoOne
  /\ got' = [got EXCEPT ![g] = clients[key[g]]]
  /\ Step(g, "call")
  /\ UNCHANGED <<files, changes, mux, clients, watcherVars, key>>

\* A variant of Missing that makes the client without holding the mutex.
MissingUnlocked(g, l) ==
  /\ clients[key[g]] = NoOne
  /\ got' = [got EXCEPT ![g] = g]
  /\ Step(g, l)
  /\ UNCHANGED <<files, changes, mux, clients, watcherVars, key>>

\* Get finds none, keeps the mutex and goes into newClient.
Missing(g, l) ==
  /\ clients[key[g]] = NoOne
  /\ mux' = [mux EXCEPT ![PoolOf(key[g])] = g]
  /\ got' = [got EXCEPT ![g] = g]
  /\ Step(g, l)
  /\ UNCHANGED <<files, changes, clients, watcherVars, key>>

\* A variant of Fail without the deferred unlock.
FailLocked(g) ==
  /\ got' = [got EXCEPT ![g] = NoOne]
  /\ Step(g, "failed")
  /\ UNCHANGED <<files, changes, mux, clients, watcherVars, key>>

\* newClient returns an error: Get unlocks and stores nothing.
Fail(g) ==
  /\ mux' = [mux EXCEPT ![PoolOf(key[g])] = NoOne]
  /\ got' = [got EXCEPT ![g] = NoOne]
  /\ Step(g, "failed")
  /\ UNCHANGED <<files, changes, clients, watcherVars, key>>

\* newClient returns a client, which does not connect yet: Get stores it and
\* unlocks.
Store(g) ==
  /\ clients' = [clients EXCEPT ![key[g]] = got[g]]
  /\ mux' = [mux EXCEPT ![PoolOf(key[g])] = NoOne]
  /\ Step(g, "call")
  /\ UNCHANGED <<files, changes, watcherVars, got, key>>

\* Get of the state pool.
Get(g) ==
  /\ gpc[g] = "get"
  /\ key[g] \notin ProbeKey
  /\ Mux(g) = NoOne
  /\ Found(g) \/ Missing(g, "pair")

\* newClient of the state pool: certwatcher.New loads the pair, and the watcher is
\* started.
LoadPair(g) ==
  /\ gpc[g] = "pair"
  /\ \/ /\ "pair" \in files
        /\ watch' = [watch EXCEPT ![g] = "starting"]
        /\ Step(g, "ca")
        /\ UNCHANGED <<files, changes, mux, clients, stale, quiet, got, key>>
     \/ "pair" \notin files /\ Fail(g)

\* The rest of it: the CA is read and parsed, and grpc.NewClient takes the
\* endpoint; when one of them fails, the watcher stays.
FinishNewClient(g) ==
  /\ gpc[g] = "ca"
  /\ \/ "ca" \in files /\ key[g] \notin Unusable /\ Store(g)
     \/ ("ca" \notin files \/ key[g] \in Unusable) /\ Fail(g)

\* Get of the probe pool.
ProbeGet(g) ==
  /\ gpc[g] = "get"
  /\ key[g] \in ProbeKey
  /\ Mux(g) = NoOne
  /\ Found(g) \/ Missing(g, "probe")

\* newClient of the probe pool, without a certificate of its own.
ProbeNewClient(g) ==
  /\ gpc[g] = "probe"
  /\ \/ "ca" \in files /\ key[g] \notin Unusable /\ Store(g)
     \/ ("ca" \notin files \/ key[g] \in Unusable) /\ Fail(g)

\* What a caller does with its client: the call, and its outcome.
Leave(g, l) ==
  /\ gpc[g] \in {"call", "waiting"}
  /\ Step(g, l)
  /\ UNCHANGED <<files, changes, mux, clients, watcherVars, got, key>>

\* The files are mounted, rotated or damaged, all of them at once as in a mounted
\* secret; the watchers that watch them get an event.
FilesChange ==
  /\ changes < MaxFileChanges
  /\ changes' = changes + 1
  /\ files' \in SUBSET {"pair", "ca"}
  /\ watch' = [c \in Caller |-> IF watch[c] = "watching" THEN "event" ELSE watch[c]]
  /\ stale' = {c \in Caller : watch[c] # "none"}
  /\ quiet' = {}
  /\ UNCHANGED <<mux, clients, gpc, got, key>>

-----------------------------------------------------------------------------
\* cw.Start adds its watches, some time after New has loaded the pair.
AddWatches(c) ==
  /\ watch[c] = "starting"
  /\ watch' = [watch EXCEPT ![c] = "watching"]
  /\ quiet' = quiet \cup {c}
  /\ UNCHANGED <<files, changes, mux, clients, stale, gpc, key, got>>

\* It cannot add them for ten seconds, since the files are not there or the system
\* has no watch left: Start returns an error, which newClient's goroutine logs.
GiveUp(c) ==
  /\ watch[c] = "starting"
  /\ watch' = [watch EXCEPT ![c] = "gone"]
  /\ UNCHANGED <<files, changes, mux, clients, stale, quiet, gpc, key, got>>

\* A variant of HandleEvent whose filter does not know the kind of the event.
HandleEventFiltered(c) ==
  /\ watch[c] = "event"
  /\ watch' = [watch EXCEPT ![c] = "watching"]
  /\ UNCHANGED <<files, changes, mux, clients, stale, quiet, gpc, key, got>>

\* handleEvent: a watch that went with its file is added again, which may fail, and
\* only then the pair is loaded, if it can be read.
HandleEvent(c) ==
  /\ watch[c] = "event"
  /\ \E w \in {"watching", "gone"} : watch' = [watch EXCEPT ![c] = w]
  /\ stale' = IF "pair" \in files THEN stale \ {c} ELSE stale
  /\ UNCHANGED <<files, changes, mux, clients, quiet, gpc, key, got>>

WatcherStep(c) == AddWatches(c) \/ GiveUp(c) \/ HandleEvent(c)

GetStep(g) ==
  Get(g) \/ LoadPair(g) \/ FinishNewClient(g) \/ ProbeGet(g) \/ ProbeNewClient(g)

PNext ==
  \/ \E g \in Caller :
       \/ Ask(g) \/ GetStep(g) \/ WatcherStep(g)
       \/ \E l \in {"waiting"} \cup Returned : Leave(g, l)
  \/ FilesChange

PSpec == PInit /\ [][PNext]_poolVars

-----------------------------------------------------------------------------
\* Type correctness.
PTypeOK ==
  /\ files \subseteq {"pair", "ca"}
  /\ changes \in 0..MaxFileChanges
  /\ mux \in [Pool -> Caller \cup {NoOne}]
  /\ clients \in [Key -> Caller \cup {NoOne}]
  /\ watch \in [Caller -> Watch]
  /\ stale \subseteq Caller
  /\ quiet \subseteq Caller
  /\ gpc \in [Caller -> {"idle", "get", "call", "waiting"} \cup InNewClient \cup Returned]
  /\ key \in [Caller -> Key]
  /\ got \in [Caller -> Caller \cup {NoOne}]

\* Callers of one endpoint share its client, and with it the connection: Get
\* never makes a second client for an endpoint, nor replaces one that a caller
\* already uses, however the callers and the changes of the files interleave.
SharedClient ==
  \A g \in Caller :
    gpc[g] \in {"call", "waiting", "answered", "denied"} =>
      got[g] # NoOne /\ got[g] = clients[key[g]]

\* A state client in the pool has a watcher of its own, although the call that made
\* it is long over; and once that watches the files and has handled what it has
\* seen, the client presents the pair that is on disk.  There is one exception: the
\* pair was replaced between certwatcher.New and the watch, and not since.  Nothing
\* is promised while the watcher starts, or when it has given up or lost its watch,
\* which is only logged.
WatchedClientIsCurrent ==
  \A k \in Key \ ProbeKey : clients[k] # NoOne =>
    /\ watch[clients[k]] # "none"
    /\ watch[clients[k]] = "watching" /\ "pair" \in files =>
         clients[k] \notin stale \/ clients[k] \in quiet

\* The mutex of a pool is never left behind: whoever holds it is still in newClient
\* for that pool, which ends by unlocking, so that Get blocks only on a caller that
\* is at work.
MutexIsReleased ==
  \A p \in Pool : mux[p] # NoOne =>
    gpc[mux[p]] \in InNewClient /\ PoolOf(key[mux[p]]) = p

(***************************************************************************)
(* The inductive invariant behind them.                                    *)
(***************************************************************************)
\* Who is in newClient holds the mutex of its pool, so that there is one of them
\* at most, its endpoint has no client yet, and it makes its own.
MutexInv ==
  \A g \in Caller : gpc[g] \in InNewClient =>
    Mux(g) = g /\ clients[key[g]] = NoOne /\ got[g] = g

\* Past certwatcher.New there is a watcher, and so there is for the clients in the
\* pool; the probe pool has none.
WatcherInv ==
  /\ \A g \in Caller :
       /\ gpc[g] = "ca" => watch[g] # "none"
       /\ gpc[g] = "probe" => key[g] \in ProbeKey
  /\ \A k \in Key \ ProbeKey : clients[k] # NoOne => watch[clients[k]] # "none"

\* What a watcher at rest has loaded.
LoadedInv ==
  \A c \in Caller :
    watch[c] = "watching" /\ "pair" \in files => c \notin stale \/ c \in quiet

\* What TLAPS proves inductive, with PTypeOK; and MutexIsReleased with it.
PoolInv == MutexInv /\ WatcherInv /\ LoadedInv /\ SharedClient
=============================================================================
