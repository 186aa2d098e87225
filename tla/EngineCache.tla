----------------------------- MODULE EngineCache -----------------------------
(***************************************************************************)
(* The process-wide cache of SQLAlchemy engines (_catalog.py,              *)
(* _engine_from_metadata_catalog): threads look an engine up under the     *)
(* lock, build one outside it on a miss, and publish it under the lock     *)
(* with setdefault; whoever finds another engine there disposes its own.   *)
(* The benchmark runner also evicts: it pops an entry under the lock and   *)
(* disposes the engine after releasing it.                                 *)
(*                                                                         *)
(* A lock section that touches the dictionary once is one step.            *)
(***************************************************************************)

CONSTANTS
    Threads,     \* callers of scan_ducklake
    Inputs,      \* connection strings they pass
    Urls,        \* SQLAlchemy URLs
    UrlOf,       \* input -> URL, after _translate_ducklake_string
    Engines,     \* bound: the Engine objects that can be created
    None         \* no engine

ASSUME EngineAssumption ==
    /\ UrlOf \in [Inputs -> Urls]
    /\ None \notin Engines \cup Urls

VARIABLES
    cache,      \* _ENGINE_CACHE: URL -> engine or None
    pc,         \* where each thread is in the function
    url,        \* the URL of its call
    mine,       \* the engine its call built
    built,      \* engines created so far
    disposed,   \* engines whose dispose() ran
    returned,   \* <<URL, engine>> pairs handed to callers
    victim      \* engine the eviction has popped and not yet disposed

vars == <<cache, pc, url, mine, built, disposed, returned, victim>>

Init ==
    /\ cache = [u \in Urls |-> None]
    /\ pc = [t \in Threads |-> "idle"]
    /\ url = [t \in Threads |-> None]
    /\ mine = [t \in Threads |-> None]
    /\ built = {}
    /\ disposed = {}
    /\ returned = {}
    /\ victim = None

Goto(t, from, to) ==
    /\ pc[t] = from
    /\ pc' = [pc EXCEPT ![t] = to]

(* The call is over and its local variables with it.                       *)
Leave(t, from) ==
    /\ Goto(t, from, "idle")
    /\ url' = [url EXCEPT ![t] = None]
    /\ mine' = [mine EXCEPT ![t] = None]

HandOut(u, e) == returned' = returned \cup {<<u, e>>}

(* Mutant of Call: the cache key is the string as the caller spelt it.     *)
CallBySpelling(t) ==
    /\ Goto(t, "idle", "lookup")
    /\ \E i \in Inputs : url' = [url EXCEPT ![t] = i]
    /\ UNCHANGED <<cache, mine, built, disposed, returned, victim>>

Call(t) ==
    /\ Goto(t, "idle", "lookup")
    /\ \E i \in Inputs : url' = [url EXCEPT ![t] = UrlOf[i]]
    /\ UNCHANGED <<cache, mine, built, disposed, returned, victim>>

(* with _ENGINE_CACHE_LOCK: cached = _ENGINE_CACHE.get(url)                *)
Hit(t) ==
    /\ Leave(t, "lookup")
    /\ cache[url[t]] # None
    /\ HandOut(url[t], cache[url[t]])
    /\ UNCHANGED <<cache, built, disposed, victim>>

Miss(t) ==
    /\ Goto(t, "lookup", "build")
    /\ cache[url[t]] = None
    /\ UNCHANGED <<cache, url, mine, built, disposed, returned, victim>>

Build(t) ==
    /\ Goto(t, "build", "intern")
    /\ built # Engines
    /\ LET engine == CHOOSE e \in Engines : e \notin built
       IN /\ mine' = [mine EXCEPT ![t] = engine]
          /\ built' = built \cup {engine}
    /\ UNCHANGED <<cache, url, disposed, returned, victim>>

(* Mutant of BuildFails: start over.                                       *)
BuildRetries(t) ==
    /\ Goto(t, "build", "lookup")
    /\ UNCHANGED <<cache, url, mine, built, disposed, returned, victim>>

(* create_engine, or the import of duckdb_engine, raises.                  *)
BuildFails(t) ==
    /\ Leave(t, "build")
    /\ UNCHANGED <<cache, built, disposed, returned, victim>>

(* Mutant of InternWins: a plain assignment in place of setdefault.        *)
InternAlways(t) ==
    /\ Leave(t, "intern")
    /\ cache' = [cache EXCEPT ![url[t]] = mine[t]]
    /\ HandOut(url[t], mine[t])
    /\ UNCHANGED <<built, disposed, victim>>

(* existing = _ENGINE_CACHE.setdefault(url, engine)                        *)
InternWins(t) ==
    /\ Leave(t, "intern")
    /\ cache[url[t]] = None
    /\ cache' = [cache EXCEPT ![url[t]] = mine[t]]
    /\ HandOut(url[t], mine[t])
    /\ UNCHANGED <<built, disposed, victim>>

(* Mutant of InternLoses: the loser forgets its engine.                    *)
LoseAndForget(t) ==
    /\ Leave(t, "intern")
    /\ cache[url[t]] # None
    /\ HandOut(url[t], cache[url[t]])
    /\ UNCHANGED <<cache, built, disposed, victim>>

(* The loser holds `existing` while it disposes its own, and returns it.   *)
InternLoses(t) ==
    /\ Goto(t, "intern", "dispose")
    /\ cache[url[t]] # None
    /\ HandOut(url[t], cache[url[t]])
    /\ UNCHANGED <<cache, url, mine, built, disposed, victim>>

(* Mutant of Dispose: the wrong one of the two.                            *)
DisposeExisting(t) ==
    /\ Leave(t, "dispose")
    /\ disposed' = disposed \cup {cache[url[t]]}
    /\ UNCHANGED <<cache, built, returned, victim>>

Dispose(t) ==
    /\ Leave(t, "dispose")
    /\ disposed' = disposed \cup {mine[t]}
    /\ UNCHANGED <<cache, built, returned, victim>>

(* Mutant of EvictPop: get in place of pop.                                *)
EvictGet(u) ==
    /\ victim = None
    /\ cache[u] # None
    /\ victim' = cache[u]
    /\ UNCHANGED <<cache, pc, url, mine, built, disposed, returned>>

(* The benchmark: pop under the lock, dispose after it is released.        *)
EvictPop(u) ==
    /\ victim = None
    /\ cache[u] # None
    /\ victim' = cache[u]
    /\ cache' = [cache EXCEPT ![u] = None]
    /\ UNCHANGED <<pc, url, mine, built, disposed, returned>>

EvictDispose ==
    /\ victim # None
    /\ disposed' = disposed \cup {victim}
    /\ victim' = None
    /\ UNCHANGED <<cache, pc, url, mine, built, returned>>

Step(t) ==
    Hit(t) \/ Miss(t) \/ Build(t) \/ BuildFails(t) \/ InternWins(t) \/ InternLoses(t) \/ Dispose(t)

Next ==
    \/ \E t \in Threads : Call(t) \/ Step(t)
    \/ \E u \in Urls : EvictPop(u)
    \/ EvictDispose

Spec == Init /\ [][Next]_vars

(* A thread inside the function runs on: it waits for nothing but the      *)
(* lock, which every section releases after one dictionary operation.      *)
FairSpec == Spec /\ \A t \in Threads : WF_vars(Step(t))

-----------------------------------------------------------------------------
(* The variables hold what the code puts there; cache keys are URLs.       *)
TypeOK ==
    /\ cache \in [Urls -> Engines \cup {None}]
    /\ pc \in [Threads -> {"idle", "lookup", "build", "intern", "dispose"}]
    /\ url \in [Threads -> Urls \cup {None}]
    /\ mine \in [Threads -> Engines \cup {None}]
    /\ built \subseteq Engines
    /\ disposed \subseteq Engines
    /\ returned \subseteq Urls \X Engines
    /\ victim \in Engines \cup {None}

Held(t) == IF pc[t] \in {"intern", "dispose"} THEN {mine[t]} ELSE {}

Cached == {cache[u] : u \in Urls}

(* Scans of one lake share one pool: whatever the threads' interleaving,   *)
(* all engines handed out for a URL and still open are the same engine.    *)
(* (While an eviction is between its two steps, the popped engine is the   *)
(* one exception.)                                                         *)
OneOpenEnginePerUrl ==
    \A p, q \in returned :
       p[1] = q[1] /\ p[2] \notin disposed \cup {victim} /\ q[2] \notin disposed \cup {victim}
          => p[2] = q[2]

(* An engine in the cache has not been disposed, and the next caller can   *)
(* use what the lookup returns.                                            *)
CachedEnginesAreOpen == Cached \cap disposed = {}

(* No pool leaks: an engine that was built is cached, disposed, or still   *)
(* in the hands of the thread that will publish or dispose it.             *)
NoEngineLeaks ==
    built \subseteq disposed \cup Cached \cup {victim} \cup UNION {Held(t) : t \in Threads}

(* A caller's pool is closed under it by the benchmark's eviction alone:   *)
(* the engine a losing thread disposes was handed to nobody.               *)
OnlyEvictionClosesHandedOut ==
    [][\A e \in disposed' \ disposed :
          e = victim \/ \A p \in returned : p[2] # e]_vars

(* Every call returns or raises.                                           *)
CallsReturn == \A t \in Threads : pc[t] = "lookup" ~> pc[t] = "idle"

=============================================================================
