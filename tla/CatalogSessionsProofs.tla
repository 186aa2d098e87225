------------------------ MODULE CatalogSessionsProofs ------------------------
(***************************************************************************)
(* Proofs about EngineCache and CatalogSessions, for any finite set of     *)
(* threads, any URLs, engines and pool size.                               *)
(*                                                                         *)
(* Every engine is in one place at a time: in the cache under one URL, in  *)
(* the hands of the thread that built it, popped by the eviction, or       *)
(* disposed.  IInv says so, and that an engine handed to a caller is in    *)
(* the cache under the caller's URL until it is popped or disposed.        *)
(*                                                                         *)
(* A step of a session is a step of the engine cache or leaves it alone,   *)
(* so what is shown of the cache holds of sessions.  On top of it SInv     *)
(* says where a scan can be while its call is inside the cache, that a     *)
(* query is the set of scans under evaluation in it, that a reader whose   *)
(* pool was replaced has a disposed engine, and that a pool has lent       *)
(* exactly what the other open readers of its engine hold.                 *)
(***************************************************************************)
EXTENDS CatalogSessions, FiniteSetTheorems, TLAPS

-----------------------------------------------------------------------------
(* The engine cache.                                                       *)

Holding(t) == pc[t] \in {"intern", "dispose"}

(* A call that is under way has a URL.                                     *)
CallsHaveUrls == \A t \in Threads : pc[t] # "idle" => url[t] \in Urls

(* An engine in a thread's hands is open, known to no one else and held    *)
(* by no other thread.                                                     *)
HeldIsPrivate ==
    \A t \in Threads : Holding(t) =>
       /\ mine[t] \in built \ disposed
       /\ mine[t] # victim
       /\ \A u \in Urls : cache[u] # mine[t]
       /\ \A p \in returned : p[2] # mine[t]
       /\ \A s \in Threads : Holding(s) /\ s # t => mine[s] # mine[t]

(* An engine in the cache is open, not popped, and there under one URL.    *)
CachedIsOpen ==
    \A u \in Urls : cache[u] # None =>
       /\ cache[u] \in built \ disposed
       /\ cache[u] # victim
       /\ \A w \in Urls : cache[w] = cache[u] => w = u

(* The eviction holds an open engine between its two steps.                *)
PoppedIsOpen == victim # None => victim \in built \ disposed

(* Only engines that exist are disposed.                                   *)
DisposedWereBuilt == disposed \subseteq built

(* An engine a caller got is the one cached for its URL, or was evicted.   *)
HandedOutIsCached ==
    \A p \in returned :
       /\ p[2] \in built
       /\ p[2] = cache[p[1]] \/ p[2] \in disposed \/ p[2] = victim

Ownership ==
    /\ CallsHaveUrls
    /\ HeldIsPrivate
    /\ CachedIsOpen
    /\ PoppedIsOpen
    /\ HandedOutIsCached
    /\ DisposedWereBuilt
    /\ NoEngineLeaks

IInv == TypeOK /\ Ownership

-----------------------------------------------------------------------------
(* The invariant holds initially.                                          *)
LEMMA InitIInv == Init => IInv
  <1>. SUFFICES ASSUME Init PROVE IInv
    OBVIOUS
  <1>. USE EngineAssumption DEF Init
  <1>1. TypeOK
    BY DEF TypeOK
  <1>2. CallsHaveUrls /\ HeldIsPrivate /\ CachedIsOpen /\ PoppedIsOpen /\ HandedOutIsCached
    BY DEF CallsHaveUrls, HeldIsPrivate, Holding, CachedIsOpen, PoppedIsOpen, HandedOutIsCached
  <1>3. DisposedWereBuilt /\ NoEngineLeaks
    BY DEF DisposedWereBuilt, NoEngineLeaks
  <1>. QED
    BY <1>1, <1>2, <1>3 DEF IInv, Ownership

(* Every step of a thread and of the eviction keeps the types.             *)
LEMMA TypeStep == IInv /\ [Next]_vars => TypeOK'
  <1>. SUFFICES ASSUME TypeOK, CallsHaveUrls, HeldIsPrivate, [Next]_vars PROVE TypeOK'
    BY DEF IInv, Ownership
  <1>. USE EngineAssumption DEF TypeOK
  <1>1. ASSUME NEW t \in Threads, Call(t) PROVE TypeOK'
    BY <1>1 DEF Call, Goto
  <1>2. ASSUME NEW t \in Threads, Hit(t) PROVE TypeOK'
    <2>1. url[t] \in Urls /\ cache[url[t]] \in Engines
      BY <1>2 DEF Hit, Leave, Goto, CallsHaveUrls
    <2>. QED
      BY <1>2, <2>1 DEF Hit, Leave, Goto, HandOut
  <1>3. ASSUME NEW t \in Threads, Miss(t) PROVE TypeOK'
    BY <1>3 DEF Miss, Goto
  <1>4. ASSUME NEW t \in Threads, Build(t) PROVE TypeOK'
    <2>1. (CHOOSE e \in Engines : e \notin built) \in Engines
      BY <1>4 DEF Build
    <2>. QED
      BY <1>4, <2>1 DEF Build, Goto
  <1>5. ASSUME NEW t \in Threads, BuildFails(t) PROVE TypeOK'
    BY <1>5 DEF BuildFails, Leave, Goto
  <1>6. ASSUME NEW t \in Threads, InternWins(t) PROVE TypeOK'
    <2>1. url[t] \in Urls /\ mine[t] \in Engines
      BY <1>6 DEF InternWins, Leave, Goto, CallsHaveUrls, HeldIsPrivate, Holding
    <2>. QED
      BY <1>6, <2>1 DEF InternWins, Leave, Goto, HandOut
  <1>7. ASSUME NEW t \in Threads, InternLoses(t) PROVE TypeOK'
    <2>1. url[t] \in Urls /\ cache[url[t]] \in Engines
      BY <1>7 DEF InternLoses, Goto, CallsHaveUrls
    <2>. QED
      BY <1>7, <2>1 DEF InternLoses, Goto, HandOut
  <1>8. ASSUME NEW t \in Threads, Dispose(t) PROVE TypeOK'
    <2>1. mine[t] \in Engines
      BY <1>8 DEF Dispose, Leave, Goto, HeldIsPrivate, Holding
    <2>. QED
      BY <1>8, <2>1 DEF Dispose, Leave, Goto
  <1>9. ASSUME NEW u \in Urls, EvictPop(u) PROVE TypeOK'
    BY <1>9 DEF EvictPop
  <1>10. CASE EvictDispose
    BY <1>10 DEF EvictDispose
  <1>11. CASE UNCHANGED vars
    BY <1>11 DEF vars
  <1>. QED
    BY <1>1, <1>2, <1>3, <1>4, <1>5, <1>6, <1>7, <1>8, <1>9, <1>10, <1>11 DEF Next, Step

(* Every step keeps each engine in one place.                              *)
LEMMA OwnershipStep == IInv /\ [Next]_vars => Ownership'
  <1>. SUFFICES ASSUME TypeOK, Ownership, [Next]_vars PROVE Ownership'
    BY DEF IInv
  <1>. USE EngineAssumption DEF TypeOK, Ownership, CallsHaveUrls, PoppedIsOpen,
          DisposedWereBuilt
  <1>1. ASSUME NEW t \in Threads, Call(t) PROVE Ownership'
    <2>1. CallsHaveUrls' /\ PoppedIsOpen' /\ DisposedWereBuilt'
      BY <1>1 DEF Call, Goto, CachedIsOpen, HeldIsPrivate, Holding
    <2>2. HeldIsPrivate'
      BY <1>1 DEF Call, Goto, HeldIsPrivate, Holding, CachedIsOpen, HandedOutIsCached
    <2>3. CachedIsOpen'
      BY <1>1 DEF Call, Goto, CachedIsOpen, HeldIsPrivate, Holding
    <2>4. HandedOutIsCached'
      BY <1>1 DEF Call, Goto, HandedOutIsCached, CachedIsOpen, HeldIsPrivate, Holding
    <2>5. NoEngineLeaks'
      BY <1>1 DEF Call, Goto, NoEngineLeaks, Held, Cached, HeldIsPrivate, Holding
    <2>. QED
      BY <2>1, <2>2, <2>3, <2>4, <2>5 DEF Ownership
  <1>2. ASSUME NEW t \in Threads, Hit(t) PROVE Ownership'
    <2>1. CallsHaveUrls' /\ PoppedIsOpen' /\ DisposedWereBuilt'
      BY <1>2 DEF Hit, Leave, Goto, HandOut, CachedIsOpen, HeldIsPrivate, Holding
    <2>2. HeldIsPrivate'
      BY <1>2 DEF Hit, Leave, Goto, HandOut, HeldIsPrivate, Holding, CachedIsOpen, HandedOutIsCached
    <2>3. HandedOutIsCached'
      BY <1>2 DEF Hit, Leave, Goto, HandOut, HandedOutIsCached, CachedIsOpen, HeldIsPrivate, Holding
    <2>4. NoEngineLeaks'
      BY <1>2 DEF Hit, Leave, Goto, HandOut, NoEngineLeaks, Held, Cached, HeldIsPrivate, Holding
    <2>5. CachedIsOpen'
      BY <1>2 DEF Hit, Leave, Goto, HandOut, CachedIsOpen
    <2>. QED
      BY <2>1, <2>2, <2>3, <2>4, <2>5 DEF Ownership
  <1>3. ASSUME NEW t \in Threads, Miss(t) PROVE Ownership'
    <2>1. CallsHaveUrls' /\ PoppedIsOpen' /\ DisposedWereBuilt'
      BY <1>3 DEF Miss, Goto, CachedIsOpen, HeldIsPrivate, Holding
    <2>2. HeldIsPrivate'
      BY <1>3 DEF Miss, Goto, HeldIsPrivate, Holding, CachedIsOpen, HandedOutIsCached
    <2>3. CachedIsOpen'
      BY <1>3 DEF Miss, Goto, CachedIsOpen, HeldIsPrivate, Holding
    <2>4. HandedOutIsCached'
      BY <1>3 DEF Miss, Goto, HandedOutIsCached, CachedIsOpen, HeldIsPrivate, Holding
    <2>5. NoEngineLeaks'
      BY <1>3 DEF Miss, Goto, NoEngineLeaks, Held, Cached, HeldIsPrivate, Holding
    <2>. QED
      BY <2>1, <2>2, <2>3, <2>4, <2>5 DEF Ownership
  <1>4. ASSUME NEW t \in Threads, Build(t) PROVE Ownership'
    <2>. DEFINE fresh == CHOOSE e \in Engines : e \notin built
    <2>1. fresh \in Engines \ built
      BY <1>4 DEF Build
    <2>2. mine' = [mine EXCEPT ![t] = fresh] /\ built' = built \cup {fresh}
      BY <1>4 DEF Build
    <2>. HIDE DEF fresh
    <2>3. CallsHaveUrls' /\ PoppedIsOpen' /\ DisposedWereBuilt'
      BY <2>1, <2>2, <1>4 DEF Build, Goto, CachedIsOpen, HeldIsPrivate, Holding
    <2>4. HeldIsPrivate'
      BY <2>1, <2>2, <1>4 DEF Build, Goto, HeldIsPrivate, Holding, CachedIsOpen, HandedOutIsCached
    <2>5. CachedIsOpen'
      BY <2>1, <2>2, <1>4 DEF Build, Goto, CachedIsOpen, HeldIsPrivate, Holding
    <2>6. HandedOutIsCached'
      BY <2>1, <2>2, <1>4 DEF Build, Goto, HandedOutIsCached, CachedIsOpen, HeldIsPrivate, Holding
    <2>7. NoEngineLeaks'
      BY <2>1, <2>2, <1>4 DEF Build, Goto, NoEngineLeaks, Held, Cached, HeldIsPrivate, Holding
    <2>. QED
      BY <2>3, <2>4, <2>5, <2>6, <2>7 DEF Ownership
  <1>5. ASSUME NEW t \in Threads, BuildFails(t) PROVE Ownership'
    <2>1. CallsHaveUrls' /\ PoppedIsOpen' /\ DisposedWereBuilt'
      BY <1>5 DEF BuildFails, Leave, Goto, CachedIsOpen, HeldIsPrivate, Holding
    <2>2. HeldIsPrivate'
      BY <1>5 DEF BuildFails, Leave, Goto, HeldIsPrivate, Holding, CachedIsOpen, HandedOutIsCached
    <2>3. CachedIsOpen'
      BY <1>5 DEF BuildFails, Leave, Goto, CachedIsOpen, HeldIsPrivate, Holding
    <2>4. HandedOutIsCached'
      BY <1>5 DEF BuildFails, Leave, Goto, HandedOutIsCached, CachedIsOpen, HeldIsPrivate, Holding
    <2>5. NoEngineLeaks'
      BY <1>5 DEF BuildFails, Leave, Goto, NoEngineLeaks, Held, Cached, HeldIsPrivate, Holding
    <2>. QED
      BY <2>1, <2>2, <2>3, <2>4, <2>5 DEF Ownership
  <1>6. ASSUME NEW t \in Threads, InternWins(t) PROVE Ownership'
    <2>1. CallsHaveUrls' /\ PoppedIsOpen' /\ DisposedWereBuilt'
      BY <1>6 DEF InternWins, Leave, Goto, HandOut, CachedIsOpen, HeldIsPrivate, Holding
    <2>2. HeldIsPrivate'
      BY <1>6 DEF InternWins, Leave, Goto, HandOut, HeldIsPrivate, Holding, CachedIsOpen, HandedOutIsCached
    <2>3. CachedIsOpen'
      BY <1>6 DEF InternWins, Leave, Goto, HandOut, CachedIsOpen, HeldIsPrivate, Holding
    <2>4. HandedOutIsCached'
      BY <1>6 DEF InternWins, Leave, Goto, HandOut, HandedOutIsCached, CachedIsOpen, HeldIsPrivate, Holding
    <2>5. NoEngineLeaks'
      BY <1>6 DEF InternWins, Leave, Goto, HandOut, NoEngineLeaks, Held, Cached, HeldIsPrivate, Holding
    <2>. QED
      BY <2>1, <2>2, <2>3, <2>4, <2>5 DEF Ownership
  <1>7. ASSUME NEW t \in Threads, InternLoses(t) PROVE Ownership'
    <2>1. CallsHaveUrls' /\ PoppedIsOpen' /\ DisposedWereBuilt'
      BY <1>7 DEF InternLoses, Goto, HandOut, CachedIsOpen, HeldIsPrivate, Holding
    <2>2. HeldIsPrivate'
      BY <1>7 DEF InternLoses, Goto, HandOut, HeldIsPrivate, Holding, CachedIsOpen, HandedOutIsCached
    <2>3. HandedOutIsCached'
      BY <1>7 DEF InternLoses, Goto, HandOut, HandedOutIsCached, CachedIsOpen, HeldIsPrivate, Holding
    <2>4. NoEngineLeaks'
      BY <1>7 DEF InternLoses, Goto, HandOut, NoEngineLeaks, Held, Cached, HeldIsPrivate, Holding
    <2>5. CachedIsOpen'
      BY <1>7 DEF InternLoses, Goto, HandOut, CachedIsOpen
    <2>. QED
      BY <2>1, <2>2, <2>3, <2>4, <2>5 DEF Ownership
  <1>8. ASSUME NEW t \in Threads, Dispose(t) PROVE Ownership'
    <2>1. CallsHaveUrls' /\ PoppedIsOpen' /\ DisposedWereBuilt'
      BY <1>8 DEF Dispose, Leave, Goto, CachedIsOpen, HeldIsPrivate, Holding
    <2>2. HeldIsPrivate'
      BY <1>8 DEF Dispose, Leave, Goto, HeldIsPrivate, Holding, CachedIsOpen, HandedOutIsCached
    <2>3. CachedIsOpen'
      BY <1>8 DEF Dispose, Leave, Goto, CachedIsOpen, HeldIsPrivate, Holding
    <2>4. HandedOutIsCached'
      BY <1>8 DEF Dispose, Leave, Goto, HandedOutIsCached, CachedIsOpen, HeldIsPrivate, Holding
    <2>5. NoEngineLeaks'
      BY <1>8 DEF Dispose, Leave, Goto, NoEngineLeaks, Held, Cached, HeldIsPrivate, Holding
    <2>. QED
      BY <2>1, <2>2, <2>3, <2>4, <2>5 DEF Ownership
  <1>9. ASSUME NEW u \in Urls, EvictPop(u) PROVE Ownership'
    <2>1. CallsHaveUrls' /\ PoppedIsOpen' /\ DisposedWereBuilt'
      BY <1>9 DEF EvictPop, CachedIsOpen, HeldIsPrivate, Holding
    <2>2. HeldIsPrivate'
      BY <1>9 DEF EvictPop, HeldIsPrivate, Holding, CachedIsOpen, HandedOutIsCached
    <2>3. CachedIsOpen'
      BY <1>9 DEF EvictPop, CachedIsOpen, HeldIsPrivate, Holding
    <2>4. HandedOutIsCached'
      BY <1>9 DEF EvictPop, HandedOutIsCached, CachedIsOpen, HeldIsPrivate, Holding
    <2>5. NoEngineLeaks'
      BY <1>9 DEF EvictPop, NoEngineLeaks, Held, Cached, HeldIsPrivate, Holding
    <2>. QED
      BY <2>1, <2>2, <2>3, <2>4, <2>5 DEF Ownership
  <1>10. ASSUME EvictDispose PROVE Ownership'
    <2>1. CallsHaveUrls' /\ PoppedIsOpen' /\ DisposedWereBuilt'
      BY <1>10 DEF EvictDispose, CachedIsOpen, HeldIsPrivate, Holding
    <2>2. HeldIsPrivate'
      BY <1>10 DEF EvictDispose, HeldIsPrivate, Holding, CachedIsOpen, HandedOutIsCached
    <2>3. CachedIsOpen'
      BY <1>10 DEF EvictDispose, CachedIsOpen, HeldIsPrivate, Holding
    <2>4. HandedOutIsCached'
      BY <1>10 DEF EvictDispose, HandedOutIsCached, CachedIsOpen, HeldIsPrivate, Holding
    <2>5. NoEngineLeaks'
      BY <1>10 DEF EvictDispose, NoEngineLeaks, Held, Cached, HeldIsPrivate, Holding
    <2>. QED
      BY <2>1, <2>2, <2>3, <2>4, <2>5 DEF Ownership
  <1>11. CASE UNCHANGED vars
    BY <1>11 DEF vars, HeldIsPrivate, Holding, CachedIsOpen, HandedOutIsCached, NoEngineLeaks,
          Held, Cached
  <1>. QED
    BY <1>1, <1>2, <1>3, <1>4, <1>5, <1>6, <1>7, <1>8, <1>9, <1>10, <1>11 DEF Next, Step

-----------------------------------------------------------------------------
(* The strengthened invariant is an invariant of the engine cache.         *)
THEOREM Invariance == Spec => []IInv
  <1>1. IInv /\ [Next]_vars => IInv'
    BY TypeStep, OwnershipStep DEF IInv
  <1>. QED
    BY InitIInv, <1>1, PTL DEF Spec

(* The variables hold what _engine_from_metadata_catalog puts there.       *)
THEOREM TypeCorrect == Spec => []TypeOK
  <1>1. IInv => TypeOK
    BY DEF IInv
  <1>. QED
    BY Invariance, <1>1, PTL

(* Callers of one URL share one engine, whatever their interleaving        *)
(* between the two lock sections.                                          *)
THEOREM OneEnginePerUrl == Spec => []OneOpenEnginePerUrl
  <1>1. IInv => OneOpenEnginePerUrl
    <2>. SUFFICES ASSUME IInv, NEW p \in returned, NEW q \in returned, p[1] = q[1],
                         p[2] \notin disposed \cup {victim}, q[2] \notin disposed \cup {victim}
                  PROVE p[2] = q[2]
      BY DEF OneOpenEnginePerUrl
    <2>1. p[2] = cache[p[1]] /\ q[2] = cache[q[1]]
      BY DEF IInv, Ownership, HandedOutIsCached
    <2>. QED
      BY <2>1
  <1>. QED
    BY Invariance, <1>1, PTL

(* The lookup under the lock returns no disposed engine.                   *)
THEOREM CachedOpen == Spec => []CachedEnginesAreOpen
  <1>1. IInv => CachedEnginesAreOpen
    BY EngineAssumption
       DEF IInv, TypeOK, Ownership, CachedIsOpen, CachedEnginesAreOpen, Cached
  <1>. QED
    BY Invariance, <1>1, PTL

(* Every engine built is cached, held, popped or disposed.                 *)
THEOREM NoLeaks == Spec => []NoEngineLeaks
  <1>1. IInv => NoEngineLeaks
    BY DEF IInv, Ownership
  <1>. QED
    BY Invariance, <1>1, PTL

(* The losing thread disposes an engine that nobody was given.             *)
THEOREM LoserDisposesItsOwn == Spec => OnlyEvictionClosesHandedOut
  <1>1. IInv /\ [Next]_vars =>
           [\A e \in disposed' \ disposed :
               e = victim \/ \A p \in returned : p[2] # e]_vars
    <2>. SUFFICES ASSUME IInv, Next, NEW e \in disposed' \ disposed, e # victim,
                         NEW p \in returned
                  PROVE p[2] # e
      OBVIOUS
    <2>1. PICK t \in Threads : Dispose(t)
      BY DEF Next, Step, Call, Hit, Miss, Build, BuildFails, InternWins, InternLoses,
             EvictPop, EvictDispose
    <2>2. e = mine[t] /\ Holding(t)
      BY <2>1 DEF Dispose, Leave, Goto, Holding
    <2>. QED
      BY <2>1, <2>2 DEF IInv, Ownership, HeldIsPrivate
  <1>. QED
    BY Invariance, <1>1, PTL DEF Spec, OnlyEvictionClosesHandedOut

-----------------------------------------------------------------------------
(* Sessions.                                                               *)

Evaluating == {"opening", "running", "yielded", "exhausted"}

(* Inside _engine_from_metadata_catalog a scan has no reader.              *)
CallsArePlaced ==
    \A t \in Threads :
       /\ pc[t] \in {"lookup", "build", "intern"} => stage[t] = "none"
       /\ pc[t] = "dispose" => stage[t] = "connect"

(* A scan is in a query, its own, exactly while it is evaluated.           *)
QueriesArePlaced ==
    \A t \in Threads :
       /\ stage[t] \in Evaluating => t \in query[t]
       /\ stage[t] \notin Evaluating => query[t] = {}

(* Only a dispose replaces a pool.                                         *)
OrphansAreDisposed == \A t \in orphans : engine[t] \in disposed

(* A pool has lent what is held, and only open readers outlive theirs.     *)
PoolsCounted ==
    /\ LentIsHeld
    /\ out \in [Engines -> 0..Capacity]
    /\ orphans \subseteq Open

SInv ==
    /\ SessionTypeOK
    /\ CallsArePlaced
    /\ QueriesArePlaced
    /\ OrphansAreDisposed
    /\ LentIsHeld

-----------------------------------------------------------------------------
(* A session's steps are the cache's.                                      *)
LEMMA StepOfTheCache == [SessionNext]_allVars => [Next]_vars
  BY DEF SessionNext, Runs, StartCall, ResolveEngine, EnterCall, ReturnFrame, CallRaises,
         CallRefused, DropFrame, Collect, EnterGenerator, Yield, Resume, Exhaust, Deliver,
         StopEarly, ReadRaises, EndQuery, TimesOut, Evict, DisposeVictim, Next, allVars, vars

LEMMA CacheInvariant == SessionSpec => []IInv /\ [][Next]_vars
  <1>1. SessionInit => Init
    BY DEF SessionInit
  <1>. QED
    BY <1>1, StepOfTheCache, Invariance, PTL DEF SessionSpec, Spec

-----------------------------------------------------------------------------
(* The readers counted against a pool.                                     *)
Users(e) == {t \in Open \ orphans : engine[t] = e}

LEMMA UsersAreFinite ==
  ASSUME NEW e PROVE IsFiniteSet(Users(e)) /\ Cardinality(Users(e)) \in Nat
  <1>1. Users(e) \subseteq Threads /\ IsFiniteSet(Threads)
    BY SessionAssumption DEF Users, Open
  <1>2. IsFiniteSet(Users(e))
    BY <1>1, FS_Subset
  <1>. QED
    BY <1>2, FS_CardinalityType

(* When the readers of S leave and no other changes, the count is right.   *)
LEMMA ExitGivesBack ==
  ASSUME NEW S \in SUBSET Threads, SInv, Exit(S), Open' = Open \ S,
         \A t \in Open \ S : engine'[t] = engine[t]
  PROVE  PoolsCounted'
  <1>1. ASSUME NEW e \in Engines
        PROVE  out'[e] = Cardinality(Users(e)') /\ out'[e] \in 0..Capacity
    <2>. DEFINE gone == {t \in (S \cap Open) \ orphans : engine[t] = e}
    <2>1. Users(e)' = Users(e) \ gone /\ Users(e) \cap gone = gone
      BY DEF Exit, Users
    <2>2. IsFiniteSet(Users(e)) /\ Cardinality(Users(e)) \in Nat
      BY UsersAreFinite
    <2>7. Cardinality(Users(e)') \in Nat
      BY <2>1, <2>2, FS_Difference, FS_CardinalityType
    <2>3. IsFiniteSet(gone) /\ Cardinality(gone) \in Nat
      BY <2>1, <2>2, FS_Subset, FS_CardinalityType
    <2>4. Cardinality(Users(e)') = Cardinality(Users(e)) - Cardinality(gone)
      BY <2>1, <2>2, FS_Difference
    <2>5. out[e] = Cardinality(Users(e)) /\ out[e] \in 0..Capacity
      BY DEF SInv, LentIsHeld, SessionTypeOK, Users
    <2>6. out'[e] = out[e] - Cardinality(gone)
      BY DEF Exit
    <2>. QED
      BY <2>2, <2>3, <2>4, <2>5, <2>6, <2>7, SessionAssumption
  <1>2. out' = [e \in Engines |-> out'[e]]
    BY DEF Exit
  <1>3. orphans' \subseteq Open'
    BY DEF Exit, SInv, SessionTypeOK
  <1>. QED
    BY <1>1, <1>2, <1>3 DEF PoolsCounted, LentIsHeld, Users

(* When a reader gets a connection, the pool counts it.                    *)
LEMMA EnterTakes ==
  ASSUME NEW t \in Threads, SInv, NEW from, NEW to \in {"reading", "running"},
         from \in {"connect", "opening"}, Enter(t, from, to), UNCHANGED <<engine, orphans>>
  PROVE  PoolsCounted'
  <1>1. Open' = Open \cup {t} /\ t \notin Open
    BY DEF Enter, Open, SInv, SessionTypeOK
  <1>2. engine[t] \in Engines
    BY DEF Enter, SInv, SessionTypeOK
  <1>3. ASSUME NEW e \in Engines
        PROVE  out'[e] = Cardinality(Users(e)') /\ out'[e] \in 0..Capacity
    <2>1. out[e] = Cardinality(Users(e)) /\ out[e] \in 0..Capacity
      BY DEF SInv, LentIsHeld, SessionTypeOK, Users
    <2>2. CASE e = engine[t]
      <3>1. Users(e)' = Users(e) \cup {t} /\ t \notin Users(e)
        BY <1>1, <2>2 DEF Users, SInv, SessionTypeOK
      <3>2. Cardinality(Users(e)') = Cardinality(Users(e)) + 1
        BY <3>1, UsersAreFinite, FS_AddElement
      <3>3. out'[e] = out[e] + 1 /\ out[e] # Capacity
        BY <2>2, <1>2 DEF Enter, Full, SInv, SessionTypeOK
      <3>. QED
        BY <3>2, <3>3, <2>1, SessionAssumption
    <2>3. CASE e # engine[t]
      <3>1. Users(e)' = Users(e)
        BY <1>1, <2>3 DEF Users
      <3>2. out'[e] = out[e]
        BY <2>3, <1>2 DEF Enter, SInv, SessionTypeOK
      <3>. QED
        BY <3>1, <3>2, <2>1
    <2>. QED
      BY <2>2, <2>3
  <1>4. out' = [e \in Engines |-> out'[e]]
    BY DEF Enter, SInv, SessionTypeOK
  <1>. QED
    BY <1>1, <1>3, <1>4 DEF PoolsCounted, LentIsHeld, Users, SInv, SessionTypeOK

(* When readers and pools are left alone, so is the count.                 *)
LEMMA OthersKeep ==
  ASSUME SInv, UNCHANGED <<out, orphans>>, Open' = Open,
         \A t \in Open : engine'[t] = engine[t]
  PROVE  PoolsCounted'
  <1>1. ASSUME NEW e \in Engines PROVE Users(e)' = Users(e)
    BY DEF Users
  <1>. QED
    BY <1>1 DEF PoolsCounted, LentIsHeld, Users, SInv, SessionTypeOK

-----------------------------------------------------------------------------
(* What the cache returns to a scan is an engine.                          *)
LEMMA EngineHandedOut ==
  ASSUME NEW t \in Threads, IInv, TypeOK', SInv, Step(t), HandsOut(t)
  PROVE  stage[t] = "none" /\ cache'[url[t]] \in Engines
  <1>1. stage[t] = "none"
    BY DEF HandsOut, SInv, CallsArePlaced
  <1>2. url[t] \in Urls
    BY DEF HandsOut, IInv, Ownership, CallsHaveUrls
  <1>3. CASE pc[t] = "lookup"
    <2>1. Hit(t)
      BY <1>3 DEF Step, HandsOut, Miss, Build, BuildFails, InternWins, InternLoses, Dispose,
                  Leave, Goto
    <2>. QED
      BY <1>1, <1>2, <2>1 DEF Hit, IInv, TypeOK
  <1>4. CASE pc[t] = "intern"
    <2>1. InternWins(t) \/ InternLoses(t)
      BY <1>4 DEF Step, Hit, Miss, Build, BuildFails, Dispose, Leave, Goto
    <2>2. mine[t] \in Engines
      BY <1>4 DEF IInv, Ownership, HeldIsPrivate, Holding, TypeOK
    <2>. QED
      BY <1>1, <1>2, <2>1, <2>2 DEF InternWins, InternLoses, IInv, TypeOK
  <1>. QED
    BY <1>3, <1>4 DEF HandsOut

(* The count of every pool, and of the readers whose pool was replaced,    *)
(* stays right through every step.                                         *)
LEMMA LentStep ==
  ASSUME IInv, TypeOK', SInv, [SessionNext]_allVars
  PROVE  PoolsCounted'
  <1>1. ASSUME NEW t \in Threads, StartCall(t)
        PROVE  PoolsCounted'
    BY <1>1, OthersKeep DEF StartCall, sessionVars, Open
  <1>2. ASSUME NEW t \in Threads, ResolveEngine(t)
        PROVE  PoolsCounted'
    <2>1. Open' = Open /\ \A u \in Open : engine'[u] = engine[u]
      <3>1. CASE HandsOut(t)
        <4>1. stage[t] = "none" /\ Step(t)
          BY <1>2, <3>1, EngineHandedOut DEF ResolveEngine
        <4>. QED
          BY <1>2, <3>1, <4>1 DEF ResolveEngine, Open, SInv, SessionTypeOK
      <3>2. CASE ~HandsOut(t)
        BY <1>2, <3>2 DEF ResolveEngine, Open
      <3>. QED
        BY <3>1, <3>2
    <2>. QED
      BY <1>2, <2>1, OthersKeep DEF ResolveEngine
  <1>3. ASSUME NEW t \in Threads, EnterCall(t)
        PROVE  PoolsCounted'
    BY <1>3, EnterTakes DEF EnterCall
  <1>4. ASSUME NEW t \in Threads, ReturnFrame(t) \/ CallRaises(t) \/ Exhaust(t)
        PROVE  PoolsCounted'
    <2>1. Exit({t}) /\ Open' = Open \ {t}
      BY <1>4 DEF ReturnFrame, CallRaises, Exhaust, Goes, Open
    <2>2. \A u \in Open \ {t} : engine'[u] = engine[u]
      BY <1>4 DEF ReturnFrame, CallRaises, Exhaust, Forget, Open, SInv, SessionTypeOK
    <2>. QED
      BY <2>1, <2>2, ExitGivesBack
  <1>5. ASSUME NEW t \in Threads, stage[t] \in {"connect", "framed"}, Goes({t}, "none"), Forget(t),
               UNCHANGED <<out, orphans>>
        PROVE  PoolsCounted'
    <2>1. Open' = Open /\ \A u \in Open : engine'[u] = engine[u]
      BY <1>5 DEF Goes, Forget, Open, SInv, SessionTypeOK
    <2>. QED
      BY <1>5, <2>1, OthersKeep
  <1>6. ASSUME NEW Q \in SUBSET Threads, Collect(Q)
        PROVE  PoolsCounted'
    <2>1. Open' = Open
      BY <1>6 DEF Collect, Framed, Goes, Open
    <2>. QED
      BY <1>6, <2>1, OthersKeep DEF Collect
  <1>7. ASSUME NEW t \in Threads, EnterGenerator(t)
        PROVE  PoolsCounted'
    BY <1>7, EnterTakes DEF EnterGenerator
  <1>8. ASSUME NEW t \in Threads, Yield(t) \/ Resume(t)
        PROVE  PoolsCounted'
    <2>1. Open' = Open /\ UNCHANGED <<out, orphans, engine>>
      BY <1>8 DEF Yield, Resume, Goes, Open
    <2>. QED
      BY <2>1, OthersKeep
  <1>9. ASSUME NEW t \in Threads, EndQuery(query[t])
        PROVE  PoolsCounted'
    <2>1. query[t] \in SUBSET Threads
      BY DEF SInv, SessionTypeOK
    <2>2. Exit(query[t]) /\ Open' = Open \ query[t] /\ engine' = engine
      BY <1>9, <2>1 DEF EndQuery, Goes, Open
    <2>. QED
      BY <2>1, <2>2, ExitGivesBack
  <1>10. ASSUME NEW u \in Urls, Evict(u)
         PROVE  PoolsCounted'
    BY <1>10, OthersKeep DEF Evict, sessionVars, Open
  <1>11. ASSUME DisposeVictim
         PROVE  PoolsCounted'
    <2>1. Open' = Open /\ orphans' \subseteq Open'
      BY <1>11 DEF DisposeVictim, Open, SInv, SessionTypeOK
    <2>2. ASSUME NEW e \in Engines
          PROVE  out'[e] = Cardinality(Users(e)')
      <3>1. CASE e = victim
        <4>1. Users(e)' = {}
          BY <1>11, <2>1, <3>1 DEF DisposeVictim, Users
        <4>. QED
          BY <1>11, <3>1, <4>1, FS_EmptySet DEF DisposeVictim, SInv, SessionTypeOK
      <3>2. CASE e # victim
        <4>1. Users(e)' = Users(e)
          BY <1>11, <2>1, <3>2 DEF DisposeVictim, Users
        <4>. QED
          BY <1>11, <3>2, <4>1 DEF DisposeVictim, SInv, SessionTypeOK, LentIsHeld, Users
      <3>. QED
        BY <3>1, <3>2
    <2>3. out' \in [Engines -> 0..Capacity]
      <3>1. 0 \in 0..Capacity
        BY SessionAssumption
      <3>. QED
        BY <1>11, <3>1 DEF DisposeVictim, SInv, SessionTypeOK
    <2>. QED
      BY <2>1, <2>2, <2>3 DEF PoolsCounted, LentIsHeld, Users
  <1>12. CASE UNCHANGED allVars
    BY <1>12, OthersKeep DEF allVars, sessionVars, Open
  <1>13. ASSUME NEW t \in Threads, Deliver(t) \/ StopEarly(t) \/ ReadRaises(t) \/ TimesOut(t)
         PROVE  PoolsCounted'
    BY <1>5, <1>9, <1>13 DEF Deliver, StopEarly, ReadRaises, TimesOut
  <1>14. ASSUME NEW t \in Threads, Runs(t) PROVE PoolsCounted'
    BY <1>14, <1>2, <1>3, <1>4, <1>7, <1>8, <1>13 DEF Runs
  <1>15. ASSUME NEW t \in Threads, CallRefused(t) \/ DropFrame(t) PROVE PoolsCounted'
    BY <1>15, <1>5 DEF CallRefused, DropFrame
  <1>16. ASSUME NEW t \in Threads, StopEarly(t) \/ ReadRaises(t) PROVE PoolsCounted'
    BY <1>16, <1>13
  <1>. QED
    BY <1>1, <1>6, <1>10, <1>11, <1>12, <1>14, <1>15, <1>16 DEF SessionNext

-----------------------------------------------------------------------------
(* Where the scans are: the rest of the types, and CallsArePlaced.         *)
Placed ==
    /\ stage \in [Threads -> Stages]
    /\ engine \in [Threads -> Engines \cup {None}]
    /\ left \in [Threads -> 0..MaxBatches]
    /\ \A t \in Threads : (stage[t] = "none") <=> (engine[t] = None)
    /\ CallsArePlaced

Queried ==
    /\ query \in [Threads -> SUBSET Threads]
    /\ \A t, u \in Threads : u \in query[t] => query[u] = query[t]
    /\ QueriesArePlaced

LEMMA SInvParts == SInv <=> PoolsCounted /\ Placed /\ Queried /\ OrphansAreDisposed
  BY DEF SInv, SessionTypeOK, PoolsCounted, Placed, Queried

(* A scan past the cache leaves the cache's variables alone.               *)
LEMMA StageMoves ==
  ASSUME Placed, UNCHANGED <<pc, engine, left>>, NEW S \in SUBSET Threads,
         NEW to \in Stages \ {"none"}, Goes(S, to),
         \A t \in S : stage[t] # "none" /\ pc[t] = "idle"
  PROVE  Placed'
  BY DEF Placed, Goes, CallsArePlaced

LEMMA PlacedStep ==
  ASSUME IInv, TypeOK', SInv, Placed, Queried, [SessionNext]_allVars
  PROVE  Placed'
  <1>. USE DEF Stages
  <1>1. ASSUME NEW t \in Threads, StartCall(t) PROVE Placed'
    BY <1>1 DEF StartCall, Call, Goto, sessionVars, Placed, CallsArePlaced, IInv, TypeOK
  <1>2. ASSUME NEW t \in Threads, ResolveEngine(t) PROVE Placed'
    <2>1. CASE HandsOut(t)
      <3>1. stage[t] = "none" /\ cache'[url[t]] \in Engines /\ Step(t)
        BY <1>2, <2>1, EngineHandedOut DEF ResolveEngine
      <3>2. /\ stage' = [stage EXCEPT ![t] = "connect"]
            /\ engine' = [engine EXCEPT ![t] = cache'[url[t]]]
            /\ left' = left
        BY <1>2, <2>1 DEF ResolveEngine
      <3>3. pc' = [pc EXCEPT ![t] = "idle"] \/ pc' = [pc EXCEPT ![t] = "dispose"]
        BY <2>1, <3>1 DEF HandsOut, Step, Hit, Miss, Build, BuildFails, InternWins, InternLoses,
                          Dispose, Leave, Goto
      <3>. QED
        BY <3>1, <3>2, <3>3, EngineAssumption DEF Placed, CallsArePlaced, IInv, TypeOK
    <2>2. CASE ~HandsOut(t)
      <3>1. UNCHANGED <<stage, engine, left>>
        BY <1>2, <2>2 DEF ResolveEngine
      <3>2. \/ pc[t] \in {"lookup", "build"} /\ \E to \in {"build", "intern", "idle"} :
                  pc' = [pc EXCEPT ![t] = to]
            \/ pc' = [pc EXCEPT ![t] = "idle"]
        BY <1>2, <2>2 DEF ResolveEngine, HandsOut, Step, Hit, Miss, Build, BuildFails,
                          InternWins, InternLoses, Dispose, Leave, Goto
      <3>. QED
        BY <3>1, <3>2 DEF Placed, CallsArePlaced, IInv, TypeOK
    <2>. QED
      BY <2>1, <2>2
  <1>3. ASSUME NEW t \in Threads, EnterCall(t) \/ EnterGenerator(t) PROVE Placed'
    BY <1>3 DEF EnterCall, EnterGenerator, Enter, vars, Placed, CallsArePlaced
  <1>4. ASSUME NEW t \in Threads, ReturnFrame(t) \/ Exhaust(t) PROVE Placed'
    <2>1. pc[t] = "idle" /\ stage[t] # "none"
      BY <1>4 DEF ReturnFrame, Exhaust, Placed, CallsArePlaced, IInv, TypeOK
    <2>. QED
      BY <1>4, <2>1, StageMoves DEF ReturnFrame, Exhaust, vars
  <1>5. ASSUME NEW t \in Threads, stage[t] \in {"connect", "framed", "reading"}, pc[t] = "idle",
               Goes({t}, "none"), Forget(t), UNCHANGED <<pc, left>>
        PROVE  Placed'
    BY <1>5 DEF Goes, Forget, Placed, CallsArePlaced
  <1>6. ASSUME NEW t \in Threads, CallRefused(t) \/ DropFrame(t) \/ CallRaises(t) PROVE Placed'
    <2>1. pc[t] = "idle"
      BY <1>6 DEF CallRefused, DropFrame, CallRaises, Placed, CallsArePlaced, IInv, TypeOK
    <2>. QED
      BY <1>5, <1>6, <2>1 DEF CallRefused, DropFrame, CallRaises, vars
  <1>7. ASSUME NEW Q \in SUBSET Threads, Collect(Q) PROVE Placed'
    <2>1. \A t \in Q : pc[t] = "idle" /\ stage[t] = "framed"
      BY <1>7 DEF Collect, Framed, Placed, CallsArePlaced, IInv, TypeOK
    <2>2. left' \in [Threads -> 0..MaxBatches]
      BY <1>7 DEF Collect, Placed
    <2>. QED
      BY <1>7, <2>1, <2>2 DEF Collect, Goes, vars, Placed, CallsArePlaced
  <1>8. ASSUME NEW t \in Threads, Yield(t) PROVE Placed'
    <2>1. left' \in [Threads -> 0..MaxBatches]
      BY <1>8, SessionAssumption DEF Yield, Placed
    <2>. QED
      BY <1>8, <2>1 DEF Yield, Goes, vars, Placed, CallsArePlaced
  <1>9. ASSUME NEW t \in Threads, Resume(t) PROVE Placed'
    BY <1>9 DEF Resume, Goes, vars, Placed, CallsArePlaced
  <1>10. ASSUME NEW t \in Threads, EndQuery(query[t]) PROVE Placed'
    <2>1. query[t] \subseteq Threads /\ \A u \in query[t] : stage[u] \in Evaluating
      BY DEF Queried, QueriesArePlaced
    <2>2. \A u \in query[t] : pc[u] = "idle"
      BY <2>1 DEF Evaluating, Placed, CallsArePlaced, IInv, TypeOK
    <2>3. left' \in [Threads -> 0..MaxBatches]
      BY <1>10, SessionAssumption DEF EndQuery, Placed
    <2>. QED
      BY <1>10, <2>1, <2>2, <2>3 DEF EndQuery, Goes, vars, Placed, CallsArePlaced, Evaluating
  <1>11. ASSUME NEW t \in Threads, Deliver(t) \/ StopEarly(t) \/ ReadRaises(t) \/ TimesOut(t)
         PROVE  Placed'
    BY <1>5, <1>10, <1>11 DEF Deliver, StopEarly, ReadRaises, TimesOut, vars
  <1>12. ASSUME NEW u \in Urls, Evict(u) PROVE Placed'
    BY <1>12 DEF Evict, EvictPop, sessionVars, Placed, CallsArePlaced
  <1>13. CASE DisposeVictim
    BY <1>13 DEF DisposeVictim, EvictDispose, Placed, CallsArePlaced
  <1>14. CASE UNCHANGED allVars
    BY <1>14 DEF allVars, vars, sessionVars, Placed, CallsArePlaced
  <1>15. ASSUME NEW t \in Threads, Runs(t) PROVE Placed'
    BY <1>2, <1>3, <1>4, <1>6, <1>8, <1>9, <1>11, <1>15 DEF Runs
  <1>16. ASSUME NEW t \in Threads, StopEarly(t) \/ ReadRaises(t) PROVE Placed'
    BY <1>11, <1>16
  <1>17. ASSUME NEW t \in Threads, CallRefused(t) \/ DropFrame(t) PROVE Placed'
    BY <1>6, <1>17
  <1>. QED
    BY <1>1, <1>7, <1>12, <1>13, <1>14, <1>15, <1>16, <1>17 DEF SessionNext

LEMMA QueriedStep ==
  ASSUME IInv, TypeOK', SInv, Placed, Queried, [SessionNext]_allVars
  PROVE  Queried'
  <1>. USE DEF Stages, Evaluating
  <1>1. ASSUME UNCHANGED query, NEW S \in SUBSET Threads, NEW to, Goes(S, to),
               \A t \in S : stage[t] \in Evaluating <=> to \in Evaluating
        PROVE  Queried'
    BY <1>1 DEF Goes, Queried, QueriesArePlaced
  <1>2. ASSUME UNCHANGED query, NEW t \in Threads, NEW to,
               stage' = [stage EXCEPT ![t] = to], stage[t] \in Evaluating <=> to \in Evaluating
        PROVE  Queried'
    BY <1>2 DEF Queried, QueriesArePlaced, Placed
  <1>3. ASSUME UNCHANGED <<stage, query>> PROVE Queried'
    BY <1>3 DEF Queried, QueriesArePlaced
  <1>4. ASSUME NEW t \in Threads, StartCall(t) PROVE Queried'
    BY <1>3, <1>4 DEF StartCall, sessionVars
  <1>5. ASSUME NEW t \in Threads, ResolveEngine(t) PROVE Queried'
    <2>1. CASE HandsOut(t)
      <3>1. stage[t] = "none"
        BY <2>1, <1>5, EngineHandedOut DEF ResolveEngine
      <3>. QED
        BY <1>2, <1>5, <2>1, <3>1 DEF ResolveEngine
    <2>2. CASE ~HandsOut(t)
      BY <1>3, <1>5, <2>2 DEF ResolveEngine
    <2>. QED
      BY <2>1, <2>2
  <1>6. ASSUME NEW t \in Threads, EnterCall(t) \/ EnterGenerator(t) PROVE Queried'
    BY <1>2, <1>6 DEF EnterCall, EnterGenerator, Enter
  <1>7. ASSUME NEW t \in Threads, ReturnFrame(t) \/ CallRaises(t) \/ CallRefused(t) \/ DropFrame(t)
        PROVE  Queried'
    BY <1>1, <1>7 DEF ReturnFrame, CallRaises, CallRefused, DropFrame
  <1>8. ASSUME NEW t \in Threads, Yield(t) \/ Resume(t) \/ Exhaust(t) PROVE Queried'
    BY <1>1, <1>8 DEF Yield, Resume, Exhaust
  <1>9. ASSUME NEW Q \in SUBSET Threads, Collect(Q) PROVE Queried'
    <2>1. \A t \in Q : query[t] = {}
      BY <1>9 DEF Collect, Framed, Queried, QueriesArePlaced
    <2>2. \A t \in Threads : query[t] # {} => query[t] \cap Q = {}
      BY <2>1 DEF Queried
    <2>. QED
      BY <1>9, <2>1, <2>2 DEF Collect, Goes, Queried, QueriesArePlaced
  <1>10. ASSUME NEW t \in Threads, EndQuery(query[t]) PROVE Queried'
    <2>1. \A u \in Threads \ query[t] : query[u] \cap query[t] = {}
      BY DEF Queried, QueriesArePlaced
    <2>. QED
      BY <1>10, <2>1 DEF EndQuery, Goes, Queried, QueriesArePlaced
  <1>11. ASSUME NEW t \in Threads, Deliver(t) \/ StopEarly(t) \/ ReadRaises(t) \/ TimesOut(t)
         PROVE  Queried'
    BY <1>1, <1>10, <1>11 DEF Deliver, StopEarly, ReadRaises, TimesOut
  <1>12. ASSUME NEW u \in Urls, Evict(u) PROVE Queried'
    BY <1>3, <1>12 DEF Evict, sessionVars
  <1>13. CASE DisposeVictim
    BY <1>3, <1>13 DEF DisposeVictim
  <1>14. CASE UNCHANGED allVars
    BY <1>3, <1>14 DEF allVars, sessionVars
  <1>15. ASSUME NEW t \in Threads, Runs(t) PROVE Queried'
    BY <1>5, <1>6, <1>7, <1>8, <1>11, <1>15 DEF Runs
  <1>16. ASSUME NEW t \in Threads, StopEarly(t) \/ ReadRaises(t) PROVE Queried'
    BY <1>11, <1>16
  <1>17. ASSUME NEW t \in Threads, CallRefused(t) \/ DropFrame(t) PROVE Queried'
    BY <1>7, <1>17
  <1>. QED
    BY <1>4, <1>9, <1>12, <1>13, <1>14, <1>15, <1>16, <1>17 DEF SessionNext

(* An engine is disposed for good, and a reader keeps its engine.          *)
LEMMA OrphansStep ==
  ASSUME IInv, TypeOK', SInv, Placed, [SessionNext]_allVars
  PROVE  OrphansAreDisposed'
  <1>1. disposed \subseteq disposed'
    BY StepOfTheCache
       DEF Next, Call, Step, Hit, Miss, Build, BuildFails, InternWins, InternLoses, Dispose,
           EvictPop, EvictDispose, Leave, vars
  <1>2. ASSUME orphans' \subseteq orphans, \A t \in orphans' : engine'[t] = engine[t]
        PROVE  OrphansAreDisposed'
    BY <1>1, <1>2 DEF OrphansAreDisposed, SInv
  <1>3. ASSUME NEW t \in Threads, ResolveEngine(t) PROVE OrphansAreDisposed'
    <2>1. CASE HandsOut(t)
      <3>1. t \notin orphans
        BY <1>3, <2>1, EngineHandedOut DEF ResolveEngine, SInv, SessionTypeOK, Open
      <3>2. orphans' = orphans /\ engine' = [engine EXCEPT ![t] = cache'[url[t]]]
        BY <1>3, <2>1 DEF ResolveEngine
      <3>3. \A u \in orphans' : engine'[u] = engine[u]
        BY <3>1, <3>2 DEF Placed, SInv, SessionTypeOK, Open
      <3>. QED
        BY <1>2, <3>2, <3>3
    <2>2. CASE ~HandsOut(t)
      BY <1>2, <1>3, <2>2 DEF ResolveEngine
    <2>. QED
      BY <2>1, <2>2
  <1>4. ASSUME NEW t \in Threads, CallRaises(t) PROVE OrphansAreDisposed'
    BY <1>2, <1>4 DEF CallRaises, Exit, Forget, Placed, SInv, SessionTypeOK, Open
  <1>5. ASSUME NEW t \in Threads, stage[t] \in {"connect", "framed"}, Forget(t), UNCHANGED orphans
        PROVE  OrphansAreDisposed'
    BY <1>2, <1>5 DEF Forget, Placed, SInv, SessionTypeOK, Open
  <1>6. ASSUME NEW S, Exit(S), UNCHANGED engine PROVE OrphansAreDisposed'
    BY <1>2, <1>6 DEF Exit
  <1>7. ASSUME UNCHANGED <<engine, orphans>> PROVE OrphansAreDisposed'
    BY <1>2, <1>7
  <1>8. CASE DisposeVictim
    BY <1>1, <1>8 DEF DisposeVictim, EvictDispose, OrphansAreDisposed, SInv
  <1>9. ASSUME NEW t \in Threads, Runs(t) PROVE OrphansAreDisposed'
    <2>1. CASE EnterCall(t) \/ EnterGenerator(t) \/ Yield(t) \/ Resume(t)
      BY <1>7, <2>1 DEF EnterCall, EnterGenerator, Yield, Resume
    <2>2. CASE ReturnFrame(t) \/ Exhaust(t) \/ Deliver(t)
      BY <1>6, <2>2 DEF ReturnFrame, Exhaust, Deliver, EndQuery
    <2>3. CASE TimesOut(t)
      BY <1>5, <1>6, <2>3 DEF TimesOut, EndQuery
    <2>. QED
      BY <1>3, <1>4, <1>9, <2>1, <2>2, <2>3 DEF Runs
  <1>10. ASSUME NEW t \in Threads, CallRefused(t) \/ DropFrame(t) PROVE OrphansAreDisposed'
    BY <1>5, <1>10 DEF CallRefused, DropFrame
  <1>11. ASSUME NEW t \in Threads, StopEarly(t) \/ ReadRaises(t) PROVE OrphansAreDisposed'
    BY <1>6, <1>11 DEF StopEarly, ReadRaises, EndQuery
  <1>12. ASSUME NEW t \in Threads, StartCall(t) PROVE OrphansAreDisposed'
    BY <1>7, <1>12 DEF StartCall, sessionVars
  <1>13. ASSUME NEW Q \in SUBSET Threads, Collect(Q) PROVE OrphansAreDisposed'
    BY <1>7, <1>13 DEF Collect
  <1>14. ASSUME NEW u \in Urls, Evict(u) PROVE OrphansAreDisposed'
    BY <1>7, <1>14 DEF Evict, sessionVars
  <1>15. CASE UNCHANGED allVars
    BY <1>7, <1>15 DEF allVars, sessionVars
  <1>. QED
    BY <1>8, <1>9, <1>10, <1>11, <1>12, <1>13, <1>14, <1>15 DEF SessionNext

-----------------------------------------------------------------------------
LEMMA InitSInv == SessionInit => SInv
  <1>. SUFFICES ASSUME SessionInit PROVE SInv
    OBVIOUS
  <1>1. Open = {} /\ \A e \in Engines : out[e] = 0
    BY DEF SessionInit, Open
  <1>2. LentIsHeld
    BY <1>1, FS_EmptySet DEF LentIsHeld
  <1>3. SessionTypeOK
    BY <1>1, SessionAssumption DEF SessionInit, SessionTypeOK, Stages
  <1>. QED
    BY <1>2, <1>3 DEF SessionInit, Init, SInv, CallsArePlaced, QueriesArePlaced,
                      OrphansAreDisposed, Evaluating

LEMMA SInvStep == IInv /\ IInv' /\ SInv /\ [SessionNext]_allVars => SInv'
  <1>. SUFFICES ASSUME IInv, IInv', SInv, [SessionNext]_allVars PROVE SInv'
    OBVIOUS
  <1>1. TypeOK' /\ Placed /\ Queried
    BY SInvParts DEF IInv
  <1>2. PoolsCounted' /\ Placed' /\ Queried' /\ OrphansAreDisposed'
    BY <1>1, LentStep, PlacedStep, QueriedStep, OrphansStep
  <1>. QED
    BY <1>2 DEF SInv, SessionTypeOK, PoolsCounted, Placed, Queried

(* The strengthened invariant, together with the cache's.                  *)
THEOREM SessionInvariance == SessionSpec => [](IInv /\ SInv)
  <1>. QED
    BY CacheInvariant, InitSInv, SInvStep, PTL DEF SessionSpec

(* Scans, queries and pools hold what scan_ducklake and the pool put there,*)
(* and no pool lends more than it has.                                     *)
THEOREM SessionTypesCorrect == SessionSpec => []SessionTypeOK
  <1>1. SInv => SessionTypeOK
    BY DEF SInv
  <1>. QED
    BY SessionInvariance, <1>1, PTL

(* Every way out of a with block, and of a suspended generator, gives the  *)
(* connection back once and to its own pool (CatalogReader.__exit__).      *)
THEOREM ConnectionsComeBack == SessionSpec => []LentIsHeld
  <1>1. SInv => LentIsHeld
    BY DEF SInv
  <1>. QED
    BY SessionInvariance, <1>1, PTL

(* A wait for a connection times out only when as many other scans as the  *)
(* pool has connections have readers open on the same engine.              *)
THEOREM NoIdleTimeouts == SessionSpec => TimeoutsAreEarned
  <1>1. ASSUME SInv, NEW t \in Threads, TimesOut(t)
        PROVE  Cardinality({u \in Open \ {t} : engine[u] = engine[t]}) >= Capacity
    <2>. DEFINE others == {u \in Open \ {t} : engine[u] = engine[t]}
    <2>1. engine[t] \in Engines /\ t \notin Open
      BY <1>1 DEF TimesOut, SInv, SessionTypeOK, Open
    <2>2. Cardinality(Users(engine[t])) = Capacity
      BY <1>1, <2>1 DEF TimesOut, Full, SInv, LentIsHeld, Users
    <2>3. Users(engine[t]) \subseteq others
      BY <2>1 DEF Users
    <2>4. IsFiniteSet(others)
      <3>1. others \subseteq Threads /\ IsFiniteSet(Threads)
        BY SessionAssumption DEF Open
      <3>. QED
        BY <3>1, FS_Subset
    <2>5. Cardinality(Users(engine[t])) <= Cardinality(others) /\ Cardinality(others) \in Nat
      BY <2>3, <2>4, FS_Subset, FS_CardinalityType
    <2>. QED
      BY <2>2, <2>5, SessionAssumption
  <1>2. SInv /\ [SessionNext]_allVars =>
           [\A t \in Threads : TimesOut(t) =>
               Cardinality({u \in Open \ {t} : engine[u] = engine[t]}) >= Capacity]_allVars
    BY <1>1
  <1>. QED
    BY SessionInvariance, <1>2, PTL DEF SessionSpec, TimeoutsAreEarned

(* When URLs of one lake are one URL, its scans share the limit of one     *)
(* pool, however many threads raced to build the engine and whatever was   *)
(* evicted under open readers.                                             *)
THEOREM OneLimitPerLake ==
  ASSUME \A u, w \in Urls : LakeOf[u] = LakeOf[w] => u = w
  PROVE  SessionSpec => []OnePoolPerLake
  <1>1. ASSUME IInv, SInv PROVE OnePoolPerLake
    <2>. SUFFICES ASSUME NEW l \in Lakes
                  PROVE  Cardinality({t \in Open : engine[t] \in EnginesOf(l)}) <= Capacity
      BY DEF OnePoolPerLake
    <2>. DEFINE readers == {t \in Open : engine[t] \in EnginesOf(l)}
    <2>1. CASE readers = {}
      BY <2>1, FS_EmptySet, SessionAssumption
    <2>2. CASE readers # {}
      <3>1. PICK t \in readers : TRUE
        BY <2>2
      <3>2. engine[t] \in Engines
        BY <1>1, <3>1 DEF SInv, SessionTypeOK, Open
      <3>3. \A e \in EnginesOf(l) : e = engine[t]
        BY <1>1, <3>1 DEF EnginesOf, IInv, TypeOK, Ownership, HandedOutIsCached
      <3>4. engine[t] \notin disposed
        BY <3>1 DEF EnginesOf
      <3>5. readers = Users(engine[t])
        BY <1>1, <3>1, <3>3, <3>4 DEF Users, SInv, OrphansAreDisposed
      <3>6. out[engine[t]] = Cardinality(Users(engine[t])) /\ out[engine[t]] \in 0..Capacity
        BY <1>1, <3>2 DEF SInv, SessionTypeOK, LentIsHeld, Users
      <3>7. Cardinality(readers) = out[engine[t]]
        BY <3>5, <3>6
      <3>. QED
        BY <3>6, <3>7, SessionAssumption
    <2>. QED
      BY <2>1, <2>2
  <1>. QED
    BY SessionInvariance, <1>1, PTL

=============================================================================
