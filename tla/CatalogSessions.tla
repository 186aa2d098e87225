--------------------------- MODULE CatalogSessions ---------------------------
(***************************************************************************)
(* The connections of scans: which reader has one, from which pool, and    *)
(* until when.  A call gets its engine from the cache of EngineCache,      *)
(* opens one CatalogReader for the eager phase and closes it before the    *)
(* LazyFrame is returned; the frame keeps the engine.  An evaluation opens *)
(* one reader per source, and its connection stays checked out while the   *)
(* generator is suspended at a yield.                                      *)
(*                                                                         *)
(* The pool is SQLAlchemy's: an engine lends at most Capacity connections, *)
(* makes one more caller wait, and raises when the wait times out; a       *)
(* disposed engine starts a new pool, which knows nothing of what the old  *)
(* one lent.  The consumer is Polars, taken at its worst: it asks a source *)
(* for its next batch only when every source of the query has delivered.   *)
(***************************************************************************)
EXTENDS EngineCache, Naturals, FiniteSets

CONSTANTS
    Lakes,       \* catalog databases
    LakeOf,      \* the database a URL leads to
    Capacity,    \* pool_size + max_overflow
    MaxBatches   \* bound: batches a source yields

ASSUME SessionAssumption ==
    /\ LakeOf \in [Urls -> Lakes]
    /\ Capacity \in Nat \ {0}
    /\ MaxBatches \in Nat
    /\ IsFiniteSet(Threads)

VARIABLES
    stage,     \* where each thread's scan is
    engine,    \* ctx.engine, None before the call has one
    out,       \* engine -> connections its pool has lent
    orphans,   \* scans whose connection came from a pool disposed since
    query,     \* the scans evaluated together with this one
    left       \* batches its generator has yet to yield

sessionVars == <<stage, engine, out, orphans, query, left>>
allVars     == <<vars, sessionVars>>

SessionInit ==
    /\ Init
    /\ stage = [t \in Threads |-> "none"]
    /\ engine = [t \in Threads |-> None]
    /\ out = [e \in Engines |-> 0]
    /\ orphans = {}
    /\ query = [t \in Threads |-> {}]
    /\ left = [t \in Threads |-> 0]

-----------------------------------------------------------------------------
(* CatalogReader.__enter__ and __exit__ against the pool.                  *)

Open == {t \in Threads : stage[t] \in {"reading", "running", "yielded"}}

Full(e) == out[e] = Capacity

Goes(S, to) == stage' = [t \in Threads |-> IF t \in S THEN to ELSE stage[t]]

Enter(t, from, to) ==
    /\ stage[t] = from
    /\ pc[t] = "idle"
    /\ ~Full(engine[t])
    /\ out' = [out EXCEPT ![engine[t]] = @ + 1]
    /\ stage' = [stage EXCEPT ![t] = to]

(* Mutant of Exit: a reader that has left its block is closed once more.   *)
ExitAgain(S) ==
    /\ out' = [e \in Engines |->
                  out[e] - Cardinality({t \in S \ orphans : engine[t] = e})]
    /\ orphans' = orphans \ S

(* The readers of S leave their with blocks, if they are in them.          *)
Exit(S) ==
    /\ out' = [e \in Engines |->
                  out[e] - Cardinality({t \in (S \cap Open) \ orphans : engine[t] = e})]
    /\ orphans' = orphans \ S

-----------------------------------------------------------------------------
(* The eager call.                                                         *)

StartCall(t) ==
    /\ stage[t] = "none"
    /\ Call(t)
    /\ UNCHANGED sessionVars

HandsOut(t) ==
    \/ pc[t] = "lookup" /\ cache[url[t]] # None
    \/ pc[t] = "intern"

(* A step inside _engine_from_metadata_catalog; it may return the engine.  *)
ResolveEngine(t) ==
    /\ Step(t)
    /\ IF HandsOut(t)
       THEN /\ engine' = [engine EXCEPT ![t] = cache'[url[t]]]
            /\ stage' = [stage EXCEPT ![t] = "connect"]
       ELSE UNCHANGED <<engine, stage>>
    /\ UNCHANGED <<out, orphans, query, left>>

EnterCall(t) ==
    /\ Enter(t, "connect", "reading")
    /\ UNCHANGED <<vars, engine, orphans, query, left>>

(* The eager statements are done, the connection goes back, the frame      *)
(* holds the engine.                                                       *)
ReturnFrame(t) ==
    /\ stage[t] = "reading"
    /\ Exit({t})
    /\ Goes({t}, "framed")
    /\ UNCHANGED <<vars, engine, query, left>>

Forget(t) == engine' = [engine EXCEPT ![t] = None]

(* Mutant of CallRaises: close() is reached on success alone.              *)
RaiseWithoutClose(t) ==
    /\ stage[t] = "reading"
    /\ Goes({t}, "none")
    /\ Forget(t)
    /\ UNCHANGED <<vars, out, orphans, query, left>>

(* LookupError, NotImplementedError or a database error in the with block. *)
CallRaises(t) ==
    /\ stage[t] = "reading"
    /\ Exit({t})
    /\ Goes({t}, "none")
    /\ Forget(t)
    /\ UNCHANGED <<vars, query, left>>

(* connect() raises; the with block was never entered.                     *)
CallRefused(t) ==
    /\ stage[t] = "connect"
    /\ pc[t] = "idle"
    /\ Goes({t}, "none")
    /\ Forget(t)
    /\ UNCHANGED <<vars, out, orphans, query, left>>

DropFrame(t) ==
    /\ stage[t] = "framed"
    /\ Goes({t}, "none")
    /\ Forget(t)
    /\ UNCHANGED <<vars, out, orphans, query, left>>

-----------------------------------------------------------------------------
(* The evaluation of a query over one or more frames.                      *)

Framed == {t \in Threads : stage[t] = "framed"}

Collect(Q) ==
    /\ Q # {}
    /\ Q \subseteq Framed
    /\ Goes(Q, "opening")
    /\ query' = [t \in Threads |-> IF t \in Q THEN Q ELSE query[t]]
    /\ \E n \in [Q -> 0..MaxBatches] :
          left' = [t \in Threads |-> IF t \in Q THEN n[t] ELSE left[t]]
    /\ UNCHANGED <<vars, engine, out, orphans>>

EnterGenerator(t) ==
    /\ Enter(t, "opening", "running")
    /\ UNCHANGED <<vars, engine, orphans, query, left>>

Yield(t) ==
    /\ stage[t] = "running"
    /\ left[t] > 0
    /\ left' = [left EXCEPT ![t] = @ - 1]
    /\ Goes({t}, "yielded")
    /\ UNCHANGED <<vars, engine, out, orphans, query>>

(* The consumer has a batch of, or the end of, every source.               *)
Resume(t) ==
    /\ stage[t] = "yielded"
    /\ \A u \in query[t] : stage[u] \in {"yielded", "exhausted"}
    /\ Goes({t}, "running")
    /\ UNCHANGED <<vars, engine, out, orphans, query, left>>

Exhaust(t) ==
    /\ stage[t] = "running"
    /\ left[t] = 0
    /\ Exit({t})
    /\ Goes({t}, "exhausted")
    /\ UNCHANGED <<vars, engine, query, left>>

(* Polars closes every generator of the query; the frames remain.          *)
EndQuery(Q) ==
    /\ Exit(Q)
    /\ Goes(Q, "framed")
    /\ query' = [t \in Threads |-> IF t \in Q THEN {} ELSE query[t]]
    /\ left' = [t \in Threads |-> IF t \in Q THEN 0 ELSE left[t]]
    /\ UNCHANGED <<vars, engine>>

Deliver(t) ==
    /\ query[t] # {}
    /\ \A u \in query[t] : stage[u] = "exhausted"
    /\ EndQuery(query[t])

(* A row limit is met, or the consumer goes away.                          *)
StopEarly(t) ==
    /\ stage[t] = "yielded"
    /\ EndQuery(query[t])

(* A catalog statement or a Parquet read raises out of one generator.      *)
ReadRaises(t) ==
    /\ stage[t] = "running"
    /\ EndQuery(query[t])

-----------------------------------------------------------------------------
(* The pool's own: a wait that ends in TimeoutError, and dispose().        *)

(* Mutant of TimesOut: a wait without end.                                 *)
WaitsOn(t) == FALSE /\ UNCHANGED allVars

TimesOut(t) ==
    /\ pc[t] = "idle"
    /\ engine[t] # None
    /\ Full(engine[t])
    /\ \/ /\ stage[t] = "connect"
          /\ Goes({t}, "none")
          /\ Forget(t)
          /\ UNCHANGED <<vars, out, orphans, query, left>>
       \/ /\ stage[t] = "opening"
          /\ EndQuery(query[t])

Evict(u) ==
    /\ EvictPop(u)
    /\ UNCHANGED sessionVars

(* Mutant of DisposeVictim: the count of the old pool goes on.             *)
DisposeAndKeepCount ==
    /\ EvictDispose
    /\ orphans' = orphans \cup {t \in Open : engine[t] = victim}
    /\ UNCHANGED <<out, stage, engine, query, left>>

DisposeVictim ==
    /\ EvictDispose
    /\ out' = [out EXCEPT ![victim] = 0]
    /\ orphans' = orphans \cup {t \in Open : engine[t] = victim}
    /\ UNCHANGED <<stage, engine, query, left>>

-----------------------------------------------------------------------------
(* What a thread, or Polars for it, does next without being asked to.      *)
Runs(t) ==
    \/ ResolveEngine(t)
    \/ EnterCall(t)
    \/ ReturnFrame(t)
    \/ CallRaises(t)
    \/ EnterGenerator(t)
    \/ Yield(t)
    \/ Resume(t)
    \/ Exhaust(t)
    \/ Deliver(t)
    \/ TimesOut(t)

SessionNext ==
    \/ \E t \in Threads : \/ StartCall(t)
                          \/ CallRefused(t)
                          \/ DropFrame(t)
                          \/ StopEarly(t)
                          \/ ReadRaises(t)
                          \/ Runs(t)
    \/ \E Q \in SUBSET Threads : Collect(Q)
    \/ \E u \in Urls : Evict(u)
    \/ DisposeVictim

SessionSpec == SessionInit /\ [][SessionNext]_allVars

(* A call runs on, Polars drives what it started, and a wait for the pool  *)
(* ends: with a connection or with a timeout.                              *)
SessionFairSpec == SessionSpec /\ \A t \in Threads : WF_allVars(Runs(t))

-----------------------------------------------------------------------------
Stages == {"none", "connect", "reading", "framed", "opening", "running", "yielded", "exhausted"}

(* The session's variables have their types; a scan past the cache has an  *)
(* engine, and a query is the set of scans that name it.                   *)
SessionTypeOK ==
    /\ stage \in [Threads -> Stages]
    /\ engine \in [Threads -> Engines \cup {None}]
    /\ out \in [Engines -> 0..Capacity]
    /\ orphans \subseteq Open
    /\ query \in [Threads -> SUBSET Threads]
    /\ left \in [Threads -> 0..MaxBatches]
    /\ \A t \in Threads : (stage[t] = "none") <=> (engine[t] = None)
    /\ \A t, u \in Threads : u \in query[t] => query[u] = query[t]

(* What a pool has lent is what open readers hold: whichever way a call or *)
(* a generator ends, by return, by exception, by being closed with its     *)
(* siblings, its connection goes back, once, and to the pool it came from. *)
LentIsHeld ==
    \A e \in Engines : out[e] = Cardinality({t \in Open \ orphans : engine[t] = e})

(* Scans of one lake share one pool's limit, however they spell it and     *)
(* however many threads race to build its engine: the readers open on its  *)
(* engines that are still in the cache are no more than one pool lends.    *)
EnginesOf(l) == {p[2] : p \in {q \in returned : LakeOf[q[1]] = l}} \ (disposed \cup {victim})

OnePoolPerLake ==
    \A l \in Lakes : Cardinality({t \in Open : engine[t] \in EnginesOf(l)}) <= Capacity

(* Nobody is refused a connection that nobody uses: when a wait times out, *)
(* Capacity other scans have open readers on that engine.                  *)
TimeoutsAreEarned ==
    [][\A t \in Threads :
          TimesOut(t) => Cardinality({u \in Open \ {t} : engine[u] = engine[t]}) >= Capacity]_allVars

(* Scans that hold connections while they wait for more settle all the     *)
(* same: every call returns or raises, and every evaluation ends.          *)
ScansSettle ==
    \A t \in Threads :
       /\ (stage[t] = "connect") ~> (stage[t] \in {"framed", "none"})
       /\ (stage[t] = "opening") ~> (stage[t] = "framed")

=============================================================================
