----------------------------- MODULE BenchLakes -----------------------------
(***************************************************************************)
(* The benchmark's lakes: seeding one per backend (bench/seed.py) after    *)
(* resetting what the backend held (bench/targets.py), the registry file   *)
(* that remembers them (bench/state.py), and the benchmark that looks one  *)
(* up and reads it for a while (bench/fixtures.py).                        *)
(*                                                                         *)
(* Seeds of different backends may run at once, each its own process (one  *)
(* backend is seeded by one process at a time), and any may be killed      *)
(* between two steps.  The registry is read, changed and written without a *)
(* lock, and writing it truncates it first.  The CHECKPOINT at the end is  *)
(* left out: it changes no table's content.                                *)
(***************************************************************************)
EXTENDS Integers, Sequences

CONSTANTS
    Backends,      \* catalog backends of the full tier
    CatalogFirst,  \* those whose reset removes the catalog before the bucket
    Shapes,        \* lake shapes the code has had: [chunks, mid]
    NULL,          \* no file, no entry, no snapshot id yet
    TORN,          \* a registry that is not the JSON of one writer
    MaxSeeds       \* bound: seeds started per backend

ASSUME BenchAssumption ==
    /\ CatalogFirst \subseteq Backends
    /\ \A s \in Shapes : s.chunks \in Nat /\ s.mid \in 1..(s.chunks - 1)
    /\ NULL # TORN
    /\ NULL \notin Nat \cup [shape: Shapes, mid: Nat]
    /\ \A D \in SUBSET Backends : {NULL, TORN} \cap [D -> [shape: Shapes, mid: Nat]] = {}

VARIABLES
    registry,  \* bench/state.json: backend -> entry, NULL or TORN
    lake,      \* backend -> its catalog's snapshots, NULL without a catalog
    bucket,    \* backend -> objects in its bucket
    seeder,    \* backend -> the process seeding it
    seeds,     \* backend -> seeds started
    held,      \* backend -> the entry a benchmark is reading with, or NULL
    built,     \* ghost: backend -> entry of its last seed, if that succeeded
    apart      \* ghost: no two registry updates overlapped, none was killed

vars == <<registry, lake, bucket, seeder, seeds, held, built, apart>>

Idle == [at |-> "idle", shape |-> NULL, chunk |-> 0, mid |-> NULL, entries |-> <<>>]

Init ==
    /\ registry = NULL
    /\ lake = [b \in Backends |-> NULL]
    /\ bucket = [b \in Backends |-> {}]
    /\ seeder = [b \in Backends |-> Idle]
    /\ seeds = [b \in Backends |-> 0]
    /\ held = [b \in Backends |-> NULL]
    /\ built = [b \in Backends |-> NULL]
    /\ apart = TRUE

Goto(b, from, to) ==
    /\ seeder[b].at = from
    /\ seeder' = [seeder EXCEPT ![b].at = to]

Ends(b, from) == seeder[b].at = from /\ seeder' = [seeder EXCEPT ![b] = Idle]

(* Mutant of Seed: every reset purges the bucket first.                    *)
SeedBucketFirst(b, shape) ==
    /\ seeder[b].at = "idle"
    /\ seeds[b] < MaxSeeds
    /\ seeds' = [seeds EXCEPT ![b] = @ + 1]
    /\ seeder' = [seeder EXCEPT ![b] = [Idle EXCEPT !.at = "bucket", !.shape = shape]]
    /\ built' = [built EXCEPT ![b] = NULL]
    /\ UNCHANGED <<registry, lake, bucket, held, apart>>

Seed(b, shape) ==
    /\ seeder[b].at = "idle"
    /\ seeds[b] < MaxSeeds
    /\ seeds' = [seeds EXCEPT ![b] = @ + 1]
    /\ seeder' = [seeder EXCEPT ![b] =
          [Idle EXCEPT !.at = IF b \in CatalogFirst THEN "catalog" ELSE "bucket", !.shape = shape]]
    /\ built' = [built EXCEPT ![b] = NULL]
    /\ UNCHANGED <<registry, lake, bucket, held, apart>>

-----------------------------------------------------------------------------
(* The target's reset: unlink the catalog file, then purge the bucket; or, *)
(* for Postgres, purge the bucket, then drop the catalog's tables.         *)

ResetCatalog(b) ==
    /\ Goto(b, "catalog", IF b \in CatalogFirst THEN "bucket" ELSE "attach")
    /\ lake' = [lake EXCEPT ![b] = NULL]
    /\ UNCHANGED <<registry, bucket, seeds, held, built, apart>>

PurgeObject(b) ==
    /\ seeder[b].at = "bucket"
    /\ \E o \in bucket[b] : bucket' = [bucket EXCEPT ![b] = @ \ {o}]
    /\ UNCHANGED <<registry, lake, seeder, seeds, held, built, apart>>

(* Mutant of Purged: a bucket whose listing is cut short counts as empty.  *)
PurgedInPart(b) ==
    /\ Goto(b, "bucket", IF b \in CatalogFirst THEN "attach" ELSE "catalog")
    /\ UNCHANGED <<registry, lake, bucket, seeds, held, built, apart>>

Purged(b) ==
    /\ Goto(b, "bucket", IF b \in CatalogFirst THEN "attach" ELSE "catalog")
    /\ bucket[b] = {}
    /\ UNCHANGED <<registry, lake, bucket, seeds, held, built, apart>>

-----------------------------------------------------------------------------
(* materialize_lake.  A snapshot is the chunks the main table holds and    *)
(* how far its evolved sibling has come; every statement commits one.      *)

Snapshots(b) == lake[b].snapshots
Newest(b)    == Snapshots(b)[Len(Snapshots(b))]

Commits(b, snapshot, objects) ==
    /\ lake' = [lake EXCEPT ![b].snapshots = Append(@, snapshot)]
    /\ bucket' = [bucket EXCEPT ![b] = @ \cup objects]
    /\ UNCHANGED <<registry, seeds, held, built, apart>>

Attach(b) ==
    /\ Goto(b, "attach", "create")
    /\ lake[b] = NULL
    /\ lake' = [lake EXCEPT ![b] =
          [shape |-> seeder[b].shape, snapshots |-> <<[main |-> 0, evolved |-> 0]>>]]
    /\ UNCHANGED <<registry, bucket, seeds, held, built, apart>>

(* CREATE TABLE AS the first chunk.                                        *)
CreateMain(b) ==
    /\ seeder[b].at = "create"
    /\ seeder' = [seeder EXCEPT ![b].at = "partition", ![b].chunk = 1]
    /\ Commits(b, [Newest(b) EXCEPT !.main = 1], {<<"main", 1>>})

SetPartitionedBy(b) ==
    /\ Goto(b, "partition", "loop")
    /\ Commits(b, Newest(b), {})

MidDue(b) == seeder[b].chunk = seeder[b].shape.mid /\ seeder[b].mid = NULL

(* Mutant of CaptureMid: the snapshot before the chunk.                    *)
CaptureBefore(b) ==
    /\ seeder[b].at = "loop"
    /\ MidDue(b)
    /\ seeder' = [seeder EXCEPT ![b].mid = Len(Snapshots(b)) - 1]
    /\ UNCHANGED <<registry, lake, bucket, seeds, held, built, apart>>

CaptureMid(b) ==
    /\ seeder[b].at = "loop"
    /\ MidDue(b)
    /\ seeder' = [seeder EXCEPT ![b].mid = Len(Snapshots(b))]
    /\ UNCHANGED <<registry, lake, bucket, seeds, held, built, apart>>

InsertChunk(b) ==
    LET next == seeder[b].chunk + 1
    IN /\ seeder[b].at = "loop"
       /\ ~MidDue(b)
       /\ next <= seeder[b].shape.chunks
       /\ seeder' = [seeder EXCEPT ![b].chunk = next]
       /\ Commits(b, [Newest(b) EXCEPT !.main = next], {<<"main", next>>})

CreateEvolved(b) ==
    /\ Goto(b, "loop", "alter")
    /\ ~MidDue(b)
    /\ seeder[b].chunk = seeder[b].shape.chunks
    /\ Commits(b, [Newest(b) EXCEPT !.evolved = 1], {<<"evolved", 1>>})

AddVenue(b) ==
    /\ Goto(b, "alter", "fill")
    /\ Commits(b, [Newest(b) EXCEPT !.evolved = 2], {})

FillEvolved(b) ==
    /\ Goto(b, "fill", "load")
    /\ Commits(b, [Newest(b) EXCEPT !.evolved = 3], {<<"evolved", 2>>})

-----------------------------------------------------------------------------
(* upsert_entry: load_state, change, save_state.                           *)

Entry(b) == [shape |-> seeder[b].shape, mid |-> seeder[b].mid]

Updating == {b \in Backends : seeder[b].at \in {"truncate", "write"}}

LoadState(b) ==
    /\ seeder[b].at = "load"
    /\ registry # TORN
    /\ seeder' = [seeder EXCEPT ![b].at = "truncate",
                                ![b].entries = IF registry = NULL THEN <<>> ELSE registry]
    /\ apart' = (apart /\ Updating = {})
    /\ UNCHANGED <<registry, lake, bucket, seeds, held, built>>

(* json.loads raises; the lake is there and no entry names it.             *)
LoadRaises(b) ==
    /\ Ends(b, "load")
    /\ registry = TORN
    /\ UNCHANGED <<registry, lake, bucket, seeds, held, built, apart>>

Truncate(b) ==
    /\ Goto(b, "truncate", "write")
    /\ registry' = TORN
    /\ UNCHANGED <<lake, bucket, seeds, held, built, apart>>

(* Mutant of Updated: the file holds what this process knows.              *)
OnlyMine(b) == [c \in {b} |-> Entry(b)]

Updated(b) ==
    [c \in DOMAIN seeder[b].entries \cup {b} |-> IF c = b THEN Entry(b) ELSE seeder[b].entries[c]]

(* Over what another process wrote since the truncation, a longer text of  *)
(* the other leaves a tail.                                                *)
Write(b) ==
    /\ Ends(b, "write")
    /\ registry' \in {Updated(b)} \cup (IF registry = TORN THEN {} ELSE {TORN})
    /\ built' = [built EXCEPT ![b] = Entry(b)]
    /\ UNCHANGED <<lake, bucket, seeds, held, apart>>

(* A statement killed after its upload and before its commit leaves an     *)
(* object no catalog names.                                                *)
Killed(b) ==
    /\ seeder[b].at # "idle"
    /\ seeder' = [seeder EXCEPT ![b] = Idle]
    /\ \E orphans \in SUBSET {<<"orphan", 0>>} :
          /\ orphans # {} => seeder[b].at \in {"create", "loop", "fill"}
          /\ bucket' = [bucket EXCEPT ![b] = @ \cup orphans]
    /\ apart' = (apart /\ seeder[b].at # "write")
    /\ UNCHANGED <<registry, lake, seeds, held, built>>

-----------------------------------------------------------------------------
(* python -m bench --tier full: get_full_lake once, then reads for minutes.*)

Entries == IF registry \in {NULL, TORN} THEN <<>> ELSE registry

GetFullLake(b) ==
    /\ held[b] = NULL
    /\ b \in DOMAIN Entries
    /\ held' = [held EXCEPT ![b] = Entries[b]]
    /\ UNCHANGED <<registry, lake, bucket, seeder, seeds, built, apart>>

BenchEnds(b) ==
    /\ held[b] # NULL
    /\ held' = [held EXCEPT ![b] = NULL]
    /\ UNCHANGED <<registry, lake, bucket, seeder, seeds, built, apart>>

-----------------------------------------------------------------------------
Next ==
    \E b \in Backends :
       \/ \E s \in Shapes : Seed(b, s)
       \/ ResetCatalog(b)
       \/ PurgeObject(b)
       \/ Purged(b)
       \/ Attach(b)
       \/ CreateMain(b)
       \/ SetPartitionedBy(b)
       \/ CaptureMid(b)
       \/ InsertChunk(b)
       \/ CreateEvolved(b)
       \/ AddVenue(b)
       \/ FillEvolved(b)
       \/ LoadState(b)
       \/ LoadRaises(b)
       \/ Truncate(b)
       \/ Write(b)
       \/ Killed(b)
       \/ GetFullLake(b)
       \/ BenchEnds(b)

Spec == Init /\ [][Next]_vars

-----------------------------------------------------------------------------
Objects(snapshot) ==
    {<<"main", i>> : i \in 1..snapshot.main}
       \cup (IF snapshot.evolved >= 1 THEN {<<"evolved", 1>>} ELSE {})
       \cup (IF snapshot.evolved = 3 THEN {<<"evolved", 2>>} ELSE {})

Readable(b, i) == Objects(Snapshots(b)[i]) \subseteq bucket[b]

(* The time_travel workload is about the lake it was recorded for: as long *)
(* as the lake has the shape an entry names, a read at the entry's         *)
(* mid_snapshot_id fails or finds exactly the first mid chunks, also while *)
(* the lake is being seeded anew, after a seed was killed, and with an     *)
(* entry loaded long ago or overwritten since (seed.py, mid_snapshot_id).  *)
MidSnapshotIsMid ==
    \A b \in Backends : lake[b] # NULL =>
       \A e \in ({held[b]} \ {NULL}) \cup {Entries[c] : c \in DOMAIN Entries \cap {b}} :
          e.shape = lake[b].shape /\ e.mid \in DOMAIN Snapshots(b) =>
             Snapshots(b)[e.mid].main = e.shape.mid

(* A seed that returned left the whole lake, whatever ran or was killed    *)
(* before it: all chunks, the evolved table, no object missing, and none   *)
(* left over from another seed (seed.py, materialize_lake).                *)
SeededLakesAreWhole ==
    \A b \in Backends : built[b] # NULL =>
       /\ lake[b].shape = built[b].shape
       /\ Newest(b) = [main |-> built[b].shape.chunks, evolved |-> 3]
       /\ Objects(Newest(b)) = bucket[b]
       /\ Snapshots(b)[built[b].mid].main = built[b].shape.mid

(* "So python -m bench can find it later": a lake whose seed returned is   *)
(* in the registry under the entry of that seed, unless two updates of the *)
(* registry overlapped or one was killed (state.py, upsert_entry).         *)
SeededLakesAreFound ==
    apart /\ Updating = {} =>
       \A b \in Backends : built[b] # NULL => b \in DOMAIN Entries /\ Entries[b] = built[b]

(* Where the catalog goes first, no catalog ever names an object that is   *)
(* gone, however a reset is cut short; where the bucket goes first it does *)
(* until the reset is over (targets.py, full_sqlite_minio and              *)
(* full_postgres_minio).                                                   *)
CatalogsNameWhatIsThere ==
    \A b \in Backends :
       lake[b] # NULL /\ (b \in CatalogFirst \/ built[b] # NULL) =>
          \A i \in DOMAIN Snapshots(b) : Readable(b, i)

=============================================================================
