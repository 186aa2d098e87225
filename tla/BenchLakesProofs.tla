-------------------------- MODULE BenchLakesProofs --------------------------
(***************************************************************************)
(* Proofs about BenchLakes, for any backends, shapes and numbers of seeds, *)
(* any of them killed anywhere.                                            *)
(*                                                                         *)
(* A catalog's history is a function of its shape and its length alone     *)
(* (LakeOf), and the step a seeder has reached says how long it is and     *)
(* what is in the bucket (Underway).  The mid snapshot of a shape is then  *)
(* one number, whoever recorded it.                                        *)
(***************************************************************************)
EXTENDS BenchLakes, SequenceTheorems, TLAPS

(* Snapshot i of a lake of this shape: none, the first chunk, the          *)
(* partitioning, the other chunks, the evolved table in three steps.       *)
SnapshotAt(shape, i) ==
    [main    |-> IF i = 1 THEN 0
                 ELSE IF i = 2 THEN 1
                 ELSE IF i <= shape.chunks + 2 THEN i - 2 ELSE shape.chunks,
     evolved |-> IF i <= shape.chunks + 2 THEN 0 ELSE i - (shape.chunks + 2)]

LakeOf(shape, n) == [shape |-> shape, snapshots |-> [i \in 1..n |-> SnapshotAt(shape, i)]]

MidOf(shape) == shape.mid + 2

GoodEntry(e) == e = [shape |-> e.shape, mid |-> MidOf(e.shape)] /\ e.shape \in Shapes

IsRegistry(r) == r = [b \in DOMAIN r |-> r[b]] /\ DOMAIN r \subseteq Backends /\ \A b \in DOMAIN r : GoodEntry(r[b])

Resetting == {"catalog", "bucket", "attach"}
Filling   == {"create", "partition", "loop", "alter", "fill", "load", "truncate", "write"}

(* Snapshots of the catalog when its seeder has come this far.             *)
Made(sd) ==
    CASE sd.at = "create"    -> 1
      [] sd.at = "partition" -> 2
      [] sd.at = "loop"      -> sd.chunk + 2
      [] sd.at = "alter"     -> sd.shape.chunks + 3
      [] sd.at = "fill"      -> sd.shape.chunks + 4
      [] OTHER               -> sd.shape.chunks + 5

(* The chunk the seeder is at, and the mid snapshot once it is past it.    *)
Counted(sd) ==
    /\ sd.at = "create" => sd.chunk = 0 /\ sd.mid = NULL
    /\ sd.at = "partition" => sd.chunk = 1 /\ sd.mid = NULL
    /\ sd.at = "loop" =>
          /\ sd.chunk \in 1..sd.shape.chunks
          /\ sd.mid = NULL => sd.chunk <= sd.shape.mid
          /\ sd.mid # NULL => sd.mid = MidOf(sd.shape)
    /\ sd.at \in {"alter", "fill", "load", "truncate", "write"} => sd.mid = MidOf(sd.shape)

IsSeeder(sd) == sd = [at |-> sd.at, shape |-> sd.shape, chunk |-> sd.chunk, mid |-> sd.mid, entries |-> sd.entries]

(* A seed that is being reset has what its reset has left; one that is     *)
(* being filled has all that its shape had it write, and nothing else.     *)
Underway(first, lk, bk, sd) ==
    \/ sd = Idle
    \/ /\ sd.at \in Resetting /\ sd.shape \in Shapes /\ sd.chunk = 0 /\ sd.mid = NULL
       /\ sd.at = "catalog" /\ ~first => bk = {}
       /\ sd.at = "bucket" /\ first => lk = NULL
       /\ sd.at = "attach" => lk = NULL /\ bk = {}
    \/ /\ sd.at \in Filling /\ sd.shape \in Shapes
       /\ lk = LakeOf(sd.shape, Made(sd))
       /\ bk = Objects(SnapshotAt(sd.shape, Made(sd)))
       /\ Counted(sd)

IsLake(lk) == \E shape \in Shapes : \E n \in 1..(shape.chunks + 5) : lk = LakeOf(shape, n)

Last(lk) == lk.snapshots[Len(lk.snapshots)]

(* Catalog, bucket, seeder and last success of one backend.                *)
Fits(first, lk, bk, sd, bt) ==
    /\ IsSeeder(sd) /\ Underway(first, lk, bk, sd)
    /\ lk = NULL \/ IsLake(lk)
    /\ first /\ lk # NULL => Objects(Last(lk)) \subseteq bk
    /\ bt = NULL \/ /\ GoodEntry(bt) /\ sd = Idle
                    /\ lk = LakeOf(bt.shape, bt.shape.chunks + 5)
                    /\ bk = Objects(SnapshotAt(bt.shape, bt.shape.chunks + 5))

Backed(b) == Fits(b \in CatalogFirst, lake[b], bucket[b], seeder[b], built[b])

Tables ==
    /\ lake = [b \in Backends |-> lake[b]]     /\ bucket = [b \in Backends |-> bucket[b]]
    /\ seeder = [b \in Backends |-> seeder[b]] /\ seeds = [b \in Backends |-> seeds[b]]
    /\ held = [b \in Backends |-> held[b]]     /\ built = [b \in Backends |-> built[b]]

(* Every entry anyone has is of a shape, with the mid snapshot of that     *)
(* shape.                                                                  *)
EntriesKnown ==
    /\ registry \in {NULL, TORN} \/ IsRegistry(registry)
    /\ \A b \in Backends : /\ IsRegistry(seeder[b].entries)
                           /\ held[b] = NULL \/ GoodEntry(held[b])

(* As long as updates of the registry did not overlap and none was killed  *)
(* between its truncation and its write, the one that is under way knows   *)
(* all that the registry held.                                             *)
Lists(r) == \A b \in Backends : built[b] # NULL => b \in DOMAIN r /\ r[b] = built[b]

UpdatesApart ==
    apart =>
       /\ \A b, c \in Updating : b = c
       /\ \A b \in Updating : seeder[b].at = "write" => registry = TORN
       /\ \A b \in Updating : Lists(seeder[b].entries)
       /\ (\A b \in Backends : seeder[b].at # "write") => Lists(Entries)

BInv == Tables /\ EntriesKnown /\ UpdatesApart /\ \A b \in Backends : Backed(b)

-----------------------------------------------------------------------------
(* Lakes by shape.                                                         *)

(* A lake has a chunk before its mid snapshot and one after it.            *)
LEMMA ShapesAre ==
  ASSUME NEW shape \in Shapes
  PROVE  shape.chunks \in Nat /\ shape.mid \in Nat /\ 1 <= shape.mid /\ shape.mid < shape.chunks
  BY BenchAssumption

(* The snapshots of a lake, one by one.                                    *)
LEMMA LakesAre ==
  ASSUME NEW shape, NEW n \in Nat
  PROVE  /\ LakeOf(shape, n).shape = shape
         /\ DOMAIN LakeOf(shape, n).snapshots = 1..n
         /\ Len(LakeOf(shape, n).snapshots) = n
         /\ \A i \in 1..n : LakeOf(shape, n).snapshots[i] = SnapshotAt(shape, i)
  <1>. DEFINE s == [i \in 1..n |-> SnapshotAt(shape, i)]
  <1>1. s \in Seq({SnapshotAt(shape, i) : i \in 1..n})
    BY SeqDef
  <1>2. Len(s) = n
    BY <1>1, LenProperties
  <1>. QED
    BY <1>2 DEF LakeOf

(* A lake with one more snapshot is the lake of that length.               *)
LEMMA NextSnapshot ==
  ASSUME NEW shape, NEW n \in Nat
  PROVE  [LakeOf(shape, n) EXCEPT !.snapshots = Append(@, SnapshotAt(shape, n + 1))] = LakeOf(shape, n + 1)
  <1>. DEFINE s == [i \in 1..n |-> SnapshotAt(shape, i)]
              t == [i \in 1..(n + 1) |-> SnapshotAt(shape, i)]
  <1>1. s \in Seq({SnapshotAt(shape, i) : i \in 1..(n + 1)}) /\ t \in Seq({SnapshotAt(shape, i) : i \in 1..(n + 1)})
    BY SeqDef
  <1>2. Len(s) = n /\ Len(t) = n + 1
    BY <1>1, LenProperties
  <1>3. Append(s, SnapshotAt(shape, n + 1)) = t
    <2>1. SnapshotAt(shape, n + 1) \in {SnapshotAt(shape, i) : i \in 1..(n + 1)}
      OBVIOUS
    <2>2. PICK a : a = Append(s, SnapshotAt(shape, n + 1))
      OBVIOUS
    <2>3. /\ a \in Seq({SnapshotAt(shape, i) : i \in 1..(n + 1)}) /\ Len(a) = n + 1
          /\ \A i \in 1..n : a[i] = s[i]
          /\ a[n + 1] = SnapshotAt(shape, n + 1)
      BY <1>1, <1>2, <2>1, <2>2, AppendProperties
    <2>4. \A i \in 1..(n + 1) : a[i] = t[i]
      <3>1. \A i \in 1..n : s[i] = SnapshotAt(shape, i)
        OBVIOUS
      <3>2. \A i \in 1..(n + 1) : t[i] = SnapshotAt(shape, i)
        OBVIOUS
      <3>3. \A i \in 1..(n + 1) : i \in 1..n \/ i = n + 1
        OBVIOUS
      <3>. QED
        BY <2>3, <3>1, <3>2, <3>3
    <2>. HIDE DEF s, t
    <2>. QED
      BY <1>1, <1>2, <2>2, <2>3, <2>4, SeqEqual
  <1>. HIDE DEF s, t
  <1>4. LakeOf(shape, n) = [shape |-> shape, snapshots |-> s] /\ LakeOf(shape, n + 1) = [shape |-> shape, snapshots |-> t]
    BY DEF LakeOf, s, t
  <1>. QED
    BY <1>3, <1>4

(* Its newest snapshot.                                                    *)
LEMMA LastOf ==
  ASSUME NEW shape, NEW n \in Nat, n # 0
  PROVE  Last(LakeOf(shape, n)) = SnapshotAt(shape, n)
  BY LakesAre DEF Last

(* What one more snapshot adds to the bucket.                              *)
Adds(shape, n, objects) == Objects(SnapshotAt(shape, n + 1)) = Objects(SnapshotAt(shape, n)) \cup objects

(* The objects each statement of materialize_lake uploads.                 *)
LEMMA ObjectsAre ==
  ASSUME NEW shape \in Shapes
  PROVE  /\ Objects(SnapshotAt(shape, 1)) = {}
         /\ Adds(shape, 1, {<<"main", 1>>})
         /\ Adds(shape, 2, {})
         /\ \A k \in 1..(shape.chunks - 1) : Adds(shape, k + 2, {<<"main", k + 1>>})
         /\ Adds(shape, shape.chunks + 2, {<<"evolved", 1>>})
         /\ Adds(shape, shape.chunks + 3, {})
         /\ Adds(shape, shape.chunks + 4, {<<"evolved", 2>>})
  <1>. DEFINE Chunks(k) == {<<"main", i>> : i \in 1..k}
  <1>1. \A k \in Nat : Chunks(k + 1) = Chunks(k) \cup {<<"main", k + 1>>}
    <2>1. \A k \in Nat : 1..(k + 1) = (1..k) \cup {k + 1}
      OBVIOUS
    <2>. QED
      BY <2>1
  <1>2. Chunks(0) = {}
    OBVIOUS
  <1>3. PICK c \in Nat : c = shape.chunks /\ c >= 2
    BY ShapesAre
  <1>4. \A i \in Nat : /\ SnapshotAt(shape, i).main = (IF i = 1 THEN 0 ELSE IF i = 2 THEN 1
                                                    ELSE IF i <= c + 2 THEN i - 2 ELSE c)
                       /\ SnapshotAt(shape, i).evolved = (IF i <= c + 2 THEN 0 ELSE i - (c + 2))
    BY <1>3 DEF SnapshotAt
  <1>5. \A s : Objects(s) = Chunks(s.main) \cup (IF s.evolved >= 1 THEN {<<"evolved", 1>>} ELSE {})
                              \cup (IF s.evolved = 3 THEN {<<"evolved", 2>>} ELSE {})
    BY DEF Objects
  <1>. HIDE DEF Chunks
  <1>a. \A s, k : s.main = k /\ s.evolved = 0 => Objects(s) = Chunks(k)
    <2>1. ASSUME NEW s, s.evolved = 0 PROVE Objects(s) = Chunks(s.main)
      <3>1. ~(s.evolved >= 1) /\ s.evolved # 3
        BY <2>1
      <3>. QED
        BY <1>5, <3>1
    <2>. QED
      BY <2>1
  <1>b. \A s : s.main = c /\ (s.evolved = 1 \/ s.evolved = 2) => Objects(s) = Chunks(c) \cup {<<"evolved", 1>>}
    <2>1. ASSUME NEW s, s.evolved = 1 \/ s.evolved = 2
          PROVE  Objects(s) = Chunks(s.main) \cup {<<"evolved", 1>>}
      <3>1. s.evolved >= 1 /\ s.evolved # 3
        BY <2>1
      <3>. QED
        BY <1>5, <3>1
    <2>. QED
      BY <2>1
  <1>c. \A s : s.main = c /\ s.evolved = 3 => Objects(s) = Chunks(c) \cup {<<"evolved", 1>>} \cup {<<"evolved", 2>>}
    <2>1. ASSUME NEW s, s.evolved = 3
          PROVE  Objects(s) = Chunks(s.main) \cup {<<"evolved", 1>>} \cup {<<"evolved", 2>>}
      <3>1. s.evolved >= 1 /\ s.evolved = 3
        BY <2>1
      <3>. QED
        BY <1>5, <3>1
    <2>. QED
      BY <2>1
  <1>6. Objects(SnapshotAt(shape, 1)) = {} /\ Objects(SnapshotAt(shape, 2)) = Chunks(1)
    <2>1. SnapshotAt(shape, 1).main = 0 /\ SnapshotAt(shape, 1).evolved = 0
          /\ SnapshotAt(shape, 2).main = 1 /\ SnapshotAt(shape, 2).evolved = 0
      BY <1>3, <1>4
    <2>. QED
      BY <1>2, <1>a, <2>1
  <1>7. \A k \in 1..c : Objects(SnapshotAt(shape, k + 2)) = Chunks(k)
    <2>1. ASSUME NEW k \in 1..c
          PROVE  SnapshotAt(shape, k + 2).main = k /\ SnapshotAt(shape, k + 2).evolved = 0
      <3>1. k + 2 \in Nat /\ k + 2 # 1 /\ k + 2 # 2 /\ k + 2 <= c + 2 /\ (k + 2) - 2 = k
        BY <1>3
      <3>. QED
        BY <1>4, <3>1
    <2>. QED
      BY <1>a, <2>1
  <1>8. /\ Objects(SnapshotAt(shape, c + 3)) = Chunks(c) \cup {<<"evolved", 1>>}
        /\ Objects(SnapshotAt(shape, c + 4)) = Chunks(c) \cup {<<"evolved", 1>>}
        /\ Objects(SnapshotAt(shape, c + 5)) = Chunks(c) \cup {<<"evolved", 1>>} \cup {<<"evolved", 2>>}
    <2>1. ASSUME NEW e \in 1..3
          PROVE  SnapshotAt(shape, (c + 2) + e).main = c /\ SnapshotAt(shape, (c + 2) + e).evolved = e
      <3>1. /\ (c + 2) + e \in Nat /\ (c + 2) + e # 1 /\ (c + 2) + e # 2 /\ ~((c + 2) + e <= c + 2)
            /\ ((c + 2) + e) - (c + 2) = e
        BY <1>3
      <3>. QED
        BY <1>4, <3>1
    <2>2. c + 3 = (c + 2) + 1 /\ c + 4 = (c + 2) + 2 /\ c + 5 = (c + 2) + 3
      BY <1>3
    <2>3. 1 \in 1..3 /\ 2 \in 1..3 /\ 3 \in 1..3
      OBVIOUS
    <2>4. /\ SnapshotAt(shape, c + 3).main = c /\ SnapshotAt(shape, c + 3).evolved = 1
          /\ SnapshotAt(shape, c + 4).main = c /\ SnapshotAt(shape, c + 4).evolved = 2
          /\ SnapshotAt(shape, c + 5).main = c /\ SnapshotAt(shape, c + 5).evolved = 3
      BY <2>1, <2>2, <2>3
    <2>5. PICK s3, s4, s5 : /\ s3 = SnapshotAt(shape, c + 3) /\ s4 = SnapshotAt(shape, c + 4)
                            /\ s5 = SnapshotAt(shape, c + 5)
      OBVIOUS
    <2>6. Objects(s3) = Chunks(c) \cup {<<"evolved", 1>>} /\ Objects(s4) = Chunks(c) \cup {<<"evolved", 1>>}
      BY <1>b, <2>4, <2>5
    <2>7. Objects(s5) = Chunks(c) \cup {<<"evolved", 1>>} \cup {<<"evolved", 2>>}
      BY <1>c, <2>4, <2>5
    <2>. QED
      BY <2>5, <2>6, <2>7
  <1>9. Adds(shape, 1, {<<"main", 1>>})
    BY <1>1, <1>2, <1>6 DEF Adds
  <1>10. Adds(shape, 2, {})
    <2>1. Objects(SnapshotAt(shape, 1 + 2)) = Chunks(1)
      BY <1>3, <1>7
    <2>. QED
      BY <1>6, <2>1 DEF Adds
  <1>11. \A k \in 1..(c - 1) : Adds(shape, k + 2, {<<"main", k + 1>>})
    <2>1. ASSUME NEW k \in 1..(c - 1) PROVE Adds(shape, k + 2, {<<"main", k + 1>>})
      <3>1. k \in 1..c /\ k + 1 \in 1..c /\ (k + 2) + 1 = (k + 1) + 2 /\ k \in Nat
        BY <1>3
      <3>. QED
        BY <1>1, <1>7, <3>1 DEF Adds
    <2>. QED
      BY <2>1
  <1>12. Adds(shape, c + 2, {<<"evolved", 1>>})
    <2>1. Objects(SnapshotAt(shape, c + 2)) = Chunks(c) /\ (c + 2) + 1 = c + 3
      BY <1>3, <1>7
    <2>. QED
      BY <1>8, <2>1 DEF Adds
  <1>13. Adds(shape, c + 3, {}) /\ Adds(shape, c + 4, {<<"evolved", 2>>})
    <2>1. (c + 3) + 1 = c + 4 /\ (c + 4) + 1 = c + 5
      BY <1>3
    <2>. QED
      BY <1>8, <2>1 DEF Adds
  <1>. QED
    BY <1>3, <1>6, <1>9, <1>10, <1>11, <1>12, <1>13

(* A snapshot names no object that the newest does not.                    *)
LEMMA ObjectsGrow ==
  ASSUME NEW shape \in Shapes, NEW n \in 1..(shape.chunks + 5), NEW i \in 1..n
  PROVE  Objects(SnapshotAt(shape, i)) \subseteq Objects(SnapshotAt(shape, n))
  <1>1. PICK c \in Nat : c = shape.chunks /\ c >= 2
    BY ShapesAre
  <1>2. PICK a, b : a = SnapshotAt(shape, i) /\ b = SnapshotAt(shape, n)
    OBVIOUS
  <1>3. /\ a.main \in Nat /\ b.main \in Nat /\ a.main <= b.main
        /\ a.evolved \in Nat /\ b.evolved \in 0..3 /\ a.evolved <= b.evolved
    BY <1>1, <1>2 DEF SnapshotAt
  <1>4. 1..a.main \subseteq 1..b.main
    BY <1>3
  <1>. QED
    BY <1>2, <1>3, <1>4 DEF Objects

-----------------------------------------------------------------------------
(* One backend, step by step.                                              *)

(* What each of them changes in the newest snapshot.                       *)
LEMMA SnapshotsFollow ==
  ASSUME NEW shape \in Shapes
  PROVE  /\ [SnapshotAt(shape, 1) EXCEPT !.main = 1] = SnapshotAt(shape, 2)
         /\ SnapshotAt(shape, 2) = SnapshotAt(shape, 3)
         /\ \A k \in 1..(shape.chunks - 1) :
               [SnapshotAt(shape, k + 2) EXCEPT !.main = k + 1] = SnapshotAt(shape, (k + 2) + 1)
         /\ [SnapshotAt(shape, shape.chunks + 2) EXCEPT !.evolved = 1] = SnapshotAt(shape, (shape.chunks + 2) + 1)
         /\ [SnapshotAt(shape, shape.chunks + 3) EXCEPT !.evolved = 2] = SnapshotAt(shape, (shape.chunks + 3) + 1)
         /\ [SnapshotAt(shape, shape.chunks + 4) EXCEPT !.evolved = 3] = SnapshotAt(shape, (shape.chunks + 4) + 1)
  <1>1. PICK c \in Nat : c = shape.chunks /\ c >= 2
    BY ShapesAre
  <1>2. \A i \in Nat : SnapshotAt(shape, i) =
           [main    |-> IF i = 1 THEN 0 ELSE IF i = 2 THEN 1 ELSE IF i <= c + 2 THEN i - 2 ELSE c,
            evolved |-> IF i <= c + 2 THEN 0 ELSE i - (c + 2)]
    BY <1>1 DEF SnapshotAt
  <1>3. /\ SnapshotAt(shape, 1) = [main |-> 0, evolved |-> 0]
        /\ SnapshotAt(shape, 2) = [main |-> 1, evolved |-> 0]
    BY <1>1, <1>2
  <1>4. \A k \in 1..c : SnapshotAt(shape, k + 2) = [main |-> k, evolved |-> 0]
    <2>1. ASSUME NEW k \in 1..c PROVE SnapshotAt(shape, k + 2) = [main |-> k, evolved |-> 0]
      <3>1. k + 2 \in Nat /\ k + 2 # 1 /\ k + 2 # 2 /\ k + 2 <= c + 2 /\ (k + 2) - 2 = k
        BY <1>1
      <3>. QED
        BY <1>2, <3>1
    <2>. QED
      BY <2>1
  <1>5. \A e \in 1..3 : SnapshotAt(shape, (c + 2) + e) = [main |-> c, evolved |-> e]
    <2>1. ASSUME NEW e \in 1..3 PROVE SnapshotAt(shape, (c + 2) + e) = [main |-> c, evolved |-> e]
      <3>1. /\ (c + 2) + e \in Nat /\ (c + 2) + e # 1 /\ (c + 2) + e # 2 /\ ~((c + 2) + e <= c + 2)
            /\ ((c + 2) + e) - (c + 2) = e
        BY <1>1
      <3>. QED
        BY <1>2, <3>1
    <2>. QED
      BY <2>1
  <1>6. SnapshotAt(shape, 3) = [main |-> 1, evolved |-> 0]
    <2>1. 1 \in 1..c /\ 1 + 2 = 3
      BY <1>1
    <2>. QED
      BY <1>4, <2>1
  <1>7. \A k \in 1..(c - 1) : [SnapshotAt(shape, k + 2) EXCEPT !.main = k + 1] = SnapshotAt(shape, (k + 2) + 1)
    <2>1. ASSUME NEW k \in 1..(c - 1)
          PROVE  [SnapshotAt(shape, k + 2) EXCEPT !.main = k + 1] = SnapshotAt(shape, (k + 2) + 1)
      <3>1. k \in 1..c /\ k + 1 \in 1..c /\ (k + 2) + 1 = (k + 1) + 2
        BY <1>1
      <3>2. SnapshotAt(shape, (k + 2) + 1) = [main |-> k + 1, evolved |-> 0]
        BY <1>4, <3>1
      <3>3. SnapshotAt(shape, k + 2) = [main |-> k, evolved |-> 0]
        BY <1>4, <3>1
      <3>. QED
        BY <3>2, <3>3
    <2>. QED
      BY <2>1
  <1>8. SnapshotAt(shape, c + 2) = [main |-> c, evolved |-> 0]
    BY <1>1, <1>4
  <1>9. /\ SnapshotAt(shape, c + 3) = [main |-> c, evolved |-> 1]
        /\ SnapshotAt(shape, c + 4) = [main |-> c, evolved |-> 2]
        /\ SnapshotAt(shape, c + 5) = [main |-> c, evolved |-> 3]
    <2>1. c + 3 = (c + 2) + 1 /\ c + 4 = (c + 2) + 2 /\ c + 5 = (c + 2) + 3
      BY <1>1
    <2>. QED
      BY <1>5, <2>1
  <1>10. (c + 2) + 1 = c + 3 /\ (c + 3) + 1 = c + 4 /\ (c + 4) + 1 = c + 5
    BY <1>1
  <1>. QED
    BY <1>1, <1>3, <1>6, <1>7, <1>8, <1>9, <1>10

(* A seeder that is filling has made the snapshots of its step.            *)
LEMMA MadeIs ==
  ASSUME NEW sd, sd.at \in Filling, sd.shape \in Shapes, Counted(sd)
  PROVE  Made(sd) \in 1..(sd.shape.chunks + 5)
  <1>1. PICK c \in Nat : c = sd.shape.chunks /\ c >= 2
    BY ShapesAre
  <1>2. sd.at = "loop" => sd.chunk \in 1..c
    BY <1>1 DEF Counted
  <1>. QED
    BY <1>1, <1>2 DEF Made, Filling

(* A statement of materialize_lake that commits a snapshot.                *)
LEMMA FitsMore ==
  ASSUME NEW first, NEW lk, NEW bk, NEW sd, NEW bt, Fits(first, lk, bk, sd, bt), sd.at \in Filling,
         NEW sd2, IsSeeder(sd2), sd2.at \in Filling, sd2.shape = sd.shape, Counted(sd2),
         NEW n, n = Made(sd), Made(sd2) = n + 1, NEW objects, Adds(sd.shape, n, objects)
  PROVE  /\ Last(lk) = SnapshotAt(sd.shape, n)
         /\ Fits(first, [lk EXCEPT !.snapshots = Append(@, SnapshotAt(sd.shape, n + 1))], bk \cup objects, sd2, bt)
  <1>1. /\ sd.shape \in Shapes /\ lk = LakeOf(sd.shape, n) /\ bk = Objects(SnapshotAt(sd.shape, n))
        /\ Counted(sd) /\ bt = NULL
    BY DEF Fits, Underway, Idle, Filling, Resetting
  <1>2. n \in 1..(sd.shape.chunks + 5) /\ n \in Nat /\ n # 0 /\ sd.shape.chunks \in Nat
    BY <1>1, MadeIs, ShapesAre
  <1>3. n + 1 \in 1..(sd.shape.chunks + 5) /\ n + 1 \in Nat /\ n + 1 # 0
    BY <1>1, <1>2, MadeIs
  <1>4. PICK lk2 : lk2 = [lk EXCEPT !.snapshots = Append(@, SnapshotAt(sd.shape, n + 1))]
    OBVIOUS
  <1>5. lk2 = LakeOf(sd.shape, n + 1)
    BY <1>1, <1>2, <1>4, NextSnapshot
  <1>6. bk \cup objects = Objects(SnapshotAt(sd.shape, n + 1))
    BY <1>1 DEF Adds
  <1>7. Last(lk) = SnapshotAt(sd.shape, n) /\ Last(lk2) = SnapshotAt(sd.shape, n + 1)
    BY <1>1, <1>2, <1>3, <1>5, LastOf
  <1>8. IsLake(lk2)
    BY <1>1, <1>3, <1>5 DEF IsLake
  <1>9. Underway(first, lk2, bk \cup objects, sd2)
    BY <1>1, <1>5, <1>6 DEF Underway
  <1>10. Fits(first, lk2, bk \cup objects, sd2, bt)
    BY <1>1, <1>6, <1>7, <1>8, <1>9 DEF Fits
  <1>. QED
    BY <1>4, <1>7, <1>10

(* One that does not.                                                      *)
LEMMA FitsOn ==
  ASSUME NEW first, NEW lk, NEW bk, NEW sd, NEW bt, Fits(first, lk, bk, sd, bt), sd.at \in Filling,
         NEW sd2, IsSeeder(sd2), sd2.at \in Filling, sd2.shape = sd.shape, Counted(sd2), Made(sd2) = Made(sd)
  PROVE  Fits(first, lk, bk, sd2, bt)
  <1>1. /\ sd.shape \in Shapes /\ lk = LakeOf(sd.shape, Made(sd)) /\ bk = Objects(SnapshotAt(sd.shape, Made(sd)))
        /\ bt = NULL
    BY DEF Fits, Underway, Idle, Filling, Resetting
  <1>. QED
    BY <1>1 DEF Fits, Underway

(* What a step of b leaves as it was.                                      *)
OnlyAt(b) ==
    \A c \in Backends \ {b} : lake'[c] = lake[c] /\ bucket'[c] = bucket[c] /\ seeder'[c] = seeder[c] /\ built'[c] = built[c]

(* A step of one backend leaves the others as they were.                   *)
LEMMA OthersBacked ==
  ASSUME BInv, NEW b \in Backends, OnlyAt(b), Backed(b)'
  PROVE  \A c \in Backends : Backed(c)'
  BY DEF OnlyAt, Backed, BInv

(* The steps that do not come near the registry.                           *)
Writers == {"truncate", "write"}

Quiet(b) ==
    /\ UNCHANGED <<registry, held, apart>>
    /\ seeder[b].at \notin Writers /\ seeder'[b].at \notin Writers
    /\ seeder'[b].entries \in {seeder[b].entries, <<>>}
    /\ built'[b] \in {built[b], NULL}

(* They keep what is known of the registry.                                *)
LEMMA QuietStep ==
  ASSUME BInv, NEW b \in Backends, OnlyAt(b), Quiet(b)
  PROVE  EntriesKnown' /\ UpdatesApart'
  <1>1. IsRegistry(<<>>)
    BY DEF IsRegistry
  <1>2. EntriesKnown'
    <2>1. \A c \in Backends : IsRegistry(seeder'[c].entries)
      BY <1>1 DEF BInv, EntriesKnown, OnlyAt, Quiet
    <2>. QED
      BY <2>1 DEF BInv, EntriesKnown, Quiet
  <1>3. UpdatesApart'
    <2>. SUFFICES ASSUME apart' PROVE UpdatesApart'
      BY DEF UpdatesApart
    <2>1. /\ \A c, d \in Updating : c = d
          /\ \A c \in Updating : seeder[c].at = "write" => registry = TORN
          /\ \A c \in Updating : Lists(seeder[c].entries)
          /\ (\A c \in Backends : seeder[c].at # "write") => Lists(Entries)
      BY DEF BInv, UpdatesApart, Quiet
    <2>2. Updating' = Updating /\ b \notin Updating /\ \A c \in Updating : seeder'[c] = seeder[c]
      BY DEF Updating, Quiet, OnlyAt, Writers
    <2>3. ASSUME NEW r, Lists(r) PROVE Lists(r)'
      <3>1. \A c \in Backends : built'[c] \in {built[c], NULL}
        BY DEF Quiet, OnlyAt
      <3>. QED
        BY <2>3, <3>1 DEF Lists
    <2>4. \A c \in Updating' : \A r : r = seeder'[c].entries => Lists(r)'
      BY <2>1, <2>2, <2>3
    <2>5. (\A c \in Backends : seeder'[c].at # "write") => \A c \in Backends : seeder[c].at # "write"
      BY DEF Quiet, OnlyAt, Writers
    <2>6. (\A c \in Backends : seeder'[c].at # "write") => Lists(Entries)'
      <3>1. Entries' = Entries
        BY DEF Quiet, Entries
      <3>2. PICK r : r = Entries
        OBVIOUS
      <3>. QED
        BY <2>1, <2>3, <2>5, <3>1, <3>2 DEF Lists
    <2>. QED
      BY <2>1, <2>2, <2>4, <2>6 DEF UpdatesApart, Quiet
  <1>. QED
    BY <1>2, <1>3

-----------------------------------------------------------------------------
(* The actions of one backend.  Good(b) is what each has to show.          *)

Good(b) == OnlyAt(b) /\ Tables' /\ Backed(b)'

(* A seed may start over anything an earlier one left.                     *)
LEMMA GoodSeed ==
  ASSUME BInv, NEW b \in Backends, NEW shape \in Shapes, Seed(b, shape)
  PROVE  Good(b) /\ Quiet(b)
  <1>1. /\ lake'[b] = lake[b] /\ bucket'[b] = bucket[b] /\ built'[b] = NULL
        /\ seeder'[b] = [Idle EXCEPT !.at = IF b \in CatalogFirst THEN "catalog" ELSE "bucket", !.shape = shape]
        /\ OnlyAt(b) /\ Tables'
    BY DEF Seed, BInv, Tables, OnlyAt
  <1>2. seeder'[b] = [at |-> IF b \in CatalogFirst THEN "catalog" ELSE "bucket", shape |-> shape,
                      chunk |-> 0, mid |-> NULL, entries |-> <<>>]
    BY <1>1 DEF Idle
  <1>3. Backed(b)
    BY DEF BInv
  <1>4. PICK sd : sd = seeder'[b]
    OBVIOUS
  <1>5. IsSeeder(sd) /\ Underway(b \in CatalogFirst, lake[b], bucket[b], sd)
    BY <1>2, <1>4 DEF IsSeeder, Underway, Resetting
  <1>6. Fits(b \in CatalogFirst, lake[b], bucket[b], sd, NULL)
    BY <1>3, <1>5 DEF Backed, Fits
  <1>7. Backed(b)'
    BY <1>1, <1>4, <1>6 DEF Backed
  <1>8. Quiet(b)
    <2>1. UNCHANGED <<registry, held, apart>> /\ seeder[b].at = "idle"
      BY DEF Seed
    <2>2. seeder'[b].at \in {"catalog", "bucket"} /\ seeder'[b].entries = <<>>
      BY <1>2
    <2>. QED
      BY <1>1, <2>1, <2>2 DEF Quiet, Writers
  <1>. QED
    BY <1>1, <1>7, <1>8 DEF Good

(* A seeder that moves on.                                                 *)
LEMMA Goes ==
  ASSUME BInv, NEW b \in Backends, NEW from, NEW to, Goto(b, from, to)
  PROVE  /\ seeder[b].at = from
         /\ seeder'[b] = [at |-> to, shape |-> seeder[b].shape, chunk |-> seeder[b].chunk,
                          mid |-> seeder[b].mid, entries |-> seeder[b].entries]
         /\ \A c \in Backends \ {b} : seeder'[c] = seeder[c]
         /\ seeder' = [c \in Backends |-> seeder'[c]]
  <1>1. IsSeeder(seeder[b]) /\ seeder = [c \in Backends |-> seeder[c]]
    BY DEF BInv, Backed, Fits, Tables
  <1>2. seeder[b].at = from /\ seeder' = [seeder EXCEPT ![b].at = to]
    BY DEF Goto
  <1>3. seeder'[b] = [seeder[b] EXCEPT !.at = to]
    BY <1>1, <1>2
  <1>4. PICK sd : sd = seeder[b] /\ IsSeeder(sd)
    BY <1>1
  <1>5. [sd EXCEPT !.at = to] = [at |-> to, shape |-> sd.shape, chunk |-> sd.chunk, mid |-> sd.mid, entries |-> sd.entries]
    BY <1>4 DEF IsSeeder
  <1>. QED
    BY <1>1, <1>2, <1>3, <1>4, <1>5

(* The stages of a seed are apart.                                         *)
LEMMA NoIdleStages ==
  /\ Idle.at = "idle" /\ "idle" \notin Resetting \cup Filling /\ Resetting \cap Filling = {}
  /\ Writers \subseteq Filling
  BY DEF Idle, Resetting, Filling, Writers

(* Where the catalog goes second, the bucket is empty by then.             *)
LEMMA GoodResetCatalog ==
  ASSUME BInv, NEW b \in Backends, ResetCatalog(b)
  PROVE  Good(b) /\ Quiet(b)
  <1>a. PICK to : to = (IF b \in CatalogFirst THEN "bucket" ELSE "attach")
    OBVIOUS
  <1>b. PICK sd : sd = seeder'[b]
    OBVIOUS
  <1>1. Goto(b, "catalog", to) /\ lake' = [lake EXCEPT ![b] = NULL]
        /\ UNCHANGED <<registry, bucket, seeds, held, built, apart>>
    BY <1>a DEF ResetCatalog
  <1>2. /\ seeder[b].at = "catalog"
        /\ sd = [at |-> to, shape |-> seeder[b].shape, chunk |-> seeder[b].chunk,
                 mid |-> seeder[b].mid, entries |-> seeder[b].entries]
        /\ \A c \in Backends \ {b} : seeder'[c] = seeder[c]
        /\ seeder' = [c \in Backends |-> seeder'[c]]
    BY <1>1, <1>b, Goes
  <1>3. lake'[b] = NULL /\ OnlyAt(b) /\ Tables'
    BY <1>1, <1>2 DEF BInv, Tables, OnlyAt
  <1>4. Backed(b)
    BY DEF BInv
  <1>5. /\ seeder[b].shape \in Shapes /\ seeder[b].chunk = 0 /\ seeder[b].mid = NULL
        /\ b \notin CatalogFirst => bucket[b] = {}
        /\ built[b] = NULL
    BY <1>2, <1>4 DEF Backed, Fits, Underway, Idle, Filling
  <1>6. IsSeeder(sd) /\ Underway(b \in CatalogFirst, NULL, bucket[b], sd)
    BY <1>2, <1>5, <1>a DEF IsSeeder, Underway, Resetting
  <1>7. Fits(b \in CatalogFirst, NULL, bucket[b], sd, NULL)
    BY <1>6 DEF Fits
  <1>8. Backed(b)'
    BY <1>1, <1>3, <1>5, <1>7, <1>b DEF Backed
  <1>9. Quiet(b)
    BY <1>1, <1>2, <1>a, <1>b DEF Quiet, Writers
  <1>. QED
    BY <1>3, <1>8, <1>9 DEF Good

(* Where it goes first, nothing names the objects purged.                  *)
LEMMA GoodPurgeObject ==
  ASSUME BInv, NEW b \in Backends, PurgeObject(b)
  PROVE  Good(b) /\ Quiet(b)
  <1>1. seeder[b].at = "bucket" /\ UNCHANGED <<registry, lake, seeder, seeds, held, built, apart>>
    BY DEF PurgeObject
  <1>2. PICK o : bucket' = [bucket EXCEPT ![b] = @ \ {o}]
    BY DEF PurgeObject
  <1>3. OnlyAt(b) /\ Tables'
    BY <1>1, <1>2 DEF BInv, Tables, OnlyAt
  <1>4. Backed(b)
    BY DEF BInv
  <1>5. PICK sd, lk : sd = seeder[b] /\ lk = lake[b]
    OBVIOUS
  <1>6. /\ IsSeeder(sd) /\ sd.at = "bucket" /\ sd.shape \in Shapes /\ sd.chunk = 0 /\ sd.mid = NULL
        /\ b \in CatalogFirst => lk = NULL
        /\ lk = NULL \/ IsLake(lk)
        /\ built[b] = NULL
    BY <1>1, <1>4, <1>5 DEF Backed, Fits, Underway, Idle, Filling
  <1>7. \A bk : Fits(b \in CatalogFirst, lk, bk, sd, NULL)
    BY <1>6 DEF Fits, Underway, Resetting
  <1>8. Backed(b)'
    BY <1>1, <1>5, <1>6, <1>7 DEF Backed
  <1>9. Quiet(b)
    BY <1>1 DEF Quiet, Writers
  <1>. QED
    BY <1>3, <1>8, <1>9 DEF Good

(* An empty listing ends the purge.                                        *)
LEMMA GoodPurged ==
  ASSUME BInv, NEW b \in Backends, Purged(b)
  PROVE  Good(b) /\ Quiet(b)
  <1>a. PICK to : to = (IF b \in CatalogFirst THEN "attach" ELSE "catalog")
    OBVIOUS
  <1>b. PICK sd : sd = seeder'[b]
    OBVIOUS
  <1>1. Goto(b, "bucket", to) /\ bucket[b] = {} /\ UNCHANGED <<registry, lake, bucket, seeds, held, built, apart>>
    BY <1>a DEF Purged
  <1>2. /\ seeder[b].at = "bucket"
        /\ sd = [at |-> to, shape |-> seeder[b].shape, chunk |-> seeder[b].chunk,
                 mid |-> seeder[b].mid, entries |-> seeder[b].entries]
        /\ \A c \in Backends \ {b} : seeder'[c] = seeder[c]
        /\ seeder' = [c \in Backends |-> seeder'[c]]
    BY <1>1, <1>b, Goes
  <1>3. OnlyAt(b) /\ Tables'
    BY <1>1, <1>2 DEF BInv, Tables, OnlyAt
  <1>4. Backed(b)
    BY DEF BInv
  <1>5. /\ seeder[b].shape \in Shapes /\ seeder[b].chunk = 0 /\ seeder[b].mid = NULL
        /\ b \in CatalogFirst => lake[b] = NULL
        /\ lake[b] = NULL \/ IsLake(lake[b])
        /\ built[b] = NULL
    BY <1>2, <1>4 DEF Backed, Fits, Underway, Idle, Filling
  <1>6. IsSeeder(sd) /\ Underway(b \in CatalogFirst, lake[b], {}, sd)
    BY <1>2, <1>5, <1>a DEF IsSeeder, Underway, Resetting
  <1>7. Fits(b \in CatalogFirst, lake[b], {}, sd, NULL)
    BY <1>5, <1>6 DEF Fits
  <1>8. Backed(b)'
    BY <1>1, <1>5, <1>7, <1>b DEF Backed
  <1>9. Quiet(b)
    BY <1>1, <1>2, <1>a, <1>b DEF Quiet, Writers
  <1>. QED
    BY <1>3, <1>8, <1>9 DEF Good

(* A new catalog has one snapshot, over an empty bucket.                   *)
LEMMA GoodAttach ==
  ASSUME BInv, NEW b \in Backends, Attach(b)
  PROVE  Good(b) /\ Quiet(b)
  <1>a. PICK shape : shape = seeder[b].shape
    OBVIOUS
  <1>b. PICK sd : sd = seeder'[b]
    OBVIOUS
  <1>c. PICK lk : lk = [shape |-> shape, snapshots |-> <<[main |-> 0, evolved |-> 0]>>]
    OBVIOUS
  <1>1. Goto(b, "attach", "create") /\ lake[b] = NULL /\ lake' = [lake EXCEPT ![b] = lk]
        /\ UNCHANGED <<registry, bucket, seeds, held, built, apart>>
    BY <1>a, <1>c DEF Attach
  <1>2. /\ seeder[b].at = "attach"
        /\ sd = [at |-> "create", shape |-> shape, chunk |-> seeder[b].chunk,
                 mid |-> seeder[b].mid, entries |-> seeder[b].entries]
        /\ \A c \in Backends \ {b} : seeder'[c] = seeder[c]
        /\ seeder' = [c \in Backends |-> seeder'[c]]
    BY <1>1, <1>a, <1>b, Goes
  <1>3. lake'[b] = lk /\ OnlyAt(b) /\ Tables'
    BY <1>1, <1>2 DEF BInv, Tables, OnlyAt
  <1>4. Backed(b)
    BY DEF BInv
  <1>5. shape \in Shapes /\ seeder[b].chunk = 0 /\ seeder[b].mid = NULL /\ bucket[b] = {} /\ built[b] = NULL
    BY <1>2, <1>4, <1>a DEF Backed, Fits, Underway, Idle, Filling
  <1>6. lk = LakeOf(shape, 1) /\ shape.chunks \in Nat
    <2>1. SnapshotAt(shape, 1) = [main |-> 0, evolved |-> 0] /\ shape.chunks \in Nat
      BY <1>5, ShapesAre DEF SnapshotAt
    <2>2. [i \in 1..1 |-> SnapshotAt(shape, i)] = <<SnapshotAt(shape, 1)>>
      OBVIOUS
    <2>. QED
      BY <1>c, <2>1, <2>2 DEF LakeOf
  <1>7. IsSeeder(sd) /\ sd.at = "create" /\ sd.shape = shape /\ Counted(sd) /\ Made(sd) = 1
    BY <1>2, <1>5 DEF IsSeeder, Counted, Made
  <1>8. Objects(SnapshotAt(shape, 1)) = {} /\ Last(lk) = SnapshotAt(shape, 1)
    BY <1>5, <1>6, ObjectsAre, LastOf
  <1>9. IsLake(lk)
    <2>1. 1 \in 1..(shape.chunks + 5)
      BY <1>6
    <2>. QED
      BY <1>5, <1>6, <2>1 DEF IsLake
  <1>10. Underway(b \in CatalogFirst, lk, {}, sd)
    BY <1>5, <1>6, <1>7, <1>8 DEF Underway, Filling
  <1>11. Fits(b \in CatalogFirst, lk, {}, sd, NULL)
    BY <1>7, <1>8, <1>9, <1>10 DEF Fits
  <1>12. Backed(b)'
    BY <1>1, <1>3, <1>5, <1>11, <1>b DEF Backed
  <1>13. Quiet(b)
    BY <1>1, <1>2, <1>b DEF Quiet, Writers
  <1>. QED
    BY <1>3, <1>12, <1>13 DEF Good

-----------------------------------------------------------------------------
(* materialize_lake.                                                       *)

(* A seeder that is filling has its lake as long as its step says.         *)
LEMMA FillingIs ==
  ASSUME BInv, NEW b \in Backends, seeder[b].at \in Filling
  PROVE  /\ IsSeeder(seeder[b]) /\ seeder[b].shape \in Shapes /\ Counted(seeder[b]) /\ built[b] = NULL
         /\ Newest(b) = SnapshotAt(seeder[b].shape, Made(seeder[b]))
         /\ lake[b] = LakeOf(seeder[b].shape, Made(seeder[b]))
         /\ Fits(b \in CatalogFirst, lake[b], bucket[b], seeder[b], NULL)
  <1>1. Backed(b)
    BY DEF BInv
  <1>2. /\ IsSeeder(seeder[b]) /\ seeder[b].shape \in Shapes /\ Counted(seeder[b]) /\ built[b] = NULL
        /\ lake[b] = LakeOf(seeder[b].shape, Made(seeder[b]))
        /\ Fits(b \in CatalogFirst, lake[b], bucket[b], seeder[b], NULL)
    BY <1>1 DEF Backed, Fits, Underway, Idle, Filling, Resetting
  <1>3. Made(seeder[b]) \in Nat /\ Made(seeder[b]) # 0
    <2>1. Made(seeder[b]) \in 1..(seeder[b].shape.chunks + 5) /\ seeder[b].shape.chunks \in Nat
      BY <1>2, MadeIs, ShapesAre
    <2>. QED
      BY <2>1
  <1>4. Newest(b) = Last(lake[b])
    BY DEF Newest, Snapshots, Last
  <1>. QED
    BY <1>2, <1>3, <1>4, LastOf

(* A statement that commits the next snapshot of the shape.                *)
LEMMA GoodCommit ==
  ASSUME BInv, NEW b \in Backends, seeder[b].at \in Filling \ Writers,
         NEW sd, seeder'[b] = sd, IsSeeder(sd), sd.at \in Filling \ Writers,
         sd.shape = seeder[b].shape, sd.entries = seeder[b].entries, Counted(sd),
         \A c \in Backends \ {b} : seeder'[c] = seeder[c], seeder' = [c \in Backends |-> seeder'[c]],
         NEW n, n = Made(seeder[b]), Made(sd) = n + 1,
         NEW objects, Adds(seeder[b].shape, n, objects),
         Commits(b, SnapshotAt(seeder[b].shape, n + 1), objects)
  PROVE  Good(b) /\ Quiet(b)
  <1>a. PICK snapshot : snapshot = SnapshotAt(seeder[b].shape, n + 1)
    OBVIOUS
  <1>b. PICK lk, bk : lk = [lake[b] EXCEPT !.snapshots = Append(@, snapshot)] /\ bk = bucket[b] \cup objects
    OBVIOUS
  <1>1. /\ lake' = [lake EXCEPT ![b].snapshots = Append(@, snapshot)]
        /\ bucket' = [bucket EXCEPT ![b] = @ \cup objects]
        /\ UNCHANGED <<registry, seeds, held, built, apart>>
    BY <1>a DEF Commits
  <1>2. lake'[b] = lk /\ bucket'[b] = bk /\ OnlyAt(b) /\ Tables'
    <2>1. lake = [c \in Backends |-> lake[c]] /\ bucket = [c \in Backends |-> bucket[c]]
      BY DEF BInv, Tables
    <2>2. lake'[b] = lk /\ lake' = [c \in Backends |-> lake'[c]] /\ \A c \in Backends \ {b} : lake'[c] = lake[c]
      BY <1>1, <1>b, <2>1
    <2>3. bucket'[b] = bk /\ bucket' = [c \in Backends |-> bucket'[c]] /\ \A c \in Backends \ {b} : bucket'[c] = bucket[c]
      BY <1>1, <1>b, <2>1
    <2>. QED
      BY <1>1, <2>2, <2>3 DEF BInv, Tables, OnlyAt
  <1>3. built[b] = NULL /\ Fits(b \in CatalogFirst, lake[b], bucket[b], seeder[b], NULL)
    BY FillingIs
  <1>4. Fits(b \in CatalogFirst, lk, bk, sd, NULL)
    BY <1>3, <1>a, <1>b, FitsMore
  <1>5. Backed(b)'
    BY <1>1, <1>2, <1>3, <1>4 DEF Backed
  <1>6. Quiet(b)
    BY <1>1 DEF Quiet
  <1>. QED
    BY <1>2, <1>5, <1>6 DEF Good

(* A step of a seed that only writes down where it is.                     *)
LEMMA GoodNote ==
  ASSUME BInv, NEW b \in Backends, seeder[b].at \in Filling,
         NEW sd, seeder'[b] = sd, IsSeeder(sd), sd.at \in Filling,
         sd.shape = seeder[b].shape, Counted(sd), Made(sd) = Made(seeder[b]),
         \A c \in Backends \ {b} : seeder'[c] = seeder[c], seeder' = [c \in Backends |-> seeder'[c]],
         UNCHANGED <<lake, bucket, seeds, held, built>>
  PROVE  Good(b)
  <1>1. built[b] = NULL /\ Fits(b \in CatalogFirst, lake[b], bucket[b], seeder[b], NULL)
    BY FillingIs
  <1>2. Fits(b \in CatalogFirst, lake[b], bucket[b], sd, NULL)
    BY <1>1, FitsOn
  <1>3. Backed(b)'
    BY <1>1, <1>2 DEF Backed
  <1>4. OnlyAt(b) /\ Tables'
    BY DEF BInv, Tables, OnlyAt
  <1>. QED
    BY <1>3, <1>4 DEF Good

(* The seeder after an update of some of its fields.                       *)
LEMMA Sets ==
  ASSUME BInv, NEW b \in Backends, NEW sd, seeder' = [seeder EXCEPT ![b] = sd]
  PROVE  /\ seeder'[b] = sd
         /\ \A c \in Backends \ {b} : seeder'[c] = seeder[c]
         /\ seeder' = [c \in Backends |-> seeder'[c]]
  <1>1. seeder = [c \in Backends |-> seeder[c]]
    BY DEF BInv, Tables
  <1>. QED
    BY <1>1

(* CREATE TABLE AS: the second snapshot.                                   *)
LEMMA GoodCreateMain ==
  ASSUME BInv, NEW b \in Backends, CreateMain(b)
  PROVE  Good(b) /\ Quiet(b)
  <1>a. PICK old, shape : old = seeder[b] /\ shape = old.shape
    OBVIOUS
  <1>b. PICK sd : sd = [at |-> "partition", shape |-> shape, chunk |-> 1, mid |-> old.mid, entries |-> old.entries]
    OBVIOUS
  <1>1. old.at = "create" /\ old.at \in Filling \ Writers
    BY <1>a DEF CreateMain, Filling, Writers
  <1>2. IsSeeder(old) /\ shape \in Shapes /\ Counted(old) /\ Newest(b) = SnapshotAt(shape, Made(old))
    BY <1>1, <1>a, FillingIs
  <1>3. Made(old) = 1 /\ old.mid = NULL
    BY <1>1, <1>2 DEF Made, Counted
  <1>4. seeder' = [seeder EXCEPT ![b] = sd]
    <2>1. seeder' = [seeder EXCEPT ![b].at = "partition", ![b].chunk = 1]
      BY DEF CreateMain
    <2>2. seeder' = [seeder EXCEPT ![b] = [[old EXCEPT !.at = "partition"] EXCEPT !.chunk = 1]]
      BY <2>1, <1>a DEF BInv, Tables
    <2>3. [[old EXCEPT !.at = "partition"] EXCEPT !.chunk = 1] = sd
      <3>1. old = [at |-> old.at, shape |-> shape, chunk |-> old.chunk, mid |-> old.mid, entries |-> old.entries]
        BY <1>2, <1>a DEF IsSeeder
      <3>2. PICK between : between = [at |-> "partition", shape |-> shape, chunk |-> old.chunk,
                                      mid |-> old.mid, entries |-> old.entries]
        OBVIOUS
      <3>3. [old EXCEPT !.at = "partition"] = between
        BY <3>1, <3>2
      <3>4. [between EXCEPT !.chunk = 1] = sd
        BY <3>2, <1>b
      <3>. QED
        BY <3>3, <3>4
    <2>. QED
      BY <2>2, <2>3
  <1>5. /\ seeder'[b] = sd
        /\ \A c \in Backends \ {b} : seeder'[c] = seeder[c]
        /\ seeder' = [c \in Backends |-> seeder'[c]]
    BY <1>4, Sets
  <1>6. /\ IsSeeder(sd) /\ sd.at \in Filling \ Writers /\ sd.shape = shape /\ sd.entries = old.entries
        /\ Counted(sd) /\ Made(sd) = 1 + 1
    BY <1>3, <1>b DEF IsSeeder, Filling, Writers, Counted, Made
  <1>7. Adds(shape, 1, {<<"main", 1>>})
    BY <1>2, ObjectsAre
  <1>8. Commits(b, SnapshotAt(shape, 1 + 1), {<<"main", 1>>})
    <2>1. [Newest(b) EXCEPT !.main = 1] = SnapshotAt(shape, 1 + 1)
      <3>1. [SnapshotAt(shape, 1) EXCEPT !.main = 1] = SnapshotAt(shape, 2)
        BY <1>2, SnapshotsFollow
      <3>2. 1 + 1 = 2
        OBVIOUS
      <3>. QED
        BY <1>2, <1>3, <3>1, <3>2
    <2>. QED
      BY <2>1 DEF CreateMain
  <1>. QED
    BY <1>1, <1>3, <1>5, <1>6, <1>7, <1>8, <1>a, GoodCommit

(* The partitioning: the third, with the same content.                     *)
LEMMA GoodSetPartitionedBy ==
  ASSUME BInv, NEW b \in Backends, SetPartitionedBy(b)
  PROVE  Good(b) /\ Quiet(b)
  <1>a. PICK old, shape : old = seeder[b] /\ shape = old.shape
    OBVIOUS
  <1>b. PICK sd : sd = seeder'[b]
    OBVIOUS
  <1>1. /\ old.at = "partition" /\ old.at \in Filling \ Writers
        /\ sd = [at |-> "loop", shape |-> shape, chunk |-> old.chunk, mid |-> old.mid, entries |-> old.entries]
        /\ \A c \in Backends \ {b} : seeder'[c] = seeder[c]
        /\ seeder' = [c \in Backends |-> seeder'[c]]
    BY <1>a, <1>b, Goes DEF SetPartitionedBy, Filling, Writers
  <1>2. shape \in Shapes /\ Counted(old) /\ Newest(b) = SnapshotAt(shape, Made(old))
    BY <1>1, <1>a, FillingIs
  <1>3. Made(old) = 2 /\ old.mid = NULL /\ old.chunk = 1
    BY <1>1, <1>2 DEF Made, Counted
  <1>4. IsSeeder(sd) /\ sd.at \in Filling \ Writers /\ sd.shape = shape /\ sd.entries = old.entries
    BY <1>1 DEF IsSeeder, Filling, Writers
  <1>5. Counted(sd) /\ Made(sd) = 2 + 1
    <2>1. shape.chunks \in Nat /\ shape.mid \in Nat /\ 1 <= shape.mid /\ shape.mid < shape.chunks
      BY <1>2, ShapesAre
    <2>. QED
      BY <1>1, <1>3, <2>1 DEF Counted, Made
  <1>6. Adds(shape, 2, {})
    BY <1>2, ObjectsAre
  <1>7. Commits(b, SnapshotAt(shape, 2 + 1), {})
    <2>1. Newest(b) = SnapshotAt(shape, 2 + 1)
      <3>1. SnapshotAt(shape, 2) = SnapshotAt(shape, 3)
        BY <1>2, SnapshotsFollow
      <3>2. 2 + 1 = 3
        OBVIOUS
      <3>. QED
        BY <1>2, <1>3, <3>1, <3>2
    <2>. QED
      BY <2>1 DEF SetPartitionedBy
  <1>. QED
    BY <1>1, <1>3, <1>4, <1>5, <1>6, <1>7, <1>a, <1>b, GoodCommit

(* After chunk mid there are mid + 2 snapshots.                            *)
LEMMA GoodCaptureMid ==
  ASSUME BInv, NEW b \in Backends, CaptureMid(b)
  PROVE  Good(b) /\ Quiet(b)
  <1>a. PICK old, shape : old = seeder[b] /\ shape = old.shape
    OBVIOUS
  <1>b. PICK sd : sd = [at |-> "loop", shape |-> shape, chunk |-> old.chunk, mid |-> MidOf(shape), entries |-> old.entries]
    OBVIOUS
  <1>1. old.at = "loop" /\ old.at \in Filling \ Writers /\ old.chunk = shape.mid
        /\ UNCHANGED <<registry, lake, bucket, seeds, held, built, apart>>
    BY <1>a DEF CaptureMid, MidDue, Filling, Writers
  <1>2. IsSeeder(old) /\ shape \in Shapes /\ Counted(old) /\ lake[b] = LakeOf(shape, Made(old))
    BY <1>1, <1>a, FillingIs
  <1>3. shape.chunks \in Nat /\ shape.mid \in Nat /\ 1 <= shape.mid /\ shape.mid < shape.chunks
    BY <1>2, ShapesAre
  <1>4. Len(Snapshots(b)) = MidOf(shape)
    <2>1. Made(old) = MidOf(shape) /\ MidOf(shape) \in Nat
      BY <1>1, <1>3, <1>a DEF Made, MidOf
    <2>. QED
      BY <1>2, <2>1, LakesAre DEF Snapshots
  <1>5. seeder' = [seeder EXCEPT ![b] = sd]
    <2>1. seeder' = [seeder EXCEPT ![b].mid = MidOf(shape)]
      BY <1>4 DEF CaptureMid
    <2>2. seeder' = [seeder EXCEPT ![b] = [old EXCEPT !.mid = MidOf(shape)]]
      BY <2>1, <1>a DEF BInv, Tables
    <2>3. [old EXCEPT !.mid = MidOf(shape)] = sd
      BY <1>1, <1>2, <1>a, <1>b DEF IsSeeder
    <2>. QED
      BY <2>2, <2>3
  <1>6. /\ seeder'[b] = sd
        /\ \A c \in Backends \ {b} : seeder'[c] = seeder[c]
        /\ seeder' = [c \in Backends |-> seeder'[c]]
    BY <1>5, Sets
  <1>7. IsSeeder(sd) /\ sd.at \in Filling \ Writers /\ sd.shape = shape /\ sd.entries = old.entries
    BY <1>b DEF IsSeeder, Filling, Writers
  <1>8. Counted(sd) /\ Made(sd) = Made(old)
    <2>1. old.chunk \in 1..shape.chunks
      BY <1>1, <1>3
    <2>. QED
      BY <1>1, <1>2, <1>b, <1>a, <2>1, <1>3 DEF Counted, Made
  <1>9. Good(b)
    BY <1>1, <1>6, <1>7, <1>8, <1>a, GoodNote
  <1>10. Quiet(b)
    BY <1>1, <1>6, <1>7, <1>a DEF Quiet
  <1>. QED
    BY <1>9, <1>10

(* Chunk k + 1 is snapshot k + 3.                                          *)
LEMMA GoodInsertChunk ==
  ASSUME BInv, NEW b \in Backends, InsertChunk(b)
  PROVE  Good(b) /\ Quiet(b)
  <1>a. PICK old, shape, k : old = seeder[b] /\ shape = old.shape /\ k = old.chunk
    OBVIOUS
  <1>b. PICK sd : sd = [at |-> "loop", shape |-> shape, chunk |-> k + 1, mid |-> old.mid, entries |-> old.entries]
    OBVIOUS
  <1>1. /\ old.at = "loop" /\ old.at \in Filling \ Writers /\ ~(k = shape.mid /\ old.mid = NULL)
        /\ k + 1 <= shape.chunks
        /\ seeder' = [seeder EXCEPT ![b].chunk = k + 1]
        /\ Commits(b, [Newest(b) EXCEPT !.main = k + 1], {<<"main", k + 1>>})
    BY <1>a DEF InsertChunk, MidDue, Filling, Writers
  <1>2. IsSeeder(old) /\ shape \in Shapes /\ Counted(old) /\ Newest(b) = SnapshotAt(shape, Made(old))
    BY <1>1, <1>a, FillingIs
  <1>3. shape.chunks \in Nat /\ shape.mid \in Nat /\ 1 <= shape.mid /\ shape.mid < shape.chunks
    BY <1>2, ShapesAre
  <1>4. /\ k \in 1..shape.chunks /\ (old.mid = NULL => k <= shape.mid)
        /\ (old.mid # NULL => old.mid = MidOf(shape))
    BY <1>1, <1>2, <1>a DEF Counted
  <1>5. Made(old) = k + 2 /\ k \in 1..(shape.chunks - 1)
    BY <1>1, <1>3, <1>4, <1>a DEF Made
  <1>6. seeder' = [seeder EXCEPT ![b] = sd]
    <2>1. seeder' = [seeder EXCEPT ![b] = [old EXCEPT !.chunk = k + 1]]
      BY <1>1, <1>a DEF BInv, Tables
    <2>2. [old EXCEPT !.chunk = k + 1] = sd
      BY <1>1, <1>2, <1>a, <1>b DEF IsSeeder
    <2>. QED
      BY <2>1, <2>2
  <1>7. /\ seeder'[b] = sd
        /\ \A c \in Backends \ {b} : seeder'[c] = seeder[c]
        /\ seeder' = [c \in Backends |-> seeder'[c]]
    BY <1>6, Sets
  <1>8. IsSeeder(sd) /\ sd.at \in Filling \ Writers /\ sd.shape = shape /\ sd.entries = old.entries
    BY <1>b DEF IsSeeder, Filling, Writers
  <1>9. Counted(sd) /\ Made(sd) = (k + 2) + 1
    <2>1. k + 1 \in 1..shape.chunks /\ (old.mid = NULL => k + 1 <= shape.mid) /\ (k + 1) + 2 = (k + 2) + 1
      BY <1>1, <1>3, <1>4
    <2>. QED
      BY <1>4, <1>b, <2>1 DEF Counted, Made
  <1>10. Adds(shape, k + 2, {<<"main", k + 1>>})
    BY <1>2, <1>5, ObjectsAre
  <1>11. [Newest(b) EXCEPT !.main = k + 1] = SnapshotAt(shape, (k + 2) + 1)
    <2>1. [SnapshotAt(shape, k + 2) EXCEPT !.main = k + 1] = SnapshotAt(shape, (k + 2) + 1)
      BY <1>2, <1>5, SnapshotsFollow
    <2>. QED
      BY <1>2, <1>5, <2>1
  <1>12. PICK n : n = k + 2
    OBVIOUS
  <1>13. Commits(b, SnapshotAt(shape, n + 1), {<<"main", k + 1>>})
    <2>1. PICK next : next = k + 1
      OBVIOUS
    <2>2. [Newest(b) EXCEPT !.main = next] = SnapshotAt(shape, n + 1)
      BY <1>11, <1>12, <2>1
    <2>3. Commits(b, [Newest(b) EXCEPT !.main = next], {<<"main", next>>})
      BY <1>1, <2>1
    <2>. QED
      BY <2>1, <2>2, <2>3
  <1>14. n = Made(old) /\ Made(sd) = n + 1
    BY <1>5, <1>9, <1>12
  <1>15. Adds(shape, n, {<<"main", k + 1>>})
    BY <1>10, <1>12
  <1>16. PICK objects : objects = {<<"main", k + 1>>}
    OBVIOUS
  <1>17. Adds(seeder[b].shape, n, objects) /\ Commits(b, SnapshotAt(seeder[b].shape, n + 1), objects)
    BY <1>13, <1>15, <1>16, <1>a
  <1>18. /\ seeder[b].at \in Filling \ Writers /\ IsSeeder(sd) /\ sd.at \in Filling \ Writers
         /\ sd.shape = seeder[b].shape /\ sd.entries = seeder[b].entries /\ Counted(sd)
         /\ n = Made(seeder[b]) /\ Made(sd) = n + 1
    BY <1>1, <1>8, <1>9, <1>14, <1>a
  <1>. QED
    BY <1>7, <1>17, <1>18, GoodCommit

(* The last chunk is done, and so the mid snapshot has been captured.      *)
LEMMA GoodCreateEvolved ==
  ASSUME BInv, NEW b \in Backends, CreateEvolved(b)
  PROVE  Good(b) /\ Quiet(b)
  <1>a. PICK old, shape, c : old = seeder[b] /\ shape = old.shape /\ c = shape.chunks
    OBVIOUS
  <1>b. PICK sd : sd = seeder'[b]
    OBVIOUS
  <1>1. /\ old.at = "loop" /\ old.at \in Filling \ Writers /\ old.chunk = c
        /\ ~(old.chunk = shape.mid /\ old.mid = NULL)
        /\ sd = [at |-> "alter", shape |-> shape, chunk |-> old.chunk, mid |-> old.mid, entries |-> old.entries]
        /\ \A x \in Backends \ {b} : seeder'[x] = seeder[x]
        /\ seeder' = [x \in Backends |-> seeder'[x]]
        /\ Commits(b, [Newest(b) EXCEPT !.evolved = 1], {<<"evolved", 1>>})
    BY <1>a, <1>b, Goes DEF CreateEvolved, MidDue, Filling, Writers
  <1>2. shape \in Shapes /\ Counted(old) /\ Newest(b) = SnapshotAt(shape, Made(old))
    BY <1>1, <1>a, FillingIs
  <1>3. c \in Nat /\ shape.mid \in Nat /\ shape.mid < c
    BY <1>2, <1>a, ShapesAre
  <1>4. PICK n : n = c + 2
    OBVIOUS
  <1>5. n = Made(old) /\ n + 1 = c + 3
    BY <1>1, <1>3, <1>4, <1>a DEF Made
  <1>6. old.mid = MidOf(shape)
    <2>1. old.mid # NULL
      BY <1>1, <1>2, <1>3, <1>a DEF Counted
    <2>. QED
      BY <1>1, <1>2, <1>a, <2>1 DEF Counted
  <1>7. IsSeeder(sd) /\ sd.at \in Filling \ Writers /\ sd.shape = shape /\ sd.entries = old.entries
    BY <1>1 DEF IsSeeder, Filling, Writers
  <1>8. Counted(sd) /\ Made(sd) = n + 1
    BY <1>1, <1>5, <1>6, <1>a DEF Counted, Made
  <1>9. Adds(shape, n, {<<"evolved", 1>>})
    BY <1>2, <1>4, <1>a, ObjectsAre
  <1>10. [SnapshotAt(shape, n) EXCEPT !.evolved = 1] = SnapshotAt(shape, n + 1)
    BY <1>2, <1>4, <1>a, SnapshotsFollow
  <1>11. Commits(b, SnapshotAt(shape, n + 1), {<<"evolved", 1>>})
    BY <1>1, <1>2, <1>5, <1>10
  <1>. QED
    BY <1>1, <1>5, <1>7, <1>8, <1>9, <1>11, <1>a, <1>b, GoodCommit

(* The new column uploads nothing.                                         *)
LEMMA GoodAddVenue ==
  ASSUME BInv, NEW b \in Backends, AddVenue(b)
  PROVE  Good(b) /\ Quiet(b)
  <1>a. PICK old, shape, c : old = seeder[b] /\ shape = old.shape /\ c = shape.chunks
    OBVIOUS
  <1>b. PICK sd : sd = seeder'[b]
    OBVIOUS
  <1>1. /\ old.at = "alter" /\ old.at \in Filling \ Writers
        /\ sd = [at |-> "fill", shape |-> shape, chunk |-> old.chunk, mid |-> old.mid, entries |-> old.entries]
        /\ \A x \in Backends \ {b} : seeder'[x] = seeder[x]
        /\ seeder' = [x \in Backends |-> seeder'[x]]
        /\ Commits(b, [Newest(b) EXCEPT !.evolved = 2], {})
    BY <1>a, <1>b, Goes DEF AddVenue, Filling, Writers
  <1>2. shape \in Shapes /\ Counted(old) /\ Newest(b) = SnapshotAt(shape, Made(old))
    BY <1>1, <1>a, FillingIs
  <1>3. c \in Nat
    BY <1>2, <1>a, ShapesAre
  <1>4. PICK n : n = c + 3
    OBVIOUS
  <1>5. n = Made(old) /\ n + 1 = c + 4
    BY <1>1, <1>3, <1>4, <1>a DEF Made
  <1>6. old.mid = MidOf(shape)
    BY <1>1, <1>2, <1>a DEF Counted
  <1>7. IsSeeder(sd) /\ sd.at \in Filling \ Writers /\ sd.shape = shape /\ sd.entries = old.entries
    BY <1>1 DEF IsSeeder, Filling, Writers
  <1>8. Counted(sd) /\ Made(sd) = n + 1
    BY <1>1, <1>5, <1>6, <1>a DEF Counted, Made
  <1>9. Adds(shape, n, {})
    BY <1>2, <1>4, <1>a, ObjectsAre
  <1>10. [SnapshotAt(shape, n) EXCEPT !.evolved = 2] = SnapshotAt(shape, n + 1)
    BY <1>2, <1>4, <1>a, SnapshotsFollow
  <1>11. Commits(b, SnapshotAt(shape, n + 1), {})
    BY <1>1, <1>2, <1>5, <1>10
  <1>. QED
    BY <1>1, <1>5, <1>7, <1>8, <1>9, <1>11, <1>a, <1>b, GoodCommit

(* The lake is whole.                                                      *)
LEMMA GoodFillEvolved ==
  ASSUME BInv, NEW b \in Backends, FillEvolved(b)
  PROVE  Good(b) /\ Quiet(b)
  <1>a. PICK old, shape, c : old = seeder[b] /\ shape = old.shape /\ c = shape.chunks
    OBVIOUS
  <1>b. PICK sd : sd = seeder'[b]
    OBVIOUS
  <1>1. /\ old.at = "fill" /\ old.at \in Filling \ Writers
        /\ sd = [at |-> "load", shape |-> shape, chunk |-> old.chunk, mid |-> old.mid, entries |-> old.entries]
        /\ \A x \in Backends \ {b} : seeder'[x] = seeder[x]
        /\ seeder' = [x \in Backends |-> seeder'[x]]
        /\ Commits(b, [Newest(b) EXCEPT !.evolved = 3], {<<"evolved", 2>>})
    BY <1>a, <1>b, Goes DEF FillEvolved, Filling, Writers
  <1>2. shape \in Shapes /\ Counted(old) /\ Newest(b) = SnapshotAt(shape, Made(old))
    BY <1>1, <1>a, FillingIs
  <1>3. c \in Nat
    BY <1>2, <1>a, ShapesAre
  <1>4. PICK n : n = c + 4
    OBVIOUS
  <1>5. n = Made(old) /\ n + 1 = c + 5
    BY <1>1, <1>3, <1>4, <1>a DEF Made
  <1>6. old.mid = MidOf(shape)
    BY <1>1, <1>2, <1>a DEF Counted
  <1>7. IsSeeder(sd) /\ sd.at \in Filling \ Writers /\ sd.shape = shape /\ sd.entries = old.entries
    BY <1>1 DEF IsSeeder, Filling, Writers
  <1>8. Counted(sd) /\ Made(sd) = n + 1
    BY <1>1, <1>5, <1>6, <1>a DEF Counted, Made
  <1>9. Adds(shape, n, {<<"evolved", 2>>})
    BY <1>2, <1>4, <1>a, ObjectsAre
  <1>10. [SnapshotAt(shape, n) EXCEPT !.evolved = 3] = SnapshotAt(shape, n + 1)
    BY <1>2, <1>4, <1>a, SnapshotsFollow
  <1>11. Commits(b, SnapshotAt(shape, n + 1), {<<"evolved", 2>>})
    BY <1>1, <1>2, <1>5, <1>10
  <1>. QED
    BY <1>1, <1>5, <1>7, <1>8, <1>9, <1>11, <1>a, <1>b, GoodCommit

-----------------------------------------------------------------------------
(* Steps that end a seed, and the registry.                                *)

(* The seeder's process is gone.                                           *)
LEMMA Ended ==
  ASSUME BInv, NEW b \in Backends, seeder' = [seeder EXCEPT ![b] = Idle]
  PROVE  /\ seeder'[b] = Idle /\ IsSeeder(Idle)
         /\ \A c \in Backends \ {b} : seeder'[c] = seeder[c]
         /\ seeder' = [c \in Backends |-> seeder'[c]]
  BY Sets DEF Idle, IsSeeder

(* A registry that cannot be parsed ends a seed without an entry.          *)
LEMMA GoodLoadRaises ==
  ASSUME BInv, NEW b \in Backends, LoadRaises(b)
  PROVE  Good(b) /\ Quiet(b)
  <1>1. seeder[b].at = "load" /\ seeder' = [seeder EXCEPT ![b] = Idle]
        /\ UNCHANGED <<registry, lake, bucket, seeds, held, built, apart>>
    BY DEF LoadRaises, Ends
  <1>2. /\ seeder'[b] = Idle /\ IsSeeder(Idle)
        /\ \A c \in Backends \ {b} : seeder'[c] = seeder[c]
        /\ seeder' = [c \in Backends |-> seeder'[c]]
    BY <1>1, Ended
  <1>3. built[b] = NULL /\ Fits(b \in CatalogFirst, lake[b], bucket[b], seeder[b], NULL)
    BY <1>1, FillingIs DEF Filling
  <1>4. Fits(b \in CatalogFirst, lake[b], bucket[b], Idle, NULL)
    BY <1>2, <1>3 DEF Fits, Underway
  <1>5. Backed(b)'
    BY <1>1, <1>2, <1>3, <1>4 DEF Backed
  <1>6. OnlyAt(b) /\ Tables'
    BY <1>1, <1>2 DEF BInv, Tables, OnlyAt
  <1>7. Quiet(b)
    BY <1>1, <1>2 DEF Quiet, Writers, Idle
  <1>. QED
    BY <1>5, <1>6, <1>7 DEF Good

(* A seed that writes its entry has a whole lake.                          *)
LEMMA GoodWrite ==
  ASSUME BInv, NEW b \in Backends, Write(b)
  PROVE  Good(b) /\ GoodEntry(Entry(b)) /\ built'[b] = Entry(b)
  <1>1. seeder[b].at = "write" /\ seeder' = [seeder EXCEPT ![b] = Idle]
        /\ UNCHANGED <<lake, bucket, seeds, held, apart>> /\ built' = [built EXCEPT ![b] = Entry(b)]
    BY DEF Write, Ends
  <1>2. /\ seeder'[b] = Idle /\ IsSeeder(Idle)
        /\ \A c \in Backends \ {b} : seeder'[c] = seeder[c]
        /\ seeder' = [c \in Backends |-> seeder'[c]]
    BY <1>1, Ended
  <1>3. /\ seeder[b].shape \in Shapes /\ Counted(seeder[b])
        /\ Fits(b \in CatalogFirst, lake[b], bucket[b], seeder[b], NULL)
        /\ lake[b] = LakeOf(seeder[b].shape, Made(seeder[b]))
    BY <1>1, FillingIs DEF Filling
  <1>4. PICK e : e = Entry(b)
    OBVIOUS
  <1>5. e.shape = seeder[b].shape /\ GoodEntry(e)
    BY <1>1, <1>3, <1>4 DEF Entry, Counted, GoodEntry
  <1>6. /\ lake[b] = LakeOf(e.shape, e.shape.chunks + 5)
        /\ bucket[b] = Objects(SnapshotAt(e.shape, e.shape.chunks + 5))
    <2>1. Made(seeder[b]) = e.shape.chunks + 5
      BY <1>1, <1>5 DEF Made
    <2>2. bucket[b] = Objects(SnapshotAt(seeder[b].shape, Made(seeder[b])))
      BY <1>1, <1>3 DEF Fits, Underway, Idle, Resetting
    <2>. QED
      BY <1>3, <1>5, <2>1, <2>2
  <1>7. Fits(b \in CatalogFirst, lake[b], bucket[b], Idle, e)
    BY <1>2, <1>3, <1>5, <1>6 DEF Fits, Underway
  <1>8. built'[b] = e /\ OnlyAt(b) /\ Tables'
    BY <1>1, <1>2, <1>4 DEF BInv, Tables, OnlyAt
  <1>9. Backed(b)'
    BY <1>1, <1>2, <1>7, <1>8 DEF Backed
  <1>. QED
    BY <1>4, <1>5, <1>8, <1>9 DEF Good

(* A killed seed leaves its lake and perhaps an orphan.                    *)
LEMMA GoodKilled ==
  ASSUME BInv, NEW b \in Backends, Killed(b)
  PROVE  Good(b) /\ built[b] = NULL
  <1>1. seeder[b].at # "idle" /\ seeder' = [seeder EXCEPT ![b] = Idle]
        /\ UNCHANGED <<lake, seeds, held, built>>
    BY DEF Killed
  <1>2. PICK orphans : bucket' = [bucket EXCEPT ![b] = @ \cup orphans]
    BY DEF Killed
  <1>3. /\ seeder'[b] = Idle /\ IsSeeder(Idle)
        /\ \A c \in Backends \ {b} : seeder'[c] = seeder[c]
        /\ seeder' = [c \in Backends |-> seeder'[c]]
    BY <1>1, Ended
  <1>4. Backed(b)
    BY DEF BInv
  <1>5. /\ built[b] = NULL
        /\ lake[b] = NULL \/ IsLake(lake[b])
        /\ b \in CatalogFirst /\ lake[b] # NULL => Objects(Last(lake[b])) \subseteq bucket[b]
    BY <1>1, <1>4 DEF Backed, Fits, Idle
  <1>6. bucket'[b] = bucket[b] \cup orphans /\ OnlyAt(b) /\ Tables'
    BY <1>1, <1>2, <1>3 DEF BInv, Tables, OnlyAt
  <1>7. PICK bk : bk = bucket[b] \cup orphans
    OBVIOUS
  <1>8. Fits(b \in CatalogFirst, lake[b], bk, Idle, NULL)
    BY <1>3, <1>5, <1>7 DEF Fits, Underway
  <1>9. Backed(b)'
    BY <1>1, <1>3, <1>5, <1>6, <1>7, <1>8 DEF Backed
  <1>. QED
    BY <1>5, <1>6, <1>9 DEF Good

(* Loading the registry touches no lake.                                   *)
LEMMA GoodLoadState ==
  ASSUME BInv, NEW b \in Backends, LoadState(b)
  PROVE  /\ Good(b) /\ seeder[b].at = "load" /\ seeder'[b].at = "truncate"
         /\ seeder'[b].entries = IF registry = NULL THEN <<>> ELSE registry
  <1>a. PICK old : old = seeder[b]
    OBVIOUS
  <1>b. PICK r : r = IF registry = NULL THEN <<>> ELSE registry
    OBVIOUS
  <1>c. PICK sd : sd = [at |-> "truncate", shape |-> old.shape, chunk |-> old.chunk, mid |-> old.mid, entries |-> r]
    OBVIOUS
  <1>1. old.at = "load" /\ old.at \in Filling /\ UNCHANGED <<lake, bucket, seeds, held, built>>
    BY <1>a DEF LoadState, Filling
  <1>2. IsSeeder(old) /\ Counted(old)
    BY <1>1, <1>a, FillingIs
  <1>3. seeder' = [seeder EXCEPT ![b] = sd]
    <2>1. seeder' = [seeder EXCEPT ![b].at = "truncate", ![b].entries = r]
      BY <1>b DEF LoadState
    <2>2. seeder' = [seeder EXCEPT ![b] = [[old EXCEPT !.at = "truncate"] EXCEPT !.entries = r]]
      BY <2>1, <1>a DEF BInv, Tables
    <2>3. [[old EXCEPT !.at = "truncate"] EXCEPT !.entries = r] = sd
      <3>1. old = [at |-> old.at, shape |-> old.shape, chunk |-> old.chunk, mid |-> old.mid, entries |-> old.entries]
        BY <1>2 DEF IsSeeder
      <3>2. PICK between : between = [at |-> "truncate", shape |-> old.shape, chunk |-> old.chunk,
                                      mid |-> old.mid, entries |-> old.entries]
        OBVIOUS
      <3>3. [old EXCEPT !.at = "truncate"] = between
        BY <3>1, <3>2
      <3>4. [between EXCEPT !.entries = r] = sd
        BY <3>2, <1>c
      <3>. QED
        BY <3>3, <3>4
    <2>. QED
      BY <2>2, <2>3
  <1>4. /\ seeder'[b] = sd
        /\ \A c \in Backends \ {b} : seeder'[c] = seeder[c]
        /\ seeder' = [c \in Backends |-> seeder'[c]]
    BY <1>3, Sets
  <1>5. IsSeeder(sd) /\ sd.at \in Filling /\ sd.shape = old.shape
    BY <1>c DEF IsSeeder, Filling
  <1>6. Counted(sd) /\ Made(sd) = Made(old)
    BY <1>1, <1>2, <1>c DEF Counted, Made
  <1>7. Good(b)
    BY <1>1, <1>4, <1>5, <1>6, <1>a, GoodNote
  <1>. QED
    BY <1>1, <1>4, <1>7, <1>a, <1>b, <1>c

(* Nor does truncating it.                                                 *)
LEMMA GoodTruncate ==
  ASSUME BInv, NEW b \in Backends, Truncate(b)
  PROVE  /\ Good(b) /\ seeder[b].at = "truncate" /\ seeder'[b].at = "write"
         /\ seeder'[b].entries = seeder[b].entries
  <1>a. PICK old, sd : old = seeder[b] /\ sd = seeder'[b]
    OBVIOUS
  <1>1. /\ old.at = "truncate" /\ old.at \in Filling
        /\ sd = [at |-> "write", shape |-> old.shape, chunk |-> old.chunk, mid |-> old.mid, entries |-> old.entries]
        /\ \A x \in Backends \ {b} : seeder'[x] = seeder[x]
        /\ seeder' = [x \in Backends |-> seeder'[x]]
        /\ UNCHANGED <<lake, bucket, seeds, held, built>>
    BY <1>a, Goes DEF Truncate, Filling
  <1>2. Counted(old)
    BY <1>1, <1>a, FillingIs
  <1>3. IsSeeder(sd) /\ sd.at \in Filling /\ sd.shape = old.shape
    BY <1>1 DEF IsSeeder, Filling
  <1>4. Counted(sd) /\ Made(sd) = Made(old)
    BY <1>1, <1>2 DEF Counted, Made
  <1>5. Good(b)
    BY <1>1, <1>3, <1>4, <1>a, GoodNote
  <1>. QED
    BY <1>1, <1>5, <1>a

-----------------------------------------------------------------------------
(* The registry.                                                           *)

(* What is read from the registry has good entries only.                   *)
LEMMA RegistryOf ==
  ASSUME BInv
  PROVE  /\ IsRegistry(Entries)
         /\ registry # TORN => Entries = IF registry = NULL THEN <<>> ELSE registry
         /\ registry \notin {NULL, TORN} => Entries = registry
  <1>1. IsRegistry(<<>>)
    BY DEF IsRegistry
  <1>2. registry \in {NULL, TORN} \/ IsRegistry(registry)
    BY DEF BInv, EntriesKnown
  <1>. QED
    BY <1>1, <1>2 DEF Entries

(* What an update writes is a registry with the new entry and all others.  *)
LEMMA UpdatedIs ==
  ASSUME BInv, NEW b \in Backends, GoodEntry(Entry(b))
  PROVE  /\ IsRegistry(Updated(b)) /\ Updated(b) \notin {NULL, TORN}
         /\ DOMAIN Updated(b) = DOMAIN seeder[b].entries \cup {b}
         /\ Updated(b)[b] = Entry(b)
         /\ \A c \in DOMAIN seeder[b].entries \ {b} : Updated(b)[c] = seeder[b].entries[c]
  <1>1. PICK r, e : r = seeder[b].entries /\ e = Entry(b)
    OBVIOUS
  <1>2. IsRegistry(r) /\ GoodEntry(e)
    BY <1>1 DEF BInv, EntriesKnown
  <1>3. PICK u : u = [c \in DOMAIN r \cup {b} |-> IF c = b THEN e ELSE r[c]]
    OBVIOUS
  <1>4. /\ DOMAIN u = DOMAIN r \cup {b} /\ u[b] = e /\ \A c \in DOMAIN r \ {b} : u[c] = r[c]
        /\ u = [c \in DOMAIN u |-> u[c]]
    BY <1>3
  <1>5. Updated(b) = u
    BY <1>1, <1>3 DEF Updated
  <1>6. IsRegistry(u)
    BY <1>2, <1>4 DEF IsRegistry
  <1>7. u \notin {NULL, TORN}
    <2>1. \A c \in DOMAIN u : u[c] \in [shape: Shapes, mid: Nat]
      <3>1. ASSUME NEW x, GoodEntry(x) PROVE x \in [shape: Shapes, mid: Nat]
        <4>1. x.shape \in Shapes /\ x = [shape |-> x.shape, mid |-> x.shape.mid + 2]
          BY <3>1 DEF GoodEntry, MidOf
        <4>2. x.shape.mid + 2 \in Nat
          BY <4>1, ShapesAre
        <4>. QED
          BY <4>1, <4>2
      <3>. QED
        BY <1>6, <3>1 DEF IsRegistry
    <2>2. PICK D : D = DOMAIN u
      OBVIOUS
    <2>3. D \in SUBSET Backends
      BY <1>6, <2>2 DEF IsRegistry
    <2>4. u \in [D -> [shape: Shapes, mid: Nat]]
      BY <1>4, <2>1, <2>2
    <2>5. {NULL, TORN} \cap [D -> [shape: Shapes, mid: Nat]] = {}
      BY <2>3, BenchAssumption
    <2>. QED
      BY <2>4, <2>5
  <1>. QED
    BY <1>1, <1>4, <1>5, <1>6, <1>7

(* Who loads while no one updates knows all there is.                      *)
LEMMA LoadStateKnows ==
  ASSUME BInv, NEW b \in Backends, LoadState(b)
  PROVE  EntriesKnown' /\ UpdatesApart'
  <1>1. registry # TORN /\ UNCHANGED <<registry, held, built>> /\ apart' = (apart /\ Updating = {})
    BY DEF LoadState
  <1>2. OnlyAt(b) /\ seeder[b].at = "load" /\ seeder'[b].at = "truncate" /\ seeder'[b].entries = Entries
    BY <1>1, GoodLoadState, RegistryOf DEF Good
  <1>3. EntriesKnown'
    <2>1. \A c \in Backends : IsRegistry(seeder'[c].entries)
      BY <1>2, RegistryOf DEF BInv, EntriesKnown, OnlyAt
    <2>. QED
      BY <1>1, <2>1 DEF BInv, EntriesKnown
  <1>4. UpdatesApart'
    <2>. SUFFICES ASSUME apart' PROVE UpdatesApart'
      BY DEF UpdatesApart
    <2>1. apart /\ Updating = {}
      BY <1>1
    <2>2. Lists(Entries)
      BY <2>1 DEF BInv, UpdatesApart, Updating
    <2>3. Updating' = {b}
      BY <1>2, <2>1 DEF Updating, OnlyAt
    <2>4. PICK r : r = Entries
      OBVIOUS
    <2>5. Entries' = r /\ seeder'[b].entries = r
      BY <1>1, <1>2, <2>4 DEF Entries
    <2>6. Lists(r)'
      BY <1>1, <2>2, <2>4 DEF Lists
    <2>7. Lists(Entries)' /\ Lists(seeder[b].entries)'
      BY <2>5, <2>6 DEF Lists
    <2>. QED
      BY <1>2, <2>3, <2>7 DEF UpdatesApart
  <1>. QED
    BY <1>3, <1>4

(* Who truncates alone still knows what was there.                         *)
LEMMA TruncateKnows ==
  ASSUME BInv, NEW b \in Backends, Truncate(b)
  PROVE  EntriesKnown' /\ UpdatesApart'
  <1>1. registry' = TORN /\ UNCHANGED <<held, built, apart>>
    BY DEF Truncate
  <1>2. /\ OnlyAt(b) /\ seeder[b].at = "truncate" /\ seeder'[b].at = "write"
        /\ seeder'[b].entries = seeder[b].entries
    BY GoodTruncate DEF Good
  <1>3. EntriesKnown'
    <2>1. \A c \in Backends : IsRegistry(seeder'[c].entries)
      BY <1>2 DEF BInv, EntriesKnown, OnlyAt
    <2>. QED
      BY <1>1, <2>1 DEF BInv, EntriesKnown
  <1>4. UpdatesApart'
    <2>. SUFFICES ASSUME apart' PROVE UpdatesApart'
      BY DEF UpdatesApart
    <2>1. b \in Updating
      BY <1>2 DEF Updating
    <2>2. Updating = {b} /\ Lists(seeder[b].entries)
      BY <1>1, <2>1 DEF BInv, UpdatesApart
    <2>3. Updating' = {b}
      BY <1>2, <2>2 DEF Updating, OnlyAt
    <2>4. Lists(seeder[b].entries)'
      BY <1>1, <1>2, <2>2 DEF Lists
    <2>. QED
      BY <1>1, <1>2, <2>3, <2>4 DEF UpdatesApart
  <1>. QED
    BY <1>3, <1>4

(* Who writes alone restores it, with the new entry.                       *)
LEMMA WriteKnows ==
  ASSUME BInv, NEW b \in Backends, Write(b)
  PROVE  EntriesKnown' /\ UpdatesApart'
  <1>1. /\ OnlyAt(b) /\ GoodEntry(Entry(b)) /\ built'[b] = Entry(b)
        /\ seeder[b].at = "write" /\ seeder'[b] = Idle
    BY GoodWrite, Ended DEF Good, Write, Ends
  <1>2. PICK u : u = Updated(b)
    OBVIOUS
  <1>3. registry' \in {u} \cup (IF registry = TORN THEN {} ELSE {TORN}) /\ UNCHANGED <<held, apart>>
    BY <1>2 DEF Write
  <1>4. /\ IsRegistry(u) /\ u \notin {NULL, TORN} /\ DOMAIN u = DOMAIN seeder[b].entries \cup {b}
        /\ u[b] = Entry(b) /\ \A c \in DOMAIN seeder[b].entries \ {b} : u[c] = seeder[b].entries[c]
    BY <1>1, <1>2, UpdatedIs
  <1>5. EntriesKnown'
    <2>1. IsRegistry(<<>>) /\ Idle.entries = <<>>
      BY DEF IsRegistry, Idle
    <2>2. \A c \in Backends : IsRegistry(seeder'[c].entries)
      BY <1>1, <2>1 DEF BInv, EntriesKnown, OnlyAt
    <2>3. registry' \in {NULL, TORN} \/ IsRegistry(registry')
      BY <1>3, <1>4
    <2>. QED
      BY <1>3, <2>2, <2>3 DEF BInv, EntriesKnown
  <1>6. UpdatesApart'
    <2>. SUFFICES ASSUME apart' PROVE UpdatesApart'
      BY DEF UpdatesApart
    <2>1. b \in Updating
      BY <1>1 DEF Updating
    <2>2. Updating = {b} /\ Lists(seeder[b].entries) /\ registry = TORN
      BY <1>1, <1>3, <2>1 DEF BInv, UpdatesApart
    <2>3. Updating' = {}
      BY <1>1, <2>2 DEF Updating, OnlyAt, Idle
    <2>4. registry' = u
      BY <1>3, <2>2
    <2>5. Entries' = u
      BY <1>4, <2>4 DEF Entries
    <2>6. Lists(u)'
      BY <1>1, <1>4, <2>2 DEF Lists, OnlyAt
    <2>7. Lists(Entries)'
      BY <2>5, <2>6 DEF Lists
    <2>. QED
      BY <2>3, <2>7 DEF UpdatesApart
  <1>. QED
    BY <1>5, <1>6

(* A kill before the truncation loses nothing.                             *)
LEMMA KilledKnows ==
  ASSUME BInv, NEW b \in Backends, Killed(b)
  PROVE  EntriesKnown' /\ UpdatesApart'
  <1>1. UNCHANGED <<registry, held, built>> /\ apart' = (apart /\ seeder[b].at # "write")
    BY DEF Killed
  <1>2. OnlyAt(b) /\ seeder'[b] = Idle
    BY GoodKilled, Ended DEF Good, Killed
  <1>3. EntriesKnown'
    <2>1. IsRegistry(<<>>) /\ Idle.entries = <<>>
      BY DEF IsRegistry, Idle
    <2>2. \A c \in Backends : IsRegistry(seeder'[c].entries)
      BY <1>2, <2>1 DEF BInv, EntriesKnown, OnlyAt
    <2>. QED
      BY <1>1, <2>2 DEF BInv, EntriesKnown
  <1>4. UpdatesApart'
    <2>. SUFFICES ASSUME apart' PROVE UpdatesApart'
      BY DEF UpdatesApart
    <2>1. apart /\ seeder[b].at # "write"
      BY <1>1
    <2>2. /\ \A c, d \in Updating : c = d
          /\ \A c \in Updating : seeder[c].at = "write" => registry = TORN
          /\ \A c \in Updating : Lists(seeder[c].entries)
          /\ (\A c \in Backends : seeder[c].at # "write") => Lists(Entries)
      BY <2>1 DEF BInv, UpdatesApart
    <2>3. Updating' \subseteq Updating /\ \A c \in Updating' : seeder'[c] = seeder[c]
      BY <1>2 DEF Updating, OnlyAt, Idle
    <2>4. ASSUME NEW r, Lists(r) PROVE Lists(r)'
      BY <1>1, <2>4 DEF Lists
    <2>5. \A c \in Updating' : \A r : r = seeder'[c].entries => Lists(r)'
      BY <2>2, <2>3, <2>4
    <2>6. (\A c \in Backends : seeder'[c].at # "write") => \A c \in Backends : seeder[c].at # "write"
      BY <1>2, <2>1 DEF OnlyAt
    <2>7. (\A c \in Backends : seeder'[c].at # "write") => Lists(Entries)'
      <3>1. Entries' = Entries
        BY <1>1 DEF Entries
      <3>2. PICK r : r = Entries
        OBVIOUS
      <3>. QED
        BY <2>2, <2>4, <2>6, <3>1, <3>2 DEF Lists
    <2>. QED
      BY <1>1, <2>2, <2>3, <2>5, <2>7 DEF UpdatesApart
  <1>. QED
    BY <1>3, <1>4

(* A benchmark only reads.                                                 *)
LEMMA BenchReads ==
  ASSUME BInv, NEW b \in Backends, GetFullLake(b) \/ BenchEnds(b)
  PROVE  BInv'
  <1>1. UNCHANGED <<registry, lake, bucket, seeder, seeds, built, apart>>
    BY DEF GetFullLake, BenchEnds
  <1>2. PICK e : held' = [held EXCEPT ![b] = e] /\ (e = NULL \/ GoodEntry(e))
    <2>1. CASE GetFullLake(b)
      <3>1. b \in DOMAIN Entries /\ held' = [held EXCEPT ![b] = Entries[b]]
        BY <2>1 DEF GetFullLake
      <3>2. GoodEntry(Entries[b])
        BY <3>1, RegistryOf DEF IsRegistry
      <3>. QED
        BY <3>1, <3>2
    <2>2. CASE BenchEnds(b)
      BY <2>2 DEF BenchEnds
    <2>. QED
      BY <2>1, <2>2
  <1>3. Tables' /\ \A c \in Backends : held'[c] = NULL \/ GoodEntry(held'[c])
    BY <1>1, <1>2 DEF BInv, Tables, EntriesKnown
  <1>4. EntriesKnown'
    BY <1>1, <1>3 DEF BInv, EntriesKnown
  <1>5. UpdatesApart'
    BY <1>1 DEF BInv, UpdatesApart, Updating, Lists, Entries
  <1>6. \A c \in Backends : Backed(c)'
    BY <1>1 DEF BInv, Backed
  <1>. QED
    BY <1>3, <1>4, <1>5, <1>6 DEF BInv

-----------------------------------------------------------------------------
(* The invariant.                                                          *)

LEMMA BInvInit == Init => BInv
  <1>. SUFFICES ASSUME Init PROVE BInv
    OBVIOUS
  <1>1. Tables
    BY DEF Init, Tables
  <1>2. EntriesKnown
    BY DEF Init, EntriesKnown, IsRegistry, Idle
  <1>3. UpdatesApart
    BY DEF Init, UpdatesApart, Updating, Lists, Idle
  <1>4. \A b \in Backends : Backed(b)
    <2>1. IsSeeder(Idle)
      BY DEF IsSeeder, Idle
    <2>2. \A first, bk : Fits(first, NULL, bk, Idle, NULL)
      BY <2>1 DEF Fits, Underway
    <2>3. \A b \in Backends : lake[b] = NULL /\ seeder[b] = Idle /\ built[b] = NULL
      BY DEF Init
    <2>. QED
      BY <2>2, <2>3 DEF Backed
  <1>. QED
    BY <1>1, <1>2, <1>3, <1>4 DEF BInv

LEMMA BInvQuiet ==
  ASSUME BInv, NEW b \in Backends, Good(b), Quiet(b)
  PROVE  BInv'
  <1>1. EntriesKnown' /\ UpdatesApart'
    BY QuietStep DEF Good
  <1>2. \A c \in Backends : Backed(c)'
    BY OthersBacked DEF Good
  <1>. QED
    BY <1>1, <1>2 DEF BInv, Good

LEMMA BInvKnown ==
  ASSUME BInv, NEW b \in Backends, Good(b), EntriesKnown', UpdatesApart'
  PROVE  BInv'
  <1>1. \A c \in Backends : Backed(c)'
    BY OthersBacked DEF Good
  <1>. QED
    BY <1>1 DEF BInv, Good

LEMMA BInvStep == BInv /\ [Next]_vars => BInv'
  <1>. SUFFICES ASSUME BInv, [Next]_vars PROVE BInv'
    OBVIOUS
  <1>1. CASE UNCHANGED vars
    BY <1>1 DEF BInv, Tables, EntriesKnown, UpdatesApart, Backed, Updating, Lists, Entries, vars
  <1>2. CASE Next
    <2>. PICK b \in Backends :
           \/ \E s \in Shapes : Seed(b, s)
           \/ ResetCatalog(b) \/ PurgeObject(b) \/ Purged(b) \/ Attach(b) \/ CreateMain(b)
           \/ SetPartitionedBy(b) \/ CaptureMid(b) \/ InsertChunk(b) \/ CreateEvolved(b)
           \/ AddVenue(b) \/ FillEvolved(b) \/ LoadState(b) \/ LoadRaises(b) \/ Truncate(b)
           \/ Write(b) \/ Killed(b) \/ GetFullLake(b) \/ BenchEnds(b)
      BY <1>2 DEF Next
    <2>1. CASE \E s \in Shapes : Seed(b, s)
      BY <2>1, GoodSeed, BInvQuiet
    <2>2. CASE ResetCatalog(b)
      BY <2>2, GoodResetCatalog, BInvQuiet
    <2>3. CASE PurgeObject(b)
      BY <2>3, GoodPurgeObject, BInvQuiet
    <2>4. CASE Purged(b)
      BY <2>4, GoodPurged, BInvQuiet
    <2>5. CASE Attach(b)
      BY <2>5, GoodAttach, BInvQuiet
    <2>6. CASE CreateMain(b)
      BY <2>6, GoodCreateMain, BInvQuiet
    <2>7. CASE SetPartitionedBy(b)
      BY <2>7, GoodSetPartitionedBy, BInvQuiet
    <2>8. CASE CaptureMid(b)
      BY <2>8, GoodCaptureMid, BInvQuiet
    <2>9. CASE InsertChunk(b)
      BY <2>9, GoodInsertChunk, BInvQuiet
    <2>10. CASE CreateEvolved(b)
      BY <2>10, GoodCreateEvolved, BInvQuiet
    <2>11. CASE AddVenue(b)
      BY <2>11, GoodAddVenue, BInvQuiet
    <2>12. CASE FillEvolved(b)
      BY <2>12, GoodFillEvolved, BInvQuiet
    <2>13. CASE LoadState(b)
      BY <2>13, GoodLoadState, LoadStateKnows, BInvKnown
    <2>14. CASE LoadRaises(b)
      BY <2>14, GoodLoadRaises, BInvQuiet
    <2>15. CASE Truncate(b)
      BY <2>15, GoodTruncate, TruncateKnows, BInvKnown
    <2>16. CASE Write(b)
      BY <2>16, GoodWrite, WriteKnows, BInvKnown
    <2>17. CASE Killed(b)
      BY <2>17, GoodKilled, KilledKnows, BInvKnown
    <2>18. CASE GetFullLake(b) \/ BenchEnds(b)
      BY <2>18, BenchReads
    <2>. QED
      BY <2>1, <2>2, <2>3, <2>4, <2>5, <2>6, <2>7, <2>8, <2>9, <2>10, <2>11, <2>12, <2>13, <2>14,
         <2>15, <2>16, <2>17, <2>18
  <1>. QED
    BY <1>1, <1>2

LEMMA BInvAlways == Spec => []BInv
  BY BInvInit, BInvStep, PTL DEF Spec

-----------------------------------------------------------------------------
(* What follows.                                                           *)

(* An entry of a shape is at the mid snapshot of any lake of that shape,   *)
(* as far as that lake has come.                                           *)
LEMMA EntriesAgree ==
  ASSUME NEW lk, IsLake(lk), NEW e, GoodEntry(e), e.shape = lk.shape, e.mid \in DOMAIN lk.snapshots
  PROVE  lk.snapshots[e.mid].main = e.shape.mid
  <1>0. PICK shape \in Shapes : \E n \in 1..(shape.chunks + 5) : lk = LakeOf(shape, n)
    BY DEF IsLake
  <1>1. PICK n \in 1..(shape.chunks + 5) : lk = LakeOf(shape, n)
    BY <1>0
  <1>2. shape.chunks \in Nat /\ shape.mid \in Nat /\ 1 <= shape.mid /\ shape.mid < shape.chunks
    BY ShapesAre
  <1>3. n \in Nat
    BY <1>2
  <1>4. PICK i : i = shape.mid + 2
    OBVIOUS
  <1>5. lk.shape = shape /\ DOMAIN lk.snapshots = 1..n /\ \A j \in 1..n : lk.snapshots[j] = SnapshotAt(shape, j)
    BY <1>1, <1>3, LakesAre
  <1>6. e.shape = shape /\ e.mid = i /\ i \in 1..n
    BY <1>4, <1>5 DEF GoodEntry, MidOf
  <1>7. SnapshotAt(shape, i).main = shape.mid
    BY <1>2, <1>4 DEF SnapshotAt
  <1>. QED
    BY <1>5, <1>6, <1>7

(* The mid snapshot recorded for a lake holds the first mid chunks, for    *)
(* any number of backends, shapes, seeds and kills                         *)
(* (seed.py, mid_snapshot_id).                                             *)
THEOREM MidIsMid == Spec => []MidSnapshotIsMid
  <1>1. BInv => MidSnapshotIsMid
    <2>. SUFFICES ASSUME BInv, NEW b \in Backends, lake[b] # NULL,
                         NEW e \in ({held[b]} \ {NULL}) \cup {Entries[c] : c \in DOMAIN Entries \cap {b}},
                         e.shape = lake[b].shape, e.mid \in DOMAIN Snapshots(b)
                  PROVE  Snapshots(b)[e.mid].main = e.shape.mid
      BY DEF MidSnapshotIsMid
    <2>1. GoodEntry(e)
      BY RegistryOf DEF BInv, EntriesKnown, IsRegistry
    <2>2. IsLake(lake[b])
      BY DEF BInv, Backed, Fits
    <2>. QED
      BY <2>1, <2>2, EntriesAgree DEF Snapshots
  <1>. QED
    BY <1>1, BInvAlways, PTL

(* A seed that returned left exactly the lake of its shape                 *)
(* (seed.py, materialize_lake).                                            *)
THEOREM LakesAreWhole == Spec => []SeededLakesAreWhole
  <1>1. BInv => SeededLakesAreWhole
    <2>. SUFFICES ASSUME BInv, NEW b \in Backends, built[b] # NULL
                  PROVE  /\ lake[b].shape = built[b].shape
                         /\ Newest(b) = [main |-> built[b].shape.chunks, evolved |-> 3]
                         /\ Objects(Newest(b)) = bucket[b]
                         /\ Snapshots(b)[built[b].mid].main = built[b].shape.mid
      BY DEF SeededLakesAreWhole
    <2>1. PICK lk, e, shape : lk = lake[b] /\ e = built[b] /\ shape = e.shape
      OBVIOUS
    <2>2. /\ GoodEntry(e) /\ lk = LakeOf(shape, shape.chunks + 5)
          /\ bucket[b] = Objects(SnapshotAt(shape, shape.chunks + 5))
      BY <2>1 DEF BInv, Backed, Fits
    <2>3. shape \in Shapes /\ e.mid = shape.mid + 2
      BY <2>1, <2>2 DEF GoodEntry, MidOf
    <2>4. shape.chunks \in Nat /\ shape.mid \in Nat /\ 1 <= shape.mid /\ shape.mid < shape.chunks
      BY <2>3, ShapesAre
    <2>5. PICK n \in Nat : n = shape.chunks + 5 /\ n # 0 /\ e.mid \in 1..n /\ n \in 1..(shape.chunks + 5)
      BY <2>3, <2>4
    <2>6. lk.shape = shape /\ DOMAIN lk.snapshots = 1..n /\ Last(lk) = SnapshotAt(shape, n)
      BY <2>2, <2>5, LakesAre, LastOf
    <2>7. SnapshotAt(shape, n) = [main |-> shape.chunks, evolved |-> 3]
      BY <2>4, <2>5 DEF SnapshotAt
    <2>8. Newest(b) = SnapshotAt(shape, n)
      BY <2>1, <2>6 DEF Newest, Snapshots, Last
    <2>9. IsLake(lk)
      BY <2>2, <2>3, <2>5 DEF IsLake
    <2>10. lk.snapshots[e.mid].main = shape.mid
      BY <2>1, <2>2, <2>5, <2>6, <2>9, EntriesAgree
    <2>. QED
      BY <2>1, <2>2, <2>5, <2>6, <2>7, <2>8, <2>10 DEF Snapshots
  <1>. QED
    BY <1>1, BInvAlways, PTL

(* A lake whose seed returned is in the registry, as long as updates of    *)
(* the registry did not overlap (state.py, upsert_entry).                  *)
THEOREM LakesAreFound == Spec => []SeededLakesAreFound
  <1>1. BInv => SeededLakesAreFound
    BY DEF BInv, UpdatesApart, SeededLakesAreFound, Updating, Lists
  <1>. QED
    BY <1>1, BInvAlways, PTL

(* No catalog names an object that is gone, where the reset removes the    *)
(* catalog first, and nowhere after a seed that returned (targets.py).     *)
THEOREM CatalogsAreReadable == Spec => []CatalogsNameWhatIsThere
  <1>1. BInv => CatalogsNameWhatIsThere
    <2>. SUFFICES ASSUME BInv, NEW b \in Backends, lake[b] # NULL, b \in CatalogFirst \/ built[b] # NULL,
                         NEW i \in DOMAIN Snapshots(b)
                  PROVE  Readable(b, i)
      BY DEF CatalogsNameWhatIsThere
    <2>1. PICK lk : lk = lake[b]
      OBVIOUS
    <2>a. PICK shape \in Shapes : \E n \in 1..(shape.chunks + 5) : lk = LakeOf(shape, n)
      BY <2>1 DEF BInv, Backed, Fits, IsLake
    <2>2. PICK n \in 1..(shape.chunks + 5) : lk = LakeOf(shape, n)
      BY <2>a
    <2>3. shape.chunks \in Nat
      BY ShapesAre
    <2>4. n \in Nat /\ n # 0
      BY <2>3
    <2>5. /\ lk.shape = shape /\ DOMAIN lk.snapshots = 1..n
          /\ \A j \in 1..n : lk.snapshots[j] = SnapshotAt(shape, j)
          /\ Last(lk) = SnapshotAt(shape, n)
      BY <2>2, <2>4, LakesAre, LastOf
    <2>6. Objects(Last(lk)) \subseteq bucket[b]
      <3>1. CASE b \in CatalogFirst
        BY <2>1, <3>1 DEF BInv, Backed, Fits
      <3>2. CASE built[b] # NULL
        <4>1. PICK e : e = built[b]
          OBVIOUS
        <4>2. /\ e.shape \in Shapes /\ lk = LakeOf(e.shape, e.shape.chunks + 5)
              /\ bucket[b] = Objects(SnapshotAt(e.shape, e.shape.chunks + 5))
          BY <2>1, <3>2, <4>1 DEF BInv, Backed, Fits, GoodEntry
        <4>3. e.shape.chunks + 5 \in Nat /\ e.shape.chunks + 5 # 0
          <5>1. e.shape.chunks \in Nat
            BY <4>2, ShapesAre
          <5>. QED
            BY <5>1
        <4>. QED
          BY <4>2, <4>3, LastOf
      <3>. QED
        BY <3>1, <3>2
    <2>7. i \in 1..n
      BY <2>1, <2>5 DEF Snapshots
    <2>8. Objects(lk.snapshots[i]) \subseteq Objects(Last(lk))
      BY <2>5, <2>7, ObjectsGrow
    <2>. QED
      BY <2>1, <2>6, <2>8 DEF Readable, Snapshots
  <1>. QED
    BY <1>1, BInvAlways, PTL

=============================================================================
