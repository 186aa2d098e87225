--------------------------- MODULE LakeNamesProofs ---------------------------
(***************************************************************************)
(* Proofs about LakeNames, for any names, paths, declarations and numbers  *)
(* of commits: the types a call announces, the tables a name finds, and    *)
(* where their files are.                                                  *)
(***************************************************************************)
EXTENDS LakeNames, FiniteSetTheorems, SequenceTheorems, WellFoundedInduction, TLAPS

-----------------------------------------------------------------------------
(* Sets of two, sequences, least elements, and the order of a result set.  *)

LEMMA TwoMembers ==
  ASSUME NEW k, NEW v, k # v
  PROVE  Cardinality({k} \cup {v}) = 2
  <1>1. IsFiniteSet({k}) /\ Cardinality({k}) = 1
    BY FS_Singleton
  <1>2. v \notin {k}
    OBVIOUS
  <1>3. Cardinality({k} \cup {v}) = Cardinality({k}) + 1
    BY <1>1, <1>2, FS_AddElement
  <1>. QED
    BY <1>1, <1>3

EndsAlike(a, b, x) == Append(a \o b, x) = a \o Append(b, x)

LEMMA AppendAfter ==
  ASSUME NEW S, NEW a \in Seq(S), NEW b \in Seq(S), NEW x \in S
  PROVE  EndsAlike(a, b, x)
  BY DEF EndsAlike

LEMMA LeastOfFinite ==
  ASSUME NEW S \in SUBSET Int, IsFiniteSet(S), S # {}
  PROVE  \E x \in S : \A y \in S : x <= y
  <1>. DEFINE Under(x) == {y \in S : y < x}
              T == {Under(x) : x \in S}
  <1>1. T \subseteq FiniteSubsetsOf(S) /\ T # {}
    <2>1. \A t \in T : t \in SUBSET S
      OBVIOUS
    <2>2. T # {}
      OBVIOUS
    <2>. QED
      BY <2>1, <2>2, FS_FiniteSubsetsOfFinite
  <1>2. IsWellFoundedOn(StrictSubsetOrdering(S), FiniteSubsetsOf(S))
    BY FS_StrictSubsetOrderingWellFounded
  <1>3. PICK m \in T : \A t \in T : ~(<<t, m>> \in StrictSubsetOrdering(S))
    <2>. HIDE DEF T
    <2>. QED
      BY <1>1, <1>2, WFMin
  <1>4. PICK x \in S : m = Under(x)
    OBVIOUS
  <1>5. ASSUME NEW y \in S PROVE x <= y
    <2>. SUFFICES ASSUME y < x PROVE FALSE
      OBVIOUS
    <2>. x \in Int /\ y \in Int /\ S \subseteq Int
      OBVIOUS
    <2>1. ASSUME NEW z \in S, z < y PROVE z < x
      <3>. z \in Int
        OBVIOUS
      <3>. QED
        BY <2>1
    <2>2. y \in Under(x) /\ y \notin Under(y)
      OBVIOUS
    <2>3. Under(y) \in SUBSET S /\ Under(x) \in SUBSET S /\ Under(y) # Under(x)
      BY <2>2
    <2>4. <<Under(y), Under(x)>> \in StrictSubsetOrdering(S)
      BY <2>1, <2>3 DEF StrictSubsetOrdering
    <2>. QED
      BY <1>3, <1>4, <2>4
  <1>. QED
    BY <1>5

(* The same of any set of natural numbers.                                 *)
LEMMA LeastNatural ==
  ASSUME NEW S \in SUBSET Nat, S # {}
  PROVE  \E x \in S : \A y \in S : x <= y
  <1>1. PICK k \in S : TRUE
    OBVIOUS
  <1>. DEFINE T == {x \in S : x <= k}
  <1>2. T \in SUBSET Int /\ T # {} /\ T \in SUBSET (0..k)
    <2>1. k \in Nat /\ k \in T /\ \A x \in T : x \in Nat /\ x <= k
      OBVIOUS
    <2>2. \A x \in Nat : x <= k => x \in 0..k
      BY <2>1
    <2>. HIDE DEF T
    <2>. QED
      BY <2>1, <2>2
  <1>3. IsFiniteSet(T)
    <2>1. IsFiniteSet(0..k)
      BY FS_Interval
    <2>. HIDE DEF T
    <2>. QED
      BY <1>2, <2>1, FS_Subset
  <1>4. PICK x \in T : \A y \in T : x <= y
    <2>. HIDE DEF T
    <2>. QED
      BY <1>2, <1>3, LeastOfFinite
  <1>. QED
    BY <1>4

(* A least natural number with the property, said of its complement: every *)
(* number has it when no number is the first without it.                   *)
LEMMA NoneIsFirst ==
  ASSUME NEW S \in SUBSET Nat, \A x \in S : \E y \in S : y < x
  PROVE  S = {}
  <1>. SUFFICES ASSUME S # {} PROVE FALSE
    OBVIOUS
  <1>1. PICK x \in S : \A y \in S : x <= y
    BY LeastNatural
  <1>. QED
    BY <1>1

Ordered(S) ==
    /\ IsFiniteSet(S)
    /\ \A x \in S : x.order \in Nat
    /\ \A x, y \in S : x.order = y.order => x = y

Upto(S, x) == {y \in S : y.order <= x.order}

(* Every member has its place, and every place its member.                 *)
LEMMA Places ==
  ASSUME NEW S, Ordered(S), NEW order, order = InOrder(S)
  PROVE  /\ DOMAIN order = 1..Cardinality(S) /\ Cardinality(S) \in Nat
         /\ \A i \in DOMAIN order : order[i] \in S /\ Cardinality(Upto(S, order[i])) = i
         /\ \A x \in S : \E i \in DOMAIN order : order[i] = x
         /\ \A x, y \in S : Cardinality(Upto(S, x)) = Cardinality(Upto(S, y)) => x = y
  <1>. DEFINE rank    == [x \in S |-> Cardinality(Upto(S, x))]
              n       == Cardinality(S)
  <1>0. n \in Nat /\ IsFiniteSet(S)
    BY FS_CardinalityType DEF Ordered
  <1>1. ASSUME NEW x \in S
        PROVE  /\ IsFiniteSet(Upto(S, x)) /\ Cardinality(Upto(S, x)) \in 1..n
    <2>1. Upto(S, x) \in SUBSET S /\ x \in Upto(S, x)
      BY DEF Ordered, Upto
    <2>2. /\ IsFiniteSet(Upto(S, x)) /\ Cardinality(Upto(S, x)) <= n
      BY <1>0, <2>1, FS_Subset
    <2>3. Cardinality(Upto(S, x)) \in Nat /\ Cardinality(Upto(S, x)) # 0
      BY <2>1, <2>2, FS_CardinalityType, FS_EmptySet
    <2>. QED
      BY <1>0, <2>2, <2>3
  <1>2. ASSUME NEW x \in S, NEW y \in S, x.order <= y.order,
               Cardinality(Upto(S, x)) = Cardinality(Upto(S, y))
        PROVE  x = y
    <2>0. x.order \in Nat /\ y.order \in Nat /\ \A z \in S : z.order \in Nat
      BY DEF Ordered
    <2>1. Upto(S, x) \in SUBSET Upto(S, y) /\ y \in Upto(S, y)
      BY <1>2, <2>0 DEF Upto
    <2>2. Upto(S, x) = Upto(S, y)
      BY <1>1, <1>2, <2>1, FS_Subset
    <2>3. y.order <= x.order
      BY <2>1, <2>2 DEF Upto
    <2>. QED
      BY <1>2, <2>0, <2>3 DEF Ordered
  <1>3. \A x, y \in S : Cardinality(Upto(S, x)) = Cardinality(Upto(S, y)) => x = y
    <2>1. \A x, y \in S : x.order <= y.order \/ y.order <= x.order
      BY DEF Ordered
    <2>. QED
      BY <1>2, <2>1
  <1>4. rank \in Injection(S, 1..n)
    <2>1. rank \in [S -> 1..n]
      BY <1>1
    <2>2. \A x, y \in S : rank[x] = rank[y] => x = y
      BY <1>3
    <2>. QED
      BY <2>1, <2>2 DEF Injection, IsInjective
  <1>5. rank \in Surjection(S, 1..n)
    <2>1. IsFiniteSet(1..n) /\ Cardinality(1..n) = n
      BY <1>0, FS_Interval
    <2>. HIDE DEF rank
    <2>. QED
      BY <1>0, <1>4, <2>1, FS_Injection
  <1>6. /\ \A x \in S : rank[x] \in 1..n /\ \A y \in S : rank[x] = rank[y] => x = y
        /\ \A i \in 1..n : \E x \in S : rank[x] = i
    <2>. HIDE DEF rank
    <2>. QED
      BY <1>4, <1>5 DEF Injection, Surjection, IsInjective
  <1>7. DOMAIN order = 1..n /\ \A i \in 1..n : order[i] = CHOOSE x \in S : rank[x] = i
    BY DEF InOrder, Upto
  <1>8. \A x \in S : rank[x] = Cardinality(Upto(S, x))
    OBVIOUS
  <1>. HIDE DEF rank
  <1>. QED
    BY <1>0, <1>3, <1>6, <1>7, <1>8

(* A renaming that keeps the order keeps the places.                       *)
LEMMA PlacesCarryOver ==
  ASSUME NEW S, Ordered(S), NEW T, NEW f \in [S -> T], \A y \in T : \E x \in S : y = f[x],
         \A x \in S : f[x].order = x.order
  PROVE  /\ Ordered(T)
         /\ DOMAIN InOrder(T) = DOMAIN InOrder(S)
         /\ \A i \in DOMAIN InOrder(S) : InOrder(T)[i] = f[InOrder(S)[i]]
  <1>1. \A x, y \in S : f[x] = f[y] => x = y
    BY DEF Ordered
  <1>2. f \in Bijection(S, T)
    <2>. QED
      BY <1>1 DEF Bijection, Injection, Surjection, IsInjective
  <1>3. IsFiniteSet(T) /\ Cardinality(T) = Cardinality(S)
    BY <1>2, FS_Bijection DEF Ordered, ExistsBijection
  <1>4. Ordered(T)
    BY <1>3 DEF Ordered
  <1>5. ASSUME NEW x \in S PROVE Cardinality(Upto(T, f[x])) = Cardinality(Upto(S, x))
    <2>. DEFINE A == Upto(S, x)
                B == Upto(T, f[x])
                g == [y \in A |-> f[y]]
    <2>1. A \in SUBSET S /\ IsFiniteSet(A)
      <3>1. A \in SUBSET S /\ IsFiniteSet(S)
        BY DEF Ordered, Upto
      <3>. HIDE DEF A
      <3>. QED
        BY <3>1, FS_Subset
    <2>2. \A y \in A : f[y] \in B
      BY DEF Upto
    <2>3. \A z \in B : \E y \in A : z = f[y]
      BY DEF Upto
    <2>4. g \in Bijection(A, B)
      <3>. HIDE DEF A, B
      <3>1. g \in [A -> B]
        BY <2>2
      <3>2. \A y, z \in A : g[y] = g[z] => y = z
        BY <1>1, <2>1
      <3>3. \A z \in B : \E y \in A : g[y] = z
        BY <2>3
      <3>. HIDE DEF g
      <3>. QED
        BY <3>1, <3>2, <3>3 DEF Bijection, Injection, Surjection, IsInjective
    <2>. HIDE DEF A, B, g
    <2>5. Cardinality(A) = Cardinality(B)
      BY <2>1, <2>4, FS_Bijection DEF ExistsBijection
    <2>. QED
      BY <2>5 DEF A, B
  <1>6. DOMAIN InOrder(T) = DOMAIN InOrder(S)
    BY <1>3 DEF InOrder
  <1>7. ASSUME NEW i \in DOMAIN InOrder(S) PROVE InOrder(T)[i] = f[InOrder(S)[i]]
    <2>1. InOrder(S)[i] \in S /\ Cardinality(Upto(S, InOrder(S)[i])) = i
      BY Places
    <2>2. /\ InOrder(T)[i] \in T /\ Cardinality(Upto(T, InOrder(T)[i])) = i
          /\ \A x, y \in T : Cardinality(Upto(T, x)) = Cardinality(Upto(T, y)) => x = y
      BY <1>4, <1>6, Places
    <2>3. f[InOrder(S)[i]] \in T /\ Cardinality(Upto(T, f[InOrder(S)[i]])) = i
      BY <1>5, <2>1
    <2>. QED
      BY <2>2, <2>3
  <1>. QED
    BY <1>4, <1>6, <1>7

LEMMA LastPlace ==
  ASSUME NEW S, Ordered(S), S # {}
  PROVE  \E x \in S : \A y \in S : y.order <= x.order
  <1>1. PICK order : order = InOrder(S)
    OBVIOUS
  <1>. DEFINE n == Cardinality(S)
  <1>2. /\ DOMAIN order = 1..n /\ n \in Nat
        /\ \A i \in DOMAIN order : order[i] \in S /\ Cardinality(Upto(S, order[i])) = i
    BY <1>1, Places
  <1>3. n # 0 /\ IsFiniteSet(S)
    BY FS_EmptySet DEF Ordered
  <1>4. order[n] \in S /\ Cardinality(Upto(S, order[n])) = n
    <2>1. n \in 1..n
      BY <1>2, <1>3
    <2>. QED
      BY <1>2, <2>1
  <1>5. Upto(S, order[n]) = S
    <2>1. Upto(S, order[n]) \in SUBSET S
      BY DEF Upto
    <2>. QED
      BY <1>3, <1>4, <2>1, FS_Subset
  <1>. QED
    BY <1>4, <1>5 DEF Upto

-----------------------------------------------------------------------------
(* The two recursions over a tree of types, as the functions they are.     *)

TypeAt(X, type, c) ==
    IF ~IsNestedType(c.type) THEN MapType(c.type)
    ELSE LET kids == InOrder({k \in X : k.parent = c.id})
         IN BuildNestedType(c.type, [i \in DOMAIN kids |-> Field(kids[i].name, type[kids[i]])])

DeclaredAt(X, type, n) ==
    LET kids  == Below(X, n.path)
        order == InOrder(kids)
        field(k)  == Field(Last(k.path), type[k])
        the(name) == field(CHOOSE k \in kids : Last(k.path) = name)
    IN CASE n.type = "list"   -> ListOf(type[order[1]])
         [] n.type = "struct" -> StructOf([i \in DOMAIN order |-> field(order[i])])
         [] n.type = "map"    -> ListOf(StructOf(<<the("key"), the("value")>>))
         [] OTHER -> [dtype |-> ScalarMap[n.type], fields |-> <<>>]

(* Either of them, so that what recursion needs is proved once.            *)
TypeStep(what, X, g, x) == IF what = "rows" THEN TypeAt(X, g, x) ELSE DeclaredAt(X, g, x)

Whole(what, X) == CHOOSE g : g = [x \in X |-> TypeStep(what, X, g, x)]

LEMMA BuiltIsWhole ==
  ASSUME NEW rows, NEW top, top = InOrder({c \in rows : c.parent = NoParent})
  PROVE  BuildTargetColumns(rows) =
           [i \in DOMAIN top |-> Field(top[i].name, Whole("rows", rows)[top[i]])]
  BY DEF BuildTargetColumns, Whole, TypeStep, TypeAt

LEMMA DeclaredIsWhole ==
  ASSUME NEW nodes, NEW top, top = InOrder(Below(nodes, <<>>))
  PROVE  DeclaredColumns(nodes) =
           [i \in DOMAIN top |-> Field(Last(top[i].path), Whole("nodes", nodes)[top[i]])]
  BY DEF DeclaredColumns, Whole, TypeStep, DeclaredAt

Kids(what, X, x) == IF what = "rows" THEN {k \in X : k.parent = x.id} ELSE Below(X, x.path)

(* Trees in which a kid comes after its parent.                            *)
Rooted(what, X) ==
    /\ Ordered(X)
    /\ \A x, k \in X : k \in Kids(what, X, x) => x.order < k.order
    /\ what = "nodes" =>
          \A n \in X : HasItsParts(n.type, {Last(m.path) : m \in Below(X, n.path)})

LEMMA KidsOrdered ==
  ASSUME NEW what, NEW X, Ordered(X), NEW x
  PROVE  Kids(what, X, x) \subseteq X /\ Ordered(Kids(what, X, x))
  <1>1. Kids(what, X, x) \in SUBSET X
    BY DEF Kids, Below
  <1>2. IsFiniteSet(Kids(what, X, x))
    BY <1>1, FS_Subset DEF Ordered
  <1>. QED
    BY <1>1, <1>2 DEF Ordered

(* A type is worked out from those below it.                               *)
LEMMA KidsDecide ==
  ASSUME NEW what \in {"rows", "nodes"}, NEW X, Rooted(what, X), NEW x \in X, NEW g, NEW h,
         \A k \in Kids(what, X, x) : g[k] = h[k]
  PROVE  TypeStep(what, X, g, x) = TypeStep(what, X, h, x)
  <1>1. CASE what = "rows"
    <2>1. PICK kids : kids = InOrder({k \in X : k.parent = x.id})
      OBVIOUS
    <2>2. \A i \in DOMAIN kids : g[kids[i]] = h[kids[i]]
      <3>1. Ordered({k \in X : k.parent = x.id})
        <4>1. Kids(what, X, x) = {k \in X : k.parent = x.id} /\ Ordered(X)
          BY <1>1 DEF Kids, Rooted
        <4>. QED
          BY <4>1, KidsOrdered
      <3>2. \A i \in DOMAIN kids : kids[i] \in {k \in X : k.parent = x.id}
        BY <2>1, <3>1, Places
      <3>. QED
        BY <1>1, <3>2 DEF Kids
    <2>3. [i \in DOMAIN kids |-> Field(kids[i].name, g[kids[i]])]
             = [i \in DOMAIN kids |-> Field(kids[i].name, h[kids[i]])]
      BY <2>2
    <2>4. TypeAt(X, g, x) = TypeAt(X, h, x)
      BY <2>1, <2>3 DEF TypeAt
    <2>. QED
      BY <1>1, <2>4 DEF TypeStep
  <1>2. CASE what = "nodes"
    <2>1. PICK kids, order : kids = Below(X, x.path) /\ order = InOrder(kids)
      OBVIOUS
    <2>2. /\ \A k \in kids : g[k] = h[k]
          /\ HasItsParts(x.type, {Last(m.path) : m \in kids})
      BY <1>2, <2>1 DEF Kids, Rooted
    <2>3. /\ DOMAIN order = 1..Cardinality(kids) /\ Cardinality(kids) \in Nat
          /\ \A i \in DOMAIN order : order[i] \in kids
          /\ \A k \in kids : \E i \in DOMAIN order : order[i] = k
      <3>1. Ordered(kids)
        BY <1>2, <2>1, KidsOrdered DEF Kids, Rooted
      <3>. QED
        BY <2>1, <3>1, Places
    <2>4. [i \in DOMAIN order |-> Field(Last(order[i].path), g[order[i]])]
             = [i \in DOMAIN order |-> Field(Last(order[i].path), h[order[i]])]
      BY <2>2, <2>3
    <2>5. x.type = "list" => g[order[1]] = h[order[1]]
      <3>. SUFFICES ASSUME x.type = "list" PROVE order[1] \in kids
        BY <2>2
      <3>1. kids # {}
        BY <2>2 DEF HasItsParts
      <3>2. 1 \in DOMAIN order
        BY <2>3, <3>1
      <3>. QED
        BY <2>3, <3>2
    <2>6. ASSUME NEW name \in {"key", "value"}, x.type = "map"
          PROVE  LET k == CHOOSE k \in kids : Last(k.path) = name
                 IN Field(Last(k.path), g[k]) = Field(Last(k.path), h[k])
      <3>1. \E k \in kids : Last(k.path) = name
        BY <2>2, <2>6 DEF HasItsParts
      <3>. QED
        BY <2>2, <3>1
    <2>7. DeclaredAt(X, g, x) = DeclaredAt(X, h, x)
      BY <2>1, <2>4, <2>5, <2>6 DEF DeclaredAt
    <2>. QED
      BY <1>2, <2>7 DEF TypeStep
  <1>. QED
    BY <1>1, <1>2

LEMMA WholeUnfolds ==
  ASSUME NEW what \in {"rows", "nodes"}, NEW X, Rooted(what, X), NEW x \in X
  PROVE  Whole(what, X)[x] = TypeStep(what, X, Whole(what, X), x)
  <1>. DEFINE From(j) == {y \in X : j <= y.order}
              Solves(g, j) == g = [y \in From(j) |-> TypeStep(what, X, g, y)]
              solved == {j \in Nat : \E g : Solves(g, j)}
  <1>0. \A y \in X : y.order \in Nat
    BY DEF Rooted, Ordered
  <1>1. solved # {}
    <2>1. PICK z \in X : \A y \in X : y.order <= z.order
      BY LastPlace DEF Rooted
    <2>2. z.order + 1 \in Nat /\ From(z.order + 1) = {}
      BY <1>0, <2>1
    <2>3. \E g : Solves(g, z.order + 1)
      BY <2>2
    <2>. QED
      BY <2>2, <2>3
  <1>2. PICK j \in solved : \A i \in solved : j <= i
    <2>1. solved \in SUBSET Nat
      OBVIOUS
    <2>. HIDE DEF solved
    <2>. QED
      BY <1>1, <2>1, LeastNatural
  <1>3. j = 0
    <2>. SUFFICES ASSUME j # 0 PROVE FALSE
      OBVIOUS
    <2>1. PICK i \in Nat : j = i + 1
      BY <1>2
    <2>2. PICK g : Solves(g, i + 1)
      BY <1>2, <2>1
    <2>3. PICK h : h = [y \in From(i) |-> IF y.order = i THEN TypeStep(what, X, g, y) ELSE g[y]]
      OBVIOUS
    <2>4. From(i + 1) = {y \in From(i) : y.order # i}
      BY <1>0, <2>1
    <2>5. \A y \in From(i + 1) : h[y] = g[y] /\ g[y] = TypeStep(what, X, g, y)
      <3>1. \A y \in From(i + 1) : g[y] = TypeStep(what, X, g, y)
        BY <2>2
      <3>. QED
        BY <2>3, <2>4, <3>1
    <2>6. ASSUME NEW y \in From(i) PROVE TypeStep(what, X, h, y) = TypeStep(what, X, g, y)
      <3>1. ASSUME NEW k \in Kids(what, X, y) PROVE h[k] = g[k]
        <4>1. k \in X /\ y.order < k.order
          BY KidsOrdered DEF Rooted
        <4>2. k \in From(i + 1)
          BY <1>0, <2>1, <4>1
        <4>. QED
          BY <2>5, <4>2
      <3>. QED
        BY <3>1, KidsDecide
    <2>7. \A y \in From(i) : h[y] = TypeStep(what, X, g, y)
      BY <2>3, <2>4, <2>5
    <2>8. Solves(h, i)
      BY <2>3, <2>6, <2>7
    <2>9. i \in solved
      BY <2>1, <2>8
    <2>10. j <= i
      <3>. HIDE DEF solved
      <3>. QED
        BY <1>2, <2>9
    <2>. QED
      BY <2>1, <2>10
  <1>4. From(0) = X
    BY <1>0
  <1>5. \E g : g = [y \in X |-> TypeStep(what, X, g, y)]
    BY <1>2, <1>3, <1>4
  <1>6. Whole(what, X) = [y \in X |-> TypeStep(what, X, Whole(what, X), y)]
    BY <1>5 DEF Whole
  <1>. QED
    BY <1>6

-----------------------------------------------------------------------------
(* A table's rows and the nodes they stand for.                            *)

LEMMA FrontAndLast ==
  ASSUME NEW S, NEW p \in Seq(S) \ {<<>>}, NEW q \in Seq(S) \ {<<>>},
         Front(p) = Front(q), Last(p) = Last(q)
  PROVE  p = q
  <1>1. /\ Len(p) \in Nat /\ Len(p) # 0 /\ Len(q) \in Nat /\ Len(q) # 0
        /\ DOMAIN p = 1..Len(p) /\ DOMAIN q = 1..Len(q)
    BY LenProperties, EmptySeq
  <1>2. PICK m \in Nat : Len(p) = m + 1
    <2>1. Len(p) - 1 \in Nat /\ Len(p) = (Len(p) - 1) + 1
      BY <1>1
    <2>. QED
      BY <2>1
  <1>3. PICK n \in Nat : Len(q) = n + 1
    <2>1. Len(q) - 1 \in Nat /\ Len(q) = (Len(q) - 1) + 1
      BY <1>1
    <2>. QED
      BY <2>1
  <1>4. /\ Len(Front(p)) = m /\ \A i \in 1..m : Front(p)[i] = p[i]
        /\ Len(Front(q)) = n /\ \A i \in 1..n : Front(q)[i] = q[i]
    BY <1>1, <1>2, <1>3, SubSeqProperties DEF Front
  <1>5. m = n
    BY <1>4
  <1>6. \A i \in 1..(m + 1) : p[i] = q[i]
    BY <1>2, <1>3, <1>4, <1>5 DEF Last
  <1>. QED
    BY <1>1, <1>2, <1>3, <1>5, <1>6, SeqEqual

LEMMA ForestIsRooted ==
  ASSUME NEW nodes, IsForest(nodes), IsFiniteSet(nodes)
  PROVE  Rooted("nodes", nodes)
  <1>1. Ordered(nodes)
    BY DEF Ordered, IsForest
  <1>2. ASSUME NEW x \in nodes, NEW k \in nodes, k \in Below(nodes, x.path)
        PROVE  x.order < k.order
    <2>1. Front(k.path) = x.path /\ x.path # <<>>
      BY <1>2 DEF Below, IsForest
    <2>2. PICK m \in nodes : m.path = Front(k.path) /\ m.order < k.order
      BY <2>1 DEF IsForest
    <2>3. m = x
      BY <2>1, <2>2 DEF IsForest
    <2>. QED
      BY <2>2, <2>3
  <1>. QED
    BY <1>1, <1>2 DEF Rooted, Kids, IsForest

Standing(t, nodes) == [n \in nodes |-> ColumnRow(t, nodes, n)]

LEMMA ParentsStand ==
  ASSUME NEW t, NEW nodes, IsForest(nodes), IsFiniteSet(nodes), NEW n \in nodes,
         NEW row, row = ColumnRow(t, nodes, n)
  PROVE  /\ row.table = t /\ row.id = n.order /\ row.order = n.order
         /\ row.name = Last(n.path) /\ row.type = n.type
         /\ row.parent = NoParent <=> Front(n.path) = <<>>
         /\ \A m \in nodes : row.parent = m.order <=> m.path = Front(n.path)
  <1>1. /\ row.table = t /\ row.id = n.order /\ row.order = n.order
        /\ row.name = Last(n.path) /\ row.type = n.type
        /\ row.parent = IF Front(n.path) = <<>> THEN NoParent
                        ELSE (CHOOSE m \in nodes : m.path = Front(n.path)).order
    BY DEF ColumnRow
  <1>2. CASE Front(n.path) = <<>>
    <2>1. \A m \in nodes : m.path # <<>> /\ m.order # NoParent
      BY NamesAssumption DEF IsForest
    <2>. QED
      BY <1>1, <1>2, <2>1
  <1>3. CASE Front(n.path) # <<>>
    <2>1. PICK p : p = CHOOSE m \in nodes : m.path = Front(n.path)
      OBVIOUS
    <2>2. p \in nodes /\ p.path = Front(n.path)
      BY <1>3, <2>1 DEF IsForest
    <2>3. row.parent = p.order
      BY <1>1, <1>3, <2>1
    <2>4. p.order # NoParent
      BY <2>2, NamesAssumption DEF IsForest
    <2>5. \A m \in nodes : p.order = m.order <=> m.path = Front(n.path)
      BY <2>2 DEF IsForest
    <2>. QED
      BY <1>1, <1>3, <2>3, <2>4, <2>5
  <1>. QED
    BY <1>1, <1>2, <1>3

LEMMA RowsStand ==
  ASSUME NEW t, NEW nodes, IsForest(nodes), IsFiniteSet(nodes),
         NEW rows, rows = NodeRows(t, nodes), NEW f, f = Standing(t, nodes)
  PROVE  /\ Rooted("rows", rows)
         /\ {c \in rows : c.parent = NoParent} = {f[k] : k \in Below(nodes, <<>>)}
         /\ \A n \in nodes : {k \in rows : k.parent = f[n].id} = {f[k] : k \in Below(nodes, n.path)}
         /\ f \in [nodes -> rows] /\ \A r \in rows : \E n \in nodes : r = f[n]
  <1>1. /\ f \in [nodes -> rows] /\ \A r \in rows : \E n \in nodes : r = f[n]
        /\ \A n \in nodes : f[n] = ColumnRow(t, nodes, n)
    BY DEF Standing, NodeRows
  <1>2. \A n \in nodes :
          /\ f[n].id = n.order /\ f[n].order = n.order
          /\ f[n].parent = NoParent <=> Front(n.path) = <<>>
          /\ \A m \in nodes : f[n].parent = m.order <=> m.path = Front(n.path)
    BY <1>1, ParentsStand
  <1>3. {c \in rows : c.parent = NoParent} = {f[k] : k \in Below(nodes, <<>>)}
    BY <1>1, <1>2 DEF Below
  <1>4. \A n \in nodes : {k \in rows : k.parent = f[n].id} = {f[k] : k \in Below(nodes, n.path)}
    BY <1>1, <1>2 DEF Below
  <1>5. Ordered(rows)
    BY <1>1, <1>2, ForestIsRooted, PlacesCarryOver DEF Rooted
  <1>6. ASSUME NEW x \in rows, NEW k \in rows, k.parent = x.id PROVE x.order < k.order
    <2>1. PICK n \in nodes, m \in nodes : x = f[n] /\ k = f[m]
      BY <1>1
    <2>2. m \in Below(nodes, n.path)
      BY <1>2, <1>6, <2>1 DEF Below
    <2>3. n.order < m.order
      BY <2>2, ForestIsRooted DEF Rooted, Kids
    <2>. QED
      BY <1>2, <2>1, <2>3
  <1>. QED
    BY <1>1, <1>3, <1>4, <1>5, <1>6 DEF Rooted, Kids

(* The rows below a path are the nodes below it, in their order.           *)
LEMMA KidsStand ==
  ASSUME NEW t, NEW nodes, IsForest(nodes), IsFiniteSet(nodes), NEW path,
         NEW f, f = Standing(t, nodes), NEW order, order = InOrder(Below(nodes, path)),
         NEW kids, kids = InOrder({f[k] : k \in Below(nodes, path)})
  PROVE  /\ DOMAIN kids = DOMAIN order
         /\ \A i \in DOMAIN order : kids[i] = f[order[i]] /\ order[i] \in Below(nodes, path)
         /\ \A k \in Below(nodes, path) : \E i \in DOMAIN order : order[i] = k
         /\ DOMAIN order = 1..Cardinality(Below(nodes, path))
         /\ Cardinality(Below(nodes, path)) \in Nat
  <1>. DEFINE S == Below(nodes, path)
              T == {f[k] : k \in S}
              g == [k \in S |-> f[k]]
  <1>1. Ordered(S) /\ S \subseteq nodes
    <2>1. Kids("nodes", nodes, [path |-> path]) = S
      BY DEF Kids
    <2>2. Ordered(nodes)
      BY ForestIsRooted DEF Rooted
    <2>. HIDE DEF S
    <2>. QED
      BY <2>1, <2>2, KidsOrdered
  <1>2. /\ g \in [S -> T] /\ \A y \in T : \E x \in S : y = g[x]
    OBVIOUS
  <1>3. \A x \in S : g[x].order = x.order
    BY <1>1, ParentsStand DEF Standing
  <1>4. \A x \in S : g[x] = f[x]
    OBVIOUS
  <1>5. order = InOrder(S) /\ kids = InOrder(T)
    OBVIOUS
  <1>6. /\ DOMAIN order = 1..Cardinality(S) /\ Cardinality(S) \in Nat
        /\ \A i \in DOMAIN order : order[i] \in S
        /\ \A x \in S : \E i \in DOMAIN order : order[i] = x
    <2>. HIDE DEF S
    <2>. QED
      BY <1>1, <1>5, Places
  <1>7. /\ DOMAIN kids = DOMAIN order
        /\ \A i \in DOMAIN order : kids[i] = g[order[i]]
    <2>. HIDE DEF S, T, g
    <2>1. Ordered(S)
      BY <1>1
    <2>2. /\ DOMAIN InOrder(T) = DOMAIN InOrder(S)
          /\ \A i \in DOMAIN InOrder(S) : InOrder(T)[i] = g[InOrder(S)[i]]
      BY <1>2, <1>3, <2>1, PlacesCarryOver
    <2>. QED
      BY <1>5, <2>2
  <1>. HIDE DEF g
  <1>. QED
    BY <1>4, <1>6, <1>7

LEMMA NotErrors ==
  ASSUME NEW x
  PROVE  ListOf(x) # ValueError /\ StructOf(x) # ValueError
  <1>1. ListOf(x).dtype = "List" /\ StructOf(x).dtype = "Struct"
    BY DEF ListOf, StructOf
  <1>2. ValueError.dtype = "ValueError"
    BY DEF ValueError
  <1>. QED
    BY <1>1, <1>2

(* A node whose kids have the types they were declared with has its own.   *)
LEMMA TypeOfNode ==
  ASSUME NEW t, NEW nodes, IsForest(nodes), IsFiniteSet(nodes),
         NEW rows, rows = NodeRows(t, nodes), NEW f, f = Standing(t, nodes),
         NEW built, built = Whole("rows", rows), NEW declared, declared = Whole("nodes", nodes),
         NEW n \in nodes, n.type \in DOMAIN ScalarMap \cup NestedTypeNames,
         \A k \in Below(nodes, n.path) : built[f[k]] = declared[k] /\ built[f[k]] # ValueError
  PROVE  built[f[n]] = declared[n] /\ built[f[n]] # ValueError
  <1>1. /\ Rooted("rows", rows) /\ f[n] \in rows
        /\ {k \in rows : k.parent = f[n].id} = {f[k] : k \in Below(nodes, n.path)}
    BY RowsStand
  <1>2. \A k \in nodes : f[k].type = k.type /\ f[k].name = Last(k.path)
    BY ParentsStand DEF Standing
  <1>3. built[f[n]] = TypeAt(rows, built, f[n]) /\ declared[n] = DeclaredAt(nodes, declared, n)
    BY <1>1, ForestIsRooted, WholeUnfolds DEF TypeStep
  <1>4. CASE n.type \in DOMAIN ScalarMap
    <2>1. n.type \notin NestedTypeNames /\ n.type \notin SqlTypes
      BY <1>4, TypesAssumption
    <2>2. built[f[n]] = [dtype |-> ScalarMap[n.type], fields |-> <<>>]
      BY <1>2, <1>3, <1>4, <2>1 DEF TypeAt, IsNestedType, MapType
    <2>3. declared[n] = [dtype |-> ScalarMap[n.type], fields |-> <<>>]
      BY <1>3, <2>1 DEF DeclaredAt, NestedTypeNames
    <2>4. ScalarMap[n.type] # "ValueError"
      BY <1>4, TypesAssumption
    <2>. QED
      BY <2>2, <2>3, <2>4 DEF ValueError
  <1>5. CASE n.type \in NestedTypeNames
    <2>1. PICK below : below = Below(nodes, n.path)
      OBVIOUS
    <2>2. PICK order, kids : order = InOrder(below) /\ kids = InOrder({f[k] : k \in below})
      OBVIOUS
    <2>3. /\ DOMAIN kids = DOMAIN order
          /\ \A i \in DOMAIN order : kids[i] = f[order[i]] /\ order[i] \in below
          /\ \A k \in below : \E i \in DOMAIN order : order[i] = k
          /\ DOMAIN order = 1..Cardinality(below) /\ Cardinality(below) \in Nat
      BY <2>1, <2>2, KidsStand
    <2>4. below \subseteq nodes /\ HasItsParts(n.type, {Last(m.path) : m \in below})
      BY <2>1 DEF Below, IsForest
    <2>5. PICK fields : fields = [i \in DOMAIN order |-> Field(Last(order[i].path), declared[order[i]])]
      OBVIOUS
    <2>6. [i \in DOMAIN kids |-> Field(kids[i].name, built[kids[i]])] = fields
      BY <1>2, <2>1, <2>3, <2>4, <2>5
    <2>7. built[f[n]] = BuildNestedType(n.type, fields)
      <3>1. kids = InOrder({k \in rows : k.parent = f[n].id})
        BY <1>1, <2>1, <2>2
      <3>. QED
        BY <1>2, <1>3, <1>5, <2>6, <3>1 DEF TypeAt, IsNestedType
    <2>8. /\ DOMAIN fields = DOMAIN order
          /\ \A i \in DOMAIN order : fields[i].name = Last(order[i].path)
                                     /\ fields[i].type = declared[order[i]]
                                     /\ fields[i].type # ValueError
      BY <2>1, <2>3, <2>5 DEF Field
    <2>9. fields \in Seq({fields[i] : i \in DOMAIN fields}) /\ Len(fields) = Cardinality(below)
      <3>1. \A i \in 1..Cardinality(below) : fields[i] \in {fields[j] : j \in DOMAIN fields}
        BY <2>3, <2>8
      <3>2. fields = [i \in 1..Cardinality(below) |-> fields[i]]
        BY <2>3, <2>5
      <3>3. fields \in Seq({fields[i] : i \in DOMAIN fields})
        <4>1. fields \in [1..Cardinality(below) -> {fields[i] : i \in DOMAIN fields}]
          BY <3>1, <3>2
        <4>2. PICK c, S : c = Cardinality(below) /\ S = {fields[i] : i \in DOMAIN fields}
          OBVIOUS
        <4>3. c \in Nat /\ fields \in [1..c -> S]
          BY <2>3, <4>1, <4>2
        <4>. QED
          BY <4>2, <4>3, SeqDef
      <3>. QED
        BY <2>3, <2>8, <3>3, LenProperties
    <2>10. \A k, m \in below : Last(k.path) = Last(m.path) => k = m
      <3>1. \A k, m \in below : Last(k.path) = Last(m.path) => k.path = m.path
        BY <2>1, <2>4, FrontAndLast DEF Below, IsForest
      <3>. QED
        BY <2>4, <3>1 DEF IsForest
    <2>11. ASSUME NEW name, {Last(m.path) : m \in below} = {name} PROVE Cardinality(below) = 1
      <3>1. PICK k \in below : TRUE
        BY <2>11
      <3>2. below = {k}
        BY <2>10, <2>11
      <3>. QED
        BY <3>2, FS_Singleton
    <2>12. CASE n.type = "list"
      <3>1. Cardinality(below) = 1
        BY <2>4, <2>11, <2>12 DEF HasItsParts
      <3>2. built[f[n]] = ListOf(fields[1].type)
        BY <2>3, <2>7, <2>8, <2>9, <2>12, <3>1 DEF BuildNestedType
      <3>3. declared[n] = ListOf(declared[order[1]])
        BY <1>3, <2>1, <2>2, <2>12 DEF DeclaredAt
      <3>4. fields[1].type = declared[order[1]]
        BY <2>3, <2>8, <3>1
      <3>. QED
        BY <3>2, <3>3, <3>4, NotErrors
    <2>13. CASE n.type = "struct"
      <3>1. below # {}
        BY <2>4, <2>13 DEF HasItsParts
      <3>2. fields # <<>>
        <4>1. \E i : i \in DOMAIN fields
          BY <2>3, <2>8, <3>1
        <4>. QED
          BY <4>1
      <3>3. built[f[n]] = StructOf(fields)
        BY <2>7, <2>8, <2>13, <3>2 DEF BuildNestedType
      <3>4. declared[n] = StructOf(fields)
        BY <1>3, <2>1, <2>2, <2>5, <2>13 DEF DeclaredAt
      <3>. QED
        BY <3>3, <3>4, NotErrors
    <2>14. CASE n.type = "map"
      <3>1. {Last(m.path) : m \in below} = {"key", "value"}
        BY <2>4, <2>14 DEF HasItsParts
      <3>2. PICK k \in below : Last(k.path) = "key"
        BY <3>1
      <3>3. PICK v \in below : Last(v.path) = "value"
        BY <3>1
      <3>4. below = {k, v} /\ k # v
        BY <2>10, <3>1, <3>2, <3>3
      <3>5. Cardinality(below) = 2
        <4>2. Cardinality({k} \cup {v}) = 2
          BY <3>4, TwoMembers
        <4>3. below = {k} \cup {v}
          BY <3>4
        <4>. QED
          BY <4>2, <4>3
      <3>6. FieldNames(fields) = {"key", "value"}
        <4>1. PICK i \in DOMAIN order, j \in DOMAIN order : order[i] = k /\ order[j] = v
          BY <2>3, <3>4
        <4>2. fields[i].name = "key" /\ fields[j].name = "value"
          BY <2>8, <3>2, <3>3, <4>1
        <4>3. \A l \in DOMAIN fields : fields[l].name \in {"key", "value"}
          <5>1. \A x \in below : Last(x.path) \in {"key", "value"}
            BY <3>1
          <5>. QED
            BY <2>3, <2>8, <5>1
        <4>. QED
          BY <2>8, <4>1, <4>2, <4>3 DEF FieldNames
      <3>7. built[f[n]] = ListOf(StructOf(KeyValue(fields)))
        BY <2>7, <2>8, <2>9, <2>14, <3>5, <3>6 DEF BuildNestedType
      <3>8. ASSUME NEW x \in below, NEW name, Last(x.path) = name
            PROVE  /\ Named(fields, name) = Field(name, declared[x])
                   /\ (CHOOSE y \in below : Last(y.path) = name) = x
        <4>1. PICK i \in DOMAIN order : order[i] = x
          BY <2>3
        <4>2. \A j \in DOMAIN fields : fields[j].name = name => order[j] = x
          BY <2>3, <2>8, <2>10, <3>8
        <4>3. PICK c : c = CHOOSE j \in DOMAIN fields : fields[j].name = name
          OBVIOUS
        <4>4. c \in DOMAIN fields /\ fields[c].name = name
          BY <2>8, <3>8, <4>1, <4>3
        <4>5. fields[c] = Field(name, declared[x])
          BY <2>5, <2>8, <3>8, <4>2, <4>4
        <4>6. Named(fields, name) = Field(name, declared[x])
          BY <4>3, <4>5 DEF Named
        <4>7. (CHOOSE y \in below : Last(y.path) = name) = x
          BY <2>10, <3>8
        <4>. QED
          BY <4>6, <4>7
      <3>9. KeyValue(fields) = <<Field("key", declared[k]), Field("value", declared[v])>>
        BY <3>2, <3>3, <3>8 DEF KeyValue
      <3>10. declared[n] = ListOf(StructOf(<<Field("key", declared[k]), Field("value", declared[v])>>))
        <4>1. /\ (CHOOSE y \in below : Last(y.path) = "key") = k
              /\ (CHOOSE y \in below : Last(y.path) = "value") = v
          BY <3>2, <3>3, <3>8
        <4>. QED
          BY <1>3, <2>1, <2>14, <3>2, <3>3, <4>1 DEF DeclaredAt
      <3>. QED
        BY <3>7, <3>9, <3>10, NotErrors
    <2>. QED
      BY <1>5, <2>12, <2>13, <2>14 DEF NestedTypeNames
  <1>. QED
    BY <1>4, <1>5

LEMMA SupportedTypes ==
  ASSUME NEW t, NEW nodes, IsForest(nodes), IsFiniteSet(nodes), Supported(nodes),
         NEW rows, rows = NodeRows(t, nodes), NEW f, f = Standing(t, nodes),
         NEW built, built = Whole("rows", rows), NEW declared, declared = Whole("nodes", nodes),
         NEW n \in nodes
  PROVE  built[f[n]] = declared[n] /\ built[f[n]] # ValueError
  <1>. DEFINE Right(x) == built[f[x]] = declared[x] /\ built[f[x]] # ValueError
              wrong == {x \in nodes : ~Right(x)}
  <1>1. wrong = {}
    <2>. SUFFICES ASSUME wrong # {} PROVE FALSE
      OBVIOUS
    <2>1. Ordered(nodes) /\ Rooted("nodes", nodes)
      BY ForestIsRooted DEF Rooted
    <2>2. Ordered(wrong)
      <3>1. wrong \in SUBSET nodes
        OBVIOUS
      <3>. HIDE DEF wrong
      <3>2. IsFiniteSet(wrong)
        BY <3>1, FS_Subset
      <3>. QED
        BY <2>1, <3>1, <3>2 DEF Ordered
    <2>3. PICK x \in wrong : \A y \in wrong : y.order <= x.order
      <3>. HIDE DEF wrong
      <3>. QED
        BY <2>2, LastPlace
    <2>4. ASSUME NEW k \in Below(nodes, x.path) PROVE Right(k)
      <3>1. k \in nodes /\ x.order < k.order
        BY <2>1 DEF Rooted, Kids, Below
      <3>2. k \notin wrong
        <4>1. x.order \in Nat /\ k.order \in Nat
          BY <2>1, <3>1 DEF Ordered
        <4>. QED
          BY <2>3, <3>1, <4>1
      <3>. QED
        BY <3>1, <3>2
    <2>5. x \in nodes /\ x.type \in DOMAIN ScalarMap \cup NestedTypeNames
      BY DEF Supported
    <2>6. Right(x)
      BY <2>4, <2>5, TypeOfNode
    <2>. QED
      BY <2>6
  <1>. QED
    BY <1>1

(* A type that is not known makes an error of every type above it.         *)
LEMMA UnknownTypes ==
  ASSUME NEW t, NEW nodes, IsForest(nodes), IsFiniteSet(nodes), ~Supported(nodes),
         NEW rows, rows = NodeRows(t, nodes), NEW f, f = Standing(t, nodes),
         NEW built, built = Whole("rows", rows)
  PROVE  \E n \in Below(nodes, <<>>) : built[f[n]] = ValueError
  <1>1. /\ Rooted("rows", rows)
        /\ \A n \in nodes : f[n] \in rows
        /\ \A n \in nodes : {k \in rows : k.parent = f[n].id} = {f[k] : k \in Below(nodes, n.path)}
    BY RowsStand
  <1>2. \A n \in nodes : f[n].type = n.type
    BY ParentsStand DEF Standing
  <1>3. \A n \in nodes : built[f[n]] = TypeAt(rows, built, f[n])
    BY <1>1, WholeUnfolds DEF TypeStep
  <1>. DEFINE failed == {n \in nodes : built[f[n]] = ValueError}
  <1>4. failed # {}
    <2>1. PICK n \in nodes : n.type \notin DOMAIN ScalarMap \cup NestedTypeNames
      BY DEF Supported
    <2>2. CASE n.type \in SqlTypes
      <3>1. PICK fields : built[f[n]] = BuildNestedType(n.type, fields)
        BY <1>2, <1>3, <2>2 DEF TypeAt, IsNestedType
      <3>. QED
        BY <2>1, <3>1 DEF BuildNestedType, NestedTypeNames
    <2>3. CASE n.type \notin SqlTypes
      BY <1>2, <1>3, <2>1, <2>3 DEF TypeAt, IsNestedType, MapType
    <2>. QED
      BY <2>2, <2>3
  <1>5. PICK n \in failed : \A m \in failed : n.order <= m.order
    <2>. DEFINE places == {m.order : m \in failed}
    <2>1. places \in SUBSET Nat /\ places # {}
      BY <1>4 DEF IsForest
    <2>2. PICK i \in places : \A j \in places : i <= j
      <3>. HIDE DEF places
      <3>. QED
        BY <2>1, LeastNatural
    <2>. QED
      BY <2>2
  <1>6. Front(n.path) = <<>>
    <2>. SUFFICES ASSUME Front(n.path) # <<>> PROVE FALSE
      OBVIOUS
    <2>1. PICK m \in nodes : m.path = Front(n.path) /\ m.order < n.order /\ m.type \in NestedTypeNames
      BY DEF IsForest
    <2>2. n \in Below(nodes, m.path)
      BY <2>1 DEF Below
    <2>3. PICK kids : kids = InOrder({f[k] : k \in Below(nodes, m.path)})
      OBVIOUS
    <2>4. PICK i \in DOMAIN kids : kids[i] = f[n]
      <3>1. PICK order : order = InOrder(Below(nodes, m.path))
        OBVIOUS
      <3>2. /\ DOMAIN kids = DOMAIN order
            /\ \A j \in DOMAIN order : kids[j] = f[order[j]]
            /\ \A k \in Below(nodes, m.path) : \E j \in DOMAIN order : order[j] = k
        BY <2>3, <3>1, KidsStand
      <3>. QED
        BY <2>2, <3>2
    <2>5. built[f[m]] = BuildNestedType(m.type,
                           [j \in DOMAIN kids |-> Field(kids[j].name, built[kids[j]])])
      <3>1. kids = InOrder({k \in rows : k.parent = f[m].id})
        BY <1>1, <2>3
      <3>. QED
        BY <1>2, <1>3, <2>1, <3>1 DEF TypeAt, IsNestedType
    <2>6. built[f[m]] = ValueError
      <3>1. PICK fields : fields = [j \in DOMAIN kids |-> Field(kids[j].name, built[kids[j]])]
        OBVIOUS
      <3>2. i \in DOMAIN fields /\ fields[i].type = ValueError
        BY <2>4, <3>1 DEF Field
      <3>. QED
        BY <2>5, <3>1, <3>2 DEF BuildNestedType
    <2>7. m \in failed
      BY <2>6
    <2>8. n.order \in Nat /\ m.order \in Nat
      BY DEF IsForest
    <2>. QED
      BY <1>5, <2>1, <2>7, <2>8
  <1>. QED
    BY <1>5, <1>6 DEF Below

(* What a call makes of a table's rows: the columns it was declared with,  *)
(* or an error when a type among them is not known.                        *)
LEMMA BuiltAsDeclared ==
  ASSUME NEW t, NEW nodes, IsForest(nodes), IsFiniteSet(nodes),
         NEW cols, cols = BuildTargetColumns(NodeRows(t, nodes))
  PROVE  /\ (\A i \in DOMAIN cols : cols[i].type # ValueError) <=> Supported(nodes)
         /\ Supported(nodes) => cols = DeclaredColumns(nodes)
  <1>1. PICK rows, f : rows = NodeRows(t, nodes) /\ f = Standing(t, nodes)
    OBVIOUS
  <1>2. PICK built, declared : built = Whole("rows", rows) /\ declared = Whole("nodes", nodes)
    OBVIOUS
  <1>3. PICK order, top : order = InOrder(Below(nodes, <<>>)) /\ top = InOrder({f[k] : k \in Below(nodes, <<>>)})
    OBVIOUS
  <1>4. {c \in rows : c.parent = NoParent} = {f[k] : k \in Below(nodes, <<>>)}
    BY <1>1, RowsStand
  <1>5. cols = [i \in DOMAIN top |-> Field(top[i].name, built[top[i]])]
    BY <1>1, <1>2, <1>3, <1>4, BuiltIsWhole
  <1>6. DeclaredColumns(nodes) = [i \in DOMAIN order |-> Field(Last(order[i].path), declared[order[i]])]
    BY <1>2, <1>3, DeclaredIsWhole
  <1>7. /\ DOMAIN top = DOMAIN order
        /\ \A i \in DOMAIN order : top[i] = f[order[i]] /\ order[i] \in Below(nodes, <<>>)
        /\ \A k \in Below(nodes, <<>>) : \E i \in DOMAIN order : order[i] = k
    BY <1>1, <1>3, KidsStand
  <1>8. \A i \in DOMAIN order : order[i] \in nodes /\ top[i].name = Last(order[i].path)
    BY <1>1, <1>7, ParentsStand DEF Standing, Below
  <1>9. CASE Supported(nodes)
    <2>1. \A n \in nodes : built[f[n]] = declared[n] /\ built[f[n]] # ValueError
      BY <1>1, <1>2, <1>9, SupportedTypes
    <2>2. \A i \in DOMAIN top : Field(top[i].name, built[top[i]])
                                   = Field(Last(order[i].path), declared[order[i]])
      BY <1>7, <1>8, <2>1
    <2>3. \A i \in DOMAIN top : built[top[i]] # ValueError
      BY <1>7, <1>8, <2>1
    <2>4. cols = DeclaredColumns(nodes)
      BY <1>5, <1>6, <1>7, <2>2
    <2>5. \A i \in DOMAIN cols : cols[i].type = built[top[i]] /\ i \in DOMAIN top
      BY <1>5 DEF Field
    <2>. QED
      BY <1>9, <2>3, <2>4, <2>5
  <1>10. CASE ~Supported(nodes)
    <2>1. PICK n \in Below(nodes, <<>>) : built[f[n]] = ValueError
      BY <1>1, <1>2, <1>10, UnknownTypes
    <2>2. PICK i \in DOMAIN order : order[i] = n
      BY <1>7
    <2>3. i \in DOMAIN cols /\ cols[i].type = ValueError
      BY <1>5, <1>7, <2>1, <2>2 DEF Field
    <2>. QED
      BY <1>10, <2>3
  <1>. QED
    BY <1>9, <1>10

-----------------------------------------------------------------------------
(* Commits and the snapshots before them.                                  *)

Dated(rows, n) ==
    \A r \in rows : /\ r = [info |-> r.info, begin |-> r.begin, end |-> r.end]
                    /\ r.begin \in 1..n /\ (r.end = NULL \/ r.end \in 1..n)

LEMMA ChangedRows ==
  ASSUME last \in Nat, NEW rows, Dated(rows, last), NEW gone, NEW new,
         NEW after, after = Changed(rows, gone, new)
  PROVE  /\ Dated(after, last + 1)
         /\ \A s \in 1..last : At(after, s) = At(rows, s)
         /\ At(after, last + 1) = (Live(rows) \ gone) \cup new
  <1>. DEFINE ended(r) == r.end = NULL /\ r.info \in gone
              kept(r)  == IF ended(r) THEN [r EXCEPT !.end = last + 1] ELSE r
  <1>1. after = {kept(r) : r \in rows} \cup {[info |-> i, begin |-> last + 1, end |-> NULL] : i \in new}
    BY DEF Changed, Begun
  <1>2. ASSUME NEW r \in rows
        PROVE  /\ kept(r).info = r.info /\ kept(r).begin = r.begin
               /\ kept(r).end = IF ended(r) THEN last + 1 ELSE r.end
               /\ kept(r) = [info |-> r.info, begin |-> r.begin, end |-> kept(r).end]
               /\ r.begin \in 1..last /\ (r.end = NULL \/ r.end \in 1..last)
    <2>1. /\ r = [info |-> r.info, begin |-> r.begin, end |-> r.end]
          /\ r.begin \in 1..last /\ (r.end = NULL \/ r.end \in 1..last)
      BY DEF Dated
    <2>2. CASE ended(r)
      <3>1. PICK q : q = [r EXCEPT !.end = last + 1]
        OBVIOUS
      <3>2. q = [info |-> r.info, begin |-> r.begin, end |-> last + 1]
        BY <2>1, <3>1
      <3>3. kept(r) = q
        BY <2>2, <3>1
      <3>. HIDE DEF kept
      <3>. QED
        BY <2>1, <2>2, <3>2, <3>3
    <2>3. CASE ~ended(r)
      <3>1. kept(r) = r
        BY <2>3
      <3>. HIDE DEF kept, ended
      <3>. QED
        BY <2>1, <2>3, <3>1
    <2>. QED
      BY <2>2, <2>3
  <1>. HIDE DEF kept
  <1>3. NULL \notin Nat
    BY NamesAssumption
  <1>4. Dated(after, last + 1)
    BY <1>1, <1>2 DEF Dated
  <1>5. ASSUME NEW s \in 1..last PROVE At(after, s) = At(rows, s)
    <2>1. \A r \in rows : VisibleAt(kept(r), s) <=> VisibleAt(r, s)
      BY <1>2, <1>3 DEF VisibleAt
    <2>2. \A i \in new : ~VisibleAt([info |-> i, begin |-> last + 1, end |-> NULL], s)
      BY DEF VisibleAt
    <2>. QED
      BY <1>1, <1>2, <2>1, <2>2 DEF At
  <1>6. At(after, last + 1) = (Live(rows) \ gone) \cup new
    <2>1. \A r \in rows : VisibleAt(r, last) <=> r.end = NULL
      BY <1>2, <1>3 DEF VisibleAt
    <2>2. \A r \in rows : VisibleAt(kept(r), last + 1) <=> r.end = NULL /\ r.info \notin gone
      BY <1>2, <1>3 DEF VisibleAt
    <2>3. \A i \in new : VisibleAt([info |-> i, begin |-> last + 1, end |-> NULL], last + 1)
      BY DEF VisibleAt
    <2>5. \A i : i \in Live(rows) <=> \E r \in rows : r.end = NULL /\ i = r.info
      BY <2>1 DEF Live, At
    <2>4. \A i : i \in At(after, last + 1) <=> \E q \in after : VisibleAt(q, last + 1) /\ i = q.info
      BY DEF At
    <2>6. \A q : q \in after <=> (\E r \in rows : q = kept(r))
                              \/ (\E i \in new : q = [info |-> i, begin |-> last + 1, end |-> NULL])
      BY <1>1
    <2>7. ASSUME NEW i \in At(after, last + 1) PROVE i \in (Live(rows) \ gone) \cup new
      <3>1. PICK q \in after : VisibleAt(q, last + 1) /\ i = q.info
        BY <2>4
      <3>2. CASE \E j \in new : q = [info |-> j, begin |-> last + 1, end |-> NULL]
        BY <3>1, <3>2
      <3>3. CASE \E r \in rows : q = kept(r)
        <4>1. PICK r \in rows : q = kept(r)
          BY <3>3
        <4>2. r.end = NULL /\ r.info \notin gone /\ i = r.info
          BY <3>1, <4>1, <1>2, <2>2
        <4>. QED
          BY <4>2, <2>5
      <3>. QED
        BY <2>6, <3>2, <3>3
    <2>8. ASSUME NEW i \in new PROVE i \in At(after, last + 1)
      <3>1. PICK q : q = [info |-> i, begin |-> last + 1, end |-> NULL]
        OBVIOUS
      <3>2. q \in after /\ VisibleAt(q, last + 1) /\ i = q.info
        BY <2>3, <2>6, <3>1
      <3>. QED
        BY <2>4, <3>2
    <2>9. ASSUME NEW i \in Live(rows), i \notin gone PROVE i \in At(after, last + 1)
      <3>1. PICK r \in rows : r.end = NULL /\ i = r.info
        BY <2>5
      <3>2. kept(r) \in after /\ VisibleAt(kept(r), last + 1) /\ i = kept(r).info
        BY <1>2, <2>2, <2>6, <2>9, <3>1
      <3>. QED
        BY <2>4, <3>2
    <2>. QED
      BY <2>7, <2>8, <2>9
  <1>. QED
    BY <1>4, <1>5, <1>6

LEMMA NothingChanged ==
  ASSUME NEW rows
  PROVE  rows = Changed(rows, {}, {})
  BY DEF Changed, Begun

-----------------------------------------------------------------------------
(* What the catalog knows at a snapshot, in agreement with the history.    *)

IsSegment(info) == info.path \in Seq(STRING) /\ info.isRelative \in BOOLEAN

SchemasKnown(S) ==
    /\ \A sc \in S : sc.name \in SchemaNames \cup {Main} /\ IsSegment(sc)
    /\ \A sc, so \in S : sc.id = so.id \/ sc.name = so.name => sc = so

TablesKnown(S, T) ==
    /\ \A t \in T : t.name \in TableNames /\ IsSegment(t) /\ \E sc \in S : t.schema = sc.id
    /\ \A t, u \in T : t.id = u.id \/ (t.schema = u.schema /\ t.name = u.name) => t = u

KeysKnown(S, T, H) ==
    /\ \A sc \in S, t \in T : t.schema = sc.id => <<sc.name, t.name>> \in DOMAIN H
    /\ \A k \in DOMAIN H : \E sc \in S, t \in T : t.schema = sc.id /\ k = <<sc.name, t.name>>

Described(t, rows, nodes) ==
    IsFiniteSet(nodes) /\ IsForest(nodes) /\ rows = NodeRows(t, nodes)

ColumnsKnown(S, T, C, H) ==
    \A sc \in S, t \in T : t.schema = sc.id =>
       Described(t.id, {c \in C : c.table = t.id}, H[<<sc.name, t.name>>])

Known(S, T, C, H) ==
    SchemasKnown(S) /\ TablesKnown(S, T) /\ KeysKnown(S, T, H) /\ ColumnsKnown(S, T, C, H)

Fresh(S, T, C, n) ==
    /\ \A i \in S \cup T \cup C : i.id \in Nat /\ i.id < n
    /\ \A c \in C : c.table \in Nat /\ c.table < n

(* The inductive invariant: at every snapshot the rows visible there tell  *)
(* what the history says, and ids still to be given are new.               *)
NamesInv ==
    /\ last \in Nat \ {0} /\ nextId \in Nat
    /\ history = [s \in 1..last |-> history[s]]
    /\ Dated(schemas, last) /\ Dated(tables, last) /\ Dated(columns, last)
    /\ Fresh(Live(schemas), Live(tables), Live(columns), nextId)
    /\ \A s \in 1..last : Known(At(schemas, s), At(tables, s), At(columns, s), history[s])

LEMMA Appended ==
  ASSUME NEW n \in Nat, NEW h, h = [s \in 1..n |-> h[s]], NEW x, NEW g, g = Append(h, x)
  PROVE  /\ g = [s \in 1..(n + 1) |-> g[s]]
         /\ \A s \in 1..n : g[s] = h[s]
         /\ g[n + 1] = x
  <1>1. PICK S : S = {h[s] : s \in 1..n} \cup {x}
    OBVIOUS
  <1>2. h \in [1..n -> S]
    BY <1>1
  <1>3. h \in Seq(S) /\ Len(h) = n /\ x \in S
    BY <1>1, <1>2, SeqDef, LenProperties
  <1>4. g \in Seq(S) /\ Len(g) = n + 1 /\ (\A s \in 1..n : g[s] = h[s]) /\ g[n + 1] = x
    BY <1>3, AppendProperties
  <1>5. g \in [1..(n + 1) -> S]
    BY <1>4, LenProperties
  <1>. QED
    BY <1>4, <1>5

(* A commit keeps the invariant when the snapshot it makes is known.       *)
LEMMA CommitKeeps ==
  ASSUME NamesInv, NEW now, Commit(now), nextId' \in Nat,
         NEW goneS, NEW newS, schemas' = Changed(schemas, goneS, newS),
         NEW goneT, NEW newT, tables' = Changed(tables, goneT, newT),
         NEW goneC, NEW newC, columns' = Changed(columns, goneC, newC),
         NEW S, S = (Live(schemas) \ goneS) \cup newS,
         NEW T, T = (Live(tables) \ goneT) \cup newT,
         NEW C, C = (Live(columns) \ goneC) \cup newC,
         Fresh(S, T, C, nextId'), Known(S, T, C, now)
  PROVE  NamesInv'
  <1>1. last \in Nat /\ last' = last + 1 /\ last' \in Nat \ {0}
    BY DEF NamesInv, Commit
  <1>2. /\ Dated(schemas', last') /\ At(schemas', last') = S
        /\ \A s \in 1..last : At(schemas', s) = At(schemas, s)
    BY <1>1, ChangedRows DEF NamesInv
  <1>3. /\ Dated(tables', last') /\ At(tables', last') = T
        /\ \A s \in 1..last : At(tables', s) = At(tables, s)
    BY <1>1, ChangedRows DEF NamesInv
  <1>4. /\ Dated(columns', last') /\ At(columns', last') = C
        /\ \A s \in 1..last : At(columns', s) = At(columns, s)
    BY <1>1, ChangedRows DEF NamesInv
  <1>5. /\ history' = [s \in 1..last' |-> history'[s]] /\ history'[last'] = now
        /\ \A s \in 1..last : history'[s] = history[s]
    <2>1. history' = Append(history, now) /\ history = [s \in 1..last |-> history[s]]
      BY DEF NamesInv, Commit
    <2>. QED
      BY <1>1, <2>1, Appended
  <1>6. ASSUME NEW s \in 1..last'
        PROVE  Known(At(schemas', s), At(tables', s), At(columns', s), history'[s])
    <2>1. CASE s = last'
      BY <1>2, <1>3, <1>4, <1>5, <2>1
    <2>2. CASE s # last'
      <3>1. s \in 1..last
        BY <1>1, <2>2
      <3>. QED
        BY <1>2, <1>3, <1>4, <1>5, <3>1 DEF NamesInv
    <2>. QED
      BY <2>1, <2>2
  <1>7. Fresh(Live(schemas)', Live(tables)', Live(columns)', nextId')
    BY <1>2, <1>3, <1>4 DEF Live
  <1>. QED
    BY <1>1, <1>2, <1>3, <1>4, <1>5, <1>6, <1>7 DEF NamesInv

LEMMA NamesInit ==
  ASSUME Init
  PROVE  NamesInv
  <1>1. PICK p \in SchemaPaths : schemas = Begun({SchemaRow(1, Main, p)}, 1)
    BY DEF Init
  <1>2. PICK info : info = SchemaRow(1, Main, p)
    OBVIOUS
  <1>3. info.id = 1 /\ info.name = Main /\ IsSegment(info)
    BY <1>2, NamesAssumption DEF SchemaRow, IsSegment, Segments
  <1>4. schemas = {[info |-> info, begin |-> 1, end |-> NULL]}
    BY <1>1, <1>2 DEF Begun
  <1>5. At(schemas, 1) = {info}
    <2>1. PICK r : r = [info |-> info, begin |-> 1, end |-> NULL]
      OBVIOUS
    <2>2. schemas = {r} /\ r.info = info /\ VisibleAt(r, 1)
      BY <1>4, <2>1 DEF VisibleAt
    <2>. QED
      BY <2>2 DEF At
  <1>6. Dated(schemas, 1)
    BY <1>4 DEF Dated
  <1>7. At(tables, 1) = {} /\ At(columns, 1) = {} /\ Dated(tables, 1) /\ Dated(columns, 1)
    BY DEF Init, At, Dated
  <1>8. last = 1 /\ nextId = 2 /\ history = <<<<>>>>
    BY DEF Init
  <1>9. history[1] = <<>> /\ history = [s \in 1..1 |-> history[s]]
    BY <1>8
  <1>10. SchemasKnown({info}) /\ TablesKnown({info}, {})
    BY <1>3 DEF SchemasKnown, TablesKnown
  <1>11. KeysKnown({info}, {}, <<>>) /\ ColumnsKnown({info}, {}, {}, <<>>)
    BY DEF KeysKnown, ColumnsKnown
  <1>12. Known(At(schemas, 1), At(tables, 1), At(columns, 1), history[1])
    BY <1>5, <1>7, <1>9, <1>10, <1>11 DEF Known
  <1>13. Fresh(Live(schemas), Live(tables), Live(columns), nextId)
    BY <1>3, <1>5, <1>7, <1>8 DEF Fresh, Live
  <1>14. \A s \in 1..last : s = 1
    BY <1>8
  <1>. QED
    BY <1>6, <1>7, <1>8, <1>9, <1>12, <1>13, <1>14 DEF NamesInv

-----------------------------------------------------------------------------
(* Fields come and go.                                                     *)

(* Paths of one name and of two.                                           *)
LEMMA MadePaths ==
  ASSUME NEW S, NEW a \in S, NEW b \in S
  PROVE  /\ <<a>> \in Seq(S) \ {<<>>} /\ <<a, b>> \in Seq(S) \ {<<>>}
         /\ Front(<<a>>) = <<>> /\ Last(<<a>>) = a
         /\ Front(<<a, b>>) = <<a>> /\ Last(<<a, b>>) = b
  <1>1. <<a>> \in Seq(S) /\ Len(<<a>>) = 1 /\ <<a, b>> \in Seq(S) /\ Len(<<a, b>>) = 2
    OBVIOUS
  <1>2. Last(<<a>>) = a /\ Last(<<a, b>>) = b
    BY <1>1 DEF Last
  <1>3. Front(<<a>>) = <<>>
    <2>1. Front(<<a>>) \in Seq(S) /\ Len(Front(<<a>>)) = 0
      BY <1>1, SubSeqProperties DEF Front
    <2>. QED
      BY <2>1, EmptySeq
  <1>4. Front(<<a, b>>) = <<a>>
    <2>1. /\ Front(<<a, b>>) \in Seq(S) /\ Len(Front(<<a, b>>)) = 1
          /\ Front(<<a, b>>)[1] = <<a, b>>[1]
      BY <1>1, SubSeqProperties DEF Front
    <2>2. <<a, b>>[1] = a /\ <<a>>[1] = a
      OBVIOUS
    <2>. QED
      BY <1>1, <2>1, <2>2, SeqEqual
  <1>. QED
    BY <1>1, <1>2, <1>3, <1>4, EmptySeq

(* A path is what its last name and the rest of it say.                    *)
LEMMA ShortPaths ==
  ASSUME NEW S, NEW p \in Seq(S) \ {<<>>}
  PROVE  /\ Last(p) \in S
         /\ Front(p) = <<>> => p = <<Last(p)>>
         /\ \A a \in S : Front(p) = <<a>> => p = <<a, Last(p)>>
  <1>1. Last(p) \in S
    <2>1. Len(p) \in Nat /\ Len(p) # 0 /\ p \in [1..Len(p) -> S]
      BY LenProperties, EmptySeq
    <2>. QED
      BY <2>1 DEF Last
  <1>2. PICK b \in S : b = Last(p)
    BY <1>1
  <1>3. ASSUME Front(p) = <<>> PROVE p = <<b>>
    <2>1. /\ <<b>> \in Seq(S) \ {<<>>}
          /\ Front(<<b>>) = <<>> /\ Last(<<b>>) = b
      BY MadePaths
    <2>. QED
      BY <1>2, <1>3, <2>1, FrontAndLast
  <1>4. ASSUME NEW a \in S, Front(p) = <<a>> PROVE p = <<a, b>>
    <2>1. /\ <<a>> \in Seq(S) \ {<<>>} /\ <<a, b>> \in Seq(S) \ {<<>>}
          /\ Front(<<a>>) = <<>> /\ Last(<<a>>) = a
          /\ Front(<<a, b>>) = <<a>> /\ Last(<<a, b>>) = b
      BY <1>2, <1>4, MadePaths
    <2>. QED
      BY <1>2, <1>4, <2>1, FrontAndLast
  <1>. QED
    BY <1>1, <1>2, <1>3, <1>4

(* A node has the same row in a forest and in a larger one.                *)
LEMMA RowsAreLocal ==
  ASSUME NEW t, NEW nodes, IsForest(nodes), NEW more, IsForest(more), nodes \subseteq more,
         NEW n \in nodes
  PROVE  ColumnRow(t, nodes, n) = ColumnRow(t, more, n)
  <1>1. CASE Front(n.path) = <<>>
    BY <1>1 DEF ColumnRow
  <1>2. CASE Front(n.path) # <<>>
    <2>1. PICK p, q : /\ p = CHOOSE m \in nodes : m.path = Front(n.path)
                      /\ q = CHOOSE m \in more : m.path = Front(n.path)
      OBVIOUS
    <2>2. p \in nodes /\ p.path = Front(n.path)
      BY <1>2, <2>1 DEF IsForest
    <2>3. q \in more /\ q.path = Front(n.path)
      BY <2>1, <2>2
    <2>4. p = q
      BY <2>2, <2>3 DEF IsForest
    <2>5. PICK row : row = [table |-> t, id |-> n.order, order |-> n.order, name |-> Last(n.path),
                            type |-> n.type, parent |-> p.order]
      OBVIOUS
    <2>6. ColumnRow(t, nodes, n) = row
      BY <1>2, <2>1, <2>5 DEF ColumnRow
    <2>7. ColumnRow(t, more, n) = row
      BY <1>2, <2>1, <2>4, <2>5 DEF ColumnRow
    <2>. QED
      BY <2>6, <2>7
  <1>. QED
    BY <1>1, <1>2

(* A struct that keeps a field is described without the one it loses.      *)
LEMMA RemoveLeaf ==
  ASSUME NEW t, NEW nodes, IsForest(nodes), IsFiniteSet(nodes),
         NEW m \in nodes, m.type = "struct",
         NEW n \in nodes, Front(n.path) = m.path, n.type \notin NestedTypeNames,
         NEW o \in nodes, Front(o.path) = m.path, o # n,
         NEW less, less = nodes \ {n}
  PROVE  Described(t, NodeRows(t, nodes) \ {ColumnRow(t, nodes, n)}, less)
  <1>1. IsFiniteSet(less)
    BY FS_Difference
  <1>2. ASSUME NEW x \in less
        PROVE  x.path # n.path /\ Front(x.path) # n.path /\ x.order # n.order
    <2>1. x \in nodes /\ x # n
      OBVIOUS
    <2>2. CASE Front(x.path) = n.path
      <3>1. Front(x.path) # <<>>
        BY <2>2 DEF IsForest
      <3>2. PICK y \in nodes : y.path = Front(x.path) /\ y.type \in NestedTypeNames
        BY <2>1, <3>1 DEF IsForest
      <3>3. y = n
        BY <2>2, <3>2 DEF IsForest
      <3>. QED
        BY <3>2, <3>3
    <2>. QED
      BY <2>1, <2>2 DEF IsForest
  <1>3. IsForest(less)
    <2>1. ASSUME NEW x \in less, Front(x.path) # <<>>
          PROVE  \E y \in less : y.path = Front(x.path) /\ y.order < x.order /\ y.type \in NestedTypeNames
      <3>1. PICK y \in nodes : y.path = Front(x.path) /\ y.order < x.order /\ y.type \in NestedTypeNames
        BY <2>1 DEF IsForest
      <3>2. y # n
        BY <1>2, <3>1
      <3>. QED
        BY <3>1, <3>2
    <2>2. ASSUME NEW x \in less
          PROVE  HasItsParts(x.type, {Last(y.path) : y \in Below(less, x.path)})
      <3>1. HasItsParts(x.type, {Last(y.path) : y \in Below(nodes, x.path)})
        BY DEF IsForest
      <3>2. CASE x = m
        <4>1. o \in Below(less, x.path)
          BY <3>2 DEF Below
        <4>2. Last(o.path) \in {Last(y.path) : y \in Below(less, x.path)}
          BY <4>1
        <4>. QED
          BY <3>2, <4>2 DEF HasItsParts
      <3>3. CASE x # m
        <4>1. x.path # m.path
          BY <3>3 DEF IsForest
        <4>2. Below(less, x.path) = Below(nodes, x.path)
          BY <4>1 DEF Below
        <4>. QED
          BY <3>1, <4>2
      <3>. QED
        BY <3>2, <3>3
    <2>3. \A x \in less : x.path \in Seq(STRING) \ {<<>>} /\ x.order \in Nat
      BY DEF IsForest
    <2>4. \A x, y \in less : x.path = y.path \/ x.order = y.order => x = y
      BY DEF IsForest
    <2>. QED
      BY <2>1, <2>2, <2>3, <2>4 DEF IsForest
  <1>4. \A x \in less : ColumnRow(t, nodes, x) = ColumnRow(t, less, x)
    BY <1>3, RowsAreLocal
  <1>5. \A x \in less : ColumnRow(t, nodes, x) # ColumnRow(t, nodes, n)
    BY <1>2, ParentsStand
  <1>6. NodeRows(t, nodes) \ {ColumnRow(t, nodes, n)} = NodeRows(t, less)
    BY <1>4, <1>5 DEF NodeRows
  <1>. QED
    BY <1>1, <1>3, <1>6 DEF Described

(* A struct is described with one more field, placed last.                 *)
LEMMA AddLeaf ==
  ASSUME NEW t, NEW nodes, IsForest(nodes), IsFiniteSet(nodes),
         NEW m \in nodes, m.type = "struct",
         NEW n, n.path \in Seq(STRING) \ {<<>>}, Front(n.path) = m.path, n.order \in Nat,
         n.type \notin NestedTypeNames,
         \A x \in nodes : x.order < n.order /\ x.path # n.path,
         NEW more, more = nodes \cup {n}
  PROVE  Described(t, NodeRows(t, nodes) \cup {ColumnRow(t, more, n)}, more)
  <1>1. IsFiniteSet(more)
    BY FS_AddElement
  <1>2. IsForest(more)
    <2>1. \A x \in more : x.path \in Seq(STRING) \ {<<>>} /\ x.order \in Nat
      BY DEF IsForest
    <2>2. \A x, y \in more : x.path = y.path \/ x.order = y.order => x = y
      <3>1. \A x \in nodes : x.order \in Nat /\ x.order # n.order
        BY DEF IsForest
      <3>. QED
        BY <3>1 DEF IsForest
    <2>3. ASSUME NEW x \in more, Front(x.path) # <<>>
          PROVE  \E y \in more : y.path = Front(x.path) /\ y.order < x.order /\ y.type \in NestedTypeNames
      <3>1. CASE x \in nodes
        BY <2>3, <3>1 DEF IsForest
      <3>2. CASE x = n
        BY <3>2 DEF NestedTypeNames
      <3>. QED
        BY <3>1, <3>2
    <2>4. ASSUME NEW x \in more
          PROVE  HasItsParts(x.type, {Last(y.path) : y \in Below(more, x.path)})
      <3>1. CASE x = n
        BY <3>1 DEF HasItsParts, NestedTypeNames
      <3>2. CASE x = m
        <4>1. n \in Below(more, x.path)
          BY <3>2 DEF Below
        <4>2. Last(n.path) \in {Last(y.path) : y \in Below(more, x.path)}
          BY <4>1
        <4>. QED
          BY <3>2, <4>2 DEF HasItsParts
      <3>3. CASE x \in nodes /\ x # m
        <4>1. x.path # m.path
          BY <3>3 DEF IsForest
        <4>2. Below(more, x.path) = Below(nodes, x.path)
          BY <4>1 DEF Below
        <4>. QED
          BY <3>3, <4>2 DEF IsForest
      <3>. QED
        BY <3>1, <3>2, <3>3
    <2>. QED
      BY <2>1, <2>2, <2>3, <2>4 DEF IsForest
  <1>3. \A x \in nodes : ColumnRow(t, nodes, x) = ColumnRow(t, more, x)
    BY <1>2, RowsAreLocal
  <1>4. NodeRows(t, nodes) \cup {ColumnRow(t, more, n)} = NodeRows(t, more)
    BY <1>3 DEF NodeRows
  <1>. QED
    BY <1>1, <1>2, <1>4 DEF Described

-----------------------------------------------------------------------------
(* The invariant: each commit keeps it.                                    *)

(* The nodes of a new table: found as declared, with orders of their own.  *)
LEMMA PlacedForest ==
  ASSUME NEW d \in Declarations, NEW k \in Nat, NEW nodes, nodes = Placed(d, k)
  PROVE  /\ Len(d) \in Nat /\ IsFiniteSet(nodes) /\ IsForest(nodes)
         /\ \A n \in nodes : n.order \in Nat /\ n.order <= k + Len(d)
  <1>1. d \in Seq([path : Seq(STRING), type : STRING]) /\ IsForest(Placed(d, 0))
    BY TypesAssumption
  <1>2. Len(d) \in Nat /\ DOMAIN d = 1..Len(d)
    BY <1>1, LenProperties
  <1>. DEFINE node(j, i) == [path |-> d[i].path, type |-> d[i].type, order |-> j + i]
              first == Placed(d, 0)
  <1>3. nodes = {node(k, i) : i \in 1..Len(d)} /\ first = {node(0, i) : i \in 1..Len(d)}
    BY <1>2 DEF Placed
  <1>4. ASSUME NEW i \in 1..Len(d)
        PROVE  /\ node(k, i) \in nodes /\ node(0, i) \in first /\ i \in Nat
               /\ node(k, i).path = node(0, i).path /\ node(k, i).type = node(0, i).type
               /\ node(k, i).order = k + i /\ node(0, i).order = i
    BY <1>2, <1>3
  <1>5. \A n \in nodes : \E i \in 1..Len(d) : n = node(k, i)
    BY <1>3
  <1>6. \A n \in first : \E i \in 1..Len(d) : n = node(0, i)
    BY <1>3
  <1>7. IsFiniteSet(nodes)
    <2>1. IsFiniteSet(1..Len(d))
      BY <1>2, FS_Interval
    <2>2. PICK f : f = [i \in 1..Len(d) |-> node(k, i)]
      OBVIOUS
    <2>3. f \in Surjection(1..Len(d), nodes)
      BY <1>3, <2>2 DEF Surjection
    <2>. QED
      BY <2>1, <2>3, FS_Surjection
  <1>. HIDE DEF node, first
  <1>8. IsForest(first)
    BY <1>1 DEF first
  <1>9. \A n \in nodes : n.path \in Seq(STRING) \ {<<>>} /\ n.order \in Nat
    BY <1>2, <1>4, <1>5, <1>8 DEF IsForest
  <1>10. ASSUME NEW n \in nodes, NEW m \in nodes, n.path = m.path \/ n.order = m.order
         PROVE  n = m
    <2>1. PICK i \in 1..Len(d) : n = node(k, i)
      BY <1>5
    <2>2. PICK j \in 1..Len(d) : m = node(k, j)
      BY <1>5
    <2>3. node(0, i).path = node(0, j).path \/ node(0, i).order = node(0, j).order
      BY <1>4, <1>10, <2>1, <2>2
    <2>4. node(0, i) = node(0, j)
      BY <1>4, <1>8, <2>3 DEF IsForest
    <2>5. i = j
      BY <1>4, <2>4
    <2>. QED
      BY <2>1, <2>2, <2>5
  <1>11. ASSUME NEW n \in nodes, Front(n.path) # <<>>
         PROVE  \E m \in nodes : m.path = Front(n.path) /\ m.order < n.order /\ m.type \in NestedTypeNames
    <2>1. PICK i \in 1..Len(d) : n = node(k, i)
      BY <1>5
    <2>2. PICK m \in first : /\ m.path = Front(node(0, i).path) /\ m.order < node(0, i).order
                             /\ m.type \in NestedTypeNames
      BY <1>4, <1>8, <1>11, <2>1 DEF IsForest
    <2>3. PICK j \in 1..Len(d) : m = node(0, j)
      BY <1>6
    <2>4. /\ node(k, j).path = Front(n.path) /\ node(k, j).order < n.order
          /\ node(k, j).type \in NestedTypeNames
      BY <1>4, <2>1, <2>2, <2>3
    <2>. QED
      BY <1>4, <2>4
  <1>12. ASSUME NEW n \in nodes
         PROVE  HasItsParts(n.type, {Last(m.path) : m \in Below(nodes, n.path)})
    <2>1. PICK i \in 1..Len(d) : n = node(k, i)
      BY <1>5
    <2>2. HasItsParts(n.type, {Last(m.path) : m \in Below(first, n.path)})
      BY <1>4, <1>8, <2>1 DEF IsForest
    <2>3. ASSUME NEW j \in 1..Len(d)
          PROVE  node(k, j) \in Below(nodes, n.path) <=> node(0, j) \in Below(first, n.path)
      BY <1>4 DEF Below
    <2>4. {Last(m.path) : m \in Below(nodes, n.path)} = {Last(m.path) : m \in Below(first, n.path)}
      <3>1. ASSUME NEW m \in Below(nodes, n.path)
            PROVE  \E o \in Below(first, n.path) : Last(o.path) = Last(m.path)
        BY <1>4, <1>5, <2>3 DEF Below
      <3>2. ASSUME NEW m \in Below(first, n.path)
            PROVE  \E o \in Below(nodes, n.path) : Last(o.path) = Last(m.path)
        BY <1>4, <1>6, <2>3 DEF Below
      <3>. QED
        BY <3>1, <3>2
    <2>. QED
      BY <2>2, <2>4
  <1>13. \A n \in nodes : n.order \in Nat /\ n.order <= k + Len(d)
    BY <1>2, <1>4, <1>5
  <1>. QED
    BY <1>2, <1>7, <1>9, <1>10, <1>11, <1>12, <1>13 DEF IsForest

(* Before a commit.                                                        *)
LEMMA Standings ==
  ASSUME NamesInv, NEW S, S = Live(schemas), NEW T, T = Live(tables), NEW C, C = Live(columns)
  PROVE  /\ nextId \in Nat /\ Fresh(S, T, C, nextId)
         /\ SchemasKnown(S) /\ TablesKnown(S, T) /\ KeysKnown(S, T, Now) /\ ColumnsKnown(S, T, C, Now)
  BY DEF NamesInv, Live, Known, Now

LEMMA AddSchemaKeeps ==
  ASSUME NamesInv, NEW n \in SchemaNames, NEW p \in SchemaPaths, AddSchema(n, p)
  PROVE  NamesInv'
  <1>1. PICK S, T, C : S = Live(schemas) /\ T = Live(tables) /\ C = Live(columns)
    OBVIOUS
  <1>2. /\ nextId \in Nat /\ Fresh(S, T, C, nextId)
        /\ SchemasKnown(S) /\ TablesKnown(S, T) /\ KeysKnown(S, T, Now) /\ ColumnsKnown(S, T, C, Now)
    BY <1>1, Standings
  <1>3. PICK row : row = SchemaRow(nextId, n, p)
    OBVIOUS
  <1>4. row.id = nextId /\ row.name = n /\ IsSegment(row)
    BY <1>3, NamesAssumption DEF SchemaRow, IsSegment, Segments
  <1>5. \A t \in T : t.schema # row.id
    BY <1>2, <1>4 DEF TablesKnown, Fresh
  <1>6. PICK after : after = S \cup {row}
    OBVIOUS
  <1>7. SchemasKnown(after)
    BY <1>1, <1>2, <1>4, <1>6 DEF SchemasKnown, Fresh, AddSchema
  <1>8. TablesKnown(after, T)
    BY <1>2, <1>6 DEF TablesKnown
  <1>9. KeysKnown(after, T, Now)
    BY <1>2, <1>5, <1>6 DEF KeysKnown
  <1>10. ColumnsKnown(after, T, C, Now)
    BY <1>2, <1>5, <1>6 DEF ColumnsKnown
  <1>11. Known(after, T, C, Now)
    BY <1>7, <1>8, <1>9, <1>10 DEF Known
  <1>12. nextId' = nextId + 1 /\ nextId' \in Nat /\ Commit(Now)
    BY <1>2 DEF AddSchema
  <1>13. Fresh(after, T, C, nextId')
    BY <1>2, <1>4, <1>6, <1>12 DEF Fresh
  <1>14. /\ schemas' = Changed(schemas, {}, {row})
         /\ tables' = Changed(tables, {}, {}) /\ columns' = Changed(columns, {}, {})
    BY <1>3, NothingChanged DEF AddSchema
  <1>15. /\ after = (Live(schemas) \ {}) \cup {row}
         /\ T = (Live(tables) \ {}) \cup {} /\ C = (Live(columns) \ {}) \cup {}
    BY <1>1, <1>6
  <1>. QED
    BY <1>11, <1>12, <1>13, <1>14, <1>15, CommitKeeps

LEMMA DropSchemaKeeps ==
  ASSUME NamesInv, NEW sc \in Live(schemas), DropSchema(sc)
  PROVE  NamesInv'
  <1>1. PICK S, T, C : S = Live(schemas) /\ T = Live(tables) /\ C = Live(columns)
    OBVIOUS
  <1>2. /\ nextId \in Nat /\ Fresh(S, T, C, nextId)
        /\ SchemasKnown(S) /\ TablesKnown(S, T) /\ KeysKnown(S, T, Now) /\ ColumnsKnown(S, T, C, Now)
    BY <1>1, Standings
  <1>3. PICK after : after = S \ {sc}
    OBVIOUS
  <1>4. \A t \in T : t.schema # sc.id
    BY <1>1 DEF DropSchema
  <1>5. SchemasKnown(after)
    BY <1>2, <1>3 DEF SchemasKnown
  <1>6. TablesKnown(after, T)
    BY <1>2, <1>3, <1>4 DEF TablesKnown
  <1>7. KeysKnown(after, T, Now)
    BY <1>2, <1>3, <1>4 DEF KeysKnown
  <1>8. ColumnsKnown(after, T, C, Now)
    BY <1>2, <1>3 DEF ColumnsKnown
  <1>9. Known(after, T, C, Now)
    BY <1>5, <1>6, <1>7, <1>8 DEF Known
  <1>10. nextId' = nextId /\ nextId' \in Nat /\ Commit(Now)
    BY <1>2 DEF DropSchema
  <1>11. Fresh(after, T, C, nextId')
    BY <1>2, <1>3, <1>10 DEF Fresh
  <1>12. /\ schemas' = Changed(schemas, {sc}, {})
         /\ tables' = Changed(tables, {}, {}) /\ columns' = Changed(columns, {}, {})
    BY NothingChanged DEF DropSchema
  <1>13. /\ after = (Live(schemas) \ {sc}) \cup {}
         /\ T = (Live(tables) \ {}) \cup {} /\ C = (Live(columns) \ {}) \cup {}
    BY <1>1, <1>3
  <1>. QED
    BY <1>9, <1>10, <1>11, <1>12, <1>13, CommitKeeps

LEMMA AddTableKeeps ==
  ASSUME NamesInv, NEW sc \in Live(schemas), NEW n \in TableNames, NEW p \in TablePaths,
         NEW d \in Declarations, AddTable(sc, n, p, d)
  PROVE  NamesInv'
  <1>1. PICK S, T, C : S = Live(schemas) /\ T = Live(tables) /\ C = Live(columns)
    OBVIOUS
  <1>2. /\ nextId \in Nat /\ Fresh(S, T, C, nextId)
        /\ SchemasKnown(S) /\ TablesKnown(S, T) /\ KeysKnown(S, T, Now) /\ ColumnsKnown(S, T, C, Now)
    BY <1>1, Standings
  <1>3. PICK nodes : nodes = Placed(d, nextId)
    OBVIOUS
  <1>4. /\ Len(d) \in Nat /\ IsFiniteSet(nodes) /\ IsForest(nodes)
        /\ \A x \in nodes : x.order \in Nat /\ x.order <= nextId + Len(d)
    BY <1>2, <1>3, PlacedForest
  <1>5. PICK row : row = [id |-> nextId, schema |-> sc.id, name |-> n,
                          path |-> p.path, isRelative |-> p.isRelative]
    OBVIOUS
  <1>6. row.id = nextId /\ row.schema = sc.id /\ row.name = n /\ IsSegment(row)
    BY <1>5, NamesAssumption DEF IsSegment, Segments
  <1>7. PICK new : new = NodeRows(nextId, nodes)
    OBVIOUS
  <1>8. \A c \in new : c.table = nextId /\ c.id \in Nat /\ c.id <= nextId + Len(d)
    BY <1>4, <1>7, ParentsStand DEF NodeRows
  <1>9. PICK key, now : key = <<sc.name, n>> /\ now = With(Now, key, nodes)
    OBVIOUS
  <1>10. /\ DOMAIN now = DOMAIN Now \cup {key} /\ now[key] = nodes
         /\ \A k \in DOMAIN Now : k # key => now[k] = Now[k]
    BY <1>9 DEF With
  <1>11. PICK T2, C2 : T2 = T \cup {row} /\ C2 = C \cup new
    OBVIOUS
  <1>12. \A t \in T : ~(t.schema = sc.id /\ t.name = n)
    BY <1>1 DEF AddTable
  <1>13. ASSUME NEW so \in S, NEW t \in T, t.schema = so.id
         PROVE  /\ <<so.name, t.name>> \in DOMAIN Now /\ <<so.name, t.name>> # key
                /\ t.id # nextId
    <2>1. <<so.name, t.name>> \in DOMAIN Now
      BY <1>2, <1>13 DEF KeysKnown
    <2>2. t.id # nextId
      BY <1>2 DEF Fresh
    <2>3. so.name = sc.name => so = sc
      BY <1>1, <1>2 DEF SchemasKnown
    <2>. QED
      BY <1>9, <1>12, <1>13, <2>1, <2>2, <2>3
  <1>14. TablesKnown(S, T2)
    <2>1. \A t \in T2 : t.name \in TableNames /\ IsSegment(t) /\ \E so \in S : t.schema = so.id
      BY <1>1, <1>2, <1>6, <1>11 DEF TablesKnown
    <2>2. \A t \in T : t.id # row.id
      BY <1>2, <1>6 DEF Fresh
    <2>3. \A t, u \in T2 : t.id = u.id \/ (t.schema = u.schema /\ t.name = u.name) => t = u
      BY <1>2, <1>6, <1>11, <1>12, <2>2 DEF TablesKnown
    <2>. QED
      BY <2>1, <2>3 DEF TablesKnown
  <1>15. \A so \in S : row.schema = so.id => so = sc
    BY <1>1, <1>2, <1>6 DEF SchemasKnown
  <1>16. KeysKnown(S, T2, now)
    <2>1. \A so \in S, t \in T2 : t.schema = so.id => <<so.name, t.name>> \in DOMAIN now
      BY <1>6, <1>9, <1>10, <1>11, <1>13, <1>15
    <2>2. ASSUME NEW k \in DOMAIN now
          PROVE  \E so \in S, t \in T2 : t.schema = so.id /\ k = <<so.name, t.name>>
      <3>1. CASE k = key
        BY <1>1, <1>6, <1>9, <1>11, <3>1
      <3>2. CASE k \in DOMAIN Now
        BY <1>2, <1>11, <3>2 DEF KeysKnown
      <3>. QED
        BY <1>10, <3>1, <3>2
    <2>. QED
      BY <2>1, <2>2 DEF KeysKnown
  <1>17. ColumnsKnown(S, T2, C2, now)
    <2>1. ASSUME NEW so \in S, NEW t \in T, t.schema = so.id
          PROVE  Described(t.id, {c \in C2 : c.table = t.id}, now[<<so.name, t.name>>])
      <3>1. {c \in C2 : c.table = t.id} = {c \in C : c.table = t.id}
        BY <1>8, <1>11, <1>13, <2>1
      <3>2. now[<<so.name, t.name>>] = Now[<<so.name, t.name>>]
        BY <1>10, <1>13, <2>1
      <3>. QED
        BY <1>2, <2>1, <3>1, <3>2 DEF ColumnsKnown
    <2>2. Described(row.id, {c \in C2 : c.table = row.id}, now[<<sc.name, row.name>>])
      <3>1. \A c \in C : c.table # nextId
        BY <1>2 DEF Fresh
      <3>2. {c \in C2 : c.table = row.id} = new
        BY <1>6, <1>8, <1>11, <3>1
      <3>3. now[<<sc.name, row.name>>] = nodes
        BY <1>6, <1>9, <1>10
      <3>. QED
        BY <1>4, <1>6, <1>7, <3>2, <3>3 DEF Described
    <2>3. ASSUME NEW so \in S, NEW t \in T2, t.schema = so.id
          PROVE  Described(t.id, {c \in C2 : c.table = t.id}, now[<<so.name, t.name>>])
      <3>1. CASE t \in T
        BY <2>1, <2>3, <3>1
      <3>2. CASE t = row
        <4>1. so = sc
          BY <1>15, <2>3, <3>2
        <4>. QED
          BY <2>2, <3>2, <4>1
      <3>. QED
        BY <1>11, <3>1, <3>2
    <2>. QED
      BY <2>3 DEF ColumnsKnown
  <1>18. Known(S, T2, C2, now)
    BY <1>2, <1>14, <1>16, <1>17 DEF Known
  <1>19. nextId' = nextId + Len(d) + 1 /\ nextId' \in Nat /\ Commit(now)
    BY <1>2, <1>3, <1>4, <1>9 DEF AddTable
  <1>20. Fresh(S, T2, C2, nextId')
    <2>1. \A i \in S \cup T \cup C : i.id \in Nat /\ i.id < nextId'
      BY <1>2, <1>4, <1>19 DEF Fresh
    <2>2. row.id \in Nat /\ row.id < nextId'
      BY <1>2, <1>4, <1>6, <1>19
    <2>3. \A c \in new : c.id \in Nat /\ c.id < nextId' /\ c.table \in Nat /\ c.table < nextId'
      BY <1>2, <1>4, <1>8, <1>19
    <2>4. \A c \in C : c.table \in Nat /\ c.table < nextId'
      BY <1>2, <1>4, <1>19 DEF Fresh
    <2>. QED
      BY <1>11, <2>1, <2>2, <2>3, <2>4 DEF Fresh
  <1>21. /\ schemas' = Changed(schemas, {}, {})
         /\ tables' = Changed(tables, {}, {row}) /\ columns' = Changed(columns, {}, new)
    BY <1>3, <1>5, <1>7, NothingChanged DEF AddTable
  <1>22. /\ S = (Live(schemas) \ {}) \cup {}
         /\ T2 = (Live(tables) \ {}) \cup {row} /\ C2 = (Live(columns) \ {}) \cup new
    BY <1>1, <1>11
  <1>. QED
    BY <1>18, <1>19, <1>20, <1>21, <1>22, CommitKeeps

LEMMA KeyOf ==
  ASSUME SchemasKnown(Live(schemas)), NEW sc \in Live(schemas), NEW t, t.schema = sc.id
  PROVE  Key(t) = <<sc.name, t.name>>
  <1>1. PICK so : so = CHOOSE x \in Live(schemas) : x.id = t.schema
    OBVIOUS
  <1>2. so \in Live(schemas) /\ so.id = t.schema
    BY <1>1
  <1>3. so = sc
    BY <1>2 DEF SchemasKnown
  <1>. QED
    BY <1>1, <1>3 DEF Key

LEMMA DropTableKeeps ==
  ASSUME NamesInv, NEW t \in Live(tables), DropTable(t)
  PROVE  NamesInv'
  <1>1. PICK S, T, C : S = Live(schemas) /\ T = Live(tables) /\ C = Live(columns)
    OBVIOUS
  <1>2. /\ nextId \in Nat /\ Fresh(S, T, C, nextId)
        /\ SchemasKnown(S) /\ TablesKnown(S, T) /\ KeysKnown(S, T, Now) /\ ColumnsKnown(S, T, C, Now)
    BY <1>1, Standings
  <1>3. PICK sc \in S : t.schema = sc.id
    BY <1>1, <1>2 DEF TablesKnown
  <1>4. PICK key, now : key = <<sc.name, t.name>> /\ now = Without(Now, key)
    OBVIOUS
  <1>5. Key(t) = key
    BY <1>1, <1>2, <1>3, <1>4, KeyOf
  <1>6. DOMAIN now = DOMAIN Now \ {key} /\ \A k \in DOMAIN Now : k # key => now[k] = Now[k]
    BY <1>4 DEF Without
  <1>7. PICK gone : gone = {c \in C : c.table = t.id}
    OBVIOUS
  <1>8. PICK T2, C2 : T2 = T \ {t} /\ C2 = C \ gone
    OBVIOUS
  <1>9. ASSUME NEW so \in S, NEW u \in T2, u.schema = so.id
        PROVE  <<so.name, u.name>> \in DOMAIN Now /\ <<so.name, u.name>> # key /\ u.id # t.id
    <2>1. <<so.name, u.name>> \in DOMAIN Now
      BY <1>2, <1>8, <1>9 DEF KeysKnown
    <2>2. u.id # t.id /\ ~(u.schema = t.schema /\ u.name = t.name)
      BY <1>1, <1>2, <1>8 DEF TablesKnown
    <2>3. so.name = sc.name => so = sc
      BY <1>2 DEF SchemasKnown
    <2>. QED
      BY <1>3, <1>4, <1>9, <2>1, <2>2, <2>3
  <1>10. TablesKnown(S, T2)
    BY <1>2, <1>8 DEF TablesKnown
  <1>11. KeysKnown(S, T2, now)
    <2>1. ASSUME NEW k \in DOMAIN now
          PROVE  \E so \in S, u \in T2 : u.schema = so.id /\ k = <<so.name, u.name>>
      <3>1. PICK so \in S, u \in T : u.schema = so.id /\ k = <<so.name, u.name>>
        BY <1>2, <1>6 DEF KeysKnown
      <3>2. CASE u = t
        <4>1. so = sc
          BY <1>2, <1>3, <3>1, <3>2 DEF SchemasKnown
        <4>. QED
          BY <1>4, <1>6, <3>1, <3>2, <4>1
      <3>. QED
        BY <1>8, <3>1, <3>2
    <2>2. \A so \in S, u \in T2 : u.schema = so.id => <<so.name, u.name>> \in DOMAIN now
      BY <1>6, <1>9
    <2>. QED
      BY <2>1, <2>2 DEF KeysKnown
  <1>12. ColumnsKnown(S, T2, C2, now)
    <2>1. ASSUME NEW so \in S, NEW u \in T2, u.schema = so.id
          PROVE  Described(u.id, {c \in C2 : c.table = u.id}, now[<<so.name, u.name>>])
      <3>1. {c \in C2 : c.table = u.id} = {c \in C : c.table = u.id}
        BY <1>7, <1>8, <1>9, <2>1
      <3>2. now[<<so.name, u.name>>] = Now[<<so.name, u.name>>]
        BY <1>6, <1>9, <2>1
      <3>3. u \in T
        BY <1>8
      <3>. QED
        BY <1>2, <2>1, <3>1, <3>2, <3>3 DEF ColumnsKnown
    <2>. QED
      BY <2>1 DEF ColumnsKnown
  <1>13. Known(S, T2, C2, now)
    BY <1>2, <1>10, <1>11, <1>12 DEF Known
  <1>14. nextId' = nextId /\ nextId' \in Nat /\ Commit(now)
    BY <1>2, <1>4, <1>5 DEF DropTable
  <1>15. Fresh(S, T2, C2, nextId')
    BY <1>2, <1>8, <1>14 DEF Fresh
  <1>16. /\ schemas' = Changed(schemas, {}, {})
         /\ tables' = Changed(tables, {t}, {}) /\ columns' = Changed(columns, gone, {})
    BY <1>1, <1>7, NothingChanged DEF DropTable
  <1>17. /\ S = (Live(schemas) \ {}) \cup {}
         /\ T2 = (Live(tables) \ {t}) \cup {} /\ C2 = (Live(columns) \ gone) \cup {}
    BY <1>1, <1>8
  <1>. QED
    BY <1>13, <1>14, <1>15, <1>16, <1>17, CommitKeeps

(* A commit that alters the columns of one table.                          *)
LEMMA TableAltered ==
  ASSUME NEW S, NEW T, NEW C, NEW H,
         SchemasKnown(S), TablesKnown(S, T), KeysKnown(S, T, H), ColumnsKnown(S, T, C, H),
         NEW sc \in S, NEW t \in T, t.schema = sc.id, NEW key, key = <<sc.name, t.name>>,
         NEW nodes, NEW now, now = With(H, key, nodes),
         NEW C2, \A c : c.table # t.id => (c \in C2 <=> c \in C),
         Described(t.id, {c \in C2 : c.table = t.id}, nodes)
  PROVE  Known(S, T, C2, now)
  <1>1. key \in DOMAIN H
    BY DEF KeysKnown
  <1>2. /\ DOMAIN now = DOMAIN H /\ now[key] = nodes
        /\ \A k \in DOMAIN H : k # key => now[k] = H[k]
    BY <1>1 DEF With
  <1>3. KeysKnown(S, T, now)
    BY <1>2 DEF KeysKnown
  <1>4. ASSUME NEW so \in S, NEW u \in T, u.schema = so.id
        PROVE  Described(u.id, {c \in C2 : c.table = u.id}, now[<<so.name, u.name>>])
    <2>1. CASE u = t
      <3>1. so = sc
        BY <1>4, <2>1 DEF SchemasKnown
      <3>. QED
        BY <1>2, <2>1, <3>1
    <2>2. CASE u # t
      <3>1. u.id # t.id /\ ~(u.schema = t.schema /\ u.name = t.name)
        BY <2>2 DEF TablesKnown
      <3>2. so.name = sc.name => so = sc
        BY DEF SchemasKnown
      <3>3. <<so.name, u.name>> # key /\ <<so.name, u.name>> \in DOMAIN H
        BY <1>4, <3>1, <3>2 DEF KeysKnown
      <3>4. {c \in C2 : c.table = u.id} = {c \in C : c.table = u.id}
        BY <3>1
      <3>. QED
        BY <1>2, <1>4, <3>3, <3>4 DEF ColumnsKnown
    <2>. QED
      BY <2>1, <2>2
  <1>. QED
    BY <1>3, <1>4 DEF Known, ColumnsKnown

(* A top-level column and what is below it, as nodes.                      *)
TopAndFields(t, nodes, m, c) ==
    /\ m.path = <<c.name>> /\ m.order = c.id /\ m.type = c.type /\ c.name \in STRING
    /\ \A n \in nodes : /\ ColumnRow(t, nodes, n).parent = c.id <=> Front(n.path) = m.path
                        /\ ColumnRow(t, nodes, n).name = Last(n.path)
                        /\ ColumnRow(t, nodes, n).type = n.type
                        /\ Front(n.path) = m.path => n.path = <<c.name, Last(n.path)>>

LEMMA FieldsStand ==
  ASSUME NEW t, NEW nodes, IsForest(nodes), IsFiniteSet(nodes), NEW m \in nodes,
         NEW c, c = ColumnRow(t, nodes, m), c.parent = NoParent
  PROVE  TopAndFields(t, nodes, m, c)
  <1>1. /\ c.id = m.order /\ c.name = Last(m.path) /\ c.type = m.type /\ Front(m.path) = <<>>
    BY ParentsStand
  <1>2. \A n \in nodes : n.path \in Seq(STRING) \ {<<>>}
    BY DEF IsForest
  <1>3. c.name \in STRING /\ m.path = <<c.name>>
    BY <1>1, <1>2, ShortPaths
  <1>4. ASSUME NEW n \in nodes
        PROVE  /\ ColumnRow(t, nodes, n).parent = c.id <=> Front(n.path) = m.path
               /\ ColumnRow(t, nodes, n).name = Last(n.path)
               /\ ColumnRow(t, nodes, n).type = n.type
    BY <1>1, ParentsStand
  <1>5. ASSUME NEW n \in nodes, Front(n.path) = m.path
        PROVE  n.path = <<c.name, Last(n.path)>>
    BY <1>2, <1>3, <1>5, ShortPaths
  <1>. QED
    BY <1>1, <1>3, <1>4, <1>5 DEF TopAndFields

LEMMA DropFieldKeeps ==
  ASSUME NamesInv, NEW t \in Live(tables), NEW c \in Live(columns), NEW k \in Live(columns),
         DropField(t, c, k)
  PROVE  NamesInv'
  <1>1. PICK S, T, C : S = Live(schemas) /\ T = Live(tables) /\ C = Live(columns)
    OBVIOUS
  <1>2. /\ nextId \in Nat /\ Fresh(S, T, C, nextId)
        /\ SchemasKnown(S) /\ TablesKnown(S, T) /\ KeysKnown(S, T, Now) /\ ColumnsKnown(S, T, C, Now)
    BY <1>1, Standings
  <1>3. PICK sc \in S : t.schema = sc.id
    BY <1>1, <1>2 DEF TablesKnown
  <1>4. PICK key, nodes : key = <<sc.name, t.name>> /\ nodes = Now[key]
    OBVIOUS
  <1>5. Key(t) = key
    BY <1>1, <1>2, <1>3, <1>4, KeyOf
  <1>6. IsFiniteSet(nodes) /\ IsForest(nodes) /\ {x \in C : x.table = t.id} = NodeRows(t.id, nodes)
    BY <1>1, <1>2, <1>3, <1>4 DEF ColumnsKnown, Described
  <1>7. PICK j \in C : j.table = t.id /\ j.parent = c.id /\ j # k
    BY <1>1 DEF DropField, Fields
  <1>8. /\ c \in C /\ c.table = t.id /\ c.parent = NoParent /\ c.type = "struct"
        /\ k \in C /\ k.table = t.id /\ k.parent = c.id /\ k.type \notin NestedTypeNames
    BY <1>1 DEF DropField, Fields, IsTopStruct
  <1>9. \A x \in C : x.table = t.id => \E m \in nodes : x = ColumnRow(t.id, nodes, m)
    BY <1>6 DEF NodeRows
  <1>10. PICK m \in nodes : c = ColumnRow(t.id, nodes, m)
    BY <1>8, <1>9
  <1>11. PICK n \in nodes : k = ColumnRow(t.id, nodes, n)
    BY <1>8, <1>9
  <1>12. PICK o \in nodes : j = ColumnRow(t.id, nodes, o)
    BY <1>7, <1>9
  <1>13. TopAndFields(t.id, nodes, m, c)
    BY <1>6, <1>8, <1>10, FieldsStand
  <1>14. /\ m.type = "struct" /\ Front(n.path) = m.path /\ Front(o.path) = m.path /\ o # n
         /\ n.type \notin NestedTypeNames /\ n.path = <<c.name, k.name>>
    BY <1>7, <1>8, <1>11, <1>12, <1>13 DEF TopAndFields
  <1>15. PICK less, C2 : less = nodes \ {n} /\ C2 = C \ {k}
    OBVIOUS
  <1>16. Described(t.id, NodeRows(t.id, nodes) \ {ColumnRow(t.id, nodes, n)}, less)
    BY <1>6, <1>14, <1>15, RemoveLeaf
  <1>17. {x \in C2 : x.table = t.id} = NodeRows(t.id, nodes) \ {ColumnRow(t.id, nodes, n)}
    BY <1>6, <1>11, <1>15
  <1>18. less = {x \in nodes : x.path # <<c.name, k.name>>}
    BY <1>6, <1>14, <1>15 DEF IsForest
  <1>19. PICK now : now = With(Now, key, less)
    OBVIOUS
  <1>20. Commit(now)
    BY <1>4, <1>5, <1>18, <1>19 DEF DropField
  <1>21. \A x : x.table # t.id => (x \in C2 <=> x \in C)
    BY <1>8, <1>15
  <1>22. Described(t.id, {x \in C2 : x.table = t.id}, less)
    BY <1>16, <1>17
  <1>23. Known(S, T, C2, now)
    BY <1>1, <1>2, <1>3, <1>4, <1>19, <1>21, <1>22, TableAltered, SMTT(60)
  <1>24. nextId' = nextId /\ nextId' \in Nat
    BY <1>2 DEF DropField
  <1>25. Fresh(S, T, C2, nextId')
    BY <1>2, <1>15, <1>24 DEF Fresh
  <1>26. /\ schemas' = Changed(schemas, {}, {})
         /\ tables' = Changed(tables, {}, {}) /\ columns' = Changed(columns, {k}, {})
    BY NothingChanged DEF DropField
  <1>27. /\ S = (Live(schemas) \ {}) \cup {} /\ T = (Live(tables) \ {}) \cup {}
         /\ C2 = (Live(columns) \ {k}) \cup {}
    BY <1>1, <1>15
  <1>. QED
    BY <1>20, <1>23, <1>24, <1>25, <1>26, <1>27, CommitKeeps

LEMMA AddFieldKeeps ==
  ASSUME NamesInv, NEW t \in Live(tables), NEW c \in Live(columns), NEW f \in NewFields,
         AddField(t, c, f)
  PROVE  NamesInv'
  <1>1. PICK S, T, C : S = Live(schemas) /\ T = Live(tables) /\ C = Live(columns)
    OBVIOUS
  <1>2. /\ nextId \in Nat /\ Fresh(S, T, C, nextId)
        /\ SchemasKnown(S) /\ TablesKnown(S, T) /\ KeysKnown(S, T, Now) /\ ColumnsKnown(S, T, C, Now)
    BY <1>1, Standings
  <1>3. PICK sc \in S : t.schema = sc.id
    BY <1>1, <1>2 DEF TablesKnown
  <1>4. PICK key, nodes : key = <<sc.name, t.name>> /\ nodes = Now[key]
    OBVIOUS
  <1>5. Key(t) = key
    BY <1>1, <1>2, <1>3, <1>4, KeyOf
  <1>6. IsFiniteSet(nodes) /\ IsForest(nodes) /\ {x \in C : x.table = t.id} = NodeRows(t.id, nodes)
    BY <1>1, <1>2, <1>3, <1>4 DEF ColumnsKnown, Described
  <1>7. c \in C /\ c.table = t.id /\ c.parent = NoParent /\ c.type = "struct"
    BY <1>1 DEF AddField, IsTopStruct
  <1>8. \A x \in nodes : /\ ColumnRow(t.id, nodes, x) \in C
                         /\ ColumnRow(t.id, nodes, x).table = t.id
                         /\ ColumnRow(t.id, nodes, x).id = x.order
    BY <1>6, ParentsStand DEF NodeRows
  <1>9. PICK m \in nodes : c = ColumnRow(t.id, nodes, m)
    BY <1>6, <1>7 DEF NodeRows
  <1>10. TopAndFields(t.id, nodes, m, c)
    BY <1>6, <1>7, <1>9, FieldsStand
  <1>11. f.name \in STRING /\ f.type \notin NestedTypeNames
    BY TypesAssumption
  <1>12. PICK n : n = [path |-> <<c.name, f.name>>, type |-> f.type, order |-> nextId]
    OBVIOUS
  <1>13. /\ n.path = <<c.name, f.name>> /\ n.type = f.type /\ n.order = nextId
    BY <1>12
  <1>14. /\ n.path \in Seq(STRING) \ {<<>>} /\ Front(n.path) = <<c.name>> /\ Last(n.path) = f.name
    <2>1. PICK Names, a, b : Names = STRING /\ a = c.name /\ b = f.name
      OBVIOUS
    <2>2. a \in Names /\ b \in Names
      BY <1>10, <1>11, <2>1 DEF TopAndFields
    <2>3. /\ <<a>> \in Seq(Names) \ {<<>>} /\ <<a, b>> \in Seq(Names) \ {<<>>}
          /\ Front(<<a>>) = <<>> /\ Last(<<a>>) = a
          /\ Front(<<a, b>>) = <<a>> /\ Last(<<a, b>>) = b
      BY <2>2, MadePaths
    <2>. QED
      BY <1>13, <2>1, <2>3
  <1>15. ASSUME NEW x \in nodes PROVE x.order < n.order /\ x.path # n.path
    <2>1. x.order < n.order
      BY <1>2, <1>8, <1>13 DEF Fresh
    <2>2. CASE x.path = n.path
      <3>1. ColumnRow(t.id, nodes, x).parent = c.id /\ ColumnRow(t.id, nodes, x).name = f.name
        BY <1>10, <1>14, <2>2 DEF TopAndFields
      <3>2. ColumnRow(t.id, nodes, x) \in Fields(t, c)
        BY <1>1, <1>8, <3>1 DEF Fields
      <3>. QED
        BY <3>1, <3>2 DEF AddField
    <2>. QED
      BY <2>1, <2>2
  <1>16. PICK more, row : more = nodes \cup {n} /\ row = ColumnRow(t.id, more, n)
    OBVIOUS
  <1>17. Described(t.id, NodeRows(t.id, nodes) \cup {row}, more)
    BY <1>2, <1>6, <1>7, <1>10, <1>11, <1>13, <1>14, <1>15, <1>16, AddLeaf DEF TopAndFields
  <1>18. row.parent = m.order /\ row.table = t.id /\ row.id = nextId
    <2>1. /\ IsForest(more) /\ IsFiniteSet(more) /\ n \in more /\ m \in more
          /\ m.path = Front(n.path)
      BY <1>9, <1>10, <1>13, <1>14, <1>16, <1>17 DEF Described, TopAndFields
    <2>2. PICK tid : tid = t.id
      OBVIOUS
    <2>3. row = ColumnRow(tid, more, n)
      BY <1>16, <2>2
    <2>4. /\ row.table = tid /\ row.id = n.order
          /\ \A x \in more : row.parent = x.order <=> x.path = Front(n.path)
      BY <2>1, <2>3, ParentsStand
    <2>. QED
      BY <1>13, <2>1, <2>2, <2>4
  <1>19. row = [table |-> t.id, id |-> nextId, order |-> nextId, name |-> f.name, type |-> f.type,
                parent |-> c.id]
    <2>1. row = [table |-> t.id, id |-> n.order, order |-> n.order, name |-> Last(n.path),
                 type |-> n.type, parent |-> row.parent]
      BY <1>16 DEF ColumnRow
    <2>. QED
      BY <1>10, <1>13, <1>14, <1>18, <2>1 DEF TopAndFields
  <1>20. PICK C2 : C2 = C \cup {row}
    OBVIOUS
  <1>21. {x \in C2 : x.table = t.id} = NodeRows(t.id, nodes) \cup {row}
    BY <1>6, <1>18, <1>20
  <1>22. PICK now : now = With(Now, key, more)
    OBVIOUS
  <1>23. Commit(now)
    BY <1>4, <1>5, <1>12, <1>16, <1>22 DEF AddField
  <1>24. \A x : x.table # t.id => (x \in C2 <=> x \in C)
    BY <1>18, <1>20
  <1>25. Described(t.id, {x \in C2 : x.table = t.id}, more)
    BY <1>17, <1>21
  <1>26. Known(S, T, C2, now)
    BY <1>1, <1>2, <1>3, <1>4, <1>22, <1>24, <1>25, TableAltered
  <1>27. nextId' = nextId + 1 /\ nextId' \in Nat
    BY <1>2 DEF AddField
  <1>28. Fresh(S, T, C2, nextId')
    <2>1. t.id \in Nat /\ t.id < nextId
      BY <1>1, <1>2 DEF Fresh
    <2>. QED
      BY <1>2, <1>18, <1>20, <1>27, <2>1 DEF Fresh
  <1>29. /\ schemas' = Changed(schemas, {}, {})
         /\ tables' = Changed(tables, {}, {}) /\ columns' = Changed(columns, {}, {row})
    BY <1>19, NothingChanged DEF AddField
  <1>30. /\ S = (Live(schemas) \ {}) \cup {} /\ T = (Live(tables) \ {}) \cup {}
         /\ C2 = (Live(columns) \ {}) \cup {row}
    BY <1>1, <1>20
  <1>. QED
    BY <1>23, <1>26, <1>27, <1>28, <1>29, <1>30, CommitKeeps

LEMMA NamesStep ==
  ASSUME NamesInv, [Next]_vars
  PROVE  NamesInv'
  <1>1. CASE \E n \in SchemaNames, p \in SchemaPaths : AddSchema(n, p)
    BY <1>1, AddSchemaKeeps
  <1>2. CASE \E sc \in Live(schemas) : DropSchema(sc)
    BY <1>2, DropSchemaKeeps
  <1>3. CASE \E sc \in Live(schemas), n \in TableNames, p \in TablePaths, d \in Declarations :
               AddTable(sc, n, p, d)
    BY <1>3, AddTableKeeps
  <1>4. CASE \E t \in Live(tables) : DropTable(t)
    BY <1>4, DropTableKeeps
  <1>5. CASE \E t \in Live(tables), c \in Live(columns), k \in Live(columns) : DropField(t, c, k)
    BY <1>5, DropFieldKeeps
  <1>6. CASE \E t \in Live(tables), c \in Live(columns), f \in NewFields : AddField(t, c, f)
    BY <1>6, AddFieldKeeps
  <1>7. CASE UNCHANGED vars
    BY <1>7 DEF vars, NamesInv, Live
  <1>. QED
    BY <1>1, <1>2, <1>3, <1>4, <1>5, <1>6, <1>7 DEF Next

(* At every snapshot, whatever came after it, the rows visible there are   *)
(* those of the schemas and tables that existed then, named as they were,  *)
(* each with the column rows of the types it was declared with, altered    *)
(* by what was done to it before (take_snapshot's versioning of the        *)
(* catalog, which scan_ducklake reads).                                    *)
THEOREM NamesInvariant == Spec => []NamesInv
  <1>1. Init => NamesInv
    BY NamesInit
  <1>2. NamesInv /\ [Next]_vars => NamesInv'
    BY NamesStep
  <1>. QED
    BY <1>1, <1>2, PTL DEF Spec

-----------------------------------------------------------------------------
(* What a call announces.                                                  *)

(* A name stands for a table of a snapshot.                                *)
StandsFor(req, s, sc, t) ==
    /\ sc \in At(schemas, s) /\ t \in At(tables, s) /\ t.schema = sc.id
    /\ \E name \in ResolveTableIdentifier(req) : sc.name = name.schema /\ t.name = name.table

TargetOf(sc, t, s) ==
    [schema |-> sc, table |-> t, columns |-> BuildTargetColumns(FetchColumnsWithNested(t, s))]

Announced(req, s, r, sc, t) ==
    /\ StandsFor(req, s, sc, t) /\ r = TargetOf(sc, t, s)
    /\ <<sc.name, t.name>> \in DOMAIN history[s]
    /\ Supported(history[s][<<sc.name, t.name>>])
    /\ r.columns = DeclaredColumns(history[s][<<sc.name, t.name>>])

(* What a call finds is a table its name stands for, of supported types,   *)
(* with the columns it was declared with; and every such table is found.   *)
LEMMA WhatIsFound ==
  ASSUME NamesInv, NEW s \in 1..last, NEW req
  PROVE  /\ \A r \in Targets(req, s) : \E sc, t : Announced(req, s, r, sc, t)
         /\ \A sc, t : StandsFor(req, s, sc, t) /\ Supported(history[s][<<sc.name, t.name>>])
               => TargetOf(sc, t, s) \in Targets(req, s)
  <1>1. PICK S, T, C, H : S = At(schemas, s) /\ T = At(tables, s) /\ C = At(columns, s) /\ H = history[s]
    OBVIOUS
  <1>2. SchemasKnown(S) /\ TablesKnown(S, T) /\ KeysKnown(S, T, H) /\ ColumnsKnown(S, T, C, H)
    BY <1>1 DEF NamesInv, Known
  <1>3. PICK all : all = {[schema |-> p[1], table |-> p[2],
                          columns |-> BuildTargetColumns(FetchColumnsWithNested(p[2], s))]
                            : p \in Resolved(req, s)}
    OBVIOUS
  <1>4. \A r : r \in Targets(req, s) <=> r \in all /\ \A i \in DOMAIN r.columns : r.columns[i].type # ValueError
    BY <1>3 DEF Targets
  <1>5. \A p : p \in Resolved(req, s) <=> p \in S \X T /\ StandsFor(req, s, p[1], p[2])
    BY <1>1 DEF Resolved, ResolveSchema, ResolveTable, StandsFor
  <1>6. ASSUME NEW sc \in S, NEW t \in T, t.schema = sc.id, NEW nodes, nodes = H[<<sc.name, t.name>>],
               NEW r, r = TargetOf(sc, t, s)
        PROVE  /\ <<sc.name, t.name>> \in DOMAIN H
               /\ (\A i \in DOMAIN r.columns : r.columns[i].type # ValueError) <=> Supported(nodes)
               /\ Supported(nodes) => r.columns = DeclaredColumns(nodes)
    <2>1. Described(t.id, {c \in C : c.table = t.id}, nodes)
      BY <1>2, <1>6 DEF ColumnsKnown
    <2>2. FetchColumnsWithNested(t, s) = NodeRows(t.id, nodes)
      BY <1>1, <2>1 DEF FetchColumnsWithNested, Described
    <2>3. r.columns = BuildTargetColumns(NodeRows(t.id, nodes))
      BY <1>6, <2>2 DEF TargetOf
    <2>4. IsForest(nodes) /\ IsFiniteSet(nodes)
      BY <2>1 DEF Described
    <2>5. <<sc.name, t.name>> \in DOMAIN H
      BY <1>2, <1>6 DEF KeysKnown
    <2>. QED
      BY <2>3, <2>4, <2>5, BuiltAsDeclared
  <1>7. ASSUME NEW r \in Targets(req, s)
        PROVE  \E sc, t : Announced(req, s, r, sc, t)
    <2>1. PICK p \in Resolved(req, s) : r = TargetOf(p[1], p[2], s)
      BY <1>3, <1>4 DEF TargetOf
    <2>2. PICK sc, t : sc = p[1] /\ t = p[2]
      OBVIOUS
    <2>3. sc \in S /\ t \in T /\ StandsFor(req, s, sc, t)
      BY <1>5, <2>1, <2>2
    <2>4. t.schema = sc.id
      BY <2>3 DEF StandsFor
    <2>5. r = TargetOf(sc, t, s)
      BY <2>1, <2>2
    <2>6. /\ <<sc.name, t.name>> \in DOMAIN H /\ Supported(H[<<sc.name, t.name>>])
          /\ r.columns = DeclaredColumns(H[<<sc.name, t.name>>])
      BY <1>4, <1>6, <2>3, <2>4, <2>5
    <2>7. Announced(req, s, r, sc, t)
      BY <1>1, <2>3, <2>5, <2>6 DEF Announced
    <2>. QED
      BY <2>7
  <1>8. ASSUME NEW sc, NEW t, StandsFor(req, s, sc, t), Supported(H[<<sc.name, t.name>>])
        PROVE  TargetOf(sc, t, s) \in Targets(req, s)
    <2>1. sc \in S /\ t \in T /\ t.schema = sc.id
      BY <1>1, <1>8 DEF StandsFor
    <2>2. PICK p : p = <<sc, t>>
      OBVIOUS
    <2>3. p \in Resolved(req, s) /\ p[1] = sc /\ p[2] = t
      BY <1>5, <1>8, <2>1, <2>2
    <2>4. PICK r : r = TargetOf(sc, t, s)
      OBVIOUS
    <2>5. r \in all
      BY <1>3, <2>3, <2>4 DEF TargetOf
    <2>6. \A i \in DOMAIN r.columns : r.columns[i].type # ValueError
      BY <1>6, <1>8, <2>1, <2>4
    <2>. QED
      BY <1>4, <2>4, <2>5, <2>6
  <1>. QED
    BY <1>1, <1>7, <1>8

(* What a call announces at a snapshot is what the lake declared under     *)
(* that name then, whatever happened later, for tables of any depth of     *)
(* nesting and any number of columns (_build_target_columns,               *)
(* fetch_columns_with_nested).                                             *)
THEOREM AnnouncedAsDeclared == Spec => []TypesMatchDeclared
  <1>1. ASSUME NamesInv PROVE TypesMatchDeclared
    <2>. SUFFICES ASSUME NEW s \in 1..last, NEW req \in Requests, NEW r \in Targets(req, s),
                         NEW key, key = <<r.schema.name, r.table.name>>
                  PROVE  /\ key \in DOMAIN history[s] /\ Supported(history[s][key])
                         /\ r.columns = DeclaredColumns(history[s][key])
      BY DEF TypesMatchDeclared, Snapshots
    <2>1. PICK sc, t : Announced(req, s, r, sc, t)
      BY <1>1, WhatIsFound
    <2>2. r.schema = sc /\ r.table = t
      BY <2>1 DEF Announced, TargetOf
    <2>. QED
      BY <2>1, <2>2 DEF Announced
  <1>. QED
    BY <1>1, NamesInvariant, PTL

-----------------------------------------------------------------------------
(* Names.                                                                  *)

(* A dotted name whose schema has no dot comes apart where it was joined.  *)
LEMMA ApartAgain ==
  ASSUME NEW A, NEW p \in Seq(A) \ {<<>>}, ~Dotted(p), NEW q \in Seq(A), Dotted(q)
  PROVE  Dotted(p \o q) /\ <<Head(p \o q)>> = p /\ Tail(p \o q) = q
  <1>1. Len(p) = 1 /\ Len(q) \in Nat /\ Len(q) > 1
    <2>1. Len(p) \in Nat /\ Len(p) # 0 /\ Len(q) \in Nat
      BY LenProperties, EmptySeq
    <2>2. ~(Len(p) > 1) /\ Len(q) > 1
      BY DEF Dotted
    <2>3. \A k \in Nat : k # 0 /\ ~(k > 1) => k = 1
      OBVIOUS
    <2>4. Len(p) = 1
      BY <2>1, <2>2, <2>3
    <2>. QED
      BY <2>1, <2>2, <2>4
  <1>2. PICK both : both = p \o q
    OBVIOUS
  <1>3. /\ both \in Seq(A) /\ Len(both) = 1 + Len(q) /\ both[1] = p[1]
        /\ \A i \in 1..Len(q) : both[1 + i] = q[i]
    <2>1. /\ both \in Seq(A) /\ Len(both) = Len(p) + Len(q)
          /\ \A i \in 1..(Len(p) + Len(q)) : both[i] = IF i <= Len(p) THEN p[i] ELSE q[i - Len(p)]
      BY <1>2, ConcatProperties
    <2>2. \A i \in 1..Len(q) : 1 + i \in 1..(Len(p) + Len(q)) /\ ~(1 + i <= Len(p)) /\ (1 + i) - Len(p) = i
      BY <1>1
    <2>3. 1 \in 1..(Len(p) + Len(q)) /\ 1 <= Len(p)
      BY <1>1
    <2>. QED
      BY <1>1, <2>1, <2>2, <2>3
  <1>4. <<Head(both)>> = p
    <2>1. Head(both) = p[1] /\ p[1] \in A
      BY <1>1, <1>3, HeadTailProperties, ElementOfSeq, EmptySeq
    <2>2. <<p[1]>> \in Seq(A) /\ Len(<<p[1]>>) = 1 /\ <<p[1]>>[1] = p[1]
      BY <2>1
    <2>3. <<p[1]>> = p
      BY <1>1, <2>2, SeqEqual
    <2>. QED
      BY <2>1, <2>3
  <1>5. Tail(both) = q
    <2>1. /\ Tail(both) \in Seq(A) /\ Len(Tail(both)) = Len(q)
          /\ \A i \in 1..Len(q) : Tail(both)[i] = both[i + 1]
      BY <1>1, <1>3, HeadTailProperties, EmptySeq
    <2>2. \A i \in 1..Len(q) : Tail(both)[i] = q[i]
      <3>1. \A i \in 1..Len(q) : i + 1 = 1 + i
        BY <1>1
      <3>. QED
        BY <1>3, <2>1, <3>1
    <2>. QED
      BY <2>1, <2>2, SeqEqual
  <1>. QED
    BY <1>1, <1>2, <1>3, <1>4, <1>5 DEF Dotted

(* A request names one table at most, and no dotted one of a dotted schema. *)
LEMMA OneIdentifier ==
  ASSUME NEW req
  PROVE  /\ \A name, mate \in ResolveTableIdentifier(req) : name = mate
         /\ \A name \in ResolveTableIdentifier(req) : ~(Dotted(name.schema) /\ Dotted(name.table))
  <1>1. Len(Main) = 1 /\ \A x : Len(<<x>>) = 1
    BY DEF Main
  <1>2. CASE req.schema # NULL /\ ~Dotted(req.table)
    BY <1>2 DEF ResolveTableIdentifier
  <1>3. CASE req.schema # NULL /\ Dotted(req.table)
    BY <1>3 DEF ResolveTableIdentifier
  <1>4. CASE req.schema = NULL /\ ~Dotted(req.table)
    BY <1>1, <1>4 DEF ResolveTableIdentifier, Dotted
  <1>5. CASE req.schema = NULL /\ Dotted(req.table)
    <2>1. ResolveTableIdentifier(req) = {[schema |-> <<Head(req.table)>>, table |-> Tail(req.table)]}
      BY <1>5 DEF ResolveTableIdentifier
    <2>. QED
      BY <1>1, <2>1 DEF Dotted
  <1>. QED
    BY <1>2, <1>3, <1>4, <1>5

(* Every table of every snapshot, of supported types, is found by some     *)
(* request unless a dot is in its name and in its schema's, and then by    *)
(* none; and no request finds two tables (_resolve_table_identifier).      *)
THEOREM TablesCanBeNamed == Spec => []EveryTableCanBeNamed
  <1>1. ASSUME NamesInv, NEW s \in 1..last, NEW req
        PROVE  Cardinality(Targets(req, s)) <= 1
    <2>1. SchemasKnown(At(schemas, s)) /\ TablesKnown(At(schemas, s), At(tables, s))
      BY <1>1 DEF NamesInv, Known
    <2>2. ASSUME NEW r \in Targets(req, s), NEW q \in Targets(req, s) PROVE r = q
      <3>1. PICK sc, t : Announced(req, s, r, sc, t)
        BY <1>1, WhatIsFound
      <3>2. PICK so, u : Announced(req, s, q, so, u)
        BY <1>1, WhatIsFound
      <3>3. sc.name = so.name /\ t.name = u.name
        BY <3>1, <3>2, OneIdentifier DEF Announced, StandsFor
      <3>4. sc = so
        BY <2>1, <3>1, <3>2, <3>3 DEF Announced, StandsFor, SchemasKnown
      <3>5. t = u
        BY <2>1, <3>1, <3>2, <3>3, <3>4 DEF Announced, StandsFor, TablesKnown
      <3>. QED
        BY <3>1, <3>2, <3>4, <3>5 DEF Announced
    <2>3. CASE Targets(req, s) = {}
      BY <2>3, FS_EmptySet
    <2>4. CASE Targets(req, s) # {}
      <3>1. PICK r : Targets(req, s) = {r}
        BY <2>2, <2>4
      <3>2. Cardinality({r}) = 1
        BY FS_Singleton
      <3>. QED
        BY <3>1, <3>2
    <2>. QED
      BY <2>3, <2>4
  <1>2. ASSUME NamesInv, NEW s \in 1..last, NEW key \in DOMAIN history[s], Supported(history[s][key])
        PROVE  (\E req \in Requests : \E r \in Targets(req, s) : <<r.schema.name, r.table.name>> = key)
               <=> ~(Dotted(key[1]) /\ Dotted(key[2]))
    <2>1. /\ SchemasKnown(At(schemas, s)) /\ TablesKnown(At(schemas, s), At(tables, s))
          /\ KeysKnown(At(schemas, s), At(tables, s), history[s])
      BY <1>2 DEF NamesInv, Known
    <2>2. PICK sc \in At(schemas, s), t \in At(tables, s) : t.schema = sc.id /\ key = <<sc.name, t.name>>
      BY <1>2, <2>1 DEF KeysKnown
    <2>3. PICK n, m : n = sc.name /\ m = t.name
      OBVIOUS
    <2>4. key = <<n, m>> /\ key[1] = n /\ key[2] = m
      BY <2>2, <2>3
    <2>5. ASSUME NEW req, NEW r \in Targets(req, s), <<r.schema.name, r.table.name>> = key
          PROVE  ~(Dotted(n) /\ Dotted(m))
      <3>1. PICK so, u : Announced(req, s, r, so, u)
        BY <1>2, <2>5, WhatIsFound
      <3>2. so.name = n /\ u.name = m
        BY <2>4, <2>5, <3>1 DEF Announced, TargetOf
      <3>. QED
        BY <3>1, <3>2, OneIdentifier DEF Announced, StandsFor
    <2>6. /\ n \in SchemaNames \cup {Main} /\ m \in TableNames
          /\ n \in Seq(STRING) \ {<<>>} /\ m \in Seq(STRING) \ {<<>>} /\ n # NULL
      <3>1. n \in SchemaNames \cup {Main} /\ m \in TableNames
        BY <2>1, <2>2, <2>3 DEF SchemasKnown, TablesKnown
      <3>2. /\ SchemaNames \cup TableNames \cup {Main} \subseteq Seq(STRING) \ {<<>>}
            /\ NULL \notin Seq(STRING)
        BY NamesAssumption
      <3>. QED
        BY <3>1, <3>2
    <2>7. ASSUME NEW req \in Requests, [schema |-> n, table |-> m] \in ResolveTableIdentifier(req)
          PROVE  \E r \in Targets(req, s) : <<r.schema.name, r.table.name>> = key
      <3>1. StandsFor(req, s, sc, t)
        BY <2>2, <2>3, <2>7 DEF StandsFor
      <3>2. TargetOf(sc, t, s) \in Targets(req, s)
        BY <1>2, <2>2, <3>1, WhatIsFound
      <3>3. TargetOf(sc, t, s).schema = sc /\ TargetOf(sc, t, s).table = t
        BY DEF TargetOf
      <3>. QED
        BY <2>2, <3>2, <3>3
    <2>8. CASE ~Dotted(m)
      <3>1. PICK req : req = [schema |-> n, table |-> m]
        OBVIOUS
      <3>2. req \in Requests /\ req.schema = n /\ req.table = m
        BY <2>6, <3>1 DEF Requests
      <3>3. ResolveTableIdentifier(req) = {[schema |-> n, table |-> m]}
        BY <2>6, <2>8, <3>2 DEF ResolveTableIdentifier
      <3>. QED
        BY <2>4, <2>5, <2>7, <2>8, <3>2, <3>3
    <2>9. CASE Dotted(m) /\ ~Dotted(n)
      <3>1. PICK both, req : both = n \o m /\ req = [schema |-> NULL, table |-> both]
        OBVIOUS
      <3>2. req \in Requests /\ req.schema = NULL /\ req.table = both
        <4>1. both \in Qualified
          <5>1. \E so \in SchemaNames \cup {Main}, k \in TableNames : both = so \o k
            BY <2>6, <3>1
          <5>. HIDE DEF Main
          <5>. QED
            BY <5>1 DEF Qualified
        <4>. QED
          BY <3>1, <4>1 DEF Requests
      <3>3. Dotted(both) /\ <<Head(both)>> = n /\ Tail(both) = m
        BY <2>6, <2>9, <3>1, ApartAgain
      <3>4. ResolveTableIdentifier(req) = {[schema |-> n, table |-> m]}
        BY <3>2, <3>3 DEF ResolveTableIdentifier
      <3>. QED
        BY <2>4, <2>5, <2>7, <2>9, <3>2, <3>4
    <2>10. CASE Dotted(m) /\ Dotted(n)
      BY <2>4, <2>5, <2>10
    <2>. QED
      BY <2>8, <2>9, <2>10
  <1>3. NamesInv => EveryTableCanBeNamed
    BY <1>1, <1>2 DEF EveryTableCanBeNamed, Snapshots
  <1>. QED
    BY <1>3, NamesInvariant, PTL

-----------------------------------------------------------------------------
(* The names in a path.                                                    *)

NamesStepped(path, h, i) ==
    IF i = 0 THEN <<>>
    ELSE IF path[i] = Slash THEN h[i - 1]
    ELSE Append(h[i - 1], path[i])

NamesUpto(path) == CHOOSE h : h = [i \in 0..Len(path) |-> NamesStepped(path, h, i)]

NamesRead(A, path, n, u) ==
    /\ n \in Nat /\ NamesIn(path) = u[n] /\ u[0] = <<>>
    /\ \A i \in 1..n : u[i] = IF path[i] = Slash THEN u[i - 1] ELSE Append(u[i - 1], path[i])
    /\ \A i \in 0..n : u[i] \in Seq(A)

(* The recursion of NamesIn has a solution, so it unfolds.                 *)
LEMMA NamesUnfold ==
  ASSUME NEW A, NEW path \in Seq(A), NEW n, n = Len(path), NEW u, u = NamesUpto(path)
  PROVE  NamesRead(A, path, n, u)
  <1>1. n \in Nat /\ path \in [1..n -> A]
    BY LenProperties
  <1>. DEFINE Solves(g, k) == g = [i \in 0..k |-> NamesStepped(path, g, i)]
              unsolved == {k \in Nat : ~\E g : Solves(g, k)}
  <1>2. unsolved = {}
    <2>1. ASSUME NEW k \in unsolved PROVE \E j \in unsolved : j < k
      <3>1. k \in Nat /\ ~\E g : Solves(g, k)
        OBVIOUS
      <3>2. k # 0
        <4>1. PICK g : g = [i \in 0..0 |-> <<>>]
          OBVIOUS
        <4>2. \A i \in 0..0 : i = 0 /\ NamesStepped(path, g, i) = <<>>
          BY DEF NamesStepped
        <4>3. Solves(g, 0)
          BY <4>1, <4>2
        <4>. QED
          BY <3>1, <4>3
      <3>3. PICK j \in Nat : k = j + 1
        <4>1. k - 1 \in Nat /\ k = (k - 1) + 1
          BY <3>1, <3>2
        <4>. QED
          BY <4>1
      <3>4. ASSUME NEW g, Solves(g, j) PROVE FALSE
        <4>1. PICK h : h = [i \in 0..k |-> IF i = k THEN NamesStepped(path, g, k) ELSE g[i]]
          OBVIOUS
        <4>2. \A i \in 0..j : h[i] = g[i]
          BY <3>1, <3>3, <4>1
        <4>3. ASSUME NEW i \in 0..k PROVE NamesStepped(path, h, i) = NamesStepped(path, g, i)
          <5>1. CASE i = 0
            BY <5>1 DEF NamesStepped
          <5>2. CASE i # 0
            <6>1. i - 1 \in 0..j
              BY <3>1, <3>3, <5>2
            <6>2. h[i - 1] = g[i - 1]
              BY <4>2, <6>1
            <6>. QED
              BY <6>2 DEF NamesStepped
          <5>. QED
            BY <5>1, <5>2
        <4>4. \A i \in 0..j : g[i] = NamesStepped(path, g, i)
          BY <3>4
        <4>5. ASSUME NEW i \in 0..k PROVE h[i] = NamesStepped(path, h, i)
          <5>1. CASE i = k
            BY <3>1, <4>1, <4>3, <5>1
          <5>2. CASE i # k
            <6>1. i \in 0..j
              BY <3>1, <3>3, <5>2
            <6>. QED
              BY <4>2, <4>3, <4>4, <6>1
          <5>. QED
            BY <5>1, <5>2
        <4>6. Solves(h, k)
          BY <4>1, <4>5
        <4>. QED
          BY <3>1, <4>6
      <3>5. j \in unsolved /\ j < k
        BY <3>3, <3>4
      <3>. QED
        BY <3>5
    <2>2. unsolved \in SUBSET Nat
      OBVIOUS
    <2>. HIDE DEF unsolved
    <2>. QED
      BY <2>1, <2>2, NoneIsFirst
  <1>3. PICK g : Solves(g, n)
    BY <1>1, <1>2
  <1>4. u = [i \in 0..n |-> NamesStepped(path, u, i)]
    BY <1>3 DEF NamesUpto
  <1>5. NamesIn(path) = u[n]
    BY DEF NamesIn, NamesUpto, NamesStepped
  <1>6. u[0] = <<>>
    BY <1>1, <1>4 DEF NamesStepped
  <1>7. \A i \in 1..n : u[i] = IF path[i] = Slash THEN u[i - 1] ELSE Append(u[i - 1], path[i])
    <2>1. ASSUME NEW i \in 1..n
          PROVE  u[i] = IF path[i] = Slash THEN u[i - 1] ELSE Append(u[i - 1], path[i])
      <3>1. i \in 0..n /\ i # 0
        BY <1>1
      <3>2. u[i] = NamesStepped(path, u, i)
        BY <1>4, <3>1
      <3>. QED
        BY <3>1, <3>2 DEF NamesStepped
    <2>. QED
      BY <2>1
  <1>8. \A i \in 0..n : u[i] \in Seq(A)
    <2>. DEFINE bad == {i \in 0..n : u[i] \notin Seq(A)}
    <2>1. ASSUME NEW i \in bad PROVE \E j \in bad : j < i
      <3>1. i \in 0..n /\ u[i] \notin Seq(A)
        OBVIOUS
      <3>2. i # 0
        BY <1>6, <3>1, EmptySeq
      <3>3. i \in 1..n /\ i - 1 \in 0..n /\ i - 1 < i
        BY <1>1, <3>1, <3>2
      <3>4. path[i] \in A
        BY <1>1, <3>3
      <3>5. u[i - 1] \in Seq(A) => u[i] \in Seq(A)
        <4>1. PICK x, b : x = path[i] /\ b = u[i - 1]
          OBVIOUS
        <4>2. u[i] = IF x = Slash THEN b ELSE Append(b, x)
          BY <1>7, <3>3, <4>1
        <4>3. b \in Seq(A) => Append(b, x) \in Seq(A)
          BY <3>4, <4>1, AppendProperties
        <4>. QED
          BY <4>1, <4>2, <4>3
      <3>. QED
        BY <3>1, <3>3, <3>5
    <2>2. bad \in SUBSET Nat
      BY <1>1
    <2>3. bad = {}
      <3>. HIDE DEF bad
      <3>. QED
        BY <2>1, <2>2, NoneIsFirst
    <2>. QED
      BY <2>3
  <1>. QED
    BY <1>1, <1>5, <1>6, <1>7, <1>8 DEF NamesRead

(* Names come in the order of the parts of a path.                         *)
LEMMA NamesOfBoth ==
  ASSUME NEW A, NEW p \in Seq(A), NEW q \in Seq(A)
  PROVE  /\ NamesIn(p) \in Seq(A) /\ NamesIn(q) \in Seq(A)
         /\ NamesIn(p \o q) = NamesIn(p) \o NamesIn(q)
  <1>1. PICK both, m, n, u, v, w :
           /\ both = p \o q /\ m = Len(p) /\ n = Len(q)
           /\ u = NamesUpto(p) /\ v = NamesUpto(q) /\ w = NamesUpto(both)
    OBVIOUS
  <1>2. /\ m \in Nat /\ NamesIn(p) = u[m] /\ u[0] = <<>>
        /\ \A i \in 1..m : u[i] = IF p[i] = Slash THEN u[i - 1] ELSE Append(u[i - 1], p[i])
        /\ \A i \in 0..m : u[i] \in Seq(A)
    <2>1. NamesRead(A, p, m, u)
      BY <1>1, NamesUnfold
    <2>. QED
      BY <2>1 DEF NamesRead
  <1>3. /\ n \in Nat /\ NamesIn(q) = v[n] /\ v[0] = <<>>
        /\ \A i \in 1..n : v[i] = IF q[i] = Slash THEN v[i - 1] ELSE Append(v[i - 1], q[i])
        /\ \A i \in 0..n : v[i] \in Seq(A)
    <2>1. NamesRead(A, q, n, v)
      BY <1>1, NamesUnfold
    <2>. QED
      BY <2>1 DEF NamesRead
  <1>4. /\ both \in Seq(A) /\ Len(both) = m + n
        /\ \A i \in 1..m : both[i] = p[i]
        /\ \A i \in 1..n : both[m + i] = q[i] /\ q[i] \in A
    <2>1. /\ both \in Seq(A) /\ Len(both) = m + n
          /\ \A i \in 1..(m + n) : both[i] = IF i <= m THEN p[i] ELSE q[i - m]
      BY <1>1, ConcatProperties
    <2>2. \A i \in 1..m : i \in 1..(m + n) /\ i <= m
      BY <1>2, <1>3
    <2>3. \A i \in 1..n : m + i \in 1..(m + n) /\ ~(m + i <= m) /\ (m + i) - m = i
      BY <1>2, <1>3
    <2>4. q \in [1..n -> A]
      BY <1>1, LenProperties
    <2>5. \A i \in 1..n : q[i] \in A
      BY <2>4
    <2>. QED
      BY <2>1, <2>2, <2>3, <2>5
  <1>5. /\ NamesIn(both) = w[m + n] /\ w[0] = <<>>
        /\ \A i \in 1..(m + n) : w[i] = IF both[i] = Slash THEN w[i - 1] ELSE Append(w[i - 1], both[i])
    <2>1. NamesRead(A, both, m + n, w)
      BY <1>1, <1>4, NamesUnfold
    <2>. QED
      BY <2>1 DEF NamesRead
  <1>6. \A i \in 0..m : w[i] = u[i]
    <2>. DEFINE bad == {i \in 0..m : w[i] # u[i]}
    <2>1. ASSUME NEW i \in bad PROVE \E j \in bad : j < i
      <3>1. i \in 0..m /\ w[i] # u[i]
        OBVIOUS
      <3>2. i \in 1..m /\ i \in 1..(m + n) /\ i - 1 \in 0..m /\ i - 1 < i
        BY <1>2, <1>3, <1>5, <3>1
      <3>3. w[i - 1] = u[i - 1] => w[i] = u[i]
        BY <1>2, <1>4, <1>5, <3>2
      <3>. QED
        BY <3>1, <3>2, <3>3
    <2>2. bad \in SUBSET Nat
      BY <1>2
    <2>3. bad = {}
      <3>. HIDE DEF bad
      <3>. QED
        BY <2>1, <2>2, NoneIsFirst
    <2>. QED
      BY <2>3
  <1>7. u[m] \in Seq(A) /\ w[m] = u[m]
    BY <1>2, <1>6
  <1>8. \A i \in 0..n : w[m + i] = u[m] \o v[i]
    <2>. DEFINE bad == {i \in 0..n : w[m + i] # u[m] \o v[i]}
    <2>1. ASSUME NEW i \in bad PROVE \E j \in bad : j < i
      <3>1. i \in 0..n /\ w[m + i] # u[m] \o v[i]
        OBVIOUS
      <3>2. i # 0
        <4>1. u[m] \o <<>> = u[m]
          BY <1>7, ConcatEmptySeq
        <4>2. m + 0 = m
          BY <1>2
        <4>. QED
          BY <1>3, <1>7, <3>1, <4>1, <4>2
      <3>3. /\ i \in 1..n /\ m + i \in 1..(m + n) /\ i - 1 \in 0..n /\ i - 1 < i
            /\ (m + i) - 1 = m + (i - 1)
        BY <1>2, <1>3, <3>1, <3>2
      <3>4. ASSUME w[m + (i - 1)] = u[m] \o v[i - 1] PROVE FALSE
        <4>1. PICK x, a, b : x = q[i] /\ a = u[m] /\ b = v[i - 1]
          OBVIOUS
        <4>2. x \in A /\ a \in Seq(A) /\ b \in Seq(A)
          BY <1>3, <1>4, <1>7, <3>3, <4>1
        <4>3. w[m + i] = IF x = Slash THEN a \o b ELSE Append(a \o b, x)
          BY <1>4, <1>5, <3>3, <3>4, <4>1
        <4>4. v[i] = IF x = Slash THEN b ELSE Append(b, x)
          BY <1>3, <3>3, <4>1
        <4>5. Append(a \o b, x) = a \o Append(b, x)
          <5>1. EndsAlike(a, b, x)
            BY <4>2, AppendAfter
          <5>. QED
            BY <5>1 DEF EndsAlike
        <4>. QED
          BY <3>1, <4>1, <4>3, <4>4, <4>5
      <3>. QED
        BY <3>3, <3>4
    <2>2. bad \in SUBSET Nat
      <3>1. 0..n \in SUBSET Nat
        BY <1>3
      <3>. QED
        BY <3>1
    <2>3. bad = {}
      <3>. HIDE DEF bad
      <3>. QED
        BY <2>1, <2>2, NoneIsFirst
    <2>. QED
      BY <2>3
  <1>9. NamesIn(both) = NamesIn(p) \o NamesIn(q)
    <2>1. n \in 0..n
      BY <1>3
    <2>2. w[m + n] = u[m] \o v[n]
      BY <1>8, <2>1
    <2>. QED
      BY <1>2, <1>3, <1>5, <2>2
  <1>10. NamesIn(p) \in Seq(A) /\ NamesIn(q) \in Seq(A)
    BY <1>2, <1>3
  <1>. QED
    BY <1>1, <1>9, <1>10

(* Separators have no names.                                               *)
LEMMA NoNames ==
  ASSUME NEW A, NEW p \in Seq(A), \A i \in 1..Len(p) : p[i] = Slash
  PROVE  NamesIn(p) = <<>>
  <1>1. PICK n, u : n = Len(p) /\ u = NamesUpto(p)
    OBVIOUS
  <1>2. /\ n \in Nat /\ NamesIn(p) = u[n] /\ u[0] = <<>>
        /\ \A i \in 1..n : u[i] = IF p[i] = Slash THEN u[i - 1] ELSE Append(u[i - 1], p[i])
        /\ \A i \in 0..n : u[i] \in Seq(A)
    <2>1. NamesRead(A, p, n, u)
      BY <1>1, NamesUnfold
    <2>. QED
      BY <2>1 DEF NamesRead
  <1>. DEFINE bad == {i \in 0..n : u[i] # <<>>}
  <1>3. ASSUME NEW i \in bad PROVE \E j \in bad : j < i
    <2>1. i \in 0..n /\ u[i] # <<>>
      OBVIOUS
    <2>2. i \in 1..n /\ i - 1 \in 0..n /\ i - 1 < i
      BY <1>2, <2>1
    <2>3. u[i] = u[i - 1]
      BY <1>1, <1>2, <2>2
    <2>. QED
      BY <2>1, <2>2, <2>3
  <1>4. bad \in SUBSET Nat
    BY <1>2
  <1>5. bad = {}
    <2>. HIDE DEF bad
    <2>. QED
      BY <1>3, <1>4, NoneIsFirst
  <1>. QED
    BY <1>2, <1>5

-----------------------------------------------------------------------------
(* Joining: where the separators between two parts go.                     *)

LEMMA StrippedRight ==
  ASSUME NEW A, NEW p \in Seq(A)
  PROVE  \E m \in 0..Len(p) : /\ RStrip(p) = SubSeq(p, 1, m)
                              /\ \A j \in (m + 1)..Len(p) : p[j] = Slash
                              /\ m # 0 => p[m] # Slash
  <1>. DEFINE kept == {i \in 0..Len(p) : \A j \in (i + 1)..Len(p) : p[j] = Slash}
  <1>1. PICK n \in Nat : n = Len(p)
    BY LenProperties
  <1>2. n \in kept /\ kept \in SUBSET Nat
    <2>1. n \in 0..n /\ \A j \in (n + 1)..n : FALSE
      BY <1>1
    <2>2. 0..n \in SUBSET Nat
      BY <1>1
    <2>. QED
      BY <1>1, <2>1, <2>2
  <1>3. PICK m \in kept : m = Min(kept) /\ \A i \in kept : m <= i
    <2>. HIDE DEF kept
    <2>1. \E m \in kept : \A i \in kept : m <= i
      BY <1>2, LeastNatural
    <2>. QED
      BY <2>1 DEF Min
  <1>4. m \in 0..Len(p) /\ \A j \in (m + 1)..Len(p) : p[j] = Slash
    BY <1>3
  <1>5. ASSUME m # 0, p[m] = Slash PROVE FALSE
    <2>1. PICK l \in Nat : m = l + 1
      <3>1. m - 1 \in Nat /\ m = (m - 1) + 1
        BY <1>1, <1>4, <1>5
      <3>. QED
        BY <3>1
    <2>2. l \in 0..n
      BY <1>1, <1>4, <2>1
    <2>3. \A j \in (l + 1)..n : p[j] = Slash
      <3>1. \A j \in (l + 1)..n : j = m \/ j \in (m + 1)..n
        BY <1>1, <1>4, <2>1
      <3>. QED
        BY <1>1, <1>4, <1>5, <3>1
    <2>4. l \in kept
      BY <1>1, <2>2, <2>3
    <2>5. m <= l
      <3>. HIDE DEF kept
      <3>. QED
        BY <1>3, <2>4
    <2>. QED
      BY <2>1, <2>5
  <1>6. RStrip(p) = SubSeq(p, 1, m)
    BY <1>3 DEF RStrip
  <1>. QED
    BY <1>4, <1>5, <1>6

LEMMA StrippedLeft ==
  ASSUME NEW A, NEW p \in Seq(A)
  PROVE  \E m \in 0..Len(p) : /\ LStrip(p) = SubSeq(p, m + 1, Len(p))
                              /\ \A j \in 1..m : p[j] = Slash
                              /\ m # Len(p) => p[m + 1] # Slash
  <1>. DEFINE cut == {i \in 0..Len(p) : \A j \in 1..i : p[j] = Slash}
              left == {k \in 0..Len(p) : Len(p) - k \in cut}
  <1>1. PICK n \in Nat : n = Len(p)
    BY LenProperties
  <1>2. n \in left /\ left \in SUBSET Nat
    <2>1. 0 \in 0..n /\ n \in 0..n /\ n - n = 0 /\ \A j \in 1..0 : FALSE
      BY <1>1
    <2>2. 0 \in cut
      BY <1>1, <2>1
    <2>3. 0..n \in SUBSET Nat
      BY <1>1
    <2>. QED
      BY <1>1, <2>1, <2>2, <2>3
  <1>3. PICK k \in left : \A i \in left : k <= i
    <2>. HIDE DEF left
    <2>. QED
      BY <1>2, LeastNatural
  <1>4. PICK top : top = n - k
    OBVIOUS
  <1>5. top \in cut /\ top \in 0..n
    BY <1>1, <1>2, <1>3, <1>4
  <1>6. \A i \in cut : i <= top
    <2>1. ASSUME NEW i \in cut PROVE i <= top
      <3>1. i \in 0..n /\ n - i \in 0..n /\ n - (n - i) = i
        BY <1>1
      <3>2. n - i \in left
        BY <1>1, <2>1, <3>1
      <3>3. k <= n - i
        <4>. HIDE DEF left
        <4>. QED
          BY <1>3, <3>2
      <3>4. k \in 0..n
        BY <1>1, <1>3
      <3>. QED
        BY <1>1, <1>4, <3>1, <3>3, <3>4
    <2>. QED
      BY <2>1
  <1>7. PICK m \in cut : m = Max(cut) /\ \A i \in cut : m >= i
    <2>1. \A i \in cut : top >= i
      <3>1. \A i \in cut : i \in 0..n
        BY <1>1
      <3>. HIDE DEF cut
      <3>. QED
        BY <1>1, <1>5, <1>6, <3>1
    <2>. HIDE DEF cut
    <2>2. \E m \in cut : \A i \in cut : m >= i
      BY <1>5, <2>1
    <2>. QED
      BY <2>2 DEF Max
  <1>8. m \in 0..n /\ \A j \in 1..m : p[j] = Slash
    BY <1>1, <1>7
  <1>9. ASSUME m # n, p[m + 1] = Slash PROVE FALSE
    <2>1. m + 1 \in 0..n
      BY <1>1, <1>8, <1>9
    <2>2. \A j \in 1..(m + 1) : j = m + 1 \/ j \in 1..m
      BY <1>8
    <2>3. m + 1 \in cut
      BY <1>1, <1>8, <1>9, <2>1, <2>2
    <2>4. m >= m + 1
      <3>. HIDE DEF cut
      <3>. QED
        BY <1>7, <2>3
    <2>. QED
      BY <1>8, <2>4
  <1>10. LStrip(p) = SubSeq(p, m + 1, Len(p))
    BY <1>7 DEF LStrip
  <1>. QED
    BY <1>1, <1>8, <1>9, <1>10

(* What stripping takes away is separators.                                *)
LEMMA StripKeepsNames ==
  ASSUME NEW A, NEW p \in Seq(A)
  PROVE  /\ RStrip(p) \in Seq(A) /\ NamesIn(RStrip(p)) = NamesIn(p)
         /\ LStrip(p) \in Seq(A) /\ NamesIn(LStrip(p)) = NamesIn(p)
  <1>1. PICK n \in Nat : n = Len(p) /\ p \in [1..n -> A]
    BY LenProperties
  <1>2. ASSUME NEW m \in 0..n
        PROVE  /\ SubSeq(p, 1, m) \in Seq(A) /\ SubSeq(p, m + 1, n) \in Seq(A)
               /\ Len(SubSeq(p, 1, m)) = m /\ Len(SubSeq(p, m + 1, n)) = n - m
               /\ \A i \in 1..m : SubSeq(p, 1, m)[i] = p[i]
               /\ \A i \in 1..(n - m) : SubSeq(p, m + 1, n)[i] = p[m + i]
               /\ p = SubSeq(p, 1, m) \o SubSeq(p, m + 1, n)
    <2>1. /\ \A i \in 1..m : p[i] \in A
          /\ \A i \in (m + 1)..n : p[i] \in A
      BY <1>1
    <2>2. /\ SubSeq(p, 1, m) \in Seq(A)
          /\ Len(SubSeq(p, 1, m)) = IF 1 <= m THEN m - 1 + 1 ELSE 0
          /\ \A i \in 1..(m - 1 + 1) : SubSeq(p, 1, m)[i] = p[1 + i - 1]
      BY <1>1, <2>1, SubSeqProperties
    <2>3. /\ SubSeq(p, m + 1, n) \in Seq(A)
          /\ Len(SubSeq(p, m + 1, n)) = IF m + 1 <= n THEN n - (m + 1) + 1 ELSE 0
          /\ \A i \in 1..(n - (m + 1) + 1) : SubSeq(p, m + 1, n)[i] = p[(m + 1) + i - 1]
      BY <1>1, <2>1, SubSeqProperties
    <2>4. Len(SubSeq(p, 1, m)) = m /\ \A i \in 1..m : SubSeq(p, 1, m)[i] = p[i]
      BY <1>1, <2>2
    <2>5. Len(SubSeq(p, m + 1, n)) = n - m /\ \A i \in 1..(n - m) : SubSeq(p, m + 1, n)[i] = p[m + i]
      <3>1. n - (m + 1) + 1 = n - m /\ \A i \in 1..(n - m) : (m + 1) + i - 1 = m + i
        BY <1>1
      <3>. QED
        BY <1>1, <2>3, <3>1
    <2>6. p = SubSeq(p, 1, m) \o SubSeq(p, m + 1, n)
      <3>1. SubSeq(p, 1, m) \o SubSeq(p, m + 1, n) = SubSeq(p, 1, n)
        <4>1. 1 \in 1..(Len(p) + 1) /\ m \in (1 - 1)..Len(p) /\ n \in m..Len(p)
          BY <1>1
        <4>. QED
          BY <1>1, <4>1, ConcatAdjacentSubSeq
      <3>. QED
        BY <1>1, <3>1, SubSeqFull
    <2>. QED
      BY <2>2, <2>3, <2>4, <2>5, <2>6
  <1>3. PICK m \in 0..n : RStrip(p) = SubSeq(p, 1, m) /\ \A j \in (m + 1)..n : p[j] = Slash
    BY <1>1, StrippedRight
  <1>4. PICK k \in 0..n : LStrip(p) = SubSeq(p, k + 1, n) /\ \A j \in 1..k : p[j] = Slash
    BY <1>1, StrippedLeft
  <1>5. NamesIn(RStrip(p)) = NamesIn(p)
    <2>1. PICK a, b : a = SubSeq(p, 1, m) /\ b = SubSeq(p, m + 1, n)
      OBVIOUS
    <2>2. /\ a \in Seq(A) /\ b \in Seq(A) /\ p = a \o b /\ Len(b) = n - m
          /\ \A i \in 1..(n - m) : b[i] = p[m + i]
      BY <1>2, <2>1
    <2>3. \A i \in 1..Len(b) : b[i] = Slash
      <3>1. \A i \in 1..(n - m) : m + i \in (m + 1)..n
        BY <1>1
      <3>. QED
        BY <1>3, <2>2, <3>1
    <2>4. NamesIn(b) = <<>>
      BY <2>2, <2>3, NoNames
    <2>5. NamesIn(a) \in Seq(A) /\ NamesIn(p) = NamesIn(a) \o NamesIn(b)
      BY <2>2, NamesOfBoth
    <2>. QED
      BY <1>3, <2>1, <2>4, <2>5, ConcatEmptySeq
  <1>6. NamesIn(LStrip(p)) = NamesIn(p)
    <2>1. PICK a, b : a = SubSeq(p, 1, k) /\ b = SubSeq(p, k + 1, n)
      OBVIOUS
    <2>2. /\ a \in Seq(A) /\ b \in Seq(A) /\ p = a \o b /\ Len(a) = k
          /\ \A i \in 1..k : a[i] = p[i]
      BY <1>2, <2>1
    <2>3. NamesIn(a) = <<>>
      BY <1>4, <2>2, NoNames
    <2>4. NamesIn(b) \in Seq(A) /\ NamesIn(p) = NamesIn(a) \o NamesIn(b)
      BY <2>2, NamesOfBoth
    <2>. QED
      BY <1>4, <2>1, <2>3, <2>4, ConcatEmptySeq
  <1>. QED
    BY <1>2, <1>3, <1>4, <1>5, <1>6

(* A join has the names of its parts.                                      *)
LEMMA JoinNames ==
  ASSUME NEW A, Slash \in A, NEW p \in Seq(A), NEW q \in Seq(A)
  PROVE  Join(p, q) \in Seq(A) /\ NamesIn(Join(p, q)) = NamesIn(p) \o NamesIn(q)
  <1>1. PICK a, b, s : a = RStrip(p) /\ b = LStrip(q) /\ s = <<Slash>>
    OBVIOUS
  <1>2. /\ a \in Seq(A) /\ b \in Seq(A) /\ NamesIn(a) = NamesIn(p) /\ NamesIn(b) = NamesIn(q)
    BY <1>1, StripKeepsNames
  <1>3. s \in Seq(A) /\ NamesIn(s) = <<>>
    <2>1. s \in Seq(A) /\ Len(s) = 1 /\ s[1] = Slash
      <3>. HIDE DEF Slash
      <3>. QED
        BY <1>1
    <2>2. \A i \in 1..Len(s) : s[i] = Slash
      BY <2>1
    <2>. QED
      BY <2>1, <2>2, NoNames
  <1>4. /\ a \o s \in Seq(A) /\ NamesIn(a \o s) = NamesIn(a) \o NamesIn(s)
        /\ NamesIn(a) \in Seq(A)
    BY <1>2, <1>3, NamesOfBoth, ConcatProperties
  <1>5. /\ (a \o s) \o b \in Seq(A)
        /\ NamesIn((a \o s) \o b) = NamesIn(a \o s) \o NamesIn(b)
    <2>1. PICK e : e = a \o s
      OBVIOUS
    <2>2. e \in Seq(A)
      BY <1>4, <2>1
    <2>3. e \o b \in Seq(A)
      BY <1>2, <2>2, ConcatProperties
    <2>4. NamesIn(e \o b) = NamesIn(e) \o NamesIn(b)
      BY <1>2, <2>2, NamesOfBoth
    <2>. QED
      BY <2>1, <2>3, <2>4
  <1>6. NamesIn(a \o s) = NamesIn(a)
    BY <1>3, <1>4, ConcatEmptySeq
  <1>7. Join(p, q) = (a \o s) \o b
    BY <1>1 DEF Join
  <1>. QED
    BY <1>2, <1>5, <1>6, <1>7

(* A join separates its parts once.                                        *)
LEMMA JoinSeparates ==
  ASSUME NEW A, Slash \in A, NEW p \in Seq(A), SeparatedOnce(p), NEW q \in Seq(A), SeparatedOnce(q)
  PROVE  SeparatedOnce(Join(p, q))
  <1>1. PICK m, n : m = Len(p) /\ n = Len(q)
    OBVIOUS
  <1>2. m \in Nat /\ n \in Nat /\ p \in [1..m -> A] /\ q \in [1..n -> A]
    BY <1>1, LenProperties
  <1>3. PICK k \in 0..m : RStrip(p) = SubSeq(p, 1, k) /\ (k # 0 => p[k] # Slash)
    BY <1>1, StrippedRight
  <1>4. PICK c \in 0..n : LStrip(q) = SubSeq(q, c + 1, n) /\ (c # n => q[c + 1] # Slash)
    BY <1>1, StrippedLeft
  <1>5. PICK a, b, s : a = RStrip(p) /\ b = LStrip(q) /\ s = <<Slash>>
    OBVIOUS
  <1>6. a \in Seq(A) /\ Len(a) = k /\ \A i \in 1..k : a[i] = p[i]
    <2>1. \A i \in 1..k : p[i] \in A
      BY <1>2
    <2>2. /\ SubSeq(p, 1, k) \in Seq(A)
          /\ Len(SubSeq(p, 1, k)) = IF 1 <= k THEN k - 1 + 1 ELSE 0
          /\ \A i \in 1..(k - 1 + 1) : SubSeq(p, 1, k)[i] = p[1 + i - 1]
      BY <1>2, <2>1, SubSeqProperties
    <2>. QED
      BY <1>2, <1>3, <1>5, <2>2
  <1>7. PICK d \in Nat : n = c + d
    <2>1. n - c \in Nat /\ n = c + (n - c)
      BY <1>2
    <2>. QED
      BY <2>1
  <1>8. b \in Seq(A) /\ Len(b) = d /\ \A i \in 1..d : b[i] = q[c + i]
    <2>1. \A i \in (c + 1)..n : q[i] \in A
      BY <1>2
    <2>2. /\ SubSeq(q, c + 1, n) \in Seq(A)
          /\ Len(SubSeq(q, c + 1, n)) = IF c + 1 <= n THEN n - (c + 1) + 1 ELSE 0
          /\ \A i \in 1..(n - (c + 1) + 1) : SubSeq(q, c + 1, n)[i] = q[(c + 1) + i - 1]
      BY <1>2, <2>1, SubSeqProperties
    <2>3. n - (c + 1) + 1 = d /\ \A i \in 1..d : (c + 1) + i - 1 = c + i
      BY <1>2, <1>7
    <2>. QED
      BY <1>2, <1>4, <1>5, <1>7, <2>2, <2>3
  <1>9. s \in Seq(A) /\ Len(s) = 1 /\ s[1] = Slash
    <2>. HIDE DEF Slash
    <2>. QED
      BY <1>5
  <1>10. PICK j : j = (a \o s) \o b
    OBVIOUS
  <1>11. /\ Len(j) = k + 1 + d
         /\ \A i \in 1..k : j[i] = p[i]
         /\ j[k + 1] = Slash
         /\ \A i \in 1..d : j[(k + 1) + i] = q[c + i]
    <2>1. PICK e : e = a \o s
      OBVIOUS
    <2>2. /\ e \in Seq(A) /\ Len(e) = k + 1
          /\ \A i \in 1..(k + 1) : e[i] = IF i <= k THEN a[i] ELSE s[i - k]
      <3>1. /\ a \o s \in Seq(A) /\ Len(a \o s) = Len(a) + Len(s)
            /\ \A i \in 1..(Len(a) + Len(s)) : (a \o s)[i] = IF i <= Len(a) THEN a[i] ELSE s[i - Len(a)]
        BY <1>6, <1>9, ConcatProperties
      <3>. QED
        BY <1>6, <1>9, <2>1, <3>1
    <2>3. /\ Len(j) = (k + 1) + d
          /\ \A i \in 1..((k + 1) + d) : j[i] = IF i <= k + 1 THEN e[i] ELSE b[i - (k + 1)]
      <3>1. /\ Len(e \o b) = Len(e) + Len(b)
            /\ \A i \in 1..(Len(e) + Len(b)) : (e \o b)[i] = IF i <= Len(e) THEN e[i] ELSE b[i - Len(e)]
        BY <1>8, <2>2, ConcatProperties
      <3>. QED
        BY <1>8, <1>10, <2>1, <2>2, <3>1
    <2>4. k \in Nat
      BY <1>2
    <2>5. \A i \in 1..k : j[i] = p[i]
      <3>1. \A i \in 1..k : i \in 1..(k + 1) /\ i <= k /\ i \in 1..((k + 1) + d) /\ i <= k + 1
        BY <2>4
      <3>. QED
        BY <1>6, <2>2, <2>3, <3>1
    <2>6. j[k + 1] = Slash
      <3>1. k + 1 \in 1..(k + 1) /\ ~(k + 1 <= k) /\ k + 1 \in 1..((k + 1) + d) /\ k + 1 <= k + 1
            /\ (k + 1) - k = 1
        BY <2>4
      <3>. QED
        BY <1>9, <2>2, <2>3, <3>1
    <2>7. \A i \in 1..d : j[(k + 1) + i] = q[c + i]
      <3>1. \A i \in 1..d : /\ (k + 1) + i \in 1..((k + 1) + d) /\ ~((k + 1) + i <= k + 1)
                            /\ ((k + 1) + i) - (k + 1) = i
        BY <2>4
      <3>. QED
        BY <1>8, <2>3, <3>1
    <2>. QED
      BY <2>3, <2>4, <2>5, <2>6, <2>7
  <1>12. \A i \in 1..(m - 1) : ~(p[i] = Slash /\ p[i + 1] = Slash)
    BY <1>1 DEF SeparatedOnce
  <1>13. \A i \in 1..(n - 1) : ~(q[i] = Slash /\ q[i + 1] = Slash)
    BY <1>1 DEF SeparatedOnce
  <1>14. ASSUME NEW i \in 1..(Len(j) - 1) PROVE ~(j[i] = Slash /\ j[i + 1] = Slash)
    <2>0. k \in Nat /\ i \in Nat /\ i > 0 /\ i <= k + d
      BY <1>2, <1>11
    <2>1. CASE i < k
      <3>1. i \in 1..k /\ i + 1 \in 1..k /\ i \in 1..(m - 1)
        BY <1>2, <2>0, <2>1
      <3>. QED
        BY <1>11, <1>12, <3>1
    <2>2. CASE i = k
      <3>1. i \in 1..k /\ k # 0
        BY <2>0, <2>2
      <3>. QED
        BY <1>3, <1>11, <2>2, <3>1
    <2>3. CASE i = k + 1
      <3>1. 1 \in 1..d /\ c # n /\ i + 1 = (k + 1) + 1
        BY <1>2, <1>7, <2>0, <2>3
      <3>. QED
        BY <1>4, <1>11, <3>1
    <2>4. CASE i > k + 1
      <3>1. PICK l \in Nat : i = (k + 1) + l
        <4>1. i - (k + 1) \in Nat /\ i = (k + 1) + (i - (k + 1))
          BY <2>0, <2>4
        <4>. QED
          BY <4>1
      <3>2. /\ l \in 1..d /\ l + 1 \in 1..d /\ i + 1 = (k + 1) + (l + 1)
            /\ c + l \in 1..(n - 1) /\ (c + l) + 1 = c + (l + 1)
        BY <1>2, <1>7, <2>0, <2>4, <3>1
      <3>. QED
        BY <1>11, <1>13, <3>1, <3>2
    <2>. QED
      BY <2>0, <2>1, <2>2, <2>3, <2>4
  <1>15. Join(p, q) = j
    BY <1>5, <1>10 DEF Join
  <1>. QED
    BY <1>14, <1>15 DEF SeparatedOnce

-----------------------------------------------------------------------------
(* Where a file is.                                                        *)

IsBase(A, base) == base \in Seq(A) \cup {NULL} /\ NULL \notin Seq(A) /\ Slash \in A

IsLevel(A, level) == level.path \in Seq(A) /\ level.isRelative \in BOOLEAN

OnceIfAny(base) == base # NULL => SeparatedOnce(base)

AppliedTo(A, base, level, next) ==
    /\ IsBase(A, next)
    /\ IsAnchor(level) => next = level.path
    /\ base # NULL /\ ~IsAnchor(level) =>
          next # NULL /\ NamesIn(next) = NamesIn(base) \o NamesIn(level.path)
    /\ OnceIfAny(base) /\ SeparatedOnce(level.path) => OnceIfAny(next)

FileBelow(A, base, file, found) ==
    /\ IsBase(A, base)
    /\ ~file.isRelative => found = file.path
    /\ file.isRelative /\ base # NULL =>
          found # NULL /\ NamesIn(found) = NamesIn(base) \o NamesIn(file.path)
    /\ OnceIfAny(base) /\ SeparatedOnce(file.path) => OnceIfAny(found)

(* One level below what is above it.                                       *)
LEMMA Applied ==
  ASSUME NEW A, NEW base, IsBase(A, base), NEW level, IsLevel(A, level),
         NEW next, next = ApplySegment(base, level)
  PROVE  AppliedTo(A, base, level, next)
  <1>1. /\ base \in Seq(A) \cup {NULL} /\ NULL \notin Seq(A) /\ Slash \in A
        /\ level.path \in Seq(A) /\ level.isRelative \in BOOLEAN
    BY DEF IsBase, IsLevel
  <1>2. CASE level.path = <<>>
    <2>1. next = base /\ ~IsAnchor(level)
      BY <1>2 DEF ApplySegment, IsAnchor
    <2>2. base # NULL => NamesIn(base) = NamesIn(base) \o NamesIn(level.path)
      <3>1. NamesIn(level.path) = <<>>
        <4>1. Len(level.path) = 0
          BY <1>2, EmptySeq
        <4>. QED
          BY <1>1, <4>1, NoNames
      <3>2. base # NULL => NamesIn(base) \in Seq(A)
        BY <1>1, NamesOfBoth
      <3>. QED
        BY <3>1, <3>2, ConcatEmptySeq
    <2>. QED
      BY <1>1, <2>1, <2>2 DEF AppliedTo, IsBase, IsAnchor
  <1>3. CASE level.path # <<>> /\ (~level.isRelative \/ base = NULL)
    <2>1. next = level.path
      BY <1>3 DEF ApplySegment, Attach
    <2>2. base # NULL => IsAnchor(level)
      BY <1>3 DEF IsAnchor
    <2>3. IsBase(A, next)
      BY <1>1, <2>1 DEF IsBase
    <2>4. OnceIfAny(base) /\ SeparatedOnce(level.path) => OnceIfAny(next)
      BY <2>1 DEF OnceIfAny
    <2>. QED
      BY <2>1, <2>2, <2>3, <2>4 DEF AppliedTo
  <1>4. CASE level.path # <<>> /\ level.isRelative /\ base # NULL
    <2>1. next = Join(base, level.path)
      BY <1>4 DEF ApplySegment, Attach
    <2>2. ~IsAnchor(level) /\ base \in Seq(A)
      BY <1>1, <1>4 DEF IsAnchor
    <2>3. next \in Seq(A) /\ NamesIn(next) = NamesIn(base) \o NamesIn(level.path)
      BY <1>1, <2>1, <2>2, JoinNames
    <2>4. next # NULL /\ IsBase(A, next)
      BY <1>1, <2>3 DEF IsBase
    <2>5. SeparatedOnce(base) /\ SeparatedOnce(level.path) => SeparatedOnce(next)
      BY <1>1, <2>1, <2>2, JoinSeparates
    <2>6. OnceIfAny(base) /\ SeparatedOnce(level.path) => OnceIfAny(next)
      BY <1>4, <2>5 DEF OnceIfAny
    <2>. QED
      BY <2>2, <2>3, <2>4, <2>6 DEF AppliedTo
  <1>. QED
    BY <1>1, <1>2, <1>3, <1>4

(* The file below what the levels above it come to.                        *)
LEMMA FileFound ==
  ASSUME NEW A, NEW d, IsBase(A, d), NEW schema, IsLevel(A, schema), NEW table, IsLevel(A, table),
         NEW file, IsLevel(A, file), NEW base, base = ApplySegment(ApplySegment(d, schema), table),
         NEW found, found = ResolvePath(d, schema, table, file)
  PROVE  FileBelow(A, base, file, found)
  <1>1. IsBase(A, base)
    <2>1. PICK above : above = ApplySegment(d, schema)
      OBVIOUS
    <2>2. AppliedTo(A, d, schema, above)
      BY <2>1, Applied
    <2>3. IsBase(A, above)
      BY <2>2 DEF AppliedTo
    <2>4. AppliedTo(A, above, table, base)
      BY <2>1, <2>3, Applied
    <2>. QED
      BY <2>4 DEF AppliedTo
  <1>2. /\ base \in Seq(A) \cup {NULL} /\ NULL \notin Seq(A) /\ Slash \in A
        /\ file.path \in Seq(A) /\ file.isRelative \in BOOLEAN
    BY <1>1 DEF IsBase, IsLevel
  <1>3. base = ResolveBase(d, schema, table)
    BY DEF ResolveBase
  <1>4. CASE ~file.isRelative
    <2>1. found = file.path
      BY <1>4 DEF ResolvePath
    <2>. QED
      BY <1>1, <1>4, <2>1 DEF FileBelow, OnceIfAny
  <1>5. CASE file.isRelative /\ base = NULL
    <2>1. found = NULL
      BY <1>3, <1>5 DEF ResolvePath
    <2>. QED
      BY <1>1, <1>5, <2>1 DEF FileBelow, OnceIfAny
  <1>6. CASE file.isRelative /\ base # NULL
    <2>1. found = Join(base, file.path)
      BY <1>3, <1>6 DEF ResolvePath
    <2>2. base \in Seq(A)
      BY <1>2, <1>6
    <2>3. found \in Seq(A) /\ NamesIn(found) = NamesIn(base) \o NamesIn(file.path)
      BY <1>2, <2>1, <2>2, JoinNames
    <2>4. SeparatedOnce(base) /\ SeparatedOnce(file.path) => SeparatedOnce(found)
      BY <1>2, <2>1, <2>2, JoinSeparates
    <2>5. OnceIfAny(base) /\ SeparatedOnce(file.path) => OnceIfAny(found)
      BY <1>6, <2>4 DEF OnceIfAny
    <2>. QED
      BY <1>1, <1>2, <1>6, <2>3, <2>5 DEF FileBelow
  <1>. QED
    BY <1>2, <1>4, <1>5, <1>6

(* The names of a file are those from the nearest anchor on.               *)
FoundBelow(found, d, schema, table, file) ==
    /\ IsAnchor(file) => found # NULL /\ NamesIn(found) = NamesIn(file.path)
    /\ ~IsAnchor(file) /\ IsAnchor(table) =>
          found # NULL /\ NamesIn(found) = NamesIn(table.path) \o NamesIn(file.path)
    /\ ~IsAnchor(file) /\ ~IsAnchor(table) /\ IsAnchor(schema) =>
          /\ found # NULL
          /\ NamesIn(found) = (NamesIn(schema.path) \o NamesIn(table.path)) \o NamesIn(file.path)
    /\ ~IsAnchor(file) /\ ~IsAnchor(table) /\ ~IsAnchor(schema) /\ d # NULL =>
          /\ found # NULL
          /\ NamesIn(found) = ((NamesIn(d) \o NamesIn(schema.path)) \o NamesIn(table.path))
                                  \o NamesIn(file.path)

LEMMA FoundBelowAnchor ==
  ASSUME NEW A, NEW d, IsBase(A, d), NEW schema, IsLevel(A, schema), NEW table, IsLevel(A, table),
         NEW file, IsLevel(A, file), file.path # <<>>,
         NEW found, found = ResolvePath(d, schema, table, file)
  PROVE  FoundBelow(found, d, schema, table, file)
  <1>1. PICK above, base : above = ApplySegment(d, schema) /\ base = ApplySegment(above, table)
    OBVIOUS
  <1>2. AppliedTo(A, d, schema, above)
    BY <1>1, Applied
  <1>3. AppliedTo(A, above, table, base)
    <2>1. IsBase(A, above)
      BY <1>2 DEF AppliedTo
    <2>. QED
      BY <1>1, <2>1, Applied
  <1>4. FileBelow(A, base, file, found)
    <2>1. base = ApplySegment(ApplySegment(d, schema), table)
      BY <1>1
    <2>. QED
      BY <2>1, FileFound
  <1>5. IsAnchor(file) <=> ~file.isRelative
    BY DEF IsAnchor
  <1>6. file.path # NULL /\ table.path # NULL /\ schema.path # NULL
    BY DEF IsBase, IsLevel
  <1>. QED
    BY <1>2, <1>3, <1>4, <1>5, <1>6 DEF FoundBelow, AppliedTo, FileBelow

(* The levels of what a call finds are paths.                              *)
LEMMA LevelsFound ==
  ASSUME NamesInv, NEW s \in 1..last, NEW req, NEW r \in Targets(req, s),
         NEW d \in DataPaths, NEW f \in FilePaths, NEW A, A = STRING
  PROVE  /\ IsBase(A, d) /\ IsLevel(A, r.schema) /\ IsLevel(A, r.table) /\ IsLevel(A, f)
         /\ f.path # <<>>
  <1>1. PICK sc, t : Announced(req, s, r, sc, t)
    BY WhatIsFound
  <1>2. r.schema = sc /\ r.table = t /\ sc \in At(schemas, s) /\ t \in At(tables, s)
    BY <1>1 DEF Announced, StandsFor, TargetOf
  <1>3. IsSegment(sc) /\ IsSegment(t)
    BY <1>2 DEF NamesInv, Known, SchemasKnown, TablesKnown
  <1>4. IsLevel(A, r.schema) /\ IsLevel(A, r.table)
    BY <1>2, <1>3 DEF IsSegment, IsLevel
  <1>5. f \in [path : Seq(A), isRelative : BOOLEAN] /\ f.path # <<>>
    BY NamesAssumption DEF Segments
  <1>6. IsLevel(A, f)
    BY <1>5 DEF IsLevel
  <1>7. d \in Seq(A) \cup {NULL} /\ NULL \notin Seq(A) /\ Slash \in A
    <2>. HIDE DEF Slash
    <2>. QED
      BY NamesAssumption
  <1>. QED
    BY <1>4, <1>5, <1>6, <1>7 DEF IsBase

(* A data file is below the nearest level above it that is not relative,   *)
(* whatever the levels are and however many separators they begin and end  *)
(* with; no level above that one shows (paths.py, resolve_path).           *)
THEOREM FilesBelowNearestAnchor == Spec => []NearestAnchorWins
  <1>1. ASSUME NamesInv, NEW s \in 1..last, NEW req, NEW r \in Targets(req, s),
               NEW d \in DataPaths, NEW f \in FilePaths, NEW k \in 1..4,
               NEW levels, levels = Levels(d, r, f), NearestAnchor(levels, k)
        PROVE  Found(d, r, f) # NULL /\ NamesIn(Found(d, r, f)) = NamesFrom(levels, k)
    <2>1. PICK from1, from2, from3, from4 :
             /\ from1 = (IF 1 >= k THEN NamesIn(levels[1].path) ELSE <<>>)
             /\ from2 = (IF 2 >= k THEN NamesIn(levels[2].path) ELSE <<>>)
             /\ from3 = (IF 3 >= k THEN NamesIn(levels[3].path) ELSE <<>>)
             /\ from4 = (IF 4 >= k THEN NamesIn(levels[4].path) ELSE <<>>)
      OBVIOUS
    <2>2. PICK A, one, schema, table, found :
             /\ A = STRING /\ one = (IF d = NULL THEN <<>> ELSE d)
             /\ schema = r.schema /\ table = r.table /\ found = ResolvePath(d, schema, table, f)
      OBVIOUS
    <2>3. /\ IsBase(A, d) /\ IsLevel(A, schema) /\ IsLevel(A, table) /\ IsLevel(A, f)
          /\ f.path # <<>>
      BY <1>1, <2>2, LevelsFound
    <2>4. /\ levels[1] = [path |-> one, isRelative |-> FALSE]
          /\ levels[2] = schema /\ levels[3] = table /\ levels[4] = f
      BY <1>1, <2>2 DEF Levels
    <2>5. levels[1].path = one /\ (IsAnchor(levels[1]) => d # NULL /\ one = d)
      BY <2>2, <2>4 DEF IsAnchor
    <2>6. found = Found(d, r, f)
      BY <2>2 DEF Found
    <2>7. FoundBelow(found, d, schema, table, f)
      BY <2>2, <2>3, FoundBelowAnchor
    <2>8. /\ NamesIn(schema.path) \in Seq(A) /\ NamesIn(table.path) \in Seq(A)
          /\ NamesIn(f.path) \in Seq(A)
      BY <2>3, NamesOfBoth DEF IsLevel
    <2>9. <<>> \in Seq(A) /\ <<>> \o <<>> = <<>>
      BY EmptySeq, ConcatEmptySeq
    <2>10. NamesFrom(levels, k) = ((from1 \o from2) \o from3) \o from4
      BY <2>1 DEF NamesFrom
    <2>11. CASE k = 1
      <3>1. ~IsAnchor(levels[4]) /\ ~IsAnchor(levels[3]) /\ ~IsAnchor(levels[2])
        BY <1>1, <2>11 DEF NearestAnchor
      <3>2. /\ from1 = NamesIn(d) /\ from2 = NamesIn(schema.path)
            /\ from3 = NamesIn(table.path) /\ from4 = NamesIn(f.path)
        BY <1>1, <2>1, <2>4, <2>5, <2>11 DEF NearestAnchor
      <3>3. found # NULL /\ NamesIn(found) = ((from1 \o from2) \o from3) \o from4
        BY <1>1, <2>1, <2>4, <2>5, <2>6, <2>7, <2>11, <3>1, <3>2 DEF FoundBelow, NearestAnchor
      <3>. QED
        BY <3>3, <2>6, <2>10
    <2>12. CASE k = 2
      <3>1. ~IsAnchor(levels[4]) /\ ~IsAnchor(levels[3])
        BY <1>1, <2>12 DEF NearestAnchor
      <3>2. /\ from1 = <<>> /\ from2 = NamesIn(schema.path)
            /\ from3 = NamesIn(table.path) /\ from4 = NamesIn(f.path)
        BY <1>1, <2>1, <2>4, <2>12
      <3>3. from1 \o from2 = NamesIn(schema.path)
        BY <2>8, <3>2, ConcatEmptySeq
      <3>4. found # NULL /\ NamesIn(found) = ((from1 \o from2) \o from3) \o from4
        BY <1>1, <2>1, <2>4, <2>6, <2>7, <2>12, <3>1, <3>2, <3>3 DEF FoundBelow, NearestAnchor
      <3>. QED
        BY <3>4, <2>6, <2>10
    <2>13. CASE k = 3
      <3>1. ~IsAnchor(levels[4])
        BY <1>1, <2>13 DEF NearestAnchor
      <3>2. from1 = <<>> /\ from2 = <<>> /\ from3 = NamesIn(table.path) /\ from4 = NamesIn(f.path)
        BY <1>1, <2>1, <2>4, <2>13
      <3>3. (from1 \o from2) \o from3 = NamesIn(table.path)
        BY <2>8, <2>9, <3>2, ConcatEmptySeq
      <3>4. found # NULL /\ NamesIn(found) = ((from1 \o from2) \o from3) \o from4
        BY <1>1, <2>1, <2>4, <2>6, <2>7, <2>13, <3>1, <3>2, <3>3 DEF FoundBelow, NearestAnchor
      <3>. QED
        BY <3>4, <2>6, <2>10
    <2>14. CASE k = 4
      <3>1. from1 = <<>> /\ from2 = <<>> /\ from3 = <<>> /\ from4 = NamesIn(f.path)
        BY <1>1, <2>1, <2>4, <2>14
      <3>2. ((from1 \o from2) \o from3) \o from4 = NamesIn(f.path)
        BY <2>8, <2>9, <3>1, ConcatEmptySeq
      <3>3. found # NULL /\ NamesIn(found) = ((from1 \o from2) \o from3) \o from4
        BY <1>1, <2>1, <2>4, <2>6, <2>7, <2>14, <3>1, <3>2 DEF FoundBelow, NearestAnchor
      <3>. QED
        BY <3>3, <2>6, <2>10
    <2>15. k = 1 \/ k = 2 \/ k = 3 \/ k = 4
      BY <1>1
    <2>. QED
      BY <2>11, <2>12, <2>13, <2>14, <2>15
  <1>2. NamesInv => NearestAnchorWins
    BY <1>1 DEF NearestAnchorWins, Snapshots
  <1>. QED
    BY <1>2, NamesInvariant, PTL

(* Where no level has two separators in a row, no result has: each pair is *)
(* joined with one (paths.py, "ensuring exactly one slash separates each   *)
(* joined pair").                                                          *)
THEOREM SeparatedByOne == Spec => []OneSeparator
  <1>1. ASSUME NamesInv, NEW s \in 1..last, NEW req, NEW r \in Targets(req, s),
               NEW d \in DataPaths, NEW f \in FilePaths, NEW levels, levels = Levels(d, r, f),
               \A j \in 1..4 : SeparatedOnce(levels[j].path), Found(d, r, f) # NULL
        PROVE  SeparatedOnce(Found(d, r, f))
    <2>1. PICK A, one, schema, table, found :
             /\ A = STRING /\ one = (IF d = NULL THEN <<>> ELSE d)
             /\ schema = r.schema /\ table = r.table /\ found = ResolvePath(d, schema, table, f)
      OBVIOUS
    <2>2. /\ IsBase(A, d) /\ IsLevel(A, schema) /\ IsLevel(A, table) /\ IsLevel(A, f)
          /\ f.path # <<>>
      BY <1>1, <2>1, LevelsFound
    <2>3. /\ levels[1] = [path |-> one, isRelative |-> FALSE]
          /\ levels[2] = schema /\ levels[3] = table /\ levels[4] = f
      BY <1>1, <2>1 DEF Levels
    <2>4. OnceIfAny(d) /\ SeparatedOnce(schema.path) /\ SeparatedOnce(table.path) /\ SeparatedOnce(f.path)
      <3>1. SeparatedOnce(levels[1].path)
        BY <1>1
      <3>2. levels[1].path = one
        BY <2>3
      <3>3. OnceIfAny(d)
        BY <2>1, <3>1, <3>2 DEF OnceIfAny
      <3>. QED
        BY <1>1, <2>3, <3>3
    <2>5. PICK above, base : above = ApplySegment(d, schema) /\ base = ApplySegment(above, table)
      OBVIOUS
    <2>6. AppliedTo(A, d, schema, above)
      BY <2>2, <2>5, Applied
    <2>7. AppliedTo(A, above, table, base)
      <3>1. IsBase(A, above)
        BY <2>6 DEF AppliedTo
      <3>. QED
        BY <2>2, <2>5, <3>1, Applied
    <2>8. FileBelow(A, base, f, found)
      <3>1. base = ApplySegment(ApplySegment(d, schema), table)
        BY <2>5
      <3>. QED
        BY <2>1, <2>2, <3>1, FileFound
    <2>9. OnceIfAny(found)
      BY <2>4, <2>6, <2>7, <2>8 DEF AppliedTo, FileBelow
    <2>. QED
      BY <1>1, <2>1, <2>9 DEF OnceIfAny, Found
  <1>2. NamesInv => OneSeparator
    BY <1>1 DEF OneSeparator, Snapshots
  <1>. QED
    BY <1>2, NamesInvariant, PTL

=============================================================================
