------------------------- MODULE CatalogStoreProofs -------------------------
(***************************************************************************)
(* What the tables guarantee whatever statements their clients issue, for   *)
(* every set of identifiers, texts and slugs.                               *)
(*                                                                         *)
(* The inductive invariant is StoreInv.  ReferentialIntegrity is inductive  *)
(* with the type invariant alone.  Acyclic needs it: a new category is not  *)
(* yet anybody's parent only because every parent that is named exists.     *)
(*                                                                         *)
(* What the recursive queries find, TreeIsComplete, follows from these two  *)
(* for any number of categories.  A category found in round k ends a chain  *)
(* of k + 1 different ones, so that the rounds come to an end; and in a set *)
(* of categories that no root reaches, or that two reach, there would be    *)
(* one whose parent lies outside, which is what Acyclic says of every set.  *)
(***************************************************************************)
EXTENDS CatalogStore, DataLemmas

StoreInv ==
    /\ StoreTypeOK
    /\ ReferentialIntegrity
    /\ SlugsUnique
    /\ Acyclic
    /\ VectorFresh

-----------------------------------------------------------------------------
(* The empty tables satisfy every part of the invariant. *)
LEMMA StoreInitOK == StoreInit => StoreInv
<1> SUFFICES ASSUME StoreInit PROVE StoreInv
  OBVIOUS
<1>1. StoreTypeOK
  BY MaxViewsAssumption
     DEF StoreInit, StoreTypeOK, NoProduct, NoCategory, ProductRows, CategoryRows
<1>2. \A p \in Products : ~ProductStored(p)
  BY DEF StoreInit, NoProduct, ProductStored
<1>3. \A c \in Categories : ~CategoryLive(c)
  BY DEF StoreInit, NoCategory, CategoryLive
<1> QED
  BY <1>1, <1>2, <1>3
     DEF StoreInv, ReferentialIntegrity, SlugsUnique, Acyclic, VectorFresh

-----------------------------------------------------------------------------
(* Every statement keeps the rows well typed. *)
LEMMA StoreTypeStep == StoreTypeOK /\ [StoreNext]_storeVars => StoreTypeOK'
<1> SUFFICES ASSUME StoreTypeOK, [StoreNext]_storeVars PROVE StoreTypeOK'
  OBVIOUS
<1> USE DEF StoreTypeOK
<1>1. ASSUME NEW p \in Products, NEW v \in ProductValues, InsertProduct(p, v)
      PROVE  StoreTypeOK'
  BY <1>1, MaxViewsAssumption DEF InsertProduct, ProductValues, ProductRows
<1>2. ASSUME NEW p \in Products, NEW v \in ProductValues, UpdateProduct(p, v)
      PROVE  StoreTypeOK'
  <2>1. CASE ProductLive(p)
    <3> DEFINE row == [products[p] EXCEPT !.category = v.category, !.name = v.name,
                                          !.price = v.price, !.indexed = v.name]
    <3>1. row \in ProductRows
      BY DEF ProductValues, ProductRows
    <3>2. products' = [products EXCEPT ![p] = row] /\ categories' = categories
      BY <1>2, <2>1 DEF UpdateProduct
    <3> HIDE DEF row
    <3> QED
      BY <3>1, <3>2
  <2>2. CASE ~ProductLive(p)
    BY <1>2, <2>2 DEF UpdateProduct
  <2> QED
    BY <2>1, <2>2
<1>3. ASSUME NEW p \in Products, SoftDeleteProduct(p) PROVE StoreTypeOK'
  BY <1>3 DEF SoftDeleteProduct, ProductRows
<1>4. ASSUME NEW p \in Products, IncrementViewCount(p) PROVE StoreTypeOK'
  BY <1>4, MaxViewsAssumption DEF IncrementViewCount, ProductRows
<1>5. ASSUME NEW c \in Categories, NEW s \in Slugs, NEW d \in Categories \cup {Null},
             InsertCategory(c, s, d)
      PROVE  StoreTypeOK'
  BY <1>5 DEF InsertCategory, CategoryRows
<1>6. ASSUME NEW c \in Categories, NEW s \in Slugs, UpdateCategory(c, s)
      PROVE  StoreTypeOK'
  BY <1>6 DEF UpdateCategory, CategoryRows
<1>7. ASSUME NEW c \in Categories, DeleteCategory(c) PROVE StoreTypeOK'
  BY <1>7 DEF DeleteCategory, CategoryRows, NoCategory
<1>8. CASE UNCHANGED storeVars
  BY <1>8 DEF storeVars
<1> QED
  BY <1>1, <1>2, <1>3, <1>4, <1>5, <1>6, <1>7, <1>8 DEF StoreNext

(* No statement leaves a row that refers to a category that is gone. *)
LEMMA IntegrityStep ==
    StoreTypeOK /\ ReferentialIntegrity /\ [StoreNext]_storeVars
    => ReferentialIntegrity'
<1> SUFFICES ASSUME StoreTypeOK, ReferentialIntegrity, [StoreNext]_storeVars
             PROVE  ReferentialIntegrity'
  OBVIOUS
<1> USE DEF StoreTypeOK, ReferentialIntegrity, ProductStored, CategoryLive, ParentOK
<1>1. ASSUME NEW p \in Products, NEW v \in ProductValues, InsertProduct(p, v)
      PROVE  ReferentialIntegrity'
  BY <1>1 DEF InsertProduct, ProductValues
<1>2. ASSUME NEW p \in Products, NEW v \in ProductValues, UpdateProduct(p, v)
      PROVE  ReferentialIntegrity'
  BY <1>2 DEF UpdateProduct, ProductLive, ProductValues, ProductRows
<1>3. ASSUME NEW p \in Products, SoftDeleteProduct(p) PROVE ReferentialIntegrity'
  BY <1>3 DEF SoftDeleteProduct, ProductLive, ProductRows
<1>4. ASSUME NEW p \in Products, IncrementViewCount(p) PROVE ReferentialIntegrity'
  BY <1>4 DEF IncrementViewCount, ProductRows
<1>5. ASSUME NEW c \in Categories, NEW s \in Slugs, NEW d \in Categories \cup {Null},
             InsertCategory(c, s, d)
      PROVE  ReferentialIntegrity'
  BY <1>5 DEF InsertCategory
<1>6. ASSUME NEW c \in Categories, NEW s \in Slugs, UpdateCategory(c, s)
      PROVE  ReferentialIntegrity'
  BY <1>6 DEF UpdateCategory, CategoryRows
<1>7. ASSUME NEW c \in Categories, DeleteCategory(c) PROVE ReferentialIntegrity'
  <2>1. CASE ~CategoryLive(c)
    BY <1>7, <2>1 DEF DeleteCategory
  <2>2. CASE CategoryLive(c)
    <3>1. \A p \in Products : ProductStored(p) => products[p].category # c
      BY <1>7, <2>2 DEF DeleteCategory, CategoryReferenced
    <3>2. \A d \in Categories : d # c =>
            categories'[d].state = categories[d].state
      BY <1>7, <2>2 DEF DeleteCategory, CategoryRows
    <3>3. \A p \in Products : ProductStored(p)' => CategoryLive(products[p].category)'
      BY <1>7, <3>1, <3>2 DEF DeleteCategory
    <3>4. ASSUME NEW d \in Categories, CategoryLive(d)'
          PROVE  ParentOK(categories[d].parent)'
      <4>1. d # c /\ CategoryLive(d)
        BY <1>7, <2>2, <3>2, <3>4 DEF DeleteCategory, NoCategory
      <4>2. CASE categories[d].parent = c
        BY <1>7, <2>2, <4>1, <4>2 DEF DeleteCategory, Children, CategoryRows
      <4>3. CASE categories[d].parent # c
        <5>1. categories'[d] = categories[d]
          BY <1>7, <2>2, <4>1, <4>3 DEF DeleteCategory, Children
        <5> QED
          BY <3>2, <4>1, <4>3, <5>1, NullAssumption
      <4> QED
        BY <4>2, <4>3
    <3> QED
      BY <3>3, <3>4
  <2> QED
    BY <2>1, <2>2
<1>8. CASE UNCHANGED storeVars
  BY <1>8 DEF storeVars
<1> QED
  BY <1>1, <1>2, <1>3, <1>4, <1>5, <1>6, <1>7, <1>8 DEF StoreNext

(* No statement gives two live categories one slug. *)
LEMMA SlugsStep ==
    StoreTypeOK /\ SlugsUnique /\ [StoreNext]_storeVars => SlugsUnique'
<1> SUFFICES ASSUME StoreTypeOK, SlugsUnique, [StoreNext]_storeVars
             PROVE  SlugsUnique'
  OBVIOUS
<1> USE DEF StoreTypeOK, SlugsUnique, CategoryLive
<1>1. ASSUME UNCHANGED categories PROVE SlugsUnique'
  BY <1>1
<1>2. ASSUME NEW c \in Categories, NEW s \in Slugs, NEW d \in Categories \cup {Null},
             InsertCategory(c, s, d)
      PROVE  SlugsUnique'
  BY <1>2 DEF InsertCategory, SlugTaken
<1>3. ASSUME NEW c \in Categories, NEW s \in Slugs, UpdateCategory(c, s)
      PROVE  SlugsUnique'
  BY <1>3 DEF UpdateCategory, CategoryRows
<1>4. ASSUME NEW c \in Categories, DeleteCategory(c) PROVE SlugsUnique'
  <2>1. CASE ~CategoryLive(c)
    BY <1>4, <2>1 DEF DeleteCategory
  <2>2. CASE CategoryLive(c)
    <3>1. \A d \in Categories : CategoryLive(d)' =>
              CategoryLive(d) /\ categories'[d].slug = categories[d].slug
      BY <1>4, <2>2 DEF DeleteCategory, CategoryRows, NoCategory
    <3> QED
      BY <3>1
  <2> QED
    BY <2>1, <2>2
<1> QED
  BY <1>1, <1>2, <1>3, <1>4
     DEF StoreNext, InsertProduct, UpdateProduct, SoftDeleteProduct,
         IncrementViewCount, storeVars

(* No statement closes a cycle of parents. *)
LEMMA AcyclicStep ==
    /\ StoreTypeOK /\ ReferentialIntegrity /\ Acyclic
    /\ [StoreNext]_storeVars
    => Acyclic'
<1> SUFFICES ASSUME StoreTypeOK, ReferentialIntegrity, Acyclic, [StoreNext]_storeVars
             PROVE  Acyclic'
  OBVIOUS
<1> USE DEF StoreTypeOK, Acyclic, CategoryLive
<1>1. ASSUME UNCHANGED categories PROVE Acyclic'
  BY <1>1
<1>2. ASSUME NEW c \in Categories, NEW s \in Slugs, NEW d \in Categories \cup {Null},
             InsertCategory(c, s, d)
      PROVE  Acyclic'
  <2> SUFFICES ASSUME NEW S \in SUBSET {e \in Categories : CategoryLive(e)'}, S # {}
               PROVE  \E e \in S : categories'[e].parent \notin S
    OBVIOUS
  <2>1. /\ ~CategoryLive(c)
        /\ categories'[c].parent = d /\ d # c
        /\ \A e \in Categories \ {c} : categories'[e] = categories[e]
    BY <1>2, NullAssumption DEF InsertCategory, ParentOK
  <2> DEFINE T == S \ {c}
  <2>2. T \in SUBSET {e \in Categories : CategoryLive(e)}
    BY <2>1
  <2>3. CASE T = {}
    BY <2>1, <2>3
  <2>4. CASE T # {}
    <3>1. PICK e \in T : categories[e].parent \notin T
      BY <2>2, <2>4
    <3>2. categories[e].parent # c
      BY <2>1, <2>2, NullAssumption DEF ReferentialIntegrity, ParentOK
    <3> QED
      BY <2>1, <3>1, <3>2
  <2> QED
    BY <2>3, <2>4
<1>3. ASSUME NEW c \in Categories, NEW s \in Slugs, UpdateCategory(c, s)
      PROVE  Acyclic'
  <2>1. \A e \in Categories : /\ categories'[e].parent = categories[e].parent
                              /\ categories'[e].state = categories[e].state
    BY <1>3 DEF UpdateCategory, CategoryRows
  <2> QED
    BY <2>1
<1>4. ASSUME NEW c \in Categories, DeleteCategory(c) PROVE Acyclic'
  <2>1. CASE ~CategoryLive(c)
    BY <1>4, <2>1 DEF DeleteCategory
  <2>2. CASE CategoryLive(c)
    <3>1. \A e \in Categories : CategoryLive(e)' =>
              /\ CategoryLive(e)
              /\ categories'[e].parent \in {categories[e].parent, Null}
      BY <1>4, <2>2 DEF DeleteCategory, CategoryRows, NoCategory
    <3>2. ASSUME NEW S \in SUBSET {e \in Categories : CategoryLive(e)'}, S # {}
          PROVE  \E e \in S : categories'[e].parent \notin S
      <4>1. PICK e \in S : categories[e].parent \notin S
        BY <3>1, <3>2
      <4> QED
        BY <3>1, <4>1, NullAssumption
    <3> QED
      BY <3>2
  <2> QED
    BY <2>1, <2>2
<1> QED
  BY <1>1, <1>2, <1>3, <1>4
     DEF StoreNext, InsertProduct, UpdateProduct, SoftDeleteProduct,
         IncrementViewCount, storeVars

(* Every statement that changes a text column fires the trigger. *)
LEMMA VectorStep ==
    StoreTypeOK /\ VectorFresh /\ [StoreNext]_storeVars => VectorFresh'
<1> SUFFICES ASSUME StoreTypeOK, VectorFresh, [StoreNext]_storeVars
             PROVE  VectorFresh'
  OBVIOUS
<1> USE DEF StoreTypeOK, VectorFresh, ProductStored
<1>1. ASSUME NEW p \in Products, NEW v \in ProductValues, InsertProduct(p, v)
      PROVE  VectorFresh'
  BY <1>1 DEF InsertProduct
<1>2. ASSUME NEW p \in Products, NEW v \in ProductValues, UpdateProduct(p, v)
      PROVE  VectorFresh'
  BY <1>2 DEF UpdateProduct, ProductLive, ProductRows
<1>3. ASSUME NEW p \in Products, SoftDeleteProduct(p) PROVE VectorFresh'
  BY <1>3 DEF SoftDeleteProduct, ProductLive, ProductRows
<1>4. ASSUME NEW p \in Products, IncrementViewCount(p) PROVE VectorFresh'
  BY <1>4 DEF IncrementViewCount, ProductRows
<1>5. ASSUME UNCHANGED products PROVE VectorFresh'
  BY <1>5
<1> QED
  BY <1>1, <1>2, <1>3, <1>4, <1>5
     DEF StoreNext, InsertCategory, UpdateCategory, DeleteCategory, storeVars

-----------------------------------------------------------------------------
(* The category tree, as GetDescendantIDs and GetTree walk it.              *)

LiveCategories == {c \in Categories : CategoryLive(c)}

(* A function that runs the recursive query for n rounds. *)
IsRounds(W, root, n) ==
    W = [k \in 0..n |-> IF k = 0 THEN {root} \cap {c \in Categories : CategoryLive(c)}
                        ELSE UNION {Children(c) : c \in W[k - 1]}]

LEMMA RoundsExist ==
    ASSUME NEW root, NEW n \in Nat
    PROVE  \E W : IsRounds(W, root, n)
<1> DEFINE A == {root} \cap {c \in Categories : CategoryLive(c)}
           T == {m \in Nat : ~\E W : IsRounds(W, root, m)}
<1>1. SUFFICES ASSUME T # {} PROVE FALSE
  OBVIOUS
<1>2. PICK m \in T : \A k \in T : m <= k
  BY <1>1, LeastNatural
<1>3. m \in Nat /\ ~\E W : IsRounds(W, root, m)
  BY <1>2
<1>4. CASE m = 0
  <2> DEFINE W == [k \in 0..0 |-> A]
  <2>1. \A k \in 0..0 : k = 0
    OBVIOUS
  <2>2. W = [k \in 0..0 |-> IF k = 0 THEN A ELSE UNION {Children(c) : c \in W[k - 1]}]
    BY <2>1
  <2> HIDE DEF W
  <2>3. IsRounds(W, root, m)
    BY <1>4, <2>2 DEF IsRounds
  <2> QED
    BY <1>3, <2>3
<1>5. CASE m # 0
  <2>1. m - 1 \in Nat /\ m - 1 \notin T
    BY <1>2, <1>3, <1>5
  <2>2. PICK V : IsRounds(V, root, m - 1)
    BY <2>1
  <2> DEFINE last == UNION {Children(c) : c \in V[m - 1]}
             W == [k \in 0..m |-> IF k = m THEN last ELSE V[k]]
  <2>3. \A k \in 0..(m - 1) :
           V[k] = IF k = 0 THEN A ELSE UNION {Children(c) : c \in V[k - 1]}
    BY <2>2 DEF IsRounds
  <2>4. ASSUME NEW k \in 0..m
        PROVE  W[k] = IF k = 0 THEN A ELSE UNION {Children(c) : c \in W[k - 1]}
    <3>1. CASE k = m
      <4>1. k - 1 \in 0..m /\ k - 1 # m /\ k # 0
        BY <1>3, <1>5, <3>1
      <4>2. W[k - 1] = V[k - 1] /\ W[k] = last
        BY <3>1, <4>1
      <4> HIDE DEF W
      <4> QED
        BY <3>1, <4>1, <4>2
    <3>2. CASE k # m
      <4>1. k \in 0..(m - 1) /\ (k # 0 => k - 1 \in 0..m /\ k - 1 # m)
        BY <1>3, <3>2
      <4>2. W[k] = V[k] /\ (k # 0 => W[k - 1] = V[k - 1])
        BY <3>2, <4>1
      <4> HIDE DEF W
      <4>3. V[k] = IF k = 0 THEN A ELSE UNION {Children(c) : c \in V[k - 1]}
        BY <2>3, <4>1
      <4> HIDE DEF A
      <4> QED
        BY <4>2, <4>3
    <3> QED
      BY <3>1, <3>2
  <2>5. W = [k \in 0..m |-> W[k]]
    OBVIOUS
  <2> HIDE DEF W, A
  <2>6. W = [k \in 0..m |-> IF k = 0 THEN A ELSE UNION {Children(c) : c \in W[k - 1]}]
    BY <2>4, <2>5
  <2>7. IsRounds(W, root, m)
    BY <2>6 DEF IsRounds, A
  <2> QED
    BY <1>3, <2>7
<1> QED
  BY <1>4, <1>5

LEMMA RoundsUnfold ==
    ASSUME NEW root
    PROVE  IsRounds(DescendantRounds(root), root, Cardinality(Categories))
<1>1. Cardinality(Categories) \in Nat
  BY CategoriesAssumption, FS_CardinalityType
<1>2. \E W : IsRounds(W, root, Cardinality(Categories))
  BY <1>1, RoundsExist
<1>3. DescendantRounds(root) = CHOOSE W : IsRounds(W, root, Cardinality(Categories))
  BY DEF DescendantRounds, IsRounds
<1> QED
  BY <1>2, <1>3

(* What the rounds of the query find: a category is found one round after   *)
(* its parent.                                                              *)
LEMMA RoundsStep ==
    ASSUME NEW root
    PROVE  LET N == Cardinality(Categories)
               W == DescendantRounds(root) IN
           /\ N \in Nat
           /\ W[0] = {root} \cap LiveCategories
           /\ \A k \in 1..N : \A c :
                 c \in W[k] <=> c \in LiveCategories /\ categories[c].parent \in W[k - 1]
<1> DEFINE N == Cardinality(Categories)
           W == DescendantRounds(root)
<1>1. N \in Nat
  BY CategoriesAssumption, FS_CardinalityType
<1>2. IsRounds(W, root, N)
  BY RoundsUnfold
<1> HIDE DEF N, W
<1>3. 0 \in 0..N /\ \A k \in 1..N : k \in 0..N /\ k # 0
  BY <1>1
<1>4. W[0] = {root} \cap LiveCategories
  BY <1>2, <1>3 DEF IsRounds, LiveCategories
<1>5. ASSUME NEW k \in 1..N
      PROVE  \A c : c \in W[k] <=> c \in LiveCategories /\ categories[c].parent \in W[k - 1]
  <2>1. W[k] = UNION {Children(c) : c \in W[k - 1]}
    BY <1>2, <1>3 DEF IsRounds
  <2> QED
    BY <2>1 DEF Children, LiveCategories
<1> QED
  BY <1>1, <1>4, <1>5 DEF N, W

LEMMA RoundsLive ==
    ASSUME NEW root, NEW k \in 0..Cardinality(Categories)
    PROVE  DescendantRounds(root)[k] \subseteq LiveCategories
<1>1. k = 0 \/ k \in 1..Cardinality(Categories)
  BY RoundsStep
<1> QED
  BY <1>1, RoundsStep

(* Without cycles of parents there is, in every finite set, also a category *)
(* without a child in the set.                                              *)
LEMMA SomeLeaf ==
    ASSUME Acyclic, NEW S \in SUBSET LiveCategories, S # {}
    PROVE  \E y \in S : \A z \in S : categories[z].parent # y
<1>1. SUFFICES ASSUME \A y \in S : \E z \in S : categories[z].parent = y PROVE FALSE
  OBVIOUS
<1> DEFINE D == {z \in S : categories[z].parent \in S}
           f == [z \in D |-> categories[z].parent]
<1>2. IsFiniteSet(S)
  BY CategoriesAssumption, FS_Subset DEF LiveCategories
<1>3. IsFiniteSet(D) /\ Cardinality(D) <= Cardinality(S)
      /\ (Cardinality(S) = Cardinality(D) => S = D)
      /\ Cardinality(S) \in Nat /\ Cardinality(D) \in Nat
  BY <1>2, FS_Subset, FS_CardinalityType
<1>4. f \in [D -> S] /\ \A y \in S : \E z \in D : f[z] = y
  BY <1>1
<1> HIDE DEF D, f
<1>5. f \in Surjection(D, S)
  BY <1>4 DEF Surjection
<1>6. Cardinality(S) <= Cardinality(D)
  BY <1>3, <1>5, FS_Surjection
<1>7. S = D
  BY <1>3, <1>6
<1>8. S # {} /\ S \in SUBSET {c \in Categories : CategoryLive(c)}
  BY DEF LiveCategories
<1>9. \E c \in S : categories[c].parent \notin S
  BY <1>8 DEF Acyclic
<1> QED
  BY <1>7, <1>9 DEF D

(* A category found in round k ends a chain of k + 1 categories. *)
Chain(S, x) ==
    /\ S \in SUBSET LiveCategories /\ x \in S
    /\ \A y \in S \ {x} : \E z \in S : categories[z].parent = y

LEMMA RoundsChain ==
    ASSUME Acyclic, NEW root, NEW k \in 0..Cardinality(Categories),
           NEW x \in DescendantRounds(root)[k]
    PROVE  \E S : Chain(S, x) /\ Cardinality(S) = k + 1
<1> DEFINE N == Cardinality(Categories)
           W == DescendantRounds(root)
           Deep(j) == \A y \in W[j] : \E S : Chain(S, y) /\ Cardinality(S) = j + 1
           T == {j \in 0..N : ~Deep(j)}
<1>0. /\ N \in Nat
      /\ W[0] = {root} \cap LiveCategories
      /\ \A j \in 1..N : \A c :
            c \in W[j] <=> c \in LiveCategories /\ categories[c].parent \in W[j - 1]
  BY RoundsStep
<1>1. SUFFICES ASSUME T # {} PROVE FALSE
  BY <1>0
<1>2. T \in SUBSET Nat
  BY <1>0
<1> HIDE DEF T
<1>3. PICK m \in T : \A j \in T : m <= j
  BY <1>1, <1>2, LeastNatural
<1>4. m \in 0..N /\ ~Deep(m)
  BY <1>3 DEF T
<1>5. PICK y \in W[m] : ~\E S : Chain(S, y) /\ Cardinality(S) = m + 1
  BY <1>4
<1> HIDE DEF W, N
<1>6. CASE m = 0
  <2>1. Chain({y}, y)
    BY <1>0, <1>5, <1>6 DEF Chain
  <2>2. Cardinality({y}) = m + 1
    BY <1>6, FS_Singleton
  <2> QED
    BY <1>5, <2>1, <2>2
<1>7. CASE m # 0
  <2>1. m \in 1..N /\ m - 1 \in 0..N /\ ~(m <= m - 1)
    BY <1>0, <1>4, <1>7
  <2> DEFINE p == categories[y].parent
  <2>2. y \in LiveCategories /\ p \in W[m - 1]
    BY <1>0, <1>5, <2>1
  <2>3. Deep(m - 1)
    BY <1>3, <2>1 DEF T
  <2>4. PICK S : Chain(S, p) /\ Cardinality(S) = (m - 1) + 1
    BY <2>2, <2>3
  <2>5. IsFiniteSet(S)
    BY <2>4, CategoriesAssumption, FS_Subset DEF Chain, LiveCategories
  <2>6. y \notin S
    <3> SUFFICES ASSUME y \in S PROVE FALSE
      OBVIOUS
    <3>1. \A v \in S : \E z \in S : categories[z].parent = v
      BY <2>4 DEF Chain
    <3>2. S \in SUBSET LiveCategories /\ S # {}
      BY <2>4 DEF Chain
    <3> QED
      BY <3>1, <3>2, SomeLeaf
  <2>7. Chain(S \cup {y}, y)
    BY <2>2, <2>4 DEF Chain
  <2>8. Cardinality(S \cup {y}) = m + 1
    <3>1. Cardinality(S \cup {y}) = Cardinality(S) + 1
      BY <2>5, <2>6, FS_AddElement
    <3> QED
      BY <2>1, <2>4, <3>1
  <2> QED
    BY <1>5, <2>7, <2>8
<1> QED
  BY <1>6, <1>7

LEMMA RoundsEnd ==
    ASSUME Acyclic, NEW root
    PROVE  DescendantRounds(root)[Cardinality(Categories)] = {}
<1> DEFINE N == Cardinality(Categories)
<1>1. N \in Nat
  BY RoundsStep
<1>2. SUFFICES ASSUME NEW x \in DescendantRounds(root)[N] PROVE FALSE
  OBVIOUS
<1>3. N \in 0..N
  BY <1>1
<1>4. PICK S : Chain(S, x) /\ Cardinality(S) = N + 1
  BY <1>2, <1>3, RoundsChain
<1>5. S \in SUBSET Categories
  BY <1>4 DEF Chain, LiveCategories
<1>6. Cardinality(S) <= N
  BY <1>5, CategoriesAssumption, FS_Subset
<1> QED
  BY <1>1, <1>4, <1>6

LEMMA FoundBelow ==
    ASSUME NEW root, NEW c
    PROVE  c \in DescendantIDs(root) <=>
              \E k \in 0..Cardinality(Categories) : c \in DescendantRounds(root)[k]
BY DEF DescendantIDs

(* The tree, as the recursive queries walk it. *)
LEMMA TreeFromRows ==
    ASSUME ReferentialIntegrity, Acyclic
    PROVE  TreeIsComplete
<1> DEFINE N == Cardinality(Categories)
<1>0. N \in Nat
  BY RoundsStep
<1>1. \A c \in Categories : DescendantRounds(c)[N] = {}
  BY RoundsEnd
<1>2. \A c \in TreeRoots : DescendantIDs(c) \subseteq LiveCategories
  BY FoundBelow, RoundsLive
<1>3. \A c \in LiveCategories : \E r \in TreeRoots : c \in DescendantIDs(r)
  <2> DEFINE U == {c \in LiveCategories : \A r \in TreeRoots : c \notin DescendantIDs(r)}
  <2>1. SUFFICES ASSUME U # {} PROVE FALSE
    OBVIOUS
  <2>2. U \in SUBSET {c \in Categories : CategoryLive(c)}
    BY DEF LiveCategories
  <2>3. PICK c \in U : categories[c].parent \notin U
    BY <2>1, <2>2 DEF Acyclic
  <2> DEFINE p == categories[c].parent
  <2>4. CASE p = Null
    <3>1. c \in TreeRoots
      BY <2>2, <2>4 DEF TreeRoots
    <3>2. c \in DescendantRounds(c)[0] /\ 0 \in 0..N
      BY <1>0, RoundsStep
    <3> QED
      BY <3>1, <3>2, FoundBelow
  <2>5. CASE p # Null
    <3>1. CategoryLive(p)
      BY <2>2, <2>5 DEF ReferentialIntegrity, ParentOK
    <3>2. p \in LiveCategories
      BY <3>1 DEF LiveCategories, CategoryLive
    <3>3. PICK r \in TreeRoots : p \in DescendantIDs(r)
      BY <2>3, <3>2
    <3>4. PICK k \in 0..N : p \in DescendantRounds(r)[k]
      BY <3>3, FoundBelow
    <3>5. r \in Categories
      BY DEF TreeRoots
    <3>6. k # N
      BY <1>1, <3>4, <3>5
    <3>7. k + 1 \in 1..N /\ k + 1 \in 0..N /\ (k + 1) - 1 = k
      BY <1>0, <3>6
    <3>8. c \in DescendantRounds(r)[k + 1]
      BY <3>4, <3>7, RoundsStep
    <3>9. c \in DescendantIDs(r)
      BY <3>7, <3>8, FoundBelow
    <3> QED
      BY <3>3, <3>9
  <2> QED
    BY <2>4, <2>5
<1>4. ASSUME NEW r \in TreeRoots, NEW s \in TreeRoots, r # s,
             DescendantIDs(r) \cap DescendantIDs(s) # {}
      PROVE  FALSE
  <2> DEFINE U == DescendantIDs(r) \cap DescendantIDs(s)
  <2>1. U \in SUBSET {c \in Categories : CategoryLive(c)}
    BY <1>2 DEF LiveCategories
  <2>2. PICK x \in U : categories[x].parent \notin U
    BY <1>4, <2>1 DEF Acyclic
  <2> DEFINE p == categories[x].parent
  (* Where x was found it either is the root or follows its parent. *)
  <2>3. \A t \in TreeRoots :
           x \in DescendantIDs(t) => x = t \/ (p \in Categories /\ p \in DescendantIDs(t))
    <3> SUFFICES ASSUME NEW t \in TreeRoots, x \in DescendantIDs(t), x # t
                 PROVE  p \in Categories /\ p \in DescendantIDs(t)
      OBVIOUS
    <3>1. PICK k \in 0..N : x \in DescendantRounds(t)[k]
      BY FoundBelow
    <3>2. k # 0
      BY <3>1, RoundsStep
    <3>3. k \in 1..N /\ k - 1 \in 0..N
      BY <1>0, <3>2
    <3>4. p \in DescendantRounds(t)[k - 1]
      BY <3>1, <3>3, RoundsStep
    <3>5. p \in LiveCategories
      BY <3>3, <3>4, RoundsLive
    <3> QED
      BY <3>3, <3>4, <3>5, FoundBelow DEF LiveCategories
  <2>4. p = Null => p \notin Categories
    BY NullAssumption
  <2>5. (x = r => p = Null) /\ (x = s => p = Null)
    BY DEF TreeRoots
  <2> QED
    BY <1>4, <2>2, <2>3, <2>4, <2>5
<1> QED
  BY <1>1, <1>2, <1>3, <1>4 DEF TreeIsComplete, LiveCategories

-----------------------------------------------------------------------------
(* The invariant of the two tables: rows well typed, no dangling reference,  *)
(* no slug used twice, no cycle of parents, no stale search vector.          *)
THEOREM StoreInvariant == StoreSpec => []StoreInv
<1>1. StoreInit => StoreInv
  BY StoreInitOK
<1>2. StoreInv /\ [StoreNext]_storeVars => StoreInv'
  BY StoreTypeStep, IntegrityStep, SlugsStep, AcyclicStep, VectorStep DEF StoreInv
<1> QED
  BY <1>1, <1>2, PTL DEF StoreSpec

(* Rows are always well typed. *)
THEOREM StoreTypeCorrect == StoreSpec => []StoreTypeOK
<1>1. StoreInv => StoreTypeOK
  BY DEF StoreInv
<1> QED
  BY <1>1, StoreInvariant, PTL

(* Products and categories never refer to a category that is gone. *)
THEOREM IntegrityHolds == StoreSpec => []ReferentialIntegrity
<1>1. StoreInv => ReferentialIntegrity
  BY DEF StoreInv
<1> QED
  BY <1>1, StoreInvariant, PTL

(* Live categories have pairwise different slugs. *)
THEOREM SlugsStayUnique == StoreSpec => []SlugsUnique
<1>1. StoreInv => SlugsUnique
  BY DEF StoreInv
<1> QED
  BY <1>1, StoreInvariant, PTL

(* The category tree is a forest, so GetDescendantIDs and the subtree        *)
(* filters end.                                                              *)
THEOREM TreeStaysAcyclic == StoreSpec => []Acyclic
<1>1. StoreInv => Acyclic
  BY DEF StoreInv
<1> QED
  BY <1>1, StoreInvariant, PTL

(* For any number of categories: every walk down the tree ends, and the     *)
(* subtrees of the roots hold every live category exactly once.             *)
THEOREM TreeStaysComplete == StoreSpec => []TreeIsComplete
<1>1. StoreInv => TreeIsComplete
  BY TreeFromRows DEF StoreInv
<1> QED
  BY <1>1, StoreInvariant, PTL

(* search_vector always matches the text columns. *)
THEOREM VectorStaysFresh == StoreSpec => []VectorFresh
<1>1. StoreInv => VectorFresh
  BY DEF StoreInv
<1> QED
  BY <1>1, StoreInvariant, PTL

-----------------------------------------------------------------------------
(* A statement can change only the view counter of a deleted product. *)
LEMMA DeletedProductStep ==
    ASSUME StoreTypeOK, [StoreNext]_storeVars,
           NEW p \in Products, products[p].state = "deleted"
    PROVE  \E n \in 0..MaxViews : products'[p] = [products[p] EXCEPT !.views = n]
<1> USE DEF StoreTypeOK, ProductRows
<1>1. /\ products[p].views \in 0..MaxViews
      /\ products[p] = [products[p] EXCEPT !.views = products[p].views]
  OBVIOUS
<1>2. CASE products'[p] = products[p]
  BY <1>1, <1>2
<1>3. CASE IncrementViewCount(p)
  <2>1. products[p].views + 1 \in 0..MaxViews
    BY <1>1, <1>3, MaxViewsAssumption DEF IncrementViewCount
  <2>2. products'[p] = [products[p] EXCEPT !.views = products[p].views + 1]
    BY <1>3 DEF IncrementViewCount
  <2> QED
    BY <2>1, <2>2
<1>4. ASSUME NEW q \in Products, NEW v \in ProductValues,
             InsertProduct(q, v) \/ UpdateProduct(q, v)
      PROVE  products'[p] = products[p]
  BY <1>4 DEF InsertProduct, UpdateProduct, ProductStored, ProductLive
<1>5. ASSUME NEW q \in Products, SoftDeleteProduct(q)
      PROVE  products'[p] = products[p]
  BY <1>5 DEF SoftDeleteProduct, ProductLive
<1>6. ASSUME NEW q \in Products, q # p, IncrementViewCount(q)
      PROVE  products'[p] = products[p]
  BY <1>6 DEF IncrementViewCount
<1>7. ASSUME UNCHANGED products PROVE products'[p] = products[p]
  BY <1>7
<1> QED
  BY <1>2, <1>3, <1>4, <1>5, <1>6, <1>7
     DEF StoreNext, InsertCategory, UpdateCategory, DeleteCategory, storeVars

(* No statement brings a dropped category back. *)
LEMMA DroppedCategoryStep ==
    ASSUME StoreTypeOK, [StoreNext]_storeVars,
           NEW c \in Categories, categories[c].state = "dropped"
    PROVE  categories'[c] = categories[c]
<1> USE DEF StoreTypeOK, CategoryLive
<1>1. ASSUME UNCHANGED categories PROVE categories'[c] = categories[c]
  BY <1>1
<1>2. ASSUME NEW e \in Categories, NEW s \in Slugs, NEW d \in Categories \cup {Null},
             InsertCategory(e, s, d)
      PROVE  categories'[c] = categories[c]
  BY <1>2 DEF InsertCategory
<1>3. ASSUME NEW e \in Categories, NEW s \in Slugs, UpdateCategory(e, s)
      PROVE  categories'[c] = categories[c]
  BY <1>3 DEF UpdateCategory
<1>4. ASSUME NEW e \in Categories, DeleteCategory(e)
      PROVE  categories'[c] = categories[c]
  BY <1>4 DEF DeleteCategory, Children
<1> QED
  BY <1>1, <1>2, <1>3, <1>4
     DEF StoreNext, InsertProduct, UpdateProduct, SoftDeleteProduct,
         IncrementViewCount, storeVars

(* Deletion is final: nothing revives or edits a deleted product or a        *)
(* dropped category; only the view counter of a deleted product still moves. *)
THEOREM DeletionStaysFinal == StoreSpec => DeletionIsFinal
<1>1. StoreTypeOK /\ [StoreNext]_storeVars =>
        [/\ \A p \in Products :
               products[p].state = "deleted"
               => \E n \in 0..MaxViews :
                       products'[p] = [products[p] EXCEPT !.views = n]
         /\ \A c \in Categories :
               categories[c].state = "dropped" => categories'[c] = categories[c]
        ]_storeVars
  BY DeletedProductStep, DroppedCategoryStep
<1> QED
  BY <1>1, StoreTypeCorrect, PTL DEF StoreSpec, DeletionIsFinal
=============================================================================
