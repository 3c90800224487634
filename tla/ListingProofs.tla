---------------------------- MODULE ListingProofs ----------------------------
(***************************************************************************)
(* The paginated lists, for any products, page sizes and width of an int.   *)
(*                                                                         *)
(* What a page holds is an order of a set cut at two positions; how long it *)
(* is depends on the size of the set only, so that ties, which the database *)
(* breaks anew in every query, do not matter.  ListInv says how far a walk  *)
(* over an undisturbed list has come: all the pages before the present one  *)
(* were full.                                                              *)
(*                                                                         *)
(* Which products a walk meets follows from their ranks, how many products  *)
(* of the list come before them.  WalkInv relates the ranks to the page the *)
(* walk has come to: what was seen has a lower rank as long as ranks only   *)
(* fall, what was not seen no lower one as long as they only rise.          *)
(***************************************************************************)
EXTENDS Listing, DataLemmas

Types ==
    /\ rows \in Seq(Products) /\ fits \subseteq Products
    /\ pc \in {"idle", "count", "fetch", "done", "failed"}
    /\ stop \in {"total_pages", "short_page", "one_page"}
    /\ size \in 1..MaxSize /\ page \in Nat \ {0}
    /\ list # "favorites" => total \in Nat
    /\ seen \in Seq(Products)
    /\ changed \in BOOLEAN

(* Items on the pages before the present one, if they were all full. *)
Before == (page - 1) * size

(* The state of a walk over a list that nobody has changed so far. *)
Undisturbed ==
    /\ pc = "fetch" => total = Cardinality(fits)
    /\ pc \in {"count", "fetch"} =>
          IF stop = "one_page" THEN Len(seen) = 0
          ELSE Len(seen) = Before /\ Before <= Cardinality(fits)
    /\ pc = "done" /\ stop # "one_page" => Len(seen) = total
    /\ pc = "done" /\ stop = "one_page" /\ Fits => Len(seen) = ItemsOn(page, total)

ListInv ==
    /\ Types
    /\ pc = "idle" => page = 1 /\ Len(seen) = 0
    /\ pc = "failed" => ~Fits
    /\ ~changed /\ list # "favorites" => Undisturbed

-----------------------------------------------------------------------------
(* Arithmetic. *)

LEMMA NextProduct ==
    ASSUME NEW p \in Nat \ {0}, NEW s \in Nat
    PROVE  /\ (p - 1) * s \in Nat
           /\ p * s = (p - 1) * s + s
           /\ ((p + 1) - 1) * s = p * s
OBVIOUS

(* total_pages is the least number of pages that hold all items. *)
LEMMA TotalPagesBounds ==
    ASSUME NEW n \in Nat, NEW s \in Nat \ {0}, NEW p \in Nat
    PROVE  /\ TotalPages(n, s) \in Int
           /\ p < TotalPages(n, s) => p * s < n
           /\ p >= TotalPages(n, s) => p * s >= n
<1> DEFINE d == n \div s
           m == n % s
<1>1. d \in Nat /\ m \in 0..(s - 1) /\ n = s * d + m
  OBVIOUS
<1>2. TotalPages(n, s) = d + (IF m # 0 THEN 1 ELSE 0)
  BY DEF TotalPages
<1> HIDE DEF d, m
<1>3. ASSUME p < TotalPages(n, s) PROVE p * s < n
  <2>1. CASE m # 0
    <3>1. p <= d
      BY <1>1, <1>2, <1>3, <2>1
    <3>2. p * s <= d * s
      BY <1>1, <3>1
    <3> QED
      BY <1>1, <2>1, <3>2
  <2>2. CASE m = 0
    <3>1. p + 1 <= d
      BY <1>1, <1>2, <1>3, <2>2
    <3>2. (p + 1) * s <= d * s
      BY <1>1, <3>1
    <3> QED
      BY <1>1, <2>2, <3>2
  <2> QED
    BY <2>1, <2>2
<1>4. ASSUME p >= TotalPages(n, s) PROVE p * s >= n
  <2>1. CASE m # 0
    <3>1. p >= d + 1
      BY <1>1, <1>2, <1>4, <2>1
    <3>2. p * s >= (d + 1) * s
      BY <1>1, <3>1
    <3> QED
      BY <1>1, <3>2
  <2>2. CASE m = 0
    <3>1. p >= d
      BY <1>1, <1>2, <1>4, <2>2
    <3>2. p * s >= d * s
      BY <1>1, <3>1
    <3> QED
      BY <1>1, <2>2, <3>2
  <2> QED
    BY <2>1, <2>2
<1> QED
  BY <1>1, <1>2, <1>3, <1>4

(* An offset that fits is what it should be. *)
LEMMA FittingOffset ==
    ASSUME NEW p \in Nat \ {0}, NEW s \in Nat, (p - 1) * s <= MaxInt
    PROVE  Offset(p, s) = (p - 1) * s
<1> DEFINE k == (p - 1) * s
           w == 2 * (MaxInt + 1)
<1>1. k \in Nat /\ k <= MaxInt /\ MaxInt \in Nat /\ w \in Nat
  BY NextProduct, ListingAssumption
<1>2. Offset(p, s) = ((k + MaxInt + 1) % w) - (MaxInt + 1)
  BY DEF Offset, Wrapped
<1>3. k + MaxInt + 1 < w
  BY <1>1
<1> HIDE DEF k, w
<1>4. (k + MaxInt + 1) % w = k + MaxInt + 1
  BY <1>1, <1>3
<1> QED
  BY <1>1, <1>2, <1>4 DEF k

(* How long a page is depends on the number of rows, not on their order. *)
LEMMA PageLength ==
    ASSUME NEW S, IsFiniteSet(S), NEW q \in SetToSeqs(S),
           NEW p \in Nat \ {0}, NEW s \in Nat, NEW k \in Nat, Offset(p, s) = k
    PROVE  /\ Page(q, p, s) \in Seq(S)
           /\ Len(Page(q, p, s)) = IF k + s < Cardinality(S) THEN s
                                   ELSE IF k < Cardinality(S) THEN Cardinality(S) - k
                                   ELSE 0
<1> DEFINE n == Cardinality(S)
           b == IF k + s < n THEN k + s ELSE n
<1>1. n \in Nat
  BY FS_CardinalityType
<1>2. q \in [1..n -> S]
  BY DEF SetToSeqs
<1>3. q \in Seq(S) /\ Len(q) = n
  BY <1>1, <1>2
<1>4. Page(q, p, s) = SubSeq(q, k + 1, b)
  BY <1>3 DEF Page
<1> HIDE DEF n
<1>5. b \in Nat /\ b <= n
  BY <1>1
<1>6. \A i \in (k + 1)..b : q[i] \in S
  BY <1>1, <1>2, <1>5
<1>7. /\ SubSeq(q, k + 1, b) \in Seq(S)
      /\ Len(SubSeq(q, k + 1, b)) = IF k + 1 <= b THEN b - (k + 1) + 1 ELSE 0
  <2> HIDE DEF b
  <2> QED
    BY <1>5, <1>6, SubSeqProperties
<1> QED
  BY <1>1, <1>4, <1>7 DEF n

-----------------------------------------------------------------------------
LEMMA SubsetsOfProducts ==
    /\ \A S \in SUBSET Products : IsFiniteSet(S) /\ Cardinality(S) \in Nat /\ Cardinality(S) <= MaxInt
    /\ \A S, T \in SUBSET Products : S \subseteq T => Cardinality(S) <= Cardinality(T)
<1>1. ASSUME NEW S \in SUBSET Products
      PROVE  IsFiniteSet(S) /\ Cardinality(S) \in Nat /\ Cardinality(S) <= MaxInt
  <2>1. /\ IsFiniteSet(S) /\ Cardinality(S) \in Nat /\ Cardinality(S) <= Cardinality(Products)
        /\ Cardinality(Products) \in Nat
    BY RowsAssumption, FS_Subset, FS_CardinalityType
  <2> QED
    BY <2>1, RowsAssumption, ListingAssumption
<1>2. ASSUME NEW S \in SUBSET Products, NEW T \in SUBSET Products, S \subseteq T
      PROVE  Cardinality(S) <= Cardinality(T)
  BY <1>1, <1>2, FS_Subset
<1> QED
  BY <1>1, <1>2

LEMMA ListFinite ==
    ASSUME rows \in Seq(Products), fits \subseteq Products
    PROVE  /\ Matching(list) \subseteq Products /\ IsFiniteSet(Matching(list))
           /\ Cardinality(fits) \in Nat /\ Cardinality(fits) <= MaxInt
<1>1. ToSet(rows) \subseteq Products
  BY DEF ToSet
<1>2. Matching(list) \in SUBSET Products /\ fits \in SUBSET Products
  BY <1>1 DEF Live, Matching
<1> QED
  BY <1>2, SubsetsOfProducts

LEMMA InitList == Init => ListInv
<1> SUFFICES ASSUME Init PROVE ListInv
  OBVIOUS
<1>0. /\ rows = <<>> /\ fits = {} /\ pc = "idle" /\ stop = "total_pages"
      /\ size = DefaultSize /\ page = 1 /\ total = 0 /\ seen = <<>>
      /\ changed = FALSE
  BY DEF Init
<1>1. rows \in Seq(Products) /\ seen \in Seq(Products) /\ Len(seen) = 0
  BY <1>0
<1>2. DefaultSize \in 1..MaxSize /\ 1 \in Nat \ {0} /\ 0 \in Nat
  BY ListingAssumption
<1>3. Types
  BY <1>0, <1>1, <1>2 DEF Types
<1> QED
  BY <1>0, <1>1, <1>3 DEF ListInv, Undisturbed

(* A write of another client either leaves the list as it is or is noted. *)
LEMMA WriteStep ==
    ASSUME ListInv, OthersWrite
    PROVE  ListInv'
<1>0. Watch
  BY DEF OthersWrite, CreateProduct, DeleteProduct, UpdateProduct, DeleteCategory,
         InsertFavorite, RemoveFavorite
<1>1. rows' \in Seq(Products) /\ fits' \subseteq Products
  <2>1. ASSUME NEW p \in Products, CreateProduct(p)
        PROVE  rows' \in Seq(Products) /\ fits' \subseteq Products
    <3>1. PICK i \in 1..(Len(rows) + 1) : rows' = InsertAt(rows, i, p)
      BY <2>1 DEF CreateProduct, Insertions
    <3> QED
      BY <2>1, <3>1, InsertAtProperties
         DEF CreateProduct, InFilter, OutOfFilter, ListInv, Types
  <2>2. ASSUME NEW p \in Products, UpdateProduct(p)
        PROVE  rows' \in Seq(Products) /\ fits' \subseteq Products
    BY <2>2 DEF UpdateProduct, InFilter, OutOfFilter, ListInv, Types
  <2>3. ASSUME NEW p, DeleteProduct(p) \/ DeleteCategory
        PROVE  rows' \in Seq(Products) /\ fits' \subseteq Products
    BY <2>3 DEF DeleteProduct, DeleteCategory, OutOfFilter, ListInv, Types
  <2>4. ASSUME NEW p, InsertFavorite(p) \/ RemoveFavorite(p)
        PROVE  rows' \in Seq(Products) /\ fits' \subseteq Products
    BY <2>4 DEF InsertFavorite, RemoveFavorite, ListInv, Types
  <2> QED
    BY <2>1, <2>2, <2>3, <2>4 DEF OthersWrite
<1>2. UNCHANGED <<pc, list, stop, size, page, total, seen>>
  BY <1>0 DEF Watch, walkVars
<1>3. Types'
  BY <1>0, <1>1, <1>2 DEF ListInv, Types, Watch
<1>4. Fits' = Fits /\ ItemsOn(page, total)' = ItemsOn(page, total) /\ Before' = Before
  BY <1>2 DEF Fits, ItemsOn, Before
<1>5. ASSUME ~changed', list # "favorites" PROVE Undisturbed'
  <2>1. ~changed /\ (pc # "idle" => fits' = fits)
    BY <1>0, <1>2, <1>5 DEF Watch, Walking, Matching
  <2>2. Undisturbed
    BY <1>5, <2>1 DEF ListInv
  <2> QED
    BY <1>2, <1>4, <2>1, <2>2 DEF Undisturbed
<1> QED
  BY <1>2, <1>3, <1>4, <1>5 DEF ListInv

LEMMA BeginStep == ListInv /\ Begin => ListInv'
<1> SUFFICES ASSUME ListInv, Begin PROVE ListInv'
  OBVIOUS
<1>0. /\ pc = "idle" /\ pc' = "count" /\ page = 1 /\ Len(seen) = 0
      /\ UNCHANGED <<rows, fits, list, total, seen, changed>>
  BY DEF Begin, ListInv, tableVars, changeVars
<1>1. size' \in 1..MaxSize
  BY ListingAssumption DEF Begin, Normalise
<1>2. /\ page' \in Nat \ {0}
      /\ stop' \in {"total_pages", "short_page", "one_page"}
      /\ stop' # "one_page" => page' = 1
  BY <1>0, ListingAssumption DEF Begin, Asked
<1>3. Types'
  BY <1>0, <1>1, <1>2 DEF ListInv, Types
<1>4. Undisturbed'
  <2>1. fits' = fits /\ Cardinality(fits) \in Nat
    BY <1>0, ListFinite DEF ListInv, Types
  <2>2. ASSUME stop' # "one_page" PROVE Before' = 0
    <3>1. page' = 1 /\ size' \in Int
      BY <1>1, <1>2, <2>2
    <3>2. \A s \in Int : (1 - 1) * s = 0
      OBVIOUS
    <3>3. (1 - 1) * size' = 0
      BY <3>1, <3>2, Zenon
    <3> QED
      BY <3>1, <3>3, Zenon DEF Before
  <2> QED
    BY <1>0, <2>1, <2>2 DEF Undisturbed
<1> QED
  BY <1>0, <1>3, <1>4 DEF ListInv

LEMMA CountStep == ListInv /\ Count => ListInv'
<1> SUFFICES ASSUME ListInv, Count PROVE ListInv'
  OBVIOUS
<1>0. /\ pc = "count" /\ pc' = "fetch" /\ total' = Cardinality(Counted(list))
      /\ UNCHANGED <<rows, fits, list, stop, size, page, seen, changed>>
  BY DEF Count, tableVars, changeVars
<1>1. Cardinality(fits) \in Nat /\ fits' = fits
  BY <1>0, ListFinite DEF ListInv, Types
<1>2. list # "favorites" => total' = Cardinality(fits)
  BY <1>0 DEF Counted
<1>3. Types'
  BY <1>0, <1>1, <1>2 DEF ListInv, Types
<1>4. ASSUME ~changed', list # "favorites" PROVE Undisturbed'
  BY <1>0, <1>1, <1>2, <1>4 DEF ListInv, Undisturbed, Before
<1> QED
  BY <1>0, <1>3, <1>4 DEF ListInv

LEMMA FetchFailsStep == ListInv /\ FetchFails => ListInv'
<1> SUFFICES ASSUME ListInv, FetchFails PROVE ListInv'
  OBVIOUS
<1>0. /\ pc' = "failed" /\ Offset(page, size) < 0
      /\ UNCHANGED <<rows, fits, list, stop, size, page, total, seen, changed>>
  BY DEF FetchFails, tableVars, changeVars
<1>1. Types'
  BY <1>0 DEF ListInv, Types
<1>2. page \in Nat \ {0} /\ size \in Nat
  BY ListingAssumption DEF ListInv, Types
<1>3. ~Fits
  <2>1. SUFFICES ASSUME Fits PROVE FALSE
    OBVIOUS
  <2>2. Offset(page, size) = (page - 1) * size /\ (page - 1) * size \in Nat
    BY <1>2, <2>1, FittingOffset, NextProduct DEF Fits
  <2> QED
    BY <1>0, <2>2
<1> QED
  BY <1>0, <1>1, <1>3 DEF ListInv, Undisturbed, Fits

(* A page of a walk: all of its items, or what is left of the list. *)
LEMMA FetchStep == ListInv /\ Fetch => ListInv'
<1> SUFFICES ASSUME ListInv, Fetch PROVE ListInv'
  OBVIOUS
<1> DEFINE n == Cardinality(fits)
           before == (page - 1) * size
           next == page * size
<1>0. /\ pc = "fetch" /\ Offset(page, size) >= 0
      /\ UNCHANGED <<rows, fits, list, stop, size, total, changed>>
  BY DEF Fetch, tableVars, changeVars
<1>1. PICK q \in Orders(list) :
          LET items == Page(q, page, size) IN
          /\ seen' = seen \o items
          /\ IF LastPage(items) THEN pc' = "done" /\ UNCHANGED page
                                ELSE pc' = "count" /\ page' = page + 1
  BY DEF Fetch
<1> DEFINE items == Page(q, page, size)
<1>2. /\ page \in Nat \ {0} /\ size \in Nat \ {0} /\ seen \in Seq(Products)
      /\ n \in Nat /\ n <= MaxInt /\ IsFiniteSet(Matching(list))
      /\ Matching(list) \subseteq Products
  BY ListingAssumption, ListFinite DEF ListInv, Types
<1>3. q \in SetToSeqs(Matching(list))
  BY DEF Orders
<1>4. Offset(page, size) \in Nat
  <2>1. (page - 1) * size \in Int /\ MaxInt \in Nat
    BY <1>2, NextProduct, ListingAssumption
  <2>2. \A x \in Int : Wrapped(x) \in Int
    BY <2>1 DEF Wrapped
  <2> QED
    BY <1>0, <2>1, <2>2 DEF Offset
<1>5. items \in Seq(Products)
  BY <1>2, <1>3, <1>4, PageLength
<1>6. seen' \in Seq(Products) /\ Len(seen') = Len(seen) + Len(items) /\ Len(items) \in Nat
  BY <1>1, <1>2, <1>5, ConcatProperties
<1>7. Types'
  BY <1>0, <1>1, <1>2, <1>6 DEF ListInv, Types
<1>8. pc' \in {"done", "count"} /\ fits' = fits
  BY <1>0, <1>1
<1>9. before \in Nat /\ next = before + size /\ ((page + 1) - 1) * size = next
  BY <1>2, NextProduct
<1>10. ASSUME ~changed', list # "favorites" PROVE Undisturbed'
  <2>1. /\ total = n /\ Matching(list) = fits
        /\ IF stop = "one_page" THEN Len(seen) = 0 ELSE Len(seen) = before /\ before <= n
    BY <1>0, <1>10 DEF ListInv, Undisturbed, Before, Matching
  <2>2. ASSUME before <= MaxInt
        PROVE  Len(items) = IF next < n THEN size ELSE IF before < n THEN n - before ELSE 0
    <3>1. Offset(page, size) = before
      BY <1>2, <2>2, FittingOffset
    <3> QED
      BY <1>2, <1>3, <1>9, <2>1, <3>1, PageLength
  <2>3. CASE stop = "one_page"
    <3>1. pc' = "done" /\ page' = page
      BY <1>1, <2>3 DEF LastPage
    <3>2. ASSUME before <= MaxInt PROVE Len(seen') = ItemsOn(page, total)
      <4>1. Len(seen') = Len(items)
        BY <1>6, <2>1, <2>3
      <4>2. ItemsOn(page, total) = IF n <= before THEN 0
                                   ELSE IF n < next THEN n - before ELSE size
        BY <2>1 DEF ItemsOn
      <4> HIDE DEF n, before, next, items
      <4> QED
        BY <1>2, <1>9, <2>2, <3>2, <4>1, <4>2
    <3> QED
      BY <1>0, <2>3, <3>1, <3>2 DEF Undisturbed, Fits, ItemsOn
  <2>4. CASE stop # "one_page"
    <3>1. before <= n /\ Len(seen) = before
      BY <2>1, <2>4
    <3>2. Len(items) = IF next < n THEN size ELSE n - before
      <4>1. MaxInt \in Nat
        BY ListingAssumption
      <4> HIDE DEF n, before, next, items
      <4>2. before <= MaxInt
        BY <1>2, <1>9, <3>1, <4>1
      <4> QED
        BY <1>2, <1>9, <2>2, <3>1, <4>2
    <3>3. Len(seen') = IF next < n THEN next ELSE n
      <4> HIDE DEF n, before, next, items
      <4> QED
        BY <1>2, <1>6, <1>9, <3>1, <3>2
    <3>4. CASE LastPage(items)
      <4>1. next >= n
        <5>1. CASE stop = "total_pages"
          BY <1>2, <2>1, <3>4, <5>1, TotalPagesBounds DEF LastPage
        <5>2. CASE stop = "short_page"
          BY <1>2, <3>2, <3>4, <5>2 DEF LastPage
        <5> QED
          BY <2>4, <5>1, <5>2 DEF ListInv, Types
      <4>2. Len(seen') = total
        BY <1>2, <1>9, <2>1, <3>3, <4>1
      <4> QED
        BY <1>0, <1>1, <2>4, <3>4, <4>2 DEF Undisturbed
    <3>5. CASE ~LastPage(items)
      <4>1. next <= n
        <5>1. CASE stop = "total_pages"
          <6>1. ~(page >= TotalPages(n, size)) /\ page \in Nat
            BY <1>2, <2>1, <3>5, <5>1 DEF LastPage
          <6>2. TotalPages(n, size) \in Int
            BY <1>2, TotalPagesBounds
          <6>3. page < TotalPages(n, size)
            <7> HIDE DEF n
            <7> QED
              BY <6>1, <6>2
          <6>4. next < n
            BY <1>2, <6>3, TotalPagesBounds
          <6> HIDE DEF n, next
          <6> QED
            BY <1>2, <1>9, <6>4
        <5>2. CASE stop = "short_page"
          <6>1. Len(items) >= size
            BY <1>2, <1>6, <3>5, <5>2 DEF LastPage
          <6> HIDE DEF n, before, next, items
          <6> QED
            BY <1>2, <1>9, <3>2, <6>1
        <5> QED
          BY <2>4, <5>1, <5>2 DEF ListInv, Types
      <4>2. Len(seen') = next
        BY <1>2, <1>9, <3>3, <4>1
      <4>3. pc' = "count" /\ page' = page + 1
        BY <1>1, <3>5
      <4>4. Before' = next
        BY <1>0, <1>9, <4>3 DEF Before
      <4> QED
        BY <1>0, <1>8, <2>4, <4>1, <4>2, <4>3, <4>4 DEF Undisturbed
    <3> QED
      BY <3>4, <3>5
  <2> QED
    BY <2>3, <2>4
<1> QED
  BY <1>0, <1>7, <1>8, <1>10 DEF ListInv

LEMMA CloseStep == ListInv /\ Close => ListInv'
<1> SUFFICES ASSUME ListInv, Close PROVE ListInv'
  OBVIOUS
<1>0. /\ pc' = "idle" /\ stop' = "total_pages" /\ size' = DefaultSize /\ page' = 1
      /\ total' = 0 /\ seen' = <<>> /\ changed' = FALSE
      /\ rows' = rows /\ fits' = fits /\ list' = list
  BY DEF Close, tableVars
<1>1. seen' \in Seq(Products) /\ Len(seen') = 0
  BY <1>0
<1>2. DefaultSize \in 1..MaxSize /\ 1 \in Nat \ {0} /\ 0 \in Nat
  BY ListingAssumption
<1>3. Types'
  BY <1>0, <1>1, <1>2 DEF ListInv, Types
<1> QED
  BY <1>0, <1>1, <1>3 DEF ListInv, Undisturbed

-----------------------------------------------------------------------------
(* For any number of products, any sizes and any width of an int that can   *)
(* count the rows: over a list that nobody changes, whatever ties in it,    *)
(* total is what the pages of a walk hold together, every page that is      *)
(* asked for on its own is as long as total says, and no request fails but  *)
(* those whose offset overflows.                                            *)
THEOREM PagesAlwaysAddUp == Spec => []PagesAddUp
<1>1. Init => ListInv
  BY InitList
<1>2. ListInv /\ [Next]_vars => ListInv'
  <2> SUFFICES ASSUME ListInv, [Next]_vars PROVE ListInv'
    OBVIOUS
  <2>1. CASE UNCHANGED vars
    BY <2>1
       DEF ListInv, Types, Undisturbed, Before, Fits, ItemsOn, vars, tableVars, walkVars,
           changeVars
  <2> QED
    BY <2>1, WriteStep, BeginStep, CountStep, FetchStep, FetchFailsStep, CloseStep DEF Next
<1>3. ListInv => PagesAddUp
  BY DEF ListInv, Types, Undisturbed, PagesAddUp, Quiet
<1> QED
  BY <1>1, <1>2, <1>3, PTL DEF Spec

-----------------------------------------------------------------------------
(* Positions.  In an order of the list, the place of a product that ties    *)
(* with none is given by the products that come before it: by how many, not *)
(* by which order the database has chosen.                                  *)

Distinct(t) == \A i, j \in 1..Len(t) : t[i] = t[j] => i = j

Ahead(p) == {x \in Matching(list) : Precedes(list, x, p)}

Rank(p) == Cardinality(Ahead(p))

TablesFit ==
    /\ rows \in Seq(Products) /\ Distinct(rows)
    /\ favorites \in Seq(Products) /\ Distinct(favorites)
    /\ deleted \subseteq ToSet(rows) /\ fits \subseteq Live
    /\ weight \in [Products -> Weights]

LEMMA AtLeastOnce ==
    ASSUME seen \in Seq(Products), NEW p \in ToSet(seen)
    PROVE  Times(p) \in Nat /\ Times(p) >= 1
<1> DEFINE I == {i \in 1..Len(seen) : seen[i] = p}
<1>1. Len(seen) \in Nat /\ \E i \in 1..Len(seen) : seen[i] = p
  BY DEF ToSet
<1>2. I # {}
  BY <1>1
<1>3. IsFiniteSet(1..Len(seen)) /\ I \in SUBSET (1..Len(seen))
  BY <1>1, FS_Interval
<1>4. IsFiniteSet(I)
  BY <1>3, FS_Subset
<1> HIDE DEF I
<1>5. Cardinality(I) \in Nat /\ Cardinality(I) # 0
  BY <1>2, <1>4, FS_EmptySet, FS_CardinalityType
<1> QED
  BY <1>5 DEF I, Times

LEMMA AtMostOnce ==
    ASSUME seen \in Seq(Products), NEW p,
           \A i, j \in 1..Len(seen) : seen[i] = p /\ seen[j] = p => i = j
    PROVE  Times(p) \in Nat /\ Times(p) <= 1
<1> DEFINE I == {i \in 1..Len(seen) : seen[i] = p}
<1>1. I = {} \/ \E i : I = {i}
  <2> SUFFICES ASSUME NEW i \in I PROVE I = {i}
    OBVIOUS
  <2>1. \A j \in I : j = i
    OBVIOUS
  <2> QED
    BY <2>1
<1> HIDE DEF I
<1>2. Cardinality(I) \in {0, 1}
  BY <1>1, FS_EmptySet, FS_Singleton
<1> QED
  BY <1>2 DEF I, Times

LEMMA OrderIsOnto ==
    ASSUME NEW S, IsFiniteSet(S), NEW q \in SetToSeqs(S)
    PROVE  /\ q \in Seq(S) /\ Len(q) = Cardinality(S) /\ Len(q) \in Nat /\ Distinct(q)
           /\ \A x \in S : \E i \in 1..Len(q) : q[i] = x
<1> DEFINE n == Cardinality(S)
           D == 1..n
<1>1. n \in Nat
  BY FS_CardinalityType
<1>2. q \in [D -> S] /\ \A i, j \in D : i # j => q[i] # q[j]
  BY DEF SetToSeqs
<1>3. IsFiniteSet(D) /\ Cardinality(D) = n
  <2> HIDE DEF n
  <2>1. Cardinality(1..n) = IF 1 > n THEN 0 ELSE n - 1 + 1
    BY <1>1, FS_Interval
  <2> QED
    BY <1>1, <2>1, FS_Interval
<1>4. q \in Seq(S) /\ Len(q) = n
  BY <1>1, <1>2
<1> HIDE DEF D
<1>5. q \in Injection(D, S)
  BY <1>2 DEF Injection, IsInjective
<1>6. q \in Surjection(D, S)
  BY <1>3, <1>5, FS_Injection
<1>7. \A x \in S : \E i \in D : q[i] = x
  BY <1>6 DEF Surjection
<1> QED
  BY <1>1, <1>2, <1>4, <1>7 DEF D, Distinct

(* Which items of an order a page shows. *)
LEMMA PageItems ==
    ASSUME NEW S, IsFiniteSet(S), NEW q \in SetToSeqs(S),
           NEW p \in Nat \ {0}, NEW s \in Nat, NEW k \in Nat, Offset(p, s) = k
    PROVE  \A j \in 1..Len(Page(q, p, s)) :
              /\ j <= s /\ k + j \in 1..Len(q) /\ Page(q, p, s)[j] = q[k + j]
<1> DEFINE n == Cardinality(S)
           b == IF k + s < n THEN k + s ELSE n
<1>1. n \in Nat /\ q \in Seq(S) /\ Len(q) = n
  BY OrderIsOnto
<1>2. Page(q, p, s) = SubSeq(q, k + 1, b)
  BY <1>1 DEF Page
<1> HIDE DEF n
<1>3. b \in Nat /\ b <= n /\ b <= k + s
  BY <1>1
<1>4. \A i \in (k + 1)..b : q[i] \in S
  BY <1>1, <1>3
<1> HIDE DEF b
<1>5. /\ Len(SubSeq(q, k + 1, b)) = IF k + 1 <= b THEN b - (k + 1) + 1 ELSE 0
      /\ \A j \in 1..(b - (k + 1) + 1) : SubSeq(q, k + 1, b)[j] = q[(k + 1) + j - 1]
  BY <1>3, <1>4, SubSeqProperties
<1>6. \A j \in Int : (k + 1) + j - 1 = k + j
  OBVIOUS
<1>7. \A j \in 1..Len(SubSeq(q, k + 1, b)) :
         j \in 1..(b - (k + 1) + 1) /\ j <= s /\ k + j \in 1..n
  BY <1>1, <1>3, <1>5
<1> SUFFICES ASSUME NEW j \in 1..Len(SubSeq(q, k + 1, b))
             PROVE  j <= s /\ k + j \in 1..n /\ SubSeq(q, k + 1, b)[j] = q[k + j]
  BY <1>1, <1>2
<1>8. (k + 1) + j - 1 = k + j
  BY <1>6
<1> QED
  BY <1>5, <1>7, <1>8

LEMMA MatchingFinite ==
    ASSUME TablesFit
    PROVE  /\ IsFiniteSet(Matching(list)) /\ Cardinality(Matching(list)) \in Nat
           /\ Cardinality(Matching(list)) <= MaxInt
           /\ Matching(list) \subseteq Products /\ Matching(list) \subseteq ToSet(rows)
<1>1. ToSet(rows) \subseteq Products /\ Matching(list) \subseteq ToSet(rows)
  BY DEF TablesFit, Matching, Live, ToSet
<1>2. Matching(list) \in SUBSET Products
  BY <1>1
<1> QED
  BY <1>1, <1>2, SubsetsOfProducts

LEMMA OlderIsStrict ==
    ASSUME NEW t \in Seq(Products), Distinct(t), NEW x \in ToSet(t), NEW y \in ToSet(t)
    PROVE  /\ ~(Older(t, x, y) /\ Older(t, y, x))
           /\ x # y => Older(t, x, y) \/ Older(t, y, x)
<1>1. PICK i \in 1..Len(t) : t[i] = x
  BY DEF ToSet
<1>2. PICK j \in 1..Len(t) : t[j] = y
  BY DEF ToSet
<1>3. Len(t) \in Nat /\ i \in Int /\ j \in Int
  OBVIOUS
<1>4. Older(t, x, y) => i < j
  BY <1>1, <1>2 DEF Older, Distinct
<1>5. Older(t, y, x) => j < i
  BY <1>1, <1>2 DEF Older, Distinct
<1>6. ~(i < j /\ j < i)
  BY <1>3
<1>7. ASSUME x # y PROVE Older(t, x, y) \/ Older(t, y, x)
  <2>1. i # j
    BY <1>1, <1>2, <1>7
  <2>2. i < j \/ j < i
    BY <1>3, <2>1
  <2> QED
    BY <1>1, <1>2, <2>2 DEF Older
<1> QED
  BY <1>4, <1>5, <1>6, <1>7

LEMMA NoneBeforeItself ==
    ASSUME TablesFit, list \in Lists, NEW p \in Matching(list)
    PROVE  ~Precedes(list, p, p)
<1>1. p \in ToSet(rows) /\ (list = "favorites" => p \in ToSet(favorites)) /\ p \in Products
  BY MatchingFinite DEF Matching
<1>2. ~Older(rows, p, p) /\ (list = "favorites" => ~Older(favorites, p, p))
  BY <1>1, OlderIsStrict DEF TablesFit
<1>3. weight[p] \in Nat
  BY <1>1, ListingAssumption DEF TablesFit
<1>4. ~(weight[p] > weight[p])
  BY <1>3
<1> QED
  BY <1>2, <1>4 DEF Precedes, Lists

(* A list sorted by time has no ties. *)
LEMMA TimeOrder ==
    ASSUME TablesFit, ByTime(list), NEW p \in Matching(list)
    PROVE  Untied(p)
<1>1. \A x \in Matching(list) :
         x \in ToSet(rows) /\ (list = "favorites" => x \in ToSet(favorites))
  BY MatchingFinite DEF Matching
<1>2. \A x \in Matching(list) \ {p} : Older(rows, x, p) \/ Older(rows, p, x)
  BY <1>1, OlderIsStrict DEF TablesFit
<1>3. list = "favorites" =>
         \A x \in Matching(list) \ {p} : Older(favorites, x, p) \/ Older(favorites, p, x)
  BY <1>1, OlderIsStrict DEF TablesFit
<1> QED
  BY <1>2, <1>3 DEF Untied, Precedes, ByTime

LEMMA RankBounds ==
    ASSUME TablesFit, list \in Lists, NEW p \in Matching(list)
    PROVE  /\ IsFiniteSet(Ahead(p)) /\ Rank(p) \in Nat
           /\ Rank(p) < Cardinality(Matching(list))
<1> DEFINE M == Matching(list)
<1>1. IsFiniteSet(M) /\ Cardinality(M) \in Nat
  BY MatchingFinite
<1>2. Ahead(p) \in SUBSET (M \ {p})
  BY NoneBeforeItself DEF Ahead
<1> HIDE DEF M
<1>3. IsFiniteSet(M \ {p}) /\ Cardinality(M \ {p}) = Cardinality(M) - 1
  BY <1>1, FS_RemoveElement DEF M
<1>4. /\ IsFiniteSet(Ahead(p)) /\ Cardinality(Ahead(p)) <= Cardinality(M \ {p})
      /\ Cardinality(Ahead(p)) \in Nat
  BY <1>2, <1>3, FS_Subset, FS_CardinalityType
<1> QED
  BY <1>1, <1>3, <1>4 DEF Rank, M

LEMMA UntiedPosition ==
    ASSUME TablesFit, list \in Lists, NEW q \in Orders(list), NEW i \in 1..Len(q),
           Untied(q[i])
    PROVE  Rank(q[i]) = i - 1
<1> DEFINE M == Matching(list)
           p == q[i]
           D == 1..(i - 1)
           f == [j \in D |-> q[j]]
<1>1. /\ q \in Seq(M) /\ Len(q) \in Nat /\ Distinct(q) /\ q \in SetToSeqs(M)
      /\ \A x \in M : \E j \in 1..Len(q) : q[j] = x
  BY MatchingFinite, OrderIsOnto DEF Orders
<1>2. \A j, k \in 1..Len(q) : j < k => ~Precedes(list, q[k], q[j])
  BY DEF Orders
<1>3. /\ i \in Nat /\ \A j \in D : j \in 1..Len(q) /\ j < i /\ j # i
      /\ \A j \in 1..Len(q) : j \in D \/ j = i \/ i < j
  BY <1>1
<1>4. p \in M /\ \A j \in 1..Len(q) : q[j] \in M
  BY <1>1
<1>5. ASSUME NEW j \in D PROVE q[j] \in Ahead(p)
  <2>1. q[j] \in M \ {p}
    BY <1>1, <1>3, <1>4 DEF Distinct
  <2>2. Precedes(list, p, q[j]) \/ Precedes(list, q[j], p)
    BY <2>1 DEF Untied
  <2>3. ~Precedes(list, p, q[j])
    BY <1>2, <1>3
  <2> QED
    BY <2>1, <2>2, <2>3 DEF Ahead
<1>6. ASSUME NEW x \in Ahead(p) PROVE \E j \in D : q[j] = x
  <2>1. x \in M /\ Precedes(list, x, p)
    BY DEF Ahead
  <2>2. PICK j \in 1..Len(q) : q[j] = x
    BY <1>1, <2>1
  <2>3. j # i
    BY <1>4, <2>1, <2>2, NoneBeforeItself
  <2>4. ~(i < j)
    BY <1>2, <2>1, <2>2
  <2> QED
    BY <1>3, <2>2, <2>3, <2>4
<1> HIDE DEF D
<1>7. \A j, k \in D : q[j] = q[k] => j = k
  BY <1>1, <1>3 DEF Distinct
<1>8. f \in Bijection(D, Ahead(p))
  <2>1. f \in [D -> Ahead(p)]
    BY <1>5
  <2>2. f \in Injection(D, Ahead(p))
    BY <2>1, <1>7 DEF Injection, IsInjective
  <2>3. f \in Surjection(D, Ahead(p))
    BY <2>1, <1>6 DEF Surjection
  <2> QED
    BY <2>2, <2>3 DEF Bijection
<1>9. IsFiniteSet(D) /\ Cardinality(D) = i - 1
  <2>1. i - 1 \in Int /\ 1 \in Int
    BY <1>3
  <2>2. IsFiniteSet(1..(i - 1)) /\ Cardinality(1..(i - 1)) = IF 1 > i - 1 THEN 0 ELSE i - 1 - 1 + 1
    BY <2>1, FS_Interval
  <2>3. i - 1 \in Nat
    BY <1>1
  <2> QED
    BY <2>2, <2>3 DEF D
<1>10. Cardinality(Ahead(p)) = Cardinality(D)
  <2>1. ExistsBijection(D, Ahead(p))
    BY <1>8 DEF ExistsBijection
  <2> QED
    BY <1>9, <2>1, FS_Bijection
<1> QED
  BY <1>9, <1>10 DEF Rank

(* A page of an untied list shows the products of its ranks. *)
LEMMA OnThePage ==
    ASSUME TablesFit, list \in Lists, page \in Nat \ {0}, size \in Nat \ {0},
           Before <= MaxInt, NEW q \in Orders(list), NEW p \in Matching(list), Untied(p)
    PROVE  p \in ToSet(Page(q, page, size)) <=> Before <= Rank(p) /\ Rank(p) < Before + size
<1> DEFINE M == Matching(list)
           n == Cardinality(M)
           items == Page(q, page, size)
<1>1. IsFiniteSet(M) /\ n \in Nat /\ q \in SetToSeqs(M)
  BY MatchingFinite DEF Orders
<1>2. Len(q) = n /\ Distinct(q) /\ \A x \in M : \E i \in 1..Len(q) : q[i] = x
  BY <1>1, OrderIsOnto
<1>3. Offset(page, size) = Before /\ Before \in Nat
  BY FittingOffset, NextProduct DEF Before
<1> HIDE DEF M
<1>4. /\ items \in Seq(M)
      /\ Len(items) = IF Before + size < n THEN size
                      ELSE IF Before < n THEN n - Before ELSE 0
  BY <1>1, <1>3, PageLength
<1>5. \A j \in 1..Len(items) :
         j <= size /\ Before + j \in 1..Len(q) /\ items[j] = q[Before + j]
  BY <1>1, <1>3, PageItems
<1> HIDE DEF n, items
<1>6. PICK i \in 1..Len(q) : q[i] = p
  BY <1>2 DEF M
<1>7. Rank(p) = i - 1
  BY <1>6, UntiedPosition
<1>8. ASSUME p \in ToSet(items) PROVE Before <= Rank(p) /\ Rank(p) < Before + size
  <2>1. PICK j \in 1..Len(items) : items[j] = p
    BY <1>8 DEF ToSet
  <2>2. j <= size /\ Before + j \in 1..Len(q) /\ q[Before + j] = p
    BY <1>5, <2>1
  <2>3. Before + j = i
    BY <1>2, <1>6, <2>2 DEF Distinct
  <2>4. Len(items) \in Nat /\ j \in Nat /\ j >= 1
    BY <1>4
  <2> QED
    BY <1>3, <1>7, <2>2, <2>3, <2>4
<1>9. ASSUME Before <= Rank(p), Rank(p) < Before + size PROVE p \in ToSet(items)
  <2>1. /\ i \in Nat /\ i >= 1 /\ i <= n
        /\ Before <= i - 1 /\ i - 1 < Before + size
    BY <1>1, <1>2, <1>7, <1>9
  <2>2. i - Before \in 1..Len(items) /\ Before + (i - Before) = i
    BY <1>1, <1>3, <1>4, <2>1
  <2>3. items[i - Before] = p
    BY <1>5, <1>6, <2>2
  <2> QED
    BY <2>2, <2>3 DEF ToSet
<1> QED
  BY <1>8, <1>9 DEF items

-----------------------------------------------------------------------------
(* How the tables change under a walk: in each of them the rows that stay   *)
(* keep their order, wherever a new one comes in.                           *)

LEMMA InsertOrder ==
    ASSUME NEW t \in Seq(Products), Distinct(t), NEW p \in Products, p \notin ToSet(t),
           NEW u \in Insertions(t, p)
    PROVE  /\ u \in Seq(Products) /\ Distinct(u) /\ ToSet(u) = ToSet(t) \cup {p}
           /\ \A x, y \in ToSet(t) : Older(u, x, y) <=> Older(t, x, y)
<1>0. PICK k \in 1..(Len(t) + 1) : u = InsertAt(t, k, p)
  BY DEF Insertions
<1> DEFINE new(j) == IF j < k THEN j ELSE j + 1
<1>1. /\ u \in Seq(Products) /\ Len(u) = Len(t) + 1 /\ Len(t) \in Nat
      /\ u[k] = p
      /\ \A j \in 1..Len(t) : u[new(j)] = t[j]
  BY <1>0, InsertAtProperties
<1>2. /\ k \in 1..Len(u)
      /\ \A j \in 1..Len(t) : new(j) \in 1..Len(u)
      /\ \A i \in 1..Len(u) : i = k \/ \E j \in 1..Len(t) : i = new(j)
  <2>1. ASSUME NEW i \in 1..Len(u), i # k PROVE \E j \in 1..Len(t) : i = new(j)
    <3>1. CASE i < k
      BY <1>1, <3>1
    <3>2. CASE i > k
      <4>1. i - 1 \in 1..Len(t) /\ new(i - 1) = i
        BY <1>1, <3>2
      <4> QED
        BY <4>1
    <3> QED
      BY <1>1, <2>1, <3>1, <3>2
  <2>2. k \in 1..Len(u) /\ \A j \in 1..Len(t) : new(j) \in 1..Len(u)
    BY <1>1
  <2> QED
    BY <2>1, <2>2
<1>3. \A i, j \in 1..Len(t) : /\ new(i) = new(j) => i = j
                              /\ i < j <=> new(i) < new(j)
  BY <1>1
<1> HIDE DEF new
<1>4. \A j \in 1..Len(t) : t[j] \in ToSet(t) /\ t[j] # p
  BY DEF ToSet
<1>5. Distinct(u)
  <2> SUFFICES ASSUME NEW a \in 1..Len(u), NEW b \in 1..Len(u), u[a] = u[b] PROVE a = b
    BY DEF Distinct
  <2>1. CASE a = k \/ b = k
    BY <1>1, <1>2, <1>4, <2>1
  <2>2. CASE a # k /\ b # k
    <3>1. PICK i, j \in 1..Len(t) : a = new(i) /\ b = new(j)
      BY <1>2, <2>2
    <3>2. t[i] = t[j]
      BY <1>1, <3>1
    <3> QED
      BY <3>1, <3>2 DEF Distinct
  <2> QED
    BY <2>1, <2>2
<1>6. ToSet(u) = ToSet(t) \cup {p}
  <2>0. \A x : /\ x \in ToSet(u) <=> \E i \in 1..Len(u) : u[i] = x
               /\ x \in ToSet(t) <=> \E i \in 1..Len(t) : t[i] = x
    BY <1>1 DEF ToSet
  <2>1. ASSUME NEW x \in ToSet(u) PROVE x = p \/ x \in ToSet(t)
    <3>1. PICK i \in 1..Len(u) : u[i] = x
      BY <2>0
    <3>2. CASE \E j \in 1..Len(t) : i = new(j)
      BY <1>1, <2>0, <3>1, <3>2
    <3> QED
      BY <1>1, <1>2, <3>1, <3>2
  <2>2. p \in ToSet(u) /\ \A x \in ToSet(t) : x \in ToSet(u)
    BY <1>1, <1>2, <2>0
  <2> QED
    BY <2>1, <2>2
<1>7. ASSUME NEW x \in ToSet(t), NEW y \in ToSet(t), Older(u, x, y) PROVE Older(t, x, y)
  <2>1. PICK a, b \in 1..Len(u) : u[a] = x /\ u[b] = y /\ a < b
    BY <1>7 DEF Older
  <2>2. x # p /\ y # p
    OBVIOUS
  <2>3. PICK i, j \in 1..Len(t) : a = new(i) /\ b = new(j)
    BY <1>1, <1>2, <2>1, <2>2
  <2>4. t[i] = x /\ t[j] = y /\ i < j
    BY <1>1, <1>3, <2>1, <2>3
  <2> QED
    BY <2>4 DEF Older
<1>8. ASSUME NEW x, NEW y, Older(t, x, y) PROVE Older(u, x, y)
  <2>1. PICK i, j \in 1..Len(t) : t[i] = x /\ t[j] = y /\ i < j
    BY <1>8 DEF Older
  <2>2. new(i) < new(j) /\ u[new(i)] = x /\ u[new(j)] = y
    BY <1>1, <1>3, <2>1
  <2> QED
    BY <1>2, <2>2 DEF Older
<1> QED
  BY <1>1, <1>5, <1>6, <1>7, <1>8

LEMMA RemoveOrder ==
    ASSUME NEW t \in Seq(Products), Distinct(t), NEW k \in 1..Len(t),
           NEW u, u = RemoveAt(t, k)
    PROVE  /\ u \in Seq(Products) /\ Distinct(u) /\ ToSet(u) \subseteq ToSet(t)
           /\ \A x, y \in ToSet(u) : Older(u, x, y) <=> Older(t, x, y)
<1> DEFINE old(j) == IF j < k THEN j ELSE j + 1
<1>1. /\ u \in Seq(Products) /\ Len(u) = Len(t) - 1 /\ Len(t) \in Nat
      /\ \A j \in 1..(Len(t) - 1) : u[j] = IF j < k THEN t[j] ELSE t[j + 1]
  <2>1. /\ RemoveAt(t, k) \in Seq(Products)
        /\ Len(RemoveAt(t, k)) = Len(t) - 1
        /\ \A j \in 1..(Len(t) - 1) :
              RemoveAt(t, k)[j] = IF j < k THEN t[j] ELSE t[j + 1]
    BY RemoveAtProperties
  <2> QED
    BY <2>1
<1>2. \A j \in 1..Len(u) : old(j) \in 1..Len(t) /\ u[j] = t[old(j)]
  BY <1>1
<1>3. \A i, j \in 1..Len(u) : /\ old(i) = old(j) => i = j
                              /\ i < j <=> old(i) < old(j)
  BY <1>1
<1> HIDE DEF old
<1>4. Distinct(u)
  BY <1>2, <1>3 DEF Distinct
<1>5. ToSet(u) \subseteq ToSet(t)
  BY <1>1, <1>2 DEF ToSet
<1>6. ASSUME NEW x, NEW y, Older(u, x, y) PROVE Older(t, x, y)
  <2>1. PICK i, j \in 1..Len(u) : u[i] = x /\ u[j] = y /\ i < j
    BY <1>6 DEF Older
  <2>2. old(i) < old(j) /\ t[old(i)] = x /\ t[old(j)] = y
    BY <1>2, <1>3, <2>1
  <2> QED
    BY <1>2, <2>2 DEF Older
<1>7. ASSUME NEW x \in ToSet(u), NEW y \in ToSet(u), Older(t, x, y) PROVE Older(u, x, y)
  <2>1. PICK i \in 1..Len(u) : u[i] = x
    BY DEF ToSet
  <2>2. PICK j \in 1..Len(u) : u[j] = y
    BY DEF ToSet
  <2>3. PICK a, b \in 1..Len(t) : t[a] = x /\ t[b] = y /\ a < b
    BY <1>7 DEF Older
  <2>4. a = old(i) /\ b = old(j)
    BY <1>2, <2>1, <2>2, <2>3 DEF Distinct
  <2>5. i < j
    BY <1>3, <2>3, <2>4
  <2> QED
    BY <2>1, <2>2, <2>5 DEF Older
<1> QED
  BY <1>1, <1>4, <1>5, <1>6, <1>7

(* What a write of another client does to the tables. *)
TablesKeep ==
    /\ \A x, y \in ToSet(rows) : Older(rows', x, y) <=> Older(rows, x, y)
    /\ \A x, y \in ToSet(favorites) \cap ToSet(favorites') :
          Older(favorites', x, y) <=> Older(favorites, x, y)

LEMMA InFilterStep ==
    ASSUME TablesFit, NEW p \in Products, InFilter(p)
    PROVE  fits' = fits \cup {p} /\ weight' \in [Products -> Weights]
<1>1. Hidden \in Weights
  BY ListingAssumption DEF Hidden
<1>2. PICK w \in IF ByWeight(list) THEN Weights ELSE {Hidden} : weight' = [weight EXCEPT ![p] = w]
  BY DEF InFilter
<1>3. w \in Weights
  BY <1>1
<1> QED
  BY <1>2, <1>3 DEF InFilter, TablesFit

LEMMA OutOfFilterStep ==
    ASSUME TablesFit, NEW S, OutOfFilter(S)
    PROVE  fits' = fits \ S /\ weight' \in [Products -> Weights]
<1>1. Hidden \in Weights
  BY ListingAssumption DEF Hidden
<1>2. \A p \in Products : weight[p] \in Weights
  BY DEF TablesFit
<1> QED
  BY <1>1, <1>2 DEF OutOfFilter

LEMMA TablesStep ==
    ASSUME TablesFit, OthersWrite
    PROVE  TablesFit' /\ TablesKeep
<1> USE DEF TablesFit, TablesKeep, Live
<1>1. ASSUME NEW p \in Products, CreateProduct(p) PROVE TablesFit' /\ TablesKeep
  <2>1. /\ p \notin ToSet(rows) /\ rows' \in Insertions(rows, p)
        /\ UNCHANGED <<deleted, favorites>>
    BY <1>1 DEF CreateProduct
  <2>2. /\ rows' \in Seq(Products) /\ Distinct(rows') /\ ToSet(rows') = ToSet(rows) \cup {p}
        /\ \A x, y \in ToSet(rows) : Older(rows', x, y) <=> Older(rows, x, y)
    BY <2>1, InsertOrder
  <2>3. fits' \subseteq fits \cup {p} /\ weight' \in [Products -> Weights]
    BY <1>1, InFilterStep, OutOfFilterStep DEF CreateProduct
  <2>4. fits' \subseteq ToSet(rows') \ deleted'
    BY <2>1, <2>2, <2>3
  <2> QED
    BY <2>1, <2>2, <2>3, <2>4 DEF Distinct
<1>2. ASSUME NEW p \in Products, DeleteProduct(p) PROVE TablesFit' /\ TablesKeep
  <2>1. p \in ToSet(rows) /\ deleted' = deleted \cup {p} /\ UNCHANGED <<rows, favorites>>
    BY <1>2 DEF DeleteProduct
  <2>2. fits' = fits \ {p} /\ weight' \in [Products -> Weights]
    BY <1>2, OutOfFilterStep DEF DeleteProduct
  <2> QED
    BY <2>1, <2>2 DEF Distinct
<1>3. ASSUME NEW p \in Products, UpdateProduct(p) PROVE TablesFit' /\ TablesKeep
  <2>1. p \in ToSet(rows) \ deleted /\ UNCHANGED <<rows, deleted, favorites>>
    BY <1>3 DEF UpdateProduct
  <2>2. fits' \subseteq fits \cup {p} /\ weight' \in [Products -> Weights]
    BY <1>3, InFilterStep, OutOfFilterStep DEF UpdateProduct
  <2> QED
    BY <2>1, <2>2 DEF Distinct
<1>4. CASE DeleteCategory
  <2>1. UNCHANGED <<rows, deleted, favorites>>
    BY <1>4 DEF DeleteCategory
  <2>2. fits' \subseteq fits /\ weight' \in [Products -> Weights]
    BY <1>4, OutOfFilterStep DEF DeleteCategory
  <2> QED
    BY <2>1, <2>2 DEF Distinct
<1>5. ASSUME NEW p \in Products, InsertFavorite(p) PROVE TablesFit' /\ TablesKeep
  <2>1. UNCHANGED <<rows, deleted, fits, weight>>
    BY <1>5 DEF InsertFavorite
  <2>2. CASE p \in ToSet(favorites)
    <3>1. UNCHANGED favorites
      BY <1>5, <2>2 DEF InsertFavorite
    <3> QED
      BY <2>1, <3>1 DEF Distinct
  <2>3. CASE p \notin ToSet(favorites)
    <3>1. favorites' \in Insertions(favorites, p)
      BY <1>5, <2>3 DEF InsertFavorite
    <3>2. /\ favorites' \in Seq(Products) /\ Distinct(favorites')
          /\ \A x, y \in ToSet(favorites) : Older(favorites', x, y) <=> Older(favorites, x, y)
      BY <2>3, <3>1, InsertOrder
    <3> QED
      BY <2>1, <3>2 DEF Distinct
  <2> QED
    BY <2>2, <2>3
<1>6. ASSUME NEW p \in Products, RemoveFavorite(p) PROVE TablesFit' /\ TablesKeep
  <2>1. UNCHANGED <<rows, deleted, fits, weight>>
    BY <1>6 DEF RemoveFavorite
  <2>2. CASE UNCHANGED favorites
    BY <2>1, <2>2 DEF Distinct
  <2>3. ASSUME NEW k \in 1..Len(favorites), favorites' = RemoveAt(favorites, k)
        PROVE  TablesFit' /\ TablesKeep
    <3>1. /\ favorites' \in Seq(Products) /\ Distinct(favorites')
          /\ \A x, y \in ToSet(favorites') : Older(favorites', x, y) <=> Older(favorites, x, y)
      BY <2>3, RemoveOrder
    <3> QED
      BY <2>1, <3>1 DEF Distinct
  <2> QED
    BY <1>6, <2>2, <2>3 DEF RemoveFavorite
<1> QED
  BY <1>1, <1>2, <1>3, <1>4, <1>5, <1>6 DEF OthersWrite

-----------------------------------------------------------------------------
(* The walk over a list that others change. *)

InWalk == pc \in {"count", "fetch"} /\ stop # "one_page"

Once(t, p) == \A i, j \in 1..Len(t) : t[i] = p /\ t[j] = p => i = j

SeenFits ==
    /\ pc = "idle" => page = 1
    /\ pc = "idle" \/ (pc \in {"count", "fetch"} /\ stop = "one_page") => seen = <<>>
    /\ InWalk => Before <= MaxInt
    /\ total <= MaxInt

(* When products can only move towards the head of the list, those that     *)
(* were seen stay on the pages the walk is past.                            *)
TwiceInv ==
    ByTime(list) /\ ~joined =>
        /\ Distinct(seen)
        /\ InWalk => \A p \in ToSet(seen) \cap Matching(list) : Rank(p) < Before

(* When products can only move away from the head, those that were not seen *)
(* stay on the pages to come.                                               *)
MissedInv ==
    ByTime(list) /\ ~left /\ stop = "short_page" =>
        /\ InWalk => /\ atStart \subseteq Matching(list)
                     /\ \A p \in atStart : p \in ToSet(seen) \/ Rank(p) >= Before
        /\ pc = "done" => atStart \subseteq ToSet(seen)

(* When none moves, those that tie with none are seen page by page.         *)
OnceInv ==
    Quiet /\ stop # "one_page" =>
        /\ pc = "fetch" => Cardinality(Matching(list)) <= total
        /\ \A p \in Matching(list) : Untied(p) =>
              /\ Once(seen, p)
              /\ InWalk => (p \in ToSet(seen) <=> Rank(p) < Before)
              /\ pc = "done" => p \in ToSet(seen)

WalkInv == TypeOK /\ TablesFit /\ SeenFits /\ TwiceInv /\ MissedInv /\ OnceInv

(* What a write means for the ranks of the list that is being walked.       *)
LEMMA RanksStep ==
    ASSUME WalkInv, TablesFit', TablesKeep, UNCHANGED list, changed' \/ UNCHANGED weight,
           NEW p \in Matching(list) \cap Matching(list)'
    PROVE  /\ Rank(p) \in Nat /\ Rank(p)' \in Nat
           /\ ByTime(list) /\ Matching(list)' \subseteq Matching(list) => Rank(p)' <= Rank(p)
           /\ ByTime(list) /\ Matching(list) \subseteq Matching(list)' => Rank(p) <= Rank(p)'
           /\ ~changed' /\ Matching(list) = Matching(list)' =>
                 Rank(p)' = Rank(p) /\ (Untied(p)' <=> Untied(p))
<1> DEFINE M == Matching(list)
           N == Matching(list)'
<1>0. TypeOK /\ TablesFit /\ list \in Lists /\ list' = list
  BY DEF WalkInv, TypeOK
<1>1. /\ \A x \in M : x \in ToSet(rows) /\ (list = "favorites" => x \in ToSet(favorites))
      /\ \A x \in N : x \in ToSet(rows') /\ (list = "favorites" => x \in ToSet(favorites'))
  BY <1>0 DEF Matching, Live, TablesFit
<1>2. M \subseteq Products /\ N \subseteq Products
  <2>1. ToSet(rows) \subseteq Products /\ ToSet(rows') \subseteq Products
    BY <1>0 DEF TablesFit, ToSet
  <2> QED
    BY <1>1, <2>1
<1>3. \A x, y \in M \cap N : ByTime(list) \/ ~changed' =>
          (Precedes(list, x, y)' <=> Precedes(list, x, y))
  <2> SUFFICES ASSUME NEW x \in M \cap N, NEW y \in M \cap N, ByTime(list) \/ ~changed'
               PROVE  Precedes(list, x, y)' <=> Precedes(list, x, y)
    OBVIOUS
  <2>1. /\ Older(rows, x, y)' <=> Older(rows, x, y)
        /\ Older(rows, y, x)' <=> Older(rows, y, x)
    BY <1>1 DEF TablesKeep, Older
  <2>2. list = "favorites" => (Older(favorites, y, x)' <=> Older(favorites, y, x))
    BY <1>1 DEF TablesKeep, Older
  <2>3. ByTime(list) \/ UNCHANGED weight
    OBVIOUS
  <2> QED
    BY <1>0, <2>1, <2>2, <2>3 DEF Precedes, ByTime, Lists
<1>4. Ahead(p) \in SUBSET Products /\ Ahead(p)' \in SUBSET Products
  BY <1>2 DEF Ahead
<1>5. Rank(p) \in Nat /\ Rank(p)' \in Nat
  BY <1>4, SubsetsOfProducts DEF Rank
<1>6. ASSUME Ahead(p) \subseteq Ahead(p)' PROVE Rank(p) <= Rank(p)'
  BY <1>4, <1>6, SubsetsOfProducts DEF Rank
<1>7. ASSUME Ahead(p)' \subseteq Ahead(p) PROVE Rank(p)' <= Rank(p)
  BY <1>4, <1>7, SubsetsOfProducts DEF Rank
<1>8. ASSUME ByTime(list) \/ ~changed', N \subseteq M PROVE Ahead(p)' \subseteq Ahead(p)
  BY <1>0, <1>3, <1>8 DEF Ahead
<1>9. ASSUME ByTime(list) \/ ~changed', M \subseteq N PROVE Ahead(p) \subseteq Ahead(p)'
  BY <1>0, <1>3, <1>9 DEF Ahead
<1>10. ASSUME ~changed', M = N PROVE Rank(p)' = Rank(p) /\ (Untied(p)' <=> Untied(p))
  <2>1. Rank(p)' = Rank(p)
    BY <1>5, <1>6, <1>7, <1>8, <1>9, <1>10
  <2>2. Untied(p)' <=> Untied(p)
    BY <1>0, <1>3, <1>10 DEF Untied
  <2> QED
    BY <2>1, <2>2
<1> QED
  BY <1>5, <1>6, <1>7, <1>8, <1>9, <1>10

LEMMA WalkWriteStep ==
    ASSUME WalkInv, OthersWrite
    PROVE  WalkInv'
<1> DEFINE M == Matching(list)
           N == Matching(list)'
<1>1. TablesFit' /\ TablesKeep
  BY TablesStep DEF WalkInv
<1>2. Watch
  BY DEF OthersWrite, CreateProduct, DeleteProduct, UpdateProduct, DeleteCategory,
         InsertFavorite, RemoveFavorite
<1>3. /\ UNCHANGED <<pc, list, stop, size, page, total, seen, atStart>>
      /\ Before' = Before /\ InWalk' = InWalk
  BY <1>2 DEF Watch, walkVars, Before, InWalk
<1>4. /\ joined' \in BOOLEAN /\ left' \in BOOLEAN /\ changed' \in BOOLEAN
      /\ ~joined' => ~joined /\ (pc # "idle" /\ ByTime(list) => N \subseteq M)
      /\ ~left' => ~left /\ (pc # "idle" /\ ByTime(list) => M \subseteq N)
      /\ ~changed' => ~changed /\ (pc # "idle" => N = M /\ weight' = weight)
  BY <1>2, <1>3 DEF Watch, Walking, WalkInv, TypeOK
<1>5. TypeOK'
  BY <1>1, <1>3, <1>4 DEF WalkInv, TypeOK, TablesFit, Live
<1>6. SeenFits'
  BY <1>3 DEF WalkInv, SeenFits
<1>7. TwiceInv'
  <2> SUFFICES ASSUME ByTime(list), ~joined'
               PROVE  /\ Distinct(seen)
                      /\ InWalk => \A p \in ToSet(seen) \cap N : Rank(p)' < Before
    BY <1>3 DEF TwiceInv, ByTime
  <2>1. /\ Distinct(seen)
        /\ InWalk => \A p \in ToSet(seen) \cap M : Rank(p) < Before
    BY <1>4 DEF WalkInv, TwiceInv
  <2>2. ASSUME InWalk, NEW p \in ToSet(seen) \cap N PROVE Rank(p)' < Before
    <3>1. N \subseteq M
      BY <1>4, <2>2 DEF InWalk
    <3>2. p \in M
      BY <3>1
    <3>3. changed' \/ UNCHANGED weight
      BY <1>4, <2>2 DEF InWalk
    <3>4. Rank(p) \in Nat /\ Rank(p)' \in Nat /\ Rank(p)' <= Rank(p)
      BY <1>1, <1>3, <3>1, <3>2, <3>3, RanksStep
    <3>5. Rank(p) < Before /\ Before \in Int
      BY <2>1, <2>2, <3>2, ListingAssumption DEF WalkInv, TypeOK, Before
    <3> QED
      BY <3>4, <3>5
  <2> QED
    BY <2>1, <2>2
<1>8. MissedInv'
  <2> SUFFICES ASSUME ByTime(list), ~left', stop = "short_page"
               PROVE  /\ InWalk => /\ atStart \subseteq N
                                   /\ \A p \in atStart : p \in ToSet(seen) \/ Rank(p)' >= Before
                      /\ pc = "done" => atStart \subseteq ToSet(seen)
    BY <1>3 DEF MissedInv, ByTime
  <2>1. /\ InWalk => /\ atStart \subseteq M
                     /\ \A p \in atStart : p \in ToSet(seen) \/ Rank(p) >= Before
        /\ pc = "done" => atStart \subseteq ToSet(seen)
    BY <1>4 DEF WalkInv, MissedInv
  <2>2. ASSUME InWalk, NEW p \in atStart, p \notin ToSet(seen) PROVE Rank(p)' >= Before
    <3>1. M \subseteq N /\ p \in M \cap N /\ (changed' \/ UNCHANGED weight)
      BY <1>4, <2>1, <2>2 DEF InWalk
    <3>2. Rank(p) \in Nat /\ Rank(p)' \in Nat /\ Rank(p) <= Rank(p)'
      BY <1>1, <1>3, <3>1, RanksStep
    <3>3. Rank(p) >= Before /\ Before \in Int
      BY <2>1, <2>2, ListingAssumption DEF WalkInv, TypeOK, Before
    <3> QED
      BY <3>2, <3>3
  <2>3. InWalk => atStart \subseteq N
    BY <1>4, <2>1 DEF InWalk
  <2> QED
    BY <2>1, <2>2, <2>3
<1>9. OnceInv'
  <2> SUFFICES ASSUME ~changed', stop # "one_page"
               PROVE  /\ pc = "fetch" => Cardinality(N) <= total
                      /\ \A p \in N : Untied(p)' =>
                           /\ Once(seen, p)
                           /\ InWalk => (p \in ToSet(seen) <=> Rank(p)' < Before)
                           /\ pc = "done" => p \in ToSet(seen)
    BY <1>3 DEF OnceInv, Quiet, Once
  <2>1. CASE pc = "idle"
    BY <2>1 DEF WalkInv, SeenFits, Once, InWalk
  <2>2. CASE pc # "idle"
    <3>1. /\ pc = "fetch" => Cardinality(M) <= total
          /\ \A p \in M : Untied(p) =>
                /\ Once(seen, p)
                /\ InWalk => (p \in ToSet(seen) <=> Rank(p) < Before)
                /\ pc = "done" => p \in ToSet(seen)
      BY <1>4 DEF WalkInv, OnceInv, Quiet
    <3>2. M = N /\ UNCHANGED weight
      BY <1>4, <2>2
    <3>3. \A p \in M : Rank(p)' = Rank(p) /\ (Untied(p)' <=> Untied(p))
      BY <1>1, <1>3, <3>2, RanksStep
    <3> QED
      BY <3>1, <3>2, <3>3
  <2> QED
    BY <2>1, <2>2
<1> QED
  BY <1>1, <1>5, <1>6, <1>7, <1>8, <1>9 DEF WalkInv

LEMMA InitWalk == Init => WalkInv
<1> SUFFICES ASSUME Init PROVE WalkInv
  OBVIOUS
<1>0. /\ rows = <<>> /\ deleted = {} /\ fits = {} /\ favorites = <<>> /\ list \in Lists
      /\ pc = "idle" /\ stop = "total_pages" /\ size = DefaultSize /\ page = 1 /\ total = 0
      /\ seen = <<>> /\ atStart = {} /\ changed = FALSE /\ joined = FALSE /\ left = FALSE
  BY DEF Init
<1>1. weight \in [Products -> Weights]
  <2>1. Hidden \in Weights
    BY ListingAssumption DEF Hidden
  <2> QED
    BY <2>1 DEF Init
<1>2. <<>> \in Seq(Products) /\ Len(<<>>) = 0 /\ ToSet(<<>>) = {}
  BY DEF ToSet
<1>3. DefaultSize \in 1..MaxSize /\ 1 \in Nat \ {0} /\ 0 \in Nat /\ 0 <= MaxInt
  BY ListingAssumption
<1>4. TypeOK
  BY <1>0, <1>1, <1>2, <1>3 DEF TypeOK
<1>5. TablesFit
  BY <1>0, <1>1, <1>2 DEF TablesFit, Distinct
<1>6. SeenFits
  BY <1>0, <1>2, <1>3 DEF SeenFits, InWalk
<1>7. TwiceInv /\ MissedInv
  BY <1>0, <1>2 DEF TwiceInv, MissedInv, InWalk, Distinct
<1>8. OnceInv
  BY <1>0, <1>2 DEF OnceInv, InWalk, Once
<1> QED
  BY <1>4, <1>5, <1>6, <1>7, <1>8 DEF WalkInv

(* A step of the walking client leaves the list as it is. *)
LEMMA SameList ==
    ASSUME UNCHANGED <<tableVars, list>>
    PROVE  /\ Matching(list)' = Matching(list)
           /\ \A p : Rank(p)' = Rank(p) /\ (Untied(p)' <=> Untied(p))
<1>1. UNCHANGED <<rows, deleted, fits, weight, favorites, list>>
  BY DEF tableVars
<1>2. Matching(list)' = Matching(list)
  BY <1>1 DEF Matching, Live
<1>3. \A x, y : Precedes(list, x, y)' <=> Precedes(list, x, y)
  BY <1>1 DEF Precedes, Older
<1>4. ASSUME NEW p PROVE Rank(p)' = Rank(p) /\ (Untied(p)' <=> Untied(p))
  <2>1. Ahead(p)' = Ahead(p)
    BY <1>1, <1>2, <1>3 DEF Ahead
  <2>2. Untied(p)' <=> Untied(p)
    BY <1>1, <1>2, <1>3 DEF Untied
  <2> QED
    BY <2>1, <2>2 DEF Rank
<1> QED
  BY <1>2, <1>4

LEMMA WalkBeginStep == WalkInv /\ Begin => WalkInv'
<1> SUFFICES ASSUME WalkInv, Begin PROVE WalkInv'
  OBVIOUS
<1>0. /\ pc = "idle" /\ pc' = "count" /\ page = 1 /\ seen = <<>>
      /\ UNCHANGED <<rows, deleted, fits, weight, favorites, list, total, seen, changed, joined, left>>
      /\ UNCHANGED <<tableVars, list>>
      /\ atStart' = Matching(list)
  BY DEF Begin, tableVars, changeVars, WalkInv, SeenFits
<1>1. size' \in 1..MaxSize
  BY ListingAssumption DEF Begin, Normalise
<1>2. /\ page' \in Nat \ {0}
      /\ stop' \in {"total_pages", "short_page", "one_page"}
      /\ stop' # "one_page" => page' = 1
  BY <1>0, ListingAssumption DEF Begin, Asked
<1>3. TablesFit' /\ TablesFit
  BY <1>0 DEF WalkInv, TablesFit, Live, Distinct
<1>4. TypeOK'
  BY <1>0, <1>1, <1>2, <1>3, MatchingFinite DEF WalkInv, TypeOK, Live
<1>5. Matching(list)' = Matching(list) /\ \A p : Rank(p)' = Rank(p)
  BY <1>0, SameList
<1>6. \A p \in Matching(list)' : Rank(p)' \in Nat
  BY <1>3, <1>5, RankBounds DEF WalkInv, TypeOK
<1>7. InWalk' => Before' = 0
  <2> SUFFICES ASSUME stop' # "one_page" PROVE Before' = 0
    BY DEF InWalk
  <2>1. page' = 1 /\ size' \in Int
    BY <1>1, <1>2
  <2>2. \A s \in Int : (1 - 1) * s = 0
    OBVIOUS
  <2>3. (1 - 1) * size' = 0
    BY <2>1, <2>2, Zenon
  <2> QED
    BY <2>1, <2>3, Zenon DEF Before
<1>8. ToSet(seen') = {} /\ Len(seen') = 0
  BY <1>0 DEF ToSet
<1>9. SeenFits'
  <2>1. 0 <= MaxInt
    BY ListingAssumption
  <2> QED
    BY <1>0, <1>7, <1>8, <2>1 DEF WalkInv, SeenFits
<1>10. TwiceInv'
  BY <1>8 DEF TwiceInv, Distinct
<1>11. MissedInv'
  <2>1. \A p \in atStart' : InWalk' => Rank(p)' >= Before'
    BY <1>0, <1>5, <1>6, <1>7
  <2> QED
    BY <1>0, <1>5, <2>1 DEF MissedInv
<1>12. OnceInv'
  <2>1. \A p \in Matching(list)' : InWalk' => ~(Rank(p)' < Before')
    BY <1>6, <1>7
  <2> QED
    BY <1>0, <1>8, <2>1 DEF OnceInv, Once
<1> QED
  BY <1>3, <1>4, <1>9, <1>10, <1>11, <1>12 DEF WalkInv

LEMMA WalkCountStep == WalkInv /\ Count => WalkInv'
<1> SUFFICES ASSUME WalkInv, Count PROVE WalkInv'
  OBVIOUS
<1>0. /\ pc = "count" /\ pc' = "fetch" /\ total' = Cardinality(Counted(list))
      /\ UNCHANGED <<rows, deleted, fits, weight, favorites, list, stop, size, page, seen, atStart,
                     changed, joined, left>>
      /\ UNCHANGED <<tableVars, list>>
  BY DEF Count, tableVars, changeVars
<1>1. Before' = Before /\ InWalk' = InWalk
  BY <1>0 DEF Before, InWalk
<1>2. /\ Counted(list) \in SUBSET Products /\ Matching(list) \in SUBSET Products
      /\ Matching(list) \subseteq Counted(list)
  BY MatchingFinite DEF Counted, Matching, Live, ToSet, WalkInv, TablesFit
<1>3. total' \in Nat /\ total' <= MaxInt /\ Cardinality(Matching(list)) <= total'
  BY <1>0, <1>2, SubsetsOfProducts
<1>4. TablesFit'
  BY <1>0 DEF WalkInv, TablesFit, Live, Distinct
<1>5. TypeOK'
  BY <1>0, <1>3 DEF WalkInv, TypeOK, Live
<1>6. /\ Matching(list)' = Matching(list)
      /\ \A p : Rank(p)' = Rank(p) /\ (Untied(p)' <=> Untied(p))
  BY <1>0, SameList
<1>7. SeenFits'
  BY <1>0, <1>1, <1>3 DEF WalkInv, SeenFits
<1>8. TwiceInv'
  BY <1>0, <1>1, <1>6 DEF WalkInv, TwiceInv, ByTime, Distinct
<1>9. MissedInv'
  BY <1>0, <1>1, <1>6 DEF WalkInv, MissedInv, ByTime
<1>10. OnceInv'
  BY <1>0, <1>1, <1>3, <1>6 DEF WalkInv, OnceInv, Quiet, Once
<1> QED
  BY <1>4, <1>5, <1>7, <1>8, <1>9, <1>10 DEF WalkInv

LEMMA WalkFailsStep == WalkInv /\ FetchFails => WalkInv'
<1> SUFFICES ASSUME WalkInv, FetchFails PROVE WalkInv'
  OBVIOUS
<1>0. /\ pc = "fetch" /\ pc' = "failed"
      /\ UNCHANGED <<rows, deleted, fits, weight, favorites, list, stop, size, page, total, seen,
                     atStart, changed, joined, left>>
      /\ UNCHANGED <<tableVars, list>>
  BY DEF FetchFails, tableVars, changeVars
<1>1. ~InWalk'
  BY <1>0 DEF InWalk
<1>2. TablesFit' /\ TypeOK'
  BY <1>0 DEF WalkInv, TablesFit, TypeOK, Live, Distinct
<1>3. /\ Matching(list)' = Matching(list)
      /\ \A p : Rank(p)' = Rank(p) /\ (Untied(p)' <=> Untied(p))
  BY <1>0, SameList
<1>4. SeenFits'
  BY <1>0, <1>1 DEF WalkInv, SeenFits
<1>5. TwiceInv' /\ MissedInv'
  BY <1>0, <1>1 DEF WalkInv, TwiceInv, MissedInv, ByTime, Distinct
<1>6. OnceInv'
  BY <1>0, <1>1, <1>3 DEF WalkInv, OnceInv, Quiet, Once
<1> QED
  BY <1>2, <1>4, <1>5, <1>6 DEF WalkInv

LEMMA WalkCloseStep == WalkInv /\ Close => WalkInv'
<1> SUFFICES ASSUME WalkInv, Close PROVE WalkInv'
  OBVIOUS
<1>0. /\ pc' = "idle" /\ stop' = "total_pages" /\ size' = DefaultSize /\ page' = 1
      /\ total' = 0 /\ seen' = <<>> /\ atStart' = {}
      /\ changed' = FALSE /\ joined' = FALSE /\ left' = FALSE
      /\ UNCHANGED <<rows, deleted, fits, weight, favorites, list>>
  BY DEF Close, tableVars
<1>1. seen' \in Seq(Products) /\ Len(seen') = 0 /\ ToSet(seen') = {}
  BY <1>0 DEF ToSet
<1>2. DefaultSize \in 1..MaxSize /\ 1 \in Nat \ {0} /\ 0 \in Nat /\ 0 <= MaxInt
  BY ListingAssumption
<1>3. TablesFit' /\ TypeOK'
  <2>1. TablesFit'
    BY <1>0 DEF WalkInv, TablesFit, Live, Distinct
  <2>2. /\ seen' \in Seq(Products) /\ atStart' \subseteq Products
        /\ {changed', joined', left'} \subseteq BOOLEAN
        /\ size' \in 1..MaxSize /\ page' \in Nat \ {0} /\ total' \in Nat
    BY <1>0, <1>1, <1>2
  <2>3. pc' = "idle" /\ stop' = "total_pages" /\ list' \in Lists
    BY <1>0 DEF WalkInv, TypeOK
  <2> QED
    BY <2>1, <2>2, <2>3 DEF TypeOK, TablesFit, Live
<1>4. SeenFits'
  BY <1>0, <1>1, <1>2 DEF SeenFits, InWalk
<1>5. TwiceInv' /\ MissedInv'
  BY <1>0, <1>1 DEF TwiceInv, MissedInv, InWalk, Distinct
<1>6. OnceInv'
  BY <1>0, <1>1 DEF OnceInv, InWalk, Once
<1> QED
  BY <1>3, <1>4, <1>5, <1>6 DEF WalkInv

LEMMA ConcatOnce ==
    ASSUME NEW S, NEW a \in Seq(S), NEW b \in Seq(S)
    PROVE  /\ ToSet(a \o b) = ToSet(a) \cup ToSet(b)
           /\ \A p : Once(a, p) /\ Once(b, p) /\ ~(p \in ToSet(a) /\ p \in ToSet(b))
                      => Once(a \o b, p)
<1> DEFINE c == a \o b
<1>1. /\ c \in Seq(S) /\ Len(a) \in Nat /\ Len(b) \in Nat /\ Len(c) = Len(a) + Len(b)
      /\ \A i \in 1..(Len(a) + Len(b)) : c[i] = IF i <= Len(a) THEN a[i] ELSE b[i - Len(a)]
  BY ConcatProperties
<1> HIDE DEF c
<1>2. \A i \in 1..Len(c) : \/ i \in 1..Len(a) /\ c[i] = a[i]
                           \/ i - Len(a) \in 1..Len(b) /\ c[i] = b[i - Len(a)]
  BY <1>1
<1>3. \A i \in 1..Len(a) : i \in 1..Len(c) /\ c[i] = a[i]
  BY <1>1
<1>4. \A i \in 1..Len(b) : Len(a) + i \in 1..Len(c) /\ c[Len(a) + i] = b[i]
  <2> SUFFICES ASSUME NEW i \in 1..Len(b)
               PROVE  Len(a) + i \in 1..Len(c) /\ c[Len(a) + i] = b[i]
    OBVIOUS
  <2>1. /\ Len(a) + i \in 1..(Len(a) + Len(b)) /\ ~(Len(a) + i <= Len(a))
        /\ (Len(a) + i) - Len(a) = i
    BY <1>1
  <2> QED
    BY <1>1, <2>1
<1>5. ToSet(c) = ToSet(a) \cup ToSet(b)
  <2>0. c \in Seq(S)
    BY <1>1
  <2>1. \A x : x \in ToSet(c) <=> \E i \in 1..Len(c) : c[i] = x
    BY <2>0 DEF ToSet
  <2>2. \A x : x \in ToSet(a) <=> \E i \in 1..Len(a) : a[i] = x
    BY DEF ToSet
  <2>3. \A x : x \in ToSet(b) <=> \E i \in 1..Len(b) : b[i] = x
    BY DEF ToSet
  <2>4. \A x : x \in ToSet(c) => x \in ToSet(a) \/ x \in ToSet(b)
    BY <1>2, <2>1, <2>2, <2>3
  <2>5. \A x : x \in ToSet(a) => x \in ToSet(c)
    BY <1>3, <2>1, <2>2
  <2>6. \A x : x \in ToSet(b) => x \in ToSet(c)
    BY <1>4, <2>1, <2>3
  <2> QED
    BY <2>4, <2>5, <2>6
<1>6. ASSUME NEW p, Once(a, p), Once(b, p), ~(p \in ToSet(a) /\ p \in ToSet(b))
      PROVE  Once(c, p)
  <2> SUFFICES ASSUME NEW i \in 1..Len(c), NEW j \in 1..Len(c), c[i] = p, c[j] = p
               PROVE  i = j
    BY DEF Once
  <2>1. /\ \A k \in 1..Len(a) : a[k] \in ToSet(a)
        /\ \A k \in 1..Len(b) : b[k] \in ToSet(b)
    BY DEF ToSet
  <2>2. CASE i \in 1..Len(a) /\ a[i] = p /\ j \in 1..Len(a) /\ a[j] = p
    BY <1>6, <2>2 DEF Once
  <2>3. CASE /\ i - Len(a) \in 1..Len(b) /\ b[i - Len(a)] = p
             /\ j - Len(a) \in 1..Len(b) /\ b[j - Len(a)] = p
    <3>1. i - Len(a) = j - Len(a)
      BY <1>6, <2>3 DEF Once
    <3>2. i \in Int /\ j \in Int
      OBVIOUS
    <3> QED
      BY <1>1, <3>1, <3>2
  <2> QED
    BY <1>2, <1>6, <2>1, <2>2, <2>3
<1> QED
  BY <1>5, <1>6 DEF c

(* A page of the walk: the seen products stay behind it, the others are on  *)
(* it or ahead of it.                                                       *)
LEMMA WalkFetchStep == WalkInv /\ Fetch => WalkInv'
<1> SUFFICES ASSUME WalkInv, Fetch PROVE WalkInv'
  OBVIOUS
<1> DEFINE M == Matching(list)
           n == Cardinality(M)
           next == page * size
<1>0. /\ pc = "fetch" /\ Offset(page, size) >= 0
      /\ UNCHANGED <<rows, deleted, fits, weight, favorites, list, stop, size, total, atStart,
                     changed, joined, left>>
      /\ UNCHANGED <<tableVars, list>>
  BY DEF Fetch, tableVars, changeVars
<1>1. PICK q \in Orders(list) :
          LET items == Page(q, page, size) IN
          /\ seen' = seen \o items
          /\ IF LastPage(items) THEN pc' = "done" /\ UNCHANGED page
                                ELSE pc' = "count" /\ page' = page + 1
  BY DEF Fetch
<1> DEFINE items == Page(q, page, size)
<1>2. /\ page \in Nat \ {0} /\ size \in Nat \ {0} /\ seen \in Seq(Products)
      /\ total \in Nat /\ total <= MaxInt /\ MaxInt \in Nat /\ list \in Lists
      /\ stop \in {"total_pages", "short_page", "one_page"} /\ TablesFit
  BY ListingAssumption DEF WalkInv, TypeOK, SeenFits
<1>3. /\ IsFiniteSet(M) /\ n \in Nat /\ n <= MaxInt /\ M \subseteq Products
      /\ M \subseteq ToSet(rows)
  BY <1>2, MatchingFinite
<1>4. q \in SetToSeqs(M)
  BY DEF Orders
<1>5. Offset(page, size) \in Nat
  <2>1. (page - 1) * size \in Int
    BY <1>2, NextProduct
  <2>2. \A x \in Int : Wrapped(x) \in Int
    BY <1>2 DEF Wrapped
  <2> QED
    BY <1>0, <2>1, <2>2 DEF Offset
<1>6. /\ Before \in Nat /\ next = Before + size /\ ((page + 1) - 1) * size = next
  BY <1>2, NextProduct DEF Before
<1>7. /\ items \in Seq(M) /\ items \in Seq(Products)
      /\ Before <= MaxInt =>
            Len(items) = IF Before + size < n THEN size
                         ELSE IF Before < n THEN n - Before ELSE 0
  <2>1. items \in Seq(M)
    BY <1>2, <1>3, <1>4, <1>5, PageLength
  <2>2. Before <= MaxInt => Offset(page, size) = Before
    BY <1>2, FittingOffset DEF Before
  <2> QED
    BY <1>2, <1>3, <1>4, <1>6, <2>1, <2>2, PageLength
<1>8. \A p : Once(items, p)
  <2> SUFFICES ASSUME NEW i \in 1..Len(items), NEW j \in 1..Len(items), items[i] = items[j]
               PROVE  i = j
    BY DEF Once
  <2> DEFINE k == Offset(page, size)
  <2>1. /\ k + i \in 1..Len(q) /\ items[i] = q[k + i]
        /\ k + j \in 1..Len(q) /\ items[j] = q[k + j]
    BY <1>2, <1>3, <1>4, <1>5, PageItems
  <2>2. k + i = k + j
    BY <1>3, <1>4, <2>1, OrderIsOnto DEF Distinct
  <2>3. k \in Int /\ i \in Int /\ j \in Int
    BY <1>5
  <2> QED
    BY <2>2, <2>3
<1>9. /\ seen' \in Seq(Products) /\ ToSet(seen') = ToSet(seen) \cup ToSet(items)
      /\ \A p : Once(seen, p) /\ ~(p \in ToSet(seen) /\ p \in ToSet(items)) => Once(seen', p)
  BY <1>1, <1>2, <1>7, <1>8, ConcatOnce, ConcatProperties
<1>10. ToSet(items) \subseteq M
  BY <1>7 DEF ToSet
<1>11. Before <= MaxInt =>
          \A p \in M : Untied(p) =>
              (p \in ToSet(items) <=> Before <= Rank(p) /\ Rank(p) < next)
  BY <1>2, <1>6, OnThePage
<1>12. \A p \in M : Rank(p) \in Nat /\ Rank(p) < n
  BY <1>2, RankBounds
<1>13. /\ pc' \in {"done", "count"}
       /\ pc' = "count" => page' = page + 1 /\ Before' = next /\ ~LastPage(items)
                           /\ stop # "one_page"
       /\ pc' = "done" => LastPage(items) /\ page' = page
  BY <1>0, <1>1, <1>6 DEF LastPage, Before
<1>14. /\ M' = M
       /\ \A p : Rank(p)' = Rank(p) /\ (Untied(p)' <=> Untied(p))
  BY <1>0, SameList
<1>15. /\ stop # "one_page" => Before <= MaxInt
       /\ stop = "one_page" => seen = <<>> /\ ToSet(seen) = {}
  BY <1>0 DEF WalkInv, SeenFits, InWalk, ToSet
<1>16. InWalk' => next <= MaxInt /\ InWalk
  <2> SUFFICES ASSUME pc' = "count", stop # "one_page" PROVE next <= MaxInt
    BY <1>0, <1>13 DEF InWalk
  <2>1. ~LastPage(items) /\ Before <= MaxInt
    BY <1>13, <1>15
  <2>2. CASE stop = "total_pages"
    <3>1. ~(page >= TotalPages(total, size)) /\ TotalPages(total, size) \in Int
      BY <1>2, <2>1, <2>2, TotalPagesBounds DEF LastPage
    <3>2. page < TotalPages(total, size)
      BY <1>2, <3>1
    <3>3. next < total
      BY <1>2, <3>2, TotalPagesBounds
    <3> HIDE DEF next
    <3> QED
      BY <1>2, <1>6, <3>3
  <2>3. CASE stop = "short_page"
    <3>1. ~(Len(items) < size)
      BY <2>1, <2>3 DEF LastPage
    <3> HIDE DEF n, next, items
    <3> QED
      BY <1>2, <1>3, <1>6, <1>7, <2>1, <3>1
  <2> QED
    BY <1>2, <2>2, <2>3
<1>17. pc' = "done" /\ stop = "short_page" => n <= next
  <2> SUFFICES ASSUME pc' = "done", stop = "short_page" PROVE n <= next
    OBVIOUS
  <2>1. Len(items) < size /\ Before <= MaxInt
    BY <1>13, <1>15 DEF LastPage
  <2> HIDE DEF n, next, items
  <2> QED
    BY <1>2, <1>3, <1>6, <1>7, <2>1
<1> HIDE DEF M, n, next, items
<1>18. TablesFit'
  BY <1>0 DEF WalkInv, TablesFit, Live, Distinct
<1>19. TypeOK'
  <2>1. page' \in Nat \ {0}
    BY <1>2, <1>13
  <2> QED
    BY <1>0, <1>9, <1>13, <2>1 DEF WalkInv, TypeOK, Live
<1>20. SeenFits'
  BY <1>0, <1>2, <1>13, <1>16 DEF SeenFits, InWalk
<1>21. TwiceInv'
  <2> SUFFICES ASSUME ByTime(list), ~joined
               PROVE  /\ Distinct(seen')
                      /\ InWalk' => \A p \in ToSet(seen') \cap M : Rank(p) < next
    BY <1>0, <1>13, <1>14 DEF TwiceInv, ByTime, M, InWalk
  <2>2. /\ Distinct(seen)
        /\ InWalk => \A p \in ToSet(seen) \cap M : Rank(p) < Before
    BY DEF WalkInv, TwiceInv, M
  <2>3. \A p \in M : Untied(p)
    BY <1>2, TimeOrder DEF M
  <2>4. ASSUME NEW p, p \in ToSet(seen), p \in ToSet(items) PROVE FALSE
    <3>1. stop # "one_page" /\ p \in M
      BY <1>10, <1>15, <2>4
    <3>2. Rank(p) < Before
      BY <1>0, <2>2, <2>4, <3>1 DEF InWalk
    <3>3. Before <= Rank(p)
      BY <1>11, <1>15, <2>3, <2>4, <3>1
    <3> QED
      BY <1>6, <1>12, <3>1, <3>2, <3>3
  <2>5. Distinct(seen')
    <3>1. \A p : Once(seen, p)
      BY <2>2 DEF Distinct, Once
    <3>2. \A p : Once(seen', p)
      BY <1>9, <2>4, <3>1
    <3> QED
      BY <3>2 DEF Distinct, Once
  <2>6. ASSUME InWalk', NEW p \in ToSet(seen') \cap M PROVE Rank(p) < next
    <3>1. InWalk /\ Before <= MaxInt
      BY <1>15, <1>16, <2>6 DEF InWalk
    <3>2. CASE p \in ToSet(seen)
      <4>1. Rank(p) < Before
        BY <2>2, <3>1, <3>2
      <4> QED
        BY <1>2, <1>6, <1>12, <4>1
    <3>3. CASE p \in ToSet(items)
      BY <1>11, <2>3, <3>1, <3>3
    <3> QED
      BY <1>9, <3>2, <3>3
  <2> QED
    BY <2>5, <2>6
<1>22. MissedInv'
  <2> SUFFICES ASSUME ByTime(list), ~left, stop = "short_page"
               PROVE  /\ atStart \subseteq M
                      /\ \A p \in atStart : p \in ToSet(seen') \/ Rank(p) >= next
                      /\ pc' = "done" => atStart \subseteq ToSet(seen')
    BY <1>0, <1>13, <1>14 DEF MissedInv, ByTime, M, InWalk
  <2>1. /\ atStart \subseteq M
        /\ \A p \in atStart : p \in ToSet(seen) \/ Rank(p) >= Before
    BY <1>0 DEF WalkInv, MissedInv, M, InWalk
  <2>2. \A p \in M : Untied(p)
    BY <1>2, TimeOrder DEF M
  <2>3. ASSUME NEW p \in atStart, p \notin ToSet(seen') PROVE Rank(p) >= next
    <3>1. p \in M /\ Rank(p) >= Before /\ p \notin ToSet(items)
      BY <1>9, <2>1, <2>3
    <3>2. ~(Rank(p) < next)
      BY <1>6, <1>11, <1>12, <1>15, <2>2, <3>1
    <3> QED
      BY <1>2, <1>6, <1>12, <3>1, <3>2
  <2>4. ASSUME pc' = "done", NEW p \in atStart, p \notin ToSet(seen') PROVE FALSE
    <3>1. Rank(p) >= next /\ n <= next /\ p \in M
      BY <1>17, <2>1, <2>3, <2>4
    <3> QED
      BY <1>2, <1>3, <1>6, <1>12, <3>1
  <2> QED
    BY <2>1, <2>3, <2>4
<1>23. OnceInv'
  <2> SUFFICES ASSUME Quiet, stop # "one_page", NEW p \in M, Untied(p)
               PROVE  /\ Once(seen', p)
                      /\ InWalk' => (p \in ToSet(seen') <=> Rank(p) < next)
                      /\ pc' = "done" => p \in ToSet(seen')
    BY <1>0, <1>13, <1>14 DEF OnceInv, Quiet, M, InWalk
  <2>1. /\ n <= total /\ Once(seen, p)
        /\ p \in ToSet(seen) <=> Rank(p) < Before
    BY <1>0 DEF WalkInv, OnceInv, M, n, InWalk
  <2>2. p \in ToSet(items) <=> Before <= Rank(p) /\ Rank(p) < next
    BY <1>11, <1>15
  <2>3. Once(seen', p)
    BY <1>6, <1>9, <1>12, <2>1, <2>2
  <2>4. p \in ToSet(seen') <=> Rank(p) < next
    BY <1>2, <1>6, <1>9, <1>12, <2>1, <2>2
  <2>5. ASSUME pc' = "done" PROVE n <= next
    <3>1. CASE stop = "total_pages"
      <4>1. page >= TotalPages(total, size)
        BY <1>13, <2>5, <3>1 DEF LastPage
      <4>2. next >= total
        BY <1>2, <4>1, TotalPagesBounds DEF next
      <4> QED
        BY <1>2, <1>3, <1>6, <2>1, <4>2
    <3> QED
      BY <1>2, <1>17, <2>5, <3>1
  <2>6. pc' = "done" => Rank(p) < next
    BY <1>2, <1>3, <1>6, <1>12, <2>5
  <2> QED
    BY <2>3, <2>4, <2>6
<1> QED
  BY <1>18, <1>19, <1>20, <1>21, <1>22, <1>23 DEF WalkInv

LEMMA WalkInvHolds == Spec => []WalkInv
<1>1. WalkInv /\ [Next]_vars => WalkInv'
  <2> SUFFICES ASSUME WalkInv, [Next]_vars PROVE WalkInv'
    OBVIOUS
  <2>1. CASE UNCHANGED vars
    <3>1. /\ UNCHANGED <<rows, deleted, fits, weight, favorites, pc, list, stop, size, page, total,
                         seen, atStart, changed, joined, left>>
          /\ UNCHANGED <<tableVars, list>>
      BY <2>1 DEF vars, tableVars, walkVars, changeVars
    <3>2. /\ Matching(list)' = Matching(list)
          /\ \A p : Rank(p)' = Rank(p) /\ (Untied(p)' <=> Untied(p))
      BY <3>1, SameList
    <3>3. TypeOK' /\ TablesFit' /\ SeenFits'
      BY <3>1 DEF WalkInv, TypeOK, TablesFit, SeenFits, Distinct, InWalk, Before, Live
    <3>4. TwiceInv' /\ MissedInv'
      BY <3>1, <3>2 DEF WalkInv, TwiceInv, MissedInv, Distinct, InWalk, Before, ByTime
    <3>5. OnceInv'
      BY <3>1, <3>2 DEF WalkInv, OnceInv, Once, InWalk, Before, Quiet
    <3> QED
      BY <3>3, <3>4, <3>5 DEF WalkInv
  <2> QED
    BY <2>1, WalkWriteStep, WalkBeginStep, WalkCountStep, WalkFetchStep, WalkFailsStep,
       WalkCloseStep DEF Next
<1> QED
  BY <1>1, InitWalk, PTL DEF Spec

(* Tables, the position of the walk and what it has seen keep their types.  *)
THEOREM ListingTypeCorrect == Spec => []TypeOK
<1>1. WalkInv => TypeOK
  BY DEF WalkInv
<1> QED
  BY <1>1, WalkInvHolds, PTL

(* For any table, page size and width of an int: in a list sorted by time   *)
(* that nothing enters, no walk meets a product twice, whatever leaves it.  *)
THEOREM NothingIsSeenTwice == Spec => []NothingTwice
<1>1. WalkInv => NothingTwice
  BY AtMostOnce DEF WalkInv, TypeOK, TwiceInv, NothingTwice, Distinct
<1> QED
  BY <1>1, WalkInvHolds, PTL

(* In a list sorted by time that nothing leaves, a walk that ends at the    *)
(* first page that is not full has met all it began with, whatever entered  *)
(* the list meanwhile.                                                      *)
THEOREM NothingIsMissed == Spec => []NothingMissed
<1>1. WalkInv => NothingMissed
  BY AtLeastOnce DEF WalkInv, TypeOK, MissedInv, NothingMissed
<1> QED
  BY <1>1, WalkInvHolds, PTL

(* Over a list that nobody changes, however the database breaks the ties of *)
(* the others anew for each page, a walk meets every product that ties with *)
(* none exactly once.                                                       *)
THEOREM UntiedAlwaysExactlyOnce == Spec => []UntiedExactlyOnce
<1>1. WalkInv => UntiedExactlyOnce
  <2> SUFFICES ASSUME WalkInv, pc = "done", stop # "one_page", Quiet,
                      NEW p \in Matching(list), Untied(p)
               PROVE  Times(p) = 1
    BY DEF UntiedExactlyOnce
  <2>1. seen \in Seq(Products) /\ Once(seen, p) /\ p \in ToSet(seen)
    BY DEF WalkInv, TypeOK, OnceInv
  <2>2. Times(p) \in Nat /\ Times(p) >= 1
    BY <2>1, AtLeastOnce
  <2>3. Times(p) <= 1
    BY <2>1, AtMostOnce DEF Once
  <2> QED
    BY <2>2, <2>3
<1> QED
  BY <1>1, WalkInvHolds, PTL

=============================================================================
