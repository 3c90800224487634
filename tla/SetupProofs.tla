----------------------------- MODULE SetupProofs -----------------------------
(***************************************************************************)
(* Proofs about Setup, for any number of executions of the seed, any lists  *)
(* of sample rows and any identifiers of clients.                          *)
(*                                                                         *)
(* The inductive invariant says of the tables that their references exist,  *)
(* that slugs are unique and that an identifier the seed has drawn for a    *)
(* slug never carries another; and of each execution which of its rows the  *)
(* tables hold, by the loop it is in.                                       *)
(***************************************************************************)
EXTENDS Setup, TLAPS

(* An identifier that has a row, or had one. *)
Used(c) == c \in DOMAIN categories \cup removed

TablesInv ==
    /\ \A p \in DOMAIN products : Exists(products[p].category)
    /\ \A c, d \in DOMAIN categories :
            categories[c].slug = categories[d].slug => c = d
    /\ \A r \in Runs, s \in SeedSlugs :
            Exists(<<r, s>>) => categories[<<r, s>>].slug = s
    /\ \A r \in Runs, i \in 1..Len(ProductDefs) :
            <<r, i>> \in DOMAIN products \ moved =>
                products[<<r, i>>].category = <<r, ProductDefs[i]>>

(* A sample row was never in the table without the one it refers to. *)
OriginInv ==
    /\ \A r \in Runs, i \in 1..Len(ProductDefs) :
            <<r, i>> \in DOMAIN products => Used(<<r, ProductDefs[i]>>)
    /\ \A r \in Runs, s \in SeedSlugs \ {Root} :
            Used(<<r, s>>) => Used(<<r, Root>>)

(* Which sample rows an execution has inserted, by the loop it is in. *)
Progress(r) ==
    /\ pc[r] = "idle" => \A s \in SeedSlugs : ~Used(<<r, s>>)
    /\ pc[r] = "categories" =>
          \A i \in 1..Len(CategoryDefs) :
              i >= next[r] => ~Used(<<r, CategoryDefs[i]>>)
    /\ pc[r] \in {"idle", "categories"} =>
          \A i \in 1..Len(ProductDefs) : <<r, i>> \notin DOMAIN products
    /\ pc[r] = "products" =>
          \A i \in 1..Len(ProductDefs) :
              <<r, i>> \in DOMAIN products <=> i < next[r]
    /\ pc[r] \in {"queries", "done"} =>
          \A i \in 1..Len(ProductDefs) : <<r, i>> \in DOMAIN products
    /\ pc[r] \in {"idle", "categories", "products"} => queries[r] = 0
    /\ pc[r] = "queries" => queries[r] = next[r] - 1
    /\ pc[r] = "done" => queries[r] = QueryTotal

ProgressInv == \A r \in Runs : Progress(r)

IInv == TypeOK /\ TablesInv /\ OriginInv /\ ProgressInv

-----------------------------------------------------------------------------
(* The lists of sample rows. *)
LEMMA DefsFacts ==
    /\ Len(CategoryDefs) \in Nat /\ Len(CategoryDefs) > 1
    /\ \A i, j \in 1..Len(CategoryDefs) : CategoryDefs[i] = CategoryDefs[j] => i = j
    /\ Len(ProductDefs) \in Nat /\ Len(ProductDefs) > 0
    /\ QueryTotal \in Nat \ {0}
    /\ \A i \in 1..Len(CategoryDefs) : CategoryDefs[i] \in SeedSlugs
    /\ \A i \in 1..Len(ProductDefs) : ProductDefs[i] \in SeedSlugs \ {Root}
    /\ \A s \in SeedSlugs \ {Root} :
            \E i \in 1..Len(ProductDefs) : ProductDefs[i] = s
    /\ Root \in SeedSlugs
    /\ \E s \in SeedSlugs : s # Root
<1> DEFINE sections == {CategoryDefs[i] : i \in 2..Len(CategoryDefs)}
<1>1. /\ CategoryDefs \in Seq(SeedSlugs) /\ Len(CategoryDefs) > 1
      /\ \A i, j \in 1..Len(CategoryDefs) : CategoryDefs[i] = CategoryDefs[j] => i = j
      /\ ProductDefs \in Seq(sections) /\ QueryTotal \in Nat \ {0}
      /\ \A s \in sections : \E i \in 1..Len(ProductDefs) : ProductDefs[i] = s
  BY SetupAssumption DEF ListsOK, SeedSlugs
<1>2. \A i \in 1..Len(CategoryDefs) : CategoryDefs[i] \in SeedSlugs
  BY DEF SeedSlugs
<1>3. Len(CategoryDefs) \in Nat /\ Len(ProductDefs) \in Nat /\ Root \in SeedSlugs
  BY <1>1, <1>2 DEF Root
<1>4. sections = SeedSlugs \ {Root}
  <2>1. SeedSlugs \ {Root} \subseteq sections
    BY <1>3 DEF SeedSlugs, Root
  <2>2. sections \subseteq SeedSlugs \ {Root}
    BY <1>1, <1>3 DEF SeedSlugs, Root
  <2> QED
    BY <2>1, <2>2
<1>5. CategoryDefs[2] \in sections
  BY <1>1, <1>3
<1>6. \A i \in 1..Len(ProductDefs) : ProductDefs[i] \in sections
  BY <1>1
<1>7. Len(ProductDefs) > 0
  BY <1>1, <1>3, <1>5
<1> QED
  BY <1>1, <1>2, <1>3, <1>4, <1>5, <1>6, <1>7

(* The lists of the program are lists these theorems are about.             *)
(* seedCategories, seedProducts.                                            *)
THEOREM ProgramListsFit == ListsOK(SampleCategories, SampleProducts)
<1> DEFINE sections == {SampleCategories[i] : i \in 2..Len(SampleCategories)}
<1> DEFINE slugs == {SampleCategories[i] : i \in 1..Len(SampleCategories)}
<1>1. /\ SampleCategories \in Seq(slugs) /\ Len(SampleCategories) = 6
      /\ \A i, j \in 1..6 : SampleCategories[i] = SampleCategories[j] => i = j
  <2>1. Len(SampleCategories) = 6
    BY DEF SampleCategories
  <2>2. SampleCategories \in Seq(slugs)
    <3>1. \A i \in 1..6 : SampleCategories[i] \in slugs
      BY <2>1
    <3> HIDE DEF slugs
    <3>2. <<SampleCategories[1], SampleCategories[2], SampleCategories[3],
            SampleCategories[4], SampleCategories[5], SampleCategories[6]>> \in Seq(slugs)
      BY <3>1
    <3> QED
      BY <3>2 DEF SampleCategories
  <2>3. /\ SampleCategories[1] = "electronics" /\ SampleCategories[2] = "smartphones"
        /\ SampleCategories[3] = "laptops" /\ SampleCategories[4] = "tablets"
        /\ SampleCategories[5] = "accessories" /\ SampleCategories[6] = "headphones"
    BY DEF SampleCategories
  <2>4. \A i \in 1..6 : i = 1 \/ i = 2 \/ i = 3 \/ i = 4 \/ i = 5 \/ i = 6
    OBVIOUS
  <2>5. \A i, j \in 1..6 : SampleCategories[i] = SampleCategories[j] => i = j
    BY <2>3, <2>4
  <2> QED
    BY <2>1, <2>2, <2>5
<1>2. /\ "smartphones" \in sections /\ "laptops" \in sections
      /\ "tablets" \in sections /\ "accessories" \in sections
      /\ "headphones" \in sections
  BY <1>1 DEF SampleCategories
<1>3. \A s \in sections : s \in {"smartphones", "laptops", "tablets",
                                 "accessories", "headphones"}
  BY <1>1 DEF SampleCategories
<1> HIDE DEF sections
<1>4. \A i \in 1..28 : SampleProducts[i] \in sections
  BY <1>2 DEF SampleProducts, Smartphones, Laptops, Tablets, Headphones, Accessories
<1>5. SampleProducts \in Seq(sections) /\ Len(SampleProducts) = 28
  <2>1. SampleProducts \in [1..28 -> sections]
    BY <1>2 DEF SampleProducts, Smartphones, Laptops, Tablets, Headphones, Accessories
  <2>2. SampleProducts = [i \in 1..28 |-> SampleProducts[i]]
    BY <2>1
  <2>3. [i \in 1..28 |-> SampleProducts[i]] \in Seq(sections)
    BY <1>4
  <2>4. Len([i \in 1..28 |-> SampleProducts[i]]) = 28
    OBVIOUS
  <2> QED
    BY <2>2, <2>3, <2>4
<1>6. /\ SampleProducts[1] = "smartphones" /\ SampleProducts[8] = "laptops"
      /\ SampleProducts[14] = "tablets" /\ SampleProducts[18] = "headphones"
      /\ SampleProducts[23] = "accessories"
  BY DEF SampleProducts, Smartphones, Laptops, Tablets, Headphones, Accessories
<1>7. \A s \in sections : \E i \in 1..28 : SampleProducts[i] = s
  BY <1>3, <1>6
<1> USE DEF sections
<1> QED
  BY <1>1, <1>5, <1>7 DEF ListsOK

LEMMA InitIInv == Init => IInv
<1> SUFFICES ASSUME Init PROVE IInv
  OBVIOUS
<1>1. DOMAIN categories = {} /\ DOMAIN products = {}
  BY DEF Init
<1>2. TypeOK
  BY <1>1, SetupAssumption, DefsFacts DEF Init, TypeOK, Length, AnalyticsScript
<1>3. TablesInv /\ OriginInv /\ ProgressInv
  BY <1>1, DefsFacts DEF Init, TablesInv, OriginInv, ProgressInv, Progress, Used, Exists
<1> QED
  BY <1>2, <1>3 DEF IInv

-----------------------------------------------------------------------------
(* Where a statement that was executed leaves its execution, and that the   *)
(* others stay where they are.                                              *)
Places == {"idle", "categories", "products", "queries", "done", "failed"}

PlacesOK ==
    /\ pc \in [Runs -> Places] /\ next \in [Runs -> Nat]
    /\ \A r \in Runs : next[r] \in 1..Length(pc[r])

LEMMA FailMoves ==
    ASSUME PlacesOK, NEW r \in Runs, Fail(r)
    PROVE  /\ PlacesOK'
           /\ \A q \in Runs \ {r} : pc'[q] = pc[q] /\ next'[q] = next[q]
           /\ pc'[r] = "failed"
BY DEF PlacesOK, Fail, Places, Length

LEMMA ExecutedMoves ==
    ASSUME PlacesOK, NEW r \in Runs, Working(r), Executed(r)
    PROVE  /\ PlacesOK'
           /\ \A q \in Runs \ {r} : pc'[q] = pc[q] /\ next'[q] = next[q]
           /\ \/ /\ next[r] < Length(pc[r])
                 /\ pc'[r] = pc[r] /\ next'[r] = next[r] + 1
              \/ /\ next[r] = Length(pc[r])
                 /\ pc'[r] = Following[pc[r]] /\ next'[r] = 1
              \/ pc'[r] = "failed"
<1>1. CASE Fail(r)
  BY <1>1, FailMoves
<1>2. CASE Advance(r) /\ next[r] < Length(pc[r])
  <2>1. Length(pc[r]) \in Nat
    BY DefsFacts DEF Length
  <2> QED
    BY <1>2, <2>1 DEF Advance, PlacesOK
<1>3. CASE Advance(r) /\ ~(next[r] < Length(pc[r]))
  <2>1. Length(pc[r]) \in Nat /\ next[r] = Length(pc[r])
    BY <1>3, DefsFacts DEF Length, PlacesOK
  <2>2. Following[pc[r]] \in Places
    BY DEF Working, Following, Places
  <2>3. pc' = [pc EXCEPT ![r] = Following[pc[r]]] /\ next' = [next EXCEPT ![r] = 1]
    BY <1>3 DEF Advance
  <2>4. \A q \in Runs : Length(pc'[q]) \in Nat /\ 1 <= Length(pc'[q])
    BY DefsFacts DEF Length
  <2> QED
    BY <2>1, <2>2, <2>3, <2>4 DEF PlacesOK
<1> QED
  BY <1>1, <1>2, <1>3 DEF Executed

(* When the tables do not change, only the places can disturb the invariant. *)
LEMMA TablesStay ==
    ASSUME IInv, UNCHANGED <<categories, products, removed, moved>>
    PROVE  TablesInv' /\ OriginInv' /\ \A c : Used(c)' <=> Used(c)
BY DEF IInv, TablesInv, OriginInv, Used, Exists

(* What the progress of an execution depends on. *)
LEMMA ProgressStays ==
    ASSUME NEW q \in Runs, Progress(q),
           pc'[q] = pc[q], next'[q] = next[q], queries'[q] = queries[q],
           \A s \in SeedSlugs : Used(<<q, s>>)' <=> Used(<<q, s>>),
           \A i \in 1..Len(ProductDefs) :
               <<q, i>> \in DOMAIN products' <=> <<q, i>> \in DOMAIN products
    PROVE  Progress(q)'
BY DefsFacts DEF Progress

LEMMA ProgressFailed ==
    ASSUME NEW r \in Runs, pc'[r] = "failed"
    PROVE  Progress(r)'
BY DEF Progress

(* An execution stops where it is. *)
LEMMA FailKeeps ==
    ASSUME IInv, NEW r \in Runs, Fail(r),
           UNCHANGED <<tableVars, migrateVars, removed, moved>>
    PROVE  IInv'
<1> USE DEF tableVars, migrateVars
<1>1. PlacesOK
  BY DEF IInv, TypeOK, PlacesOK, Places
<1>2. TypeOK'
  BY <1>1, FailMoves DEF IInv, TypeOK, PlacesOK, Places, CategoryRows, ProductRows
<1>3. ProgressInv'
  <2> SUFFICES ASSUME NEW q \in Runs PROVE Progress(q)'
    BY DEF ProgressInv
  <2>1. CASE q = r
    BY <1>1, <2>1, FailMoves, ProgressFailed
  <2>2. CASE q # r
    BY <1>1, <2>2, FailMoves, ProgressStays DEF IInv, ProgressInv, Used
  <2> QED
    BY <2>1, <2>2
<1> QED
  BY <1>2, <1>3, TablesStay DEF IInv

LEMMA StartStep ==
    ASSUME IInv, NEW r \in Runs, Start(r)
    PROVE  IInv'
<1> USE DEF Start, tableVars, migrateVars
<1>1. TypeOK'
  BY DefsFacts DEF IInv, TypeOK, Length, CategoryRows, ProductRows
<1>2. ProgressInv'
  <2> SUFFICES ASSUME NEW q \in Runs PROVE Progress(q)'
    BY DEF ProgressInv
  <2>1. CASE q = r
    BY <2>1, DefsFacts DEF IInv, TypeOK, ProgressInv, Progress, Used
  <2>2. CASE q # r
    BY <2>2, ProgressStays DEF IInv, TypeOK, ProgressInv, Used
  <2> QED
    BY <2>1, <2>2
<1> QED
  BY <1>1, <1>2, TablesStay DEF IInv

LEMMA ApplyScriptStep ==
    ASSUME IInv, NEW command \in Commands, ApplyScript(command)
    PROVE  IInv'
<1> USE DEF ApplyScript, tableVars, seedVars
<1>1. TypeOK'
  BY SetupAssumption DEF IInv, TypeOK, CategoryRows, ProductRows, Length
<1>2. ProgressInv'
  BY ProgressStays DEF IInv, ProgressInv, Used
<1> QED
  BY <1>1, <1>2, TablesStay DEF IInv

-----------------------------------------------------------------------------
(* The statements of the seed. *)

(* The slug exists already: only the name of its row can change. *)
LEMMA RenameStep ==
    ASSUME IInv, NEW r \in Runs, pc[r] = "categories", Executed(r),
           categories' = [c \in DOMAIN categories |->
                IF categories[c].slug = Slug(r)
                THEN [categories[c] EXCEPT !.name = "seed"]
                ELSE categories[c]],
           UNCHANGED <<products, queries, migrateVars, removed, moved>>
    PROVE  IInv'
<1> USE DEF migrateVars
<1>1. PlacesOK /\ Working(r)
  BY DEF IInv, TypeOK, PlacesOK, Places, Working
<1>2. /\ DOMAIN categories' = DOMAIN categories
      /\ \A c \in DOMAIN categories :
            /\ categories'[c].slug = categories[c].slug
            /\ categories'[c].parent = categories[c].parent
            /\ categories'[c] \in CategoryRows
  BY DEF IInv, TypeOK, CategoryRows
<1>3. TypeOK'
  <2>1. categories' \in [DOMAIN categories' -> CategoryRows]
    BY <1>2
  <2> QED
    BY <1>1, <1>2, <2>1, ExecutedMoves DEF IInv, TypeOK, PlacesOK, Places, ProductRows
<1>4. TablesInv' /\ OriginInv'
  BY <1>2 DEF IInv, TablesInv, OriginInv, Used, Exists
<1>5. ProgressInv'
  <2> SUFFICES ASSUME NEW q \in Runs PROVE Progress(q)'
    BY DEF ProgressInv
  <2>1. \A c : Used(c)' <=> Used(c)
    BY <1>2 DEF Used
  <2>2. CASE q # r
    BY <1>1, <2>1, <2>2, ExecutedMoves, ProgressStays DEF IInv, ProgressInv
  <2>3. CASE q = r /\ pc'[r] = "failed"
    BY <2>3, ProgressFailed
  <2>4. CASE q = r /\ next[r] < Length(pc[r]) /\ pc'[r] = pc[r] /\ next'[r] = next[r] + 1
    BY <1>1, <2>1, <2>4, DefsFacts DEF IInv, ProgressInv, Progress, PlacesOK
  <2>5. CASE q = r /\ pc'[r] = Following[pc[r]] /\ next'[r] = 1
    <3>1. pc'[r] = "products"
      BY <2>5 DEF Following
    <3> QED
      BY <2>5, <3>1, DefsFacts DEF IInv, ProgressInv, Progress
  <2> QED
    BY <1>1, <2>2, <2>3, <2>4, <2>5, ExecutedMoves
<1> QED
  BY <1>3, <1>4, <1>5 DEF IInv

(* The slug is new and its parent exists: a row is added. *)
LEMMA NewCategoryStep ==
    ASSUME IInv, NEW r \in Runs, pc[r] = "categories", Executed(r),
           ~SlugTaken(Slug(r)), ParentOK(Parent(r)),
           categories' = Put(categories, <<r, Slug(r)>>, SampleCategory(r)),
           UNCHANGED <<products, queries, migrateVars, removed, moved>>
    PROVE  IInv'
<1> USE DEF migrateVars
<1> DEFINE id == <<r, Slug(r)>>
<1>1. PlacesOK /\ Working(r)
  BY DEF IInv, TypeOK, PlacesOK, Places, Working
<1>2. next[r] \in 1..Len(CategoryDefs) /\ Slug(r) \in SeedSlugs /\ ~Used(id)
  BY <1>1, DefsFacts DEF PlacesOK, Length, Slug, IInv, ProgressInv, Progress
<1>3. /\ DOMAIN categories' = DOMAIN categories \cup {id}
      /\ categories'[id] = SampleCategory(r)
      /\ \A c \in DOMAIN categories : categories'[c] = categories[c]
      /\ categories' = [c \in DOMAIN categories' |-> categories'[c]]
  BY <1>2 DEF Put, Used
<1>4. id \in SeedCategories /\ id \in Categories /\ id # Null
  BY <1>2, IdentifierAssumption DEF SeedCategories, Categories
<1>5. /\ Parent(r) \in Categories \cup {Null}
      /\ Slug(r) # Root => Used(<<r, Root>>)
  <2>1. <<r, Root>> \in Categories /\ <<r, Root>> # Null
    BY DefsFacts, IdentifierAssumption DEF SeedCategories, Categories
  <2> QED
    BY <2>1 DEF Parent, ParentOK, Exists, Used
<1>6. SampleCategory(r) \in CategoryRows
  BY <1>2, <1>5 DEF SampleCategory, CategoryRows
<1>7. TypeOK'
  <2>1. DOMAIN categories' \subseteq Categories
    BY <1>3, <1>4 DEF IInv, TypeOK
  <2>2. categories' \in [DOMAIN categories' -> CategoryRows]
    BY <1>3, <1>6 DEF IInv, TypeOK
  <2>3. removed' \subseteq Categories \ DOMAIN categories'
    BY <1>2, <1>3 DEF IInv, TypeOK, Used
  <2> QED
    BY <1>1, <2>1, <2>2, <2>3, ExecutedMoves DEF IInv, TypeOK, PlacesOK, Places, ProductRows
<1>8. \A c : Used(c)' <=> Used(c) \/ c = id
  BY <1>3 DEF Used
<1>9. TablesInv'
  <2>1. \A p \in DOMAIN products' : Exists(products[p].category)'
    BY <1>3 DEF IInv, TablesInv, Exists
  <2>2. \A c, d \in DOMAIN categories' :
            categories'[c].slug = categories'[d].slug => c = d
    BY <1>3 DEF IInv, TablesInv, SlugTaken, SampleCategory
  <2>3. \A q \in Runs, s \in SeedSlugs :
            Exists(<<q, s>>)' => categories'[<<q, s>>].slug = s
    <3> SUFFICES ASSUME NEW q \in Runs, NEW s \in SeedSlugs, <<q, s>> \in DOMAIN categories'
                 PROVE  categories'[<<q, s>>].slug = s
      BY DEF Exists
    <3>1. CASE <<q, s>> = id
      BY <1>3, <3>1 DEF SampleCategory
    <3>2. CASE <<q, s>> \in DOMAIN categories
      BY <1>3, <3>2 DEF IInv, TablesInv, Exists
    <3> QED
      BY <1>3, <3>1, <3>2
  <2>4. \A q \in Runs, i \in 1..Len(ProductDefs) :
            <<q, i>> \in DOMAIN products' \ moved' =>
                products'[<<q, i>>].category = <<q, ProductDefs[i]>>
    BY DEF IInv, TablesInv
  <2> QED
    BY <2>1, <2>2, <2>3, <2>4 DEF TablesInv
<1>10. OriginInv'
  BY <1>5, <1>8 DEF IInv, OriginInv
<1>11. ProgressInv'
  <2> SUFFICES ASSUME NEW q \in Runs PROVE Progress(q)'
    BY DEF ProgressInv
  <2>2. CASE q # r
    BY <1>1, <1>8, <2>2, ExecutedMoves, ProgressStays DEF IInv, ProgressInv
  <2>3. CASE q = r /\ pc'[r] = "failed"
    BY <2>3, ProgressFailed
  <2>4. CASE q = r /\ next[r] < Length(pc[r]) /\ pc'[r] = pc[r] /\ next'[r] = next[r] + 1
    <3>1. \A i \in 1..Len(CategoryDefs) :
              i >= next[r] + 1 => ~Used(<<r, CategoryDefs[i]>>)'
      BY <1>2, <1>8, DefsFacts DEF IInv, ProgressInv, Progress, Slug
    <3> QED
      BY <2>4, <3>1 DEF IInv, ProgressInv, Progress
  <2>5. CASE q = r /\ pc'[r] = Following[pc[r]] /\ next'[r] = 1
    <3>1. pc'[r] = "products"
      BY <2>5 DEF Following
    <3> QED
      BY <2>5, <3>1, DefsFacts DEF IInv, ProgressInv, Progress
  <2> QED
    BY <1>1, <2>2, <2>3, <2>4, <2>5, ExecutedMoves
<1> QED
  BY <1>7, <1>9, <1>10, <1>11 DEF IInv

LEMMA InsertCategoryStep ==
    ASSUME IInv, NEW r \in Runs, InsertCategory(r)
    PROVE  IInv'
BY RenameStep, NewCategoryStep DEF InsertCategory

LEMMA InsertProductStep ==
    ASSUME IInv, NEW r \in Runs, InsertProduct(r)
    PROVE  IInv'
<1> DEFINE id == <<r, next[r]>>
           c == Category(r)
<1>0. /\ pc[r] = "products" /\ Exists(c) /\ Executed(r)
      /\ products' = Put(products, id, [category |-> c, deleted |-> FALSE])
      /\ UNCHANGED <<categories, queries, schema, asked, removed, moved>>
  BY DEF InsertProduct, migrateVars
<1>1. PlacesOK /\ Working(r) /\ pc[r] = "products"
  BY <1>0 DEF IInv, TypeOK, PlacesOK, Places, Working
<1>2. /\ next[r] \in 1..Len(ProductDefs) /\ id \in Products
      /\ ProductDefs[next[r]] \in SeedSlugs
  BY <1>1, DefsFacts DEF PlacesOK, Length, Products
<1>3. id \notin DOMAIN products /\ id \notin moved
  BY <1>1, <1>2 DEF IInv, TypeOK, ProgressInv, Progress
<1>4. /\ DOMAIN products' = DOMAIN products \cup {id}
      /\ products'[id].category = c /\ products'[id].deleted = FALSE
      /\ products'[id] \in [category : {c}, deleted : BOOLEAN]
      /\ \A p \in DOMAIN products : products'[p] = products[p]
      /\ products' = [p \in DOMAIN products' |-> products'[p]]
  BY <1>0, <1>3 DEF Put
<1>5. c \in Categories /\ c = <<r, ProductDefs[next[r]]>>
  BY <1>0 DEF Category, IInv, TypeOK, Exists
<1>6. TypeOK'
  <2>1. DOMAIN products' \subseteq Products
    BY <1>2, <1>4 DEF IInv, TypeOK
  <2>2. products' \in [DOMAIN products' -> ProductRows]
    BY <1>4, <1>5 DEF IInv, TypeOK, ProductRows
  <2>3. moved' \subseteq DOMAIN products'
    BY <1>0, <1>4 DEF IInv, TypeOK
  <2> QED
    BY <1>0, <1>1, <2>1, <2>2, <2>3, ExecutedMoves DEF IInv, TypeOK, PlacesOK, Places, CategoryRows
<1>7. \A d : Used(d)' <=> Used(d)
  BY <1>0 DEF Used
<1>8. \A q \in Runs, i \in 1..Len(ProductDefs) : <<q, i>> = id => q = r /\ i = next[r]
  OBVIOUS
<1>9. TablesInv'
  <2>1. \A p \in DOMAIN products' : products'[p].category \in DOMAIN categories'
    <3>1. products'[id].category \in DOMAIN categories'
      BY <1>0, <1>4 DEF Exists
    <3>2. \A p \in DOMAIN products : products'[p].category \in DOMAIN categories'
      BY <1>0, <1>4 DEF IInv, TablesInv, Exists
    <3> QED
      BY <1>4, <3>1, <3>2
  <2>2. \A q \in Runs, i \in 1..Len(ProductDefs) :
            <<q, i>> \in DOMAIN products' \ moved' =>
                products'[<<q, i>>].category = <<q, ProductDefs[i]>>
    <3> SUFFICES ASSUME NEW q \in Runs, NEW i \in 1..Len(ProductDefs),
                        <<q, i>> \in DOMAIN products' \ moved'
                 PROVE  products'[<<q, i>>].category = <<q, ProductDefs[i]>>
      OBVIOUS
    <3>1. CASE <<q, i>> = id
      BY <1>4, <1>5, <1>8, <3>1
    <3>2. CASE <<q, i>> \in DOMAIN products
      <4>1. <<q, i>> \in DOMAIN products \ moved
        BY <1>0, <3>2
      <4>2. products[<<q, i>>].category = <<q, ProductDefs[i]>>
        BY <4>1 DEF IInv, TablesInv
      <4> QED
        BY <1>4, <3>2, <4>2
    <3> QED
      BY <1>4, <3>1, <3>2
  <2>3. /\ \A d, e \in DOMAIN categories' :
                categories'[d].slug = categories'[e].slug => d = e
        /\ \A q \in Runs, s \in SeedSlugs :
                Exists(<<q, s>>)' => categories'[<<q, s>>].slug = s
    BY <1>0 DEF IInv, TablesInv, Exists
  <2> QED
    BY <2>1, <2>2, <2>3 DEF TablesInv, Exists
<1>10. OriginInv'
  <2>1. Used(<<r, ProductDefs[next[r]]>>)
    BY <1>0, <1>5 DEF Used, Exists
  <2>2. \A q \in Runs, i \in 1..Len(ProductDefs) :
            <<q, i>> \in DOMAIN products' => Used(<<q, ProductDefs[i]>>)
    BY <1>4, <1>8, <2>1 DEF IInv, OriginInv
  <2> QED
    BY <1>7, <2>2 DEF IInv, OriginInv
<1>11. ProgressInv'
  <2> SUFFICES ASSUME NEW q \in Runs PROVE Progress(q)'
    BY DEF ProgressInv
  <2>1. \A p \in Runs, i \in 1..Len(ProductDefs) :
            <<p, i>> \in DOMAIN products' <=>
                <<p, i>> \in DOMAIN products \/ (p = r /\ i = next[r])
    BY <1>4, <1>8
  <2>2. CASE q # r
    BY <1>0, <1>1, <1>7, <2>1, <2>2, ExecutedMoves, ProgressStays DEF IInv, ProgressInv
  <2>3. CASE q = r /\ pc'[r] = "failed"
    BY <2>3, ProgressFailed
  <2>4. CASE q = r /\ next[r] < Length(pc[r]) /\ pc'[r] = pc[r] /\ next'[r] = next[r] + 1
    <3>1. /\ \A i \in 1..Len(ProductDefs) : <<r, i>> \in DOMAIN products <=> i < next[r]
          /\ queries[r] = 0
      BY <1>0 DEF IInv, ProgressInv, Progress
    <3>2. \A i \in 1..Len(ProductDefs) : i < next[r] + 1 <=> i < next[r] \/ i = next[r]
      BY <1>2
    <3>3. \A i \in 1..Len(ProductDefs) :
              <<r, i>> \in DOMAIN products' <=> i < next[r] + 1
      BY <2>1, <3>1, <3>2
    <3> QED
      BY <1>0, <2>4, <3>1, <3>3 DEF Progress
  <2>5. CASE /\ q = r /\ next[r] = Length(pc[r])
             /\ pc'[r] = Following[pc[r]] /\ next'[r] = 1
    <3>1. pc'[r] = "queries" /\ next[r] = Len(ProductDefs)
      BY <1>1, <2>5 DEF Following, Length
    <3>2. /\ \A i \in 1..Len(ProductDefs) : <<r, i>> \in DOMAIN products <=> i < next[r]
          /\ queries[r] = 0
      BY <1>0 DEF IInv, ProgressInv, Progress
    <3>3. \A i \in 1..Len(ProductDefs) : <<r, i>> \in DOMAIN products'
      BY <1>2, <2>1, <3>1, <3>2, DefsFacts
    <3>4. queries'[r] = next'[r] - 1
      BY <1>0, <2>5, <3>2
    <3> QED
      BY <2>5, <3>1, <3>3, <3>4 DEF Progress
  <2> QED
    BY <1>0, <1>1, <2>2, <2>3, <2>4, <2>5, ExecutedMoves
<1> QED
  BY <1>6, <1>9, <1>10, <1>11 DEF IInv

LEMMA InsertQueryStep ==
    ASSUME IInv, NEW r \in Runs, InsertQuery(r)
    PROVE  IInv'
<1>0. /\ pc[r] = "queries" /\ Executed(r)
      /\ queries' = [queries EXCEPT ![r] = @ + 1]
      /\ UNCHANGED <<categories, products, schema, asked, removed, moved>>
  BY DEF InsertQuery, migrateVars
<1>1. PlacesOK /\ Working(r)
  BY <1>0 DEF IInv, TypeOK, PlacesOK, Places, Working
<1>2. /\ next[r] \in 1..QueryTotal /\ queries[r] = next[r] - 1
      /\ queries'[r] = next[r]
      /\ \A q \in Runs \ {r} : queries'[q] = queries[q]
  <2>1. next[r] \in 1..QueryTotal
    BY <1>0, <1>1 DEF PlacesOK, Length
  <2>2. queries[r] = next[r] - 1
    BY <1>0 DEF IInv, ProgressInv, Progress
  <2> QED
    BY <1>0, <2>1, <2>2, DefsFacts DEF IInv, TypeOK
<1>3. TypeOK'
  <2>1. queries' \in [Runs -> 0..QueryTotal]
    BY <1>0, <1>2, DefsFacts DEF IInv, TypeOK
  <2> QED
    BY <1>0, <1>1, <2>1, ExecutedMoves
    DEF IInv, TypeOK, PlacesOK, Places, CategoryRows, ProductRows
<1>4. ProgressInv'
  <2> SUFFICES ASSUME NEW q \in Runs PROVE Progress(q)'
    BY DEF ProgressInv
  <2>2. CASE q # r
    BY <1>0, <1>1, <1>2, <2>2, ExecutedMoves, ProgressStays DEF IInv, ProgressInv, Used
  <2>3. CASE q = r /\ pc'[r] = "failed"
    BY <2>3, ProgressFailed
  <2>4. CASE q = r /\ next[r] < Length(pc[r]) /\ pc'[r] = pc[r] /\ next'[r] = next[r] + 1
    BY <1>0, <1>2, <2>4 DEF IInv, ProgressInv, Progress
  <2>5. CASE /\ q = r /\ next[r] = Length(pc[r])
             /\ pc'[r] = Following[pc[r]] /\ next'[r] = 1
    <3>1. pc'[r] = "done" /\ next[r] = QueryTotal
      BY <1>0, <2>5 DEF Following, Length
    <3> QED
      BY <1>0, <1>2, <2>5, <3>1 DEF IInv, ProgressInv, Progress
  <2> QED
    BY <1>0, <1>1, <2>2, <2>3, <2>4, <2>5, ExecutedMoves
<1> QED
  BY <1>0, <1>3, <1>4, TablesStay DEF IInv

-----------------------------------------------------------------------------
(* The statements of API clients: they leave the executions where they are, *)
(* and no identifier of the seed gets or loses its past through them.       *)

LEMMA CreateCategoryStep ==
    ASSUME IInv, NEW c \in ClientCategories, NEW s \in SeedSlugs,
           NEW d \in Categories \cup {Null}, CreateCategory(c, s, d)
    PROVE  IInv'
<1> DEFINE row == [slug |-> s, parent |-> d, name |-> "client"]
<1>0. /\ c \notin DOMAIN categories /\ c \notin removed /\ ~SlugTaken(s)
      /\ categories' = Put(categories, c, row)
      /\ UNCHANGED <<products, queries, pc, next, schema, asked, removed, moved>>
  BY DEF CreateCategory, Exists, seedVars, migrateVars
<1>1. /\ DOMAIN categories' = DOMAIN categories \cup {c}
      /\ categories'[c] = row
      /\ \A e \in DOMAIN categories : categories'[e] = categories[e]
      /\ categories' = [e \in DOMAIN categories' |-> categories'[e]]
  BY <1>0 DEF Put
<1>2. c \in Categories /\ \A r \in Runs, t \in SeedSlugs : <<r, t>> # c
  BY IdentifierAssumption DEF Categories, SeedCategories
<1>3. TypeOK'
  <2>1. row \in CategoryRows
    BY DEF CategoryRows
  <2>2. categories' \in [DOMAIN categories' -> CategoryRows]
    BY <1>1, <2>1 DEF IInv, TypeOK
  <2> QED
    BY <1>0, <1>1, <1>2, <2>2 DEF IInv, TypeOK, ProductRows, Length
<1>4. /\ \A r \in Runs, t \in SeedSlugs : Used(<<r, t>>)' <=> Used(<<r, t>>)
      /\ \A r \in Runs, t \in SeedSlugs :
            <<r, t>> \in DOMAIN categories' <=> <<r, t>> \in DOMAIN categories
  BY <1>0, <1>1, <1>2 DEF Used
<1>5. TablesInv'
  <2>1. \A p \in DOMAIN products' : products'[p].category \in DOMAIN categories'
    BY <1>0, <1>1 DEF IInv, TablesInv, Exists
  <2>2. \A e, f \in DOMAIN categories' :
            categories'[e].slug = categories'[f].slug => e = f
    BY <1>0, <1>1 DEF IInv, TablesInv, SlugTaken
  <2>3. \A r \in Runs, t \in SeedSlugs :
            <<r, t>> \in DOMAIN categories' => categories'[<<r, t>>].slug = t
    <3>1. \A r \in Runs, t \in SeedSlugs :
              <<r, t>> \in DOMAIN categories => categories[<<r, t>>].slug = t
      BY DEF IInv, TablesInv, Exists
    <3> QED
      BY <1>1, <1>4, <3>1
  <2>4. \A r \in Runs, i \in 1..Len(ProductDefs) :
            <<r, i>> \in DOMAIN products' \ moved' =>
                products'[<<r, i>>].category = <<r, ProductDefs[i]>>
    BY <1>0 DEF IInv, TablesInv
  <2> QED
    BY <2>1, <2>2, <2>3, <2>4 DEF TablesInv, Exists
<1>6. OriginInv'
  BY <1>0, <1>4, DefsFacts DEF IInv, OriginInv
<1>7. ProgressInv'
  BY <1>0, <1>4, ProgressStays DEF IInv, ProgressInv
<1> QED
  BY <1>3, <1>5, <1>6, <1>7 DEF IInv

LEMMA DeleteCategoryStep ==
    ASSUME IInv, NEW c \in Categories, DeleteCategory(c)
    PROVE  IInv'
<1>0. /\ c \in DOMAIN categories
      /\ \A p \in DOMAIN products : products[p].category # c
      /\ removed' = removed \cup {c}
      /\ UNCHANGED <<products, queries, pc, next, schema, asked, moved>>
  BY DEF DeleteCategory, Exists, Referenced, seedVars, migrateVars
<1>1. /\ DOMAIN categories' = DOMAIN categories \ {c}
      /\ categories' = [d \in DOMAIN categories' |-> categories'[d]]
      /\ \A d \in DOMAIN categories' :
            /\ categories'[d].slug = categories[d].slug
            /\ categories'[d] \in CategoryRows
  <2>1. categories' = [d \in DOMAIN categories \ {c} |->
            IF categories[d].parent = c
            THEN [categories[d] EXCEPT !.parent = Null] ELSE categories[d]]
    BY DEF DeleteCategory
  <2> QED
    BY <2>1 DEF IInv, TypeOK, CategoryRows
<1>2. \A d : Used(d)' <=> Used(d)
  BY <1>0, <1>1 DEF Used
<1>3. TypeOK'
  <2>1. categories' \in [DOMAIN categories' -> CategoryRows]
    BY <1>1
  <2> QED
    BY <1>0, <1>1, <2>1 DEF IInv, TypeOK, ProductRows, Length
<1>4. TablesInv'
  <2>1. \A p \in DOMAIN products' : products'[p].category \in DOMAIN categories'
    BY <1>0, <1>1 DEF IInv, TablesInv, Exists
  <2> QED
    BY <1>0, <1>1, <2>1 DEF IInv, TablesInv, Exists
<1>5. OriginInv' /\ ProgressInv'
  BY <1>0, <1>2, ProgressStays DEF IInv, OriginInv, ProgressInv
<1> QED
  BY <1>3, <1>4, <1>5 DEF IInv

LEMMA MoveProductStep ==
    ASSUME IInv, NEW p \in Products, NEW c \in Categories, MoveProduct(p, c)
    PROVE  IInv'
<1>0. /\ p \in DOMAIN products /\ c \in DOMAIN categories
      /\ moved' = moved \cup {p}
      /\ UNCHANGED <<categories, queries, pc, next, schema, asked, removed>>
  BY DEF MoveProduct, Exists, seedVars, migrateVars
<1>1. /\ DOMAIN products' = DOMAIN products
      /\ products' \in [DOMAIN products -> ProductRows]
      /\ products'[p].category = c
      /\ \A q \in DOMAIN products \ {p} : products'[q] = products[q]
  <2>1. products' = [products EXCEPT ![p].category = c]
    BY DEF MoveProduct
  <2> QED
    BY <1>0, <2>1 DEF IInv, TypeOK, ProductRows
<1>2. TypeOK'
  BY <1>0, <1>1 DEF IInv, TypeOK, CategoryRows, Length
<1>3. TablesInv'
  <2>1. \A q \in DOMAIN products' : products'[q].category \in DOMAIN categories'
    BY <1>0, <1>1 DEF IInv, TablesInv, Exists
  <2>2. \A r \in Runs, i \in 1..Len(ProductDefs) :
            <<r, i>> \in DOMAIN products' \ moved' =>
                products'[<<r, i>>].category = <<r, ProductDefs[i]>>
    BY <1>0, <1>1 DEF IInv, TablesInv
  <2> QED
    BY <1>0, <2>1, <2>2 DEF IInv, TablesInv, Exists
<1>4. OriginInv' /\ ProgressInv'
  BY <1>0, <1>1, ProgressStays DEF IInv, OriginInv, ProgressInv, Used
<1> QED
  BY <1>2, <1>3, <1>4 DEF IInv

LEMMA DeleteProductStep ==
    ASSUME IInv, NEW p \in Products, DeleteProduct(p)
    PROVE  IInv'
<1>0. /\ p \in DOMAIN products
      /\ UNCHANGED <<categories, queries, pc, next, schema, asked, removed, moved>>
  BY DEF DeleteProduct, seedVars, migrateVars
<1>1. /\ DOMAIN products' = DOMAIN products
      /\ products' \in [DOMAIN products -> ProductRows]
      /\ \A q \in DOMAIN products : products'[q].category = products[q].category
  <2>1. products' = [products EXCEPT ![p].deleted = TRUE]
    BY DEF DeleteProduct
  <2> QED
    BY <1>0, <2>1 DEF IInv, TypeOK, ProductRows
<1>2. TypeOK'
  BY <1>0, <1>1 DEF IInv, TypeOK, CategoryRows, Length
<1>3. TablesInv'
  BY <1>0, <1>1 DEF IInv, TablesInv, Exists
<1>4. OriginInv' /\ ProgressInv'
  BY <1>0, <1>1, ProgressStays DEF IInv, OriginInv, ProgressInv, Used
<1> QED
  BY <1>2, <1>3, <1>4 DEF IInv

LEMMA StutterStep ==
    ASSUME IInv, UNCHANGED vars
    PROVE  IInv'
<1> USE DEF vars, tableVars, seedVars, migrateVars
<1>1. TypeOK'
  BY DEF IInv, TypeOK, CategoryRows, ProductRows, Length
<1>2. ProgressInv'
  BY ProgressStays DEF IInv, ProgressInv, Used
<1> QED
  BY <1>1, <1>2, TablesStay DEF IInv

LEMMA NextStep == IInv /\ [Next]_vars => IInv'
<1> SUFFICES ASSUME IInv, [Next]_vars PROVE IInv'
  OBVIOUS
<1>1. ASSUME NEW command \in Commands, ApplyScript(command) PROVE IInv'
  BY <1>1, ApplyScriptStep
<1>2. ASSUME NEW r \in Runs, Seed(r) PROVE IInv'
  <2>1. CASE Refuse(r) \/ Die(r)
    BY <1>2, <2>1, FailKeeps DEF Refuse, Die
  <2> QED
    BY <1>2, <2>1, StartStep, InsertCategoryStep, InsertProductStep, InsertQueryStep
    DEF Seed
<1>3. ASSUME Client PROVE IInv'
  BY <1>3, CreateCategoryStep, DeleteCategoryStep, MoveProductStep, DeleteProductStep
  DEF Client
<1> QED
  BY <1>1, <1>2, <1>3, StutterStep DEF Next

-----------------------------------------------------------------------------
(* Theorems. *)

LEMMA Invariance == Spec => []IInv
BY InitIInv, NextStep, PTL DEF Spec

(* The tables, the executions and the schema version keep their types:      *)
(* cmd/migrate and cmd/seed.                                                *)
THEOREM SetupTypeCorrect == Spec => []TypeOK
<1>1. IInv => TypeOK
  BY DEF IInv
<1> QED
  BY <1>1, Invariance, PTL

(* Sample products of a section that no client moved are all of one         *)
(* execution: each points to the category its execution has inserted, and   *)
(* only one of those has the slug.  seedProducts.                           *)
THEOREM SectionsNeverMix == Spec => []SectionsUnmixed
<1>1. IInv => SectionsUnmixed
  <2> SUFFICES ASSUME IInv, NEW p \in DOMAIN products \ moved,
                      NEW q \in DOMAIN products \ moved,
                      ProductDefs[p[2]] = ProductDefs[q[2]]
               PROVE  p[1] = q[1]
    BY DEF SectionsUnmixed
  <2> DEFINE s == ProductDefs[p[2]]
  <2>1. /\ p[1] \in Runs /\ p[2] \in 1..Len(ProductDefs) /\ p = <<p[1], p[2]>>
        /\ q[1] \in Runs /\ q[2] \in 1..Len(ProductDefs) /\ q = <<q[1], q[2]>>
    BY DEF IInv, TypeOK, Products
  <2>2. /\ products[p].category = <<p[1], s>>
        /\ products[q].category = <<q[1], s>>
    BY <2>1 DEF IInv, TablesInv
  <2>3. <<p[1], s>> \in DOMAIN categories /\ <<q[1], s>> \in DOMAIN categories
    BY <2>2 DEF IInv, TablesInv, Exists
  <2>4. s \in SeedSlugs
    BY <2>1, DefsFacts
  <2>5. categories[<<p[1], s>>].slug = s /\ categories[<<q[1], s>>].slug = s
    BY <2>1, <2>3, <2>4 DEF IInv, TablesInv, Exists
  <2>6. <<p[1], s>> = <<q[1], s>>
    BY <2>3, <2>5 DEF IInv, TablesInv
  <2> QED
    BY <2>6
<1> QED
  BY <1>1, Invariance, PTL

(* Whatever fails or runs beside it, an execution that ends with "done."    *)
(* has inserted all of its sample rows.  main, seedCategories,              *)
(* seedProducts, seedSearchQueries.                                         *)
THEOREM DoneMeansWhole == Spec => []DoneIsWhole
<1>1. IInv => DoneIsWhole
  <2> SUFFICES ASSUME IInv, NEW r \in Runs, pc[r] = "done"
               PROVE  /\ \A s \in SeedSlugs : <<r, s>> \in DOMAIN categories \cup removed
                      /\ \A i \in 1..Len(ProductDefs) :
                            /\ <<r, i>> \in DOMAIN products
                            /\ <<r, i>> \notin moved =>
                                  LET c == products[<<r, i>>].category IN
                                  Exists(c) /\ categories[c].slug = ProductDefs[i]
                      /\ queries[r] = QueryTotal
    BY DEF DoneIsWhole
  <2>1. /\ \A i \in 1..Len(ProductDefs) : <<r, i>> \in DOMAIN products
        /\ queries[r] = QueryTotal
    BY DEF IInv, ProgressInv, Progress
  <2>2. \A s \in SeedSlugs \ {Root} : Used(<<r, s>>)
    <3> SUFFICES ASSUME NEW s \in SeedSlugs \ {Root} PROVE Used(<<r, s>>)
      OBVIOUS
    <3>1. PICK i \in 1..Len(ProductDefs) : ProductDefs[i] = s
      BY DefsFacts
    <3> QED
      BY <2>1, <3>1 DEF IInv, OriginInv
  <2>3. Used(<<r, Root>>)
    BY <2>2, DefsFacts DEF IInv, OriginInv
  <2>4. ASSUME NEW i \in 1..Len(ProductDefs), <<r, i>> \notin moved
        PROVE  /\ Exists(products[<<r, i>>].category)
               /\ categories[products[<<r, i>>].category].slug = ProductDefs[i]
    <3>1. <<r, i>> \in DOMAIN products \ moved
      BY <2>1, <2>4
    <3>2. products[<<r, i>>].category = <<r, ProductDefs[i]>>
      BY <3>1 DEF IInv, TablesInv
    <3>3. Exists(products[<<r, i>>].category)
      BY <3>1 DEF IInv, TablesInv
    <3>4. ProductDefs[i] \in SeedSlugs
      BY DefsFacts
    <3> QED
      BY <3>2, <3>3, <3>4 DEF IInv, TablesInv
  <2> QED
    BY <2>1, <2>2, <2>3, <2>4 DEF Used
<1> QED
  BY <1>1, Invariance, PTL

-----------------------------------------------------------------------------
(* Refinement: each statement is one of CatalogStore. *)

LEMMA StoreInitHolds == Init => Store!StoreInit
BY DEF Init, Store!StoreInit, MappedProducts, MappedCategories,
       Store!NoProduct, Store!NoCategory

(* What the statements of CatalogStore look at. *)
LEMMA MappedFacts ==
    ASSUME IInv
    PROVE  /\ \A c \in Categories : Store!CategoryLive(c) <=> Exists(c)
           /\ \A s \in SeedSlugs : Store!SlugTaken(s) <=> SlugTaken(s)
           /\ \A c \in Categories \cup {Null} : Store!ParentOK(c) <=> ParentOK(c)
           /\ \A c \in Categories : Store!CategoryReferenced(c) <=> Referenced(c)
           /\ \A p \in Products : Store!ProductStored(p) <=> p \in DOMAIN products
<1>1. \A c : Store!CategoryLive(c) <=> Exists(c)
  BY DEF IInv, TypeOK, Store!CategoryLive, MappedCategories, Exists
<1>2. \A c \in DOMAIN categories : MappedCategories[c].slug = categories[c].slug
  BY DEF IInv, TypeOK, MappedCategories
<1>3. \A s \in SeedSlugs : Store!SlugTaken(s) <=> SlugTaken(s)
  BY <1>1, <1>2 DEF Store!SlugTaken, SlugTaken, Exists, IInv, TypeOK
<1>4. \A p \in Products : Store!ProductStored(p) <=> p \in DOMAIN products
  BY DEF Store!ProductStored, MappedProducts
<1>5. \A p \in DOMAIN products : MappedProducts[p].category = products[p].category
  BY DEF IInv, TypeOK, MappedProducts
<1>6. \A c : Store!CategoryReferenced(c) <=> Referenced(c)
  BY <1>4, <1>5 DEF Store!CategoryReferenced, Referenced, IInv, TypeOK
<1> QED
  BY <1>1, <1>3, <1>4, <1>6 DEF Store!ParentOK, ParentOK

(* A category row is added, by whomever. *)
LEMMA PutCategorySimulated ==
    ASSUME IInv, NEW c \in Categories, NEW s \in SeedSlugs,
           NEW d \in Categories \cup {Null}, NEW n,
           ~Used(c), ~SlugTaken(s), ParentOK(d),
           categories' = Put(categories, c, [slug |-> s, parent |-> d, name |-> n]),
           UNCHANGED <<products, removed>>
    PROVE  Store!InsertCategory(c, s, d)
<1>1. MappedCategories[c].state = "unused"
  BY DEF MappedCategories, Used
<1>2. MappedProducts' = MappedProducts
  BY DEF MappedProducts
<1>3. MappedCategories' = [MappedCategories EXCEPT ![c] =
            [state |-> "live", slug |-> s, parent |-> d]]
  BY DEF MappedCategories, Put, Used
<1> QED
  BY <1>1, <1>2, <1>3, MappedFacts DEF Store!InsertCategory

LEMMA InsertProductSimulated ==
    ASSUME IInv, NEW r \in Runs, InsertProduct(r)
    PROVE  \E p \in Products, v \in Store!ProductValues : Store!InsertProduct(p, v)
<1> DEFINE id == <<r, next[r]>>
           c == Category(r)
           v == [category |-> c, name |-> "text", price |-> 0]
<1>0. /\ pc[r] = "products" /\ c \in DOMAIN categories
      /\ products' = Put(products, id, [category |-> c, deleted |-> FALSE])
      /\ UNCHANGED <<categories, removed>>
  BY DEF InsertProduct, Exists
<1>1. /\ id \in Products /\ id \notin DOMAIN products
  BY <1>0 DEF IInv, TypeOK, Length, Products, ProgressInv, Progress
<1>2. v \in Store!ProductValues /\ Store!CategoryLive(c)
  BY <1>0, MappedFacts DEF IInv, TypeOK, Store!ProductValues, Store!Texts, Exists
<1>3. MappedCategories' = MappedCategories
  BY <1>0 DEF MappedCategories
<1>4. MappedProducts' = [MappedProducts EXCEPT ![id] =
            [state |-> "live", category |-> v.category, name |-> v.name,
             price |-> v.price, indexed |-> v.name, views |-> 0]]
  <2> HIDE DEF c
  <2> QED
    BY <1>0, <1>1 DEF MappedProducts, Put
<1>5. Store!InsertProduct(id, v)
  BY <1>1, <1>2, <1>3, <1>4, MappedFacts DEF Store!InsertProduct
<1> QED
  BY <1>1, <1>2, <1>5

LEMMA DeleteCategorySimulated ==
    ASSUME IInv, NEW c \in Categories, DeleteCategory(c)
    PROVE  Store!DeleteCategory(c)
<1>0. /\ c \in DOMAIN categories /\ ~Referenced(c)
      /\ categories' = [d \in DOMAIN categories \ {c} |->
            IF categories[d].parent = c
            THEN [categories[d] EXCEPT !.parent = Null] ELSE categories[d]]
      /\ removed' = removed \cup {c} /\ products' = products
  BY DEF DeleteCategory, Exists
<1>1. MappedProducts' = MappedProducts
  BY <1>0 DEF MappedProducts
<1>2. Store!CategoryLive(c) /\ ~Store!CategoryReferenced(c)
  BY <1>0, MappedFacts DEF Exists
<1>3. MappedCategories' = [d \in Categories |->
            IF d = c THEN [Store!NoCategory EXCEPT !.state = "dropped"]
            ELSE IF d \in Store!Children(c)
            THEN [MappedCategories[d] EXCEPT !.parent = Null]
            ELSE MappedCategories[d]]
  <2> SUFFICES ASSUME NEW d \in Categories
               PROVE  MappedCategories'[d] =
            IF d = c THEN [Store!NoCategory EXCEPT !.state = "dropped"]
            ELSE IF d \in Store!Children(c)
            THEN [MappedCategories[d] EXCEPT !.parent = Null]
            ELSE MappedCategories[d]
    BY DEF MappedCategories
  <2>1. CASE d = c
    BY <1>0, <2>1 DEF MappedCategories, Store!NoCategory
  <2>2. CASE d # c /\ d \notin DOMAIN categories
    <3>1. d \notin Store!Children(c)
      BY <2>2, MappedFacts DEF Store!Children, Exists
    <3> QED
      BY <1>0, <2>2, <3>1 DEF MappedCategories
  <2>3. CASE d # c /\ d \in DOMAIN categories
    <3>1. d \in Store!Children(c) <=> categories[d].parent = c
      BY <2>3, MappedFacts DEF Store!Children, Exists, MappedCategories
    <3>2. /\ categories'[d].slug = categories[d].slug
          /\ categories'[d].parent = IF categories[d].parent = c THEN Null
                                     ELSE categories[d].parent
      BY <1>0, <2>3 DEF IInv, TypeOK, CategoryRows
    <3>3. MappedCategories'[d] = [state |-> "live", slug |-> categories'[d].slug,
                                  parent |-> categories'[d].parent]
      BY <1>0, <2>3 DEF MappedCategories
    <3>4. MappedCategories[d] = [state |-> "live", slug |-> categories[d].slug,
                                 parent |-> categories[d].parent]
      BY <2>3 DEF MappedCategories
    <3> QED
      BY <2>3, <3>1, <3>2, <3>3, <3>4
  <2> QED
    BY <2>1, <2>2, <2>3
<1> QED
  BY <1>1, <1>2, <1>3 DEF Store!DeleteCategory

LEMMA MoveProductSimulated ==
    ASSUME IInv, NEW p \in Products, NEW c \in Categories, MoveProduct(p, c)
    PROVE  \E v \in Store!ProductValues : Store!UpdateProduct(p, v)
<1> DEFINE v == [category |-> c, name |-> "text", price |-> 0]
<1>0. /\ p \in DOMAIN products /\ ~products[p].deleted /\ Exists(c)
      /\ products' = [products EXCEPT ![p].category = c]
      /\ UNCHANGED <<categories, removed>>
  BY DEF MoveProduct
<1>1. v \in Store!ProductValues /\ Store!CategoryLive(c)
  BY <1>0, MappedFacts DEF Store!ProductValues, Store!Texts
<1>2. MappedCategories' = MappedCategories
  BY <1>0 DEF MappedCategories
<1>3. Store!ProductLive(p)
  BY <1>0 DEF Store!ProductLive, MappedProducts
<1>4. MappedProducts' = [MappedProducts EXCEPT ![p] =
            [@ EXCEPT !.category = v.category, !.name = v.name,
                      !.price = v.price, !.indexed = v.name]]
  <2>1. /\ DOMAIN products' = DOMAIN products
        /\ products'[p].category = c /\ products'[p].deleted = products[p].deleted
        /\ \A q \in DOMAIN products \ {p} : products'[q] = products[q]
    BY <1>0 DEF IInv, TypeOK, ProductRows
  <2> QED
    BY <1>0, <2>1 DEF MappedProducts
<1> QED
  BY <1>1, <1>2, <1>3, <1>4 DEF Store!UpdateProduct

LEMMA DeleteProductSimulated ==
    ASSUME IInv, NEW p \in Products, DeleteProduct(p)
    PROVE  Store!SoftDeleteProduct(p)
<1>0. /\ p \in DOMAIN products /\ ~products[p].deleted
      /\ products' = [products EXCEPT ![p].deleted = TRUE]
      /\ UNCHANGED <<categories, removed>>
  BY DEF DeleteProduct
<1>1. MappedCategories' = MappedCategories
  BY <1>0 DEF MappedCategories
<1>2. Store!ProductLive(p)
  BY <1>0 DEF Store!ProductLive, MappedProducts
<1>3. MappedProducts' = [MappedProducts EXCEPT ![p].state = "deleted"]
  <2>1. /\ DOMAIN products' = DOMAIN products
        /\ products'[p].category = products[p].category /\ products'[p].deleted
        /\ \A q \in DOMAIN products \ {p} : products'[q] = products[q]
    BY <1>0 DEF IInv, TypeOK, ProductRows
  <2> QED
    BY <1>0, <2>1 DEF MappedProducts
<1> QED
  BY <1>1, <1>2, <1>3 DEF Store!SoftDeleteProduct

(* Nothing of what CatalogStore holds changes. *)
LEMMA MappedStays ==
    ASSUME UNCHANGED <<categories, products, removed>>
    PROVE  UNCHANGED Store!storeVars
BY DEF Store!storeVars, MappedProducts, MappedCategories

LEMMA InsertCategorySimulated ==
    ASSUME IInv, NEW r \in Runs, InsertCategory(r)
    PROVE  Store!StoreNext \/ UNCHANGED Store!storeVars
<1> DEFINE id == <<r, Slug(r)>>
<1>0. pc[r] = "categories" /\ UNCHANGED <<products, removed>>
  BY DEF InsertCategory
<1>1. Slug(r) \in SeedSlugs /\ id \in Categories /\ ~Used(id)
  <2>1. next[r] \in 1..Len(CategoryDefs)
    BY <1>0 DEF IInv, TypeOK, Length
  <2> QED
    BY <1>0, <2>1, DefsFacts
    DEF Slug, SeedCategories, Categories, IInv, ProgressInv, Progress
<1>2. CASE SlugTaken(Slug(r))
  <2>1. categories' = [c \in DOMAIN categories |->
            IF categories[c].slug = Slug(r)
            THEN [categories[c] EXCEPT !.name = "seed"]
            ELSE categories[c]]
    BY <1>2 DEF InsertCategory
  <2>2. /\ DOMAIN categories' = DOMAIN categories
        /\ \A c \in DOMAIN categories :
              /\ categories'[c].slug = categories[c].slug
              /\ categories'[c].parent = categories[c].parent
    BY <2>1 DEF IInv, TypeOK, CategoryRows
  <2>3. MappedCategories' = MappedCategories
    BY <1>0, <2>2 DEF MappedCategories
  <2>4. MappedProducts' = MappedProducts
    BY <1>0 DEF MappedProducts
  <2> QED
    BY <2>3, <2>4 DEF Store!storeVars
<1>3. CASE ~SlugTaken(Slug(r))
  <2>1. /\ ParentOK(Parent(r))
        /\ categories' = Put(categories, id,
                [slug |-> Slug(r), parent |-> Parent(r), name |-> "seed"])
    BY <1>3 DEF InsertCategory, SampleCategory
  <2>2. Parent(r) \in Categories \cup {Null}
    BY DefsFacts DEF Parent, SeedCategories, Categories
  <2>3. Store!InsertCategory(id, Slug(r), Parent(r))
    BY <1>0, <1>1, <1>3, <2>1, <2>2, PutCategorySimulated
  <2> QED
    BY <1>1, <2>2, <2>3 DEF Store!StoreNext
<1> QED
  BY <1>2, <1>3

LEMMA ClientSimulated ==
    ASSUME IInv, Client
    PROVE  Store!StoreNext
<1>1. ASSUME NEW c \in ClientCategories, NEW s \in SeedSlugs,
             NEW d \in Categories \cup {Null}, CreateCategory(c, s, d)
      PROVE  Store!StoreNext
  <2>1. Store!InsertCategory(c, s, d)
    BY <1>1, PutCategorySimulated DEF CreateCategory, Used, Exists, Categories
  <2> QED
    BY <2>1 DEF Store!StoreNext, Categories
<1>2. ASSUME NEW c \in Categories, DeleteCategory(c) PROVE Store!StoreNext
  BY <1>2, DeleteCategorySimulated DEF Store!StoreNext
<1>3. ASSUME NEW p \in Products, NEW c \in Categories, MoveProduct(p, c)
      PROVE  Store!StoreNext
  BY <1>3, MoveProductSimulated DEF Store!StoreNext
<1>4. ASSUME NEW p \in Products, DeleteProduct(p) PROVE Store!StoreNext
  BY <1>4, DeleteProductSimulated DEF Store!StoreNext
<1> QED
  BY <1>1, <1>2, <1>3, <1>4 DEF Client

(* The seed, run as often as one likes and beside API clients, is a client  *)
(* of the tables like any other: every step of it is a statement that       *)
(* CatalogStore describes, or leaves what CatalogStore holds as it is.      *)
(* cmd/seed, migrations/00002 and 00003.                                    *)
THEOREM SeedImplementsStore == Spec => StoreImplemented
<1>1. Init => Store!StoreInit
  BY StoreInitHolds
<1>2. IInv /\ [Next]_vars => [Store!StoreNext]_(Store!storeVars)
  <2> SUFFICES ASSUME IInv, [Next]_vars
               PROVE  Store!StoreNext \/ UNCHANGED Store!storeVars
    OBVIOUS
  <2>1. ASSUME NEW command \in Commands, ApplyScript(command)
        PROVE  UNCHANGED Store!storeVars
    BY <2>1, MappedStays DEF ApplyScript, tableVars
  <2>2. ASSUME NEW r \in Runs, Seed(r)
        PROVE  Store!StoreNext \/ UNCHANGED Store!storeVars
    <3>1. CASE Start(r) \/ InsertQuery(r) \/ Refuse(r) \/ Die(r)
      BY <3>1, MappedStays DEF Start, InsertQuery, Refuse, Die, tableVars
    <3>2. CASE InsertProduct(r)
      BY <3>2, InsertProductSimulated DEF Store!StoreNext
    <3> QED
      BY <2>2, <3>1, <3>2, InsertCategorySimulated DEF Seed
  <2>3. CASE UNCHANGED vars
    BY <2>3, MappedStays DEF vars, tableVars
  <2> QED
    BY <2>1, <2>2, <2>3, ClientSimulated DEF Next
<1> QED
  BY <1>1, <1>2, Invariance, PTL DEF Spec, StoreImplemented, Store!StoreSpec
=============================================================================
