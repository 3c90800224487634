---------------------------- MODULE CatalogStore ----------------------------
(***************************************************************************)
(* The products and categories tables and the SQL statements by which      *)
(* ProductRepo and CategoryRepo change them.  No use case opens a          *)
(* transaction, so a statement is the unit of atomicity: each action below *)
(* is one statement together with the constraints and the trigger that     *)
(* migrations/00002 and 00003 attach to it.                                *)
(*                                                                         *)
(* The specification of this module lets any client issue any statement at *)
(* any time.  It is what the storage layer promises to whoever sits above  *)
(* it; CatalogService is shown to be such a client.                        *)
(***************************************************************************)
EXTENDS Naturals, FiniteSets

CONSTANTS
    Products,       \* identifiers a product can get (uuid.New)
    Categories,     \* identifiers a category can get (uuid.New)
    Names,          \* texts of the name, description and brand columns
    Blank,          \* the empty text, what a missing JSON string binds to
    Prices,         \* values of the columns the trigger does not watch
    Slugs,          \* category slugs
    MaxViews,       \* largest view_count the column holds
    Null            \* SQL NULL, an absent field, an absent column value

ASSUME NullAssumption ==
    /\ Null \notin Products \cup Categories \cup Names \cup Prices \cup Slugs
    /\ Blank \notin Names /\ Blank # Null

ASSUME MaxViewsAssumption == MaxViews \in Nat

(* There are 2^122 random UUIDs. *)
ASSUME CategoriesAssumption == IsFiniteSet(Categories)

VARIABLES
    products,       \* row of each product identifier
    categories      \* row of each category identifier

storeVars == <<products, categories>>

-----------------------------------------------------------------------------
Texts == Names \cup {Blank}

(* The values a client writes into a product row. *)
ProductValues == [category : Categories, name : Texts, price : Prices]

(* A row of products.  "unused" is an identifier no row has carried yet,     *)
(* "deleted" a row whose deleted_at is set.  indexed is the text from which  *)
(* trg_products_search_vector last computed search_vector.                   *)
ProductRows ==
    [state : {"unused", "live", "deleted"},
     category : Categories \cup {Null}, name : Texts \cup {Null},
     price : Prices \cup {Null}, indexed : Texts \cup {Null},
     views : 0..MaxViews]

(* A row of categories.  "dropped" is an identifier whose row was removed:  *)
(* clients may still name it, the database never hands it out again.        *)
CategoryRows ==
    [state : {"unused", "live", "dropped"},
     slug : Slugs \cup {Null}, parent : Categories \cup {Null}]

NoProduct == [state |-> "unused", category |-> Null, name |-> Null,
              price |-> Null, indexed |-> Null, views |-> 0]

NoCategory == [state |-> "unused", slug |-> Null, parent |-> Null]

StoreTypeOK ==
    /\ products \in [Products -> ProductRows]
    /\ categories \in [Categories -> CategoryRows]

StoreInit ==
    /\ products = [p \in Products |-> NoProduct]
    /\ categories = [c \in Categories |-> NoCategory]

-----------------------------------------------------------------------------
(* What the WHERE clauses and the constraints look at. *)

(* GetByID and every write but view counting add "deleted_at IS NULL". *)
ProductLive(p) == products[p].state = "live"

(* The row is in the table, soft-deleted or not. *)
ProductStored(p) == products[p].state # "unused"

CategoryLive(c) == c \in Categories /\ categories[c].state = "live"

(* slug VARCHAR NOT NULL UNIQUE *)
SlugTaken(s) == \E c \in Categories : CategoryLive(c) /\ categories[c].slug = s

(* category_id REFERENCES categories(id): soft-deleted rows still refer. *)
CategoryReferenced(c) ==
    \E p \in Products : ProductStored(p) /\ products[p].category = c

(* parent_id REFERENCES categories(id), NULL allowed. *)
ParentOK(c) == c = Null \/ CategoryLive(c)

Children(c) == {d \in Categories : CategoryLive(d) /\ categories[d].parent = c}

-----------------------------------------------------------------------------
(* Statements of ProductRepo.  The trigger runs BEFORE INSERT OR UPDATE OF  *)
(* name, description, brand, and both statements name these columns.        *)

InsertProduct(p, v) ==
    /\ ~ProductStored(p)
    /\ CategoryLive(v.category)
    /\ products' = [products EXCEPT ![p] =
            [state |-> "live", category |-> v.category, name |-> v.name,
             price |-> v.price, indexed |-> v.name, views |-> 0]]
    /\ UNCHANGED categories

(* Faulty variants, for the checks that the properties below catch them.    *)
(* The trigger runs on INSERT only:                                         *)
UpdateWithoutTrigger(p, v) ==
    /\ ProductLive(p) => CategoryLive(v.category)
    /\ products' = IF ProductLive(p)
                   THEN [products EXCEPT ![p] =
                            [@ EXCEPT !.category = v.category, !.name = v.name,
                                      !.price = v.price]]
                   ELSE products
    /\ UNCHANGED categories

(* WHERE id=$1 without "deleted_at IS NULL":                                *)
UpdateDeletedToo(p, v) ==
    /\ ProductStored(p) => CategoryLive(v.category)
    /\ products' = IF ProductStored(p)
                   THEN [products EXCEPT ![p] =
                            [@ EXCEPT !.category = v.category, !.name = v.name,
                                      !.price = v.price, !.indexed = v.name]]
                   ELSE products
    /\ UNCHANGED categories

(* Matches no row, and changes none, when the product is not live. *)
UpdateProduct(p, v) ==
    /\ ProductLive(p) => CategoryLive(v.category)
    /\ products' = IF ProductLive(p)
                   THEN [products EXCEPT ![p] =
                            [@ EXCEPT !.category = v.category, !.name = v.name,
                                      !.price = v.price,
                                      !.indexed = v.name]]
                   ELSE products
    /\ UNCHANGED categories

SoftDeleteProduct(p) ==
    /\ products' = IF ProductLive(p)
                   THEN [products EXCEPT ![p].state = "deleted"]
                   ELSE products
    /\ UNCHANGED categories

(* view_count is a BIGINT: past MaxViews the statement fails.               *)
(* No deleted_at condition: a soft-deleted product is still counted. *)
IncrementViewCount(p) ==
    /\ ProductStored(p)
    /\ products[p].views < MaxViews
    /\ products' = [products EXCEPT ![p].views = @ + 1]
    /\ UNCHANGED categories

-----------------------------------------------------------------------------
(* Statements of CategoryRepo. *)

(* Faulty variant: an upsert on the primary key.                            *)
UpsertCategory(c, slug, parent) ==
    /\ categories[c].state # "dropped"
    /\ \A d \in Categories \ {c} : CategoryLive(d) => categories[d].slug # slug
    /\ ParentOK(parent)
    /\ categories' = [categories EXCEPT ![c] =
            [state |-> "live", slug |-> slug, parent |-> parent]]
    /\ UNCHANGED products

InsertCategory(c, slug, parent) ==
    /\ categories[c].state = "unused"
    /\ ~SlugTaken(slug)
    /\ ParentOK(parent)
    /\ categories' = [categories EXCEPT ![c] =
            [state |-> "live", slug |-> slug, parent |-> parent]]
    /\ UNCHANGED products

(* No use case reaches this statement yet; it leaves parent_id alone.       *)
UpdateCategory(c, slug) ==
    /\ CategoryLive(c) =>
          \A d \in Categories \ {c} : CategoryLive(d) => categories[d].slug # slug
    /\ categories' = IF CategoryLive(c)
                     THEN [categories EXCEPT ![c].slug = slug]
                     ELSE categories
    /\ UNCHANGED products

(* Faulty variants: parent_id without ON DELETE SET NULL, and a products    *)
(* constraint that only counts products that are not deleted.               *)
DeleteKeepingOrphans(c) ==
    /\ CategoryLive(c) => ~CategoryReferenced(c)
    /\ categories' = IF CategoryLive(c)
                     THEN [categories EXCEPT ![c] =
                            [NoCategory EXCEPT !.state = "dropped"]]
                     ELSE categories
    /\ UNCHANGED products

DeleteUnderDeletedProducts(c) ==
    /\ \A p \in Products : ProductLive(p) => products[p].category # c
    /\ categories' = IF CategoryLive(c)
                     THEN [d \in Categories |->
                            IF d = c THEN [NoCategory EXCEPT !.state = "dropped"]
                            ELSE IF d \in Children(c)
                            THEN [categories[d] EXCEPT !.parent = Null]
                            ELSE categories[d]]
                     ELSE categories
    /\ UNCHANGED products

(* The products constraint has no ON DELETE clause and refuses the delete; *)
(* parent_id is ON DELETE SET NULL.  Deleting an absent row matches none.  *)
DeleteCategory(c) ==
    /\ CategoryLive(c) => ~CategoryReferenced(c)
    /\ categories' = IF CategoryLive(c)
                     THEN [d \in Categories |->
                            IF d = c THEN [NoCategory EXCEPT !.state = "dropped"]
                            ELSE IF d \in Children(c)
                            THEN [categories[d] EXCEPT !.parent = Null]
                            ELSE categories[d]]
                     ELSE categories
    /\ UNCHANGED products

-----------------------------------------------------------------------------
StoreNext ==
    \/ \E p \in Products :
          \/ \E v \in ProductValues : InsertProduct(p, v) \/ UpdateProduct(p, v)
          \/ SoftDeleteProduct(p)
          \/ IncrementViewCount(p)
    \/ \E c \in Categories :
          \/ \E s \in Slugs, d \in Categories \cup {Null} : InsertCategory(c, s, d)
          \/ \E s \in Slugs : UpdateCategory(c, s)
          \/ DeleteCategory(c)

StoreSpec == StoreInit /\ [][StoreNext]_storeVars

-----------------------------------------------------------------------------
(* GetDescendantIDs and the category filters of ProductRepo.List and        *)
(* SearchRepo.Search walk the tree with a recursive query.  Working[k] is   *)
(* its working table after k rounds; UNION ALL drops no duplicate, so the   *)
(* query ends only when a working table is empty.                           *)
DescendantRounds(root) ==
    LET Working[k \in 0..Cardinality(Categories)] ==
            IF k = 0 THEN {root} \cap {c \in Categories : CategoryLive(c)}
            ELSE UNION {Children(c) : c \in Working[k - 1]}
    IN  Working

DescendantIDs(root) ==
    UNION {DescendantRounds(root)[k] : k \in 0..Cardinality(Categories)}

(* GetTree: the roots it returns, and the categories below them, which is   *)
(* what CategoriesToResponse puts into the answer.                          *)
TreeRoots == {c \in Categories : CategoryLive(c) /\ categories[c].parent = Null}

-----------------------------------------------------------------------------
(* Safety. *)

(* Every stored product, deleted ones included, has a category that exists, *)
(* and every parent exists, although no use case locks the category between *)
(* checking it and writing the row.  ProductRepo.Create/Update,             *)
(* CategoryRepo.Create/Delete.                                              *)
ReferentialIntegrity ==
    /\ \A p \in Products : ProductStored(p) => CategoryLive(products[p].category)
    /\ \A c \in Categories : CategoryLive(c) => ParentOK(categories[c].parent)

(* Two live categories never share a slug, whatever GetBySlug told the      *)
(* requests that created them.                                              *)
SlugsUnique ==
    \A c, d \in Categories :
        /\ CategoryLive(c) /\ CategoryLive(d)
        /\ categories[c].slug = categories[d].slug
        => c = d

(* The parent relation has no cycle: in every set of live categories some   *)
(* member's parent lies outside the set.                                    *)
Acyclic ==
    \A S \in SUBSET {c \in Categories : CategoryLive(c)} :
        S # {} => \E c \in S : categories[c].parent \notin S

(* GetTree lists every category exactly once: the subtrees of its roots     *)
(* cover the table and do not overlap; and the recursive queries below them *)
(* end: after at most as many rounds as there are categories the working    *)
(* table is empty.                                                          *)
TreeIsComplete ==
    /\ \A c \in Categories : DescendantRounds(c)[Cardinality(Categories)] = {}
    /\ UNION {DescendantIDs(c) : c \in TreeRoots}
            = {c \in Categories : CategoryLive(c)}
    /\ \A c, d \in TreeRoots :
            c # d => DescendantIDs(c) \cap DescendantIDs(d) = {}

(* Full-text search never sees a stale vector: it is always the one the     *)
(* current text columns give.  Migration 00003, ProductRepo.Create/Update.  *)
VectorFresh ==
    \A p \in Products :
        ProductStored(p) => products[p].indexed = products[p].name

(* A deleted product is final: no later statement, of a request that read   *)
(* it before the deletion included, revives it or changes a column other    *)
(* than view_count.  A dropped category never comes back.                   *)
DeletionIsFinal ==
    [][/\ \A p \in Products :
            products[p].state = "deleted"
            => \E n \in 0..MaxViews :
                    products'[p] = [products[p] EXCEPT !.views = n]
       /\ \A c \in Categories :
            categories[c].state = "dropped" => categories'[c] = categories[c]
      ]_storeVars

=============================================================================
