-------------------------------- MODULE Setup --------------------------------
(***************************************************************************)
(* How a database is prepared: cmd/migrate creates the tables, cmd/seed     *)
(* fills them with sample rows.  Both are programs an operator starts by    *)
(* hand, again when they have failed, and nothing keeps them from running   *)
(* beside each other or beside the server and its clients.                  *)
(*                                                                         *)
(* The seed is a sequence of single statements outside a transaction; any   *)
(* error ends it (log.Fatalf) and leaves what was inserted.  An action is   *)
(* one statement.  The tables are held as what they are, functions from the *)
(* identifiers of their rows; Store below maps them to those of             *)
(* CatalogStore.                                                            *)
(***************************************************************************)
EXTENDS Naturals, Sequences

CONSTANTS
    Runs,               \* executions of cmd/seed
    CategoryDefs,       \* slugs of the sample categories, in order
    ProductDefs,        \* slug of the category of each sample product, in order
    QueryTotal,         \* rows of search_queries one execution inserts
    ClientCategories,   \* identifiers of the categories API clients create
    Commands,           \* what operators ask of cmd/migrate
    LastScript,         \* number of migration scripts, 6 in the code
    MayDie,             \* TRUE when the seed may be killed, a statement may fail
    Null

SeedSlugs == {CategoryDefs[i] : i \in 1..Len(CategoryDefs)}

Root == CategoryDefs[1]

(* What lists of sample rows have to be: the slugs of the categories differ, *)
(* and each but the first, their root, has products.                        *)
ListsOK(slugs, rows) ==
    /\ slugs \in Seq({slugs[i] : i \in 1..Len(slugs)}) /\ Len(slugs) > 1
    /\ \A i, j \in 1..Len(slugs) : slugs[i] = slugs[j] => i = j
    /\ LET sections == {slugs[i] : i \in 2..Len(slugs)} IN
       rows \in Seq(sections) /\ \A s \in sections : \E i \in 1..Len(rows) : rows[i] = s

(* The lists of the program: the section of each of its products. *)
SampleCategories == <<"electronics", "smartphones", "laptops", "tablets",
                      "accessories", "headphones">>
Smartphones == 1..7
Laptops == 8..13
Tablets == 14..17
Headphones == 18..22
Accessories == 23..28
SampleProducts ==
    [i \in 1..28 |->
        CASE i \in Smartphones -> "smartphones"
          [] i \in Laptops -> "laptops"
          [] i \in Tablets -> "tablets"
          [] i \in Headphones -> "headphones"
          [] i \in Accessories -> "accessories"]

(* The scripts that create the tables the seed writes. *)
CategoriesScript == 2
ProductsScript == 3
AnalyticsScript == 4

ASSUME SetupAssumption ==
    /\ ListsOK(CategoryDefs, ProductDefs)
    /\ QueryTotal \in Nat \ {0}
    /\ LastScript \in Nat /\ AnalyticsScript <= LastScript
    /\ Commands \subseteq {"up", "down", "status"}
    /\ MayDie \in BOOLEAN

(* Every identifier is a fresh uuid.New; that of a sample row is named after *)
(* the execution that draws it and the row it is for.                       *)
SeedCategories == Runs \X SeedSlugs
Products == Runs \X (1..Len(ProductDefs))

Categories == SeedCategories \cup ClientCategories

ASSUME IdentifierAssumption ==
    /\ ClientCategories \cap SeedCategories = {}
    /\ Null \notin Categories \cup Products \cup SeedSlugs

VARIABLES
    categories,     \* the rows of categories, by identifier
    products,       \* the rows of products, by identifier
    queries,        \* rows of search_queries each execution has inserted
    pc,             \* the loop each execution is in, or how it ended
    next,           \* the index of its next statement in that loop
    schema,         \* the version of the database: the last script applied
    asked,          \* the argument of the last call of cmd/migrate
    removed,        \* history: identifiers of categories that were deleted
    moved           \* history: products whose category a client has changed

tableVars == <<categories, products, queries>>
seedVars == <<pc, next>>
migrateVars == <<schema, asked>>
vars == <<tableVars, seedVars, migrateVars, removed, moved>>

CategoryRows ==
    [slug : SeedSlugs, parent : Categories \cup {Null}, name : {"seed", "client"}]
ProductRows == [category : Categories, deleted : BOOLEAN]

(* How many statements the loop at a place has. *)
Length(place) ==
    IF place = "categories" THEN Len(CategoryDefs)
    ELSE IF place = "products" THEN Len(ProductDefs)
    ELSE IF place = "queries" THEN QueryTotal ELSE 1

TypeOK ==
    /\ DOMAIN categories \subseteq Categories
    /\ categories \in [DOMAIN categories -> CategoryRows]
    /\ DOMAIN products \subseteq Products
    /\ products \in [DOMAIN products -> ProductRows]
    /\ queries \in [Runs -> 0..QueryTotal]
    /\ pc \in [Runs -> {"idle", "categories", "products", "queries", "done", "failed"}]
    /\ next \in [Runs -> Nat]
    /\ \A r \in Runs : next[r] \in 1..Length(pc[r])
    /\ schema \in 0..LastScript
    /\ asked \in {"up", "down", "status"}
    /\ removed \subseteq Categories \ DOMAIN categories
    /\ moved \subseteq DOMAIN products

Init ==
    /\ categories = [c \in {} |-> Null] /\ products = [p \in {} |-> Null]
    /\ queries = [r \in Runs |-> 0]
    /\ pc = [r \in Runs |-> "idle"] /\ next = [r \in Runs |-> 1]
    /\ schema = 0 /\ asked = "up"
    /\ removed = {} /\ moved = {}

-----------------------------------------------------------------------------
(* The tables, and what their constraints look at. *)

Put(table, id, row) ==
    [x \in DOMAIN table \cup {id} |-> IF x = id THEN row ELSE table[x]]

Exists(c) == c \in DOMAIN categories

SlugTaken(s) == \E c \in DOMAIN categories : categories[c].slug = s

ParentOK(c) == c = Null \/ Exists(c)

Referenced(c) == \E p \in DOMAIN products : products[p].category = c

-----------------------------------------------------------------------------
(* cmd/migrate.  The flag package stops at the first argument that is no    *)
(* flag, so "up", "down" and "status" are never looked at: every call runs  *)
(* goose.Up, which applies the pending scripts in order, each in a          *)
(* transaction with the row that records it.  A script may fail and the     *)
(* program may be stopped in between; another call goes on from there.      *)
ApplyScript(command) ==
    /\ schema < LastScript
    /\ schema' = schema + 1 /\ asked' = command
    /\ UNCHANGED <<tableVars, seedVars, removed, moved>>

-----------------------------------------------------------------------------
(* cmd/seed. *)

Working(r) == pc[r] \in {"categories", "products", "queries"}

Fail(r) ==
    /\ pc' = [pc EXCEPT ![r] = "failed"]
    /\ next' = [next EXCEPT ![r] = 1]

(* The loops run to their last element. *)
Following ==
    [categories |-> "products", products |-> "queries", queries |-> "done"]

(* Faulty variant: one turn too many.                                       *)
AdvanceBeyond(r) ==
    IF next[r] <= Length(pc[r])
    THEN next' = [next EXCEPT ![r] = @ + 1] /\ UNCHANGED pc
    ELSE /\ pc' = [pc EXCEPT ![r] = Following[pc[r]]]
         /\ next' = [next EXCEPT ![r] = 1]

Advance(r) ==
    IF next[r] < Length(pc[r])
    THEN next' = [next EXCEPT ![r] = @ + 1] /\ UNCHANGED pc
    ELSE /\ pc' = [pc EXCEPT ![r] = Following[pc[r]]]
         /\ next' = [next EXCEPT ![r] = 1]

(* The statement was executed.  Its acknowledgement may still be lost. *)
Executed(r) == Advance(r) \/ (MayDie /\ Fail(r))

Start(r) ==
    /\ pc[r] = "idle"
    /\ pc' = [pc EXCEPT ![r] = "categories"]
    /\ UNCHANGED <<next, tableVars, migrateVars, removed, moved>>

(* What the execution inserts next. *)
Slug(r) == CategoryDefs[next[r]]
Parent(r) == IF Slug(r) = Root THEN Null ELSE <<r, Root>>
Category(r) == <<r, ProductDefs[next[r]]>>

(* The categories of seedCategories: identifiers are drawn for all of them  *)
(* beforehand, the parent of each but the first is the identifier of the    *)
(* first, whether or not that identifier has reached the table.             *)
SampleCategory(r) == [slug |-> Slug(r), parent |-> Parent(r), name |-> "seed"]

(* Faulty variant: the conflict hands the parent on to the row that stays.  *)
InsertCategoryReparenting(r) ==
    /\ pc[r] = "categories" /\ schema >= CategoriesScript
    /\ \/ /\ SlugTaken(Slug(r))
          /\ categories' = [c \in DOMAIN categories |->
                IF categories[c].slug = Slug(r)
                THEN [categories[c] EXCEPT !.parent = Parent(r), !.name = "seed"]
                ELSE categories[c]]
       \/ /\ ~SlugTaken(Slug(r)) /\ ParentOK(Parent(r))
          /\ categories' = Put(categories, <<r, Slug(r)>>, SampleCategory(r))
    /\ Executed(r)
    /\ UNCHANGED <<products, queries, migrateVars, removed, moved>>

(* ON CONFLICT (slug) DO UPDATE SET name: the row that has the slug keeps   *)
(* its identifier and its parent, and the foreign key of the row that was   *)
(* not inserted is not looked at.                                           *)
InsertCategory(r) ==
    /\ pc[r] = "categories" /\ schema >= CategoriesScript
    /\ \/ /\ SlugTaken(Slug(r))
          /\ categories' = [c \in DOMAIN categories |->
                IF categories[c].slug = Slug(r)
                THEN [categories[c] EXCEPT !.name = "seed"]
                ELSE categories[c]]
       \/ /\ ~SlugTaken(Slug(r)) /\ ParentOK(Parent(r))
          /\ categories' = Put(categories, <<r, Slug(r)>>, SampleCategory(r))
    /\ Executed(r)
    /\ UNCHANGED <<products, queries, migrateVars, removed, moved>>

(* Faulty variants: the category is looked up by its slug, and the error of *)
(* the insert is not looked at.                                             *)
InsertProductBySlug(r) ==
    /\ pc[r] = "products" /\ schema >= ProductsScript
    /\ \E c \in DOMAIN categories :
          /\ categories[c].slug = ProductDefs[next[r]]
          /\ products' = Put(products, <<r, next[r]>>, [category |-> c, deleted |-> FALSE])
    /\ Executed(r)
    /\ UNCHANGED <<categories, queries, migrateVars, removed, moved>>

InsertProductUnchecked(r) ==
    /\ pc[r] = "products" /\ schema >= ProductsScript
    /\ products' = IF Exists(Category(r))
                   THEN Put(products, <<r, next[r]>>,
                            [category |-> Category(r), deleted |-> FALSE])
                   ELSE products
    /\ Executed(r)
    /\ UNCHANGED <<categories, queries, migrateVars, removed, moved>>

(* A product refers to the identifier drawn for its category.  Its own is   *)
(* fresh, so that ON CONFLICT DO NOTHING never has anything to do.          *)
InsertProduct(r) ==
    /\ pc[r] = "products" /\ schema >= ProductsScript
    /\ Exists(Category(r))
    /\ products' = Put(products, <<r, next[r]>>,
                       [category |-> Category(r), deleted |-> FALSE])
    /\ Executed(r)
    /\ UNCHANGED <<categories, queries, migrateVars, removed, moved>>

InsertQuery(r) ==
    /\ pc[r] = "queries" /\ schema >= AnalyticsScript
    /\ queries' = [queries EXCEPT ![r] = @ + 1]
    /\ Executed(r)
    /\ UNCHANGED <<categories, products, migrateVars, removed, moved>>

(* The database refuses the statement: there is no such table, or a foreign *)
(* key has nothing to refer to.                                             *)
Refused(r) ==
    \/ pc[r] = "categories" /\ \/ schema < CategoriesScript
                               \/ ~SlugTaken(Slug(r)) /\ ~ParentOK(Parent(r))
    \/ pc[r] = "products" /\ (schema < ProductsScript \/ ~Exists(Category(r)))
    \/ pc[r] = "queries" /\ schema < AnalyticsScript

Refuse(r) ==
    /\ Refused(r)
    /\ Fail(r)
    /\ UNCHANGED <<tableVars, migrateVars, removed, moved>>

(* No connection, or the operator interrupts the program. *)
Die(r) ==
    /\ MayDie
    /\ pc[r] = "idle" \/ Working(r)
    /\ Fail(r)
    /\ UNCHANGED <<tableVars, migrateVars, removed, moved>>

Seed(r) ==
    \/ Start(r) \/ InsertCategory(r) \/ InsertProduct(r) \/ InsertQuery(r)
    \/ Refuse(r) \/ Die(r)

-----------------------------------------------------------------------------
(* Clients of the server, through the statements that the use cases issue.  *)
(* They work on categories and on the sample products; a product of their   *)
(* own refers to a category like one that they have moved there.            *)

CreateCategory(c, s, d) ==
    /\ schema >= CategoriesScript
    /\ ~Exists(c) /\ c \notin removed
    /\ ~SlugTaken(s) /\ ParentOK(d)
    /\ categories' = Put(categories, c, [slug |-> s, parent |-> d, name |-> "client"])
    /\ UNCHANGED <<products, queries, seedVars, migrateVars, removed, moved>>

DeleteCategory(c) ==
    /\ Exists(c) /\ ~Referenced(c)
    /\ categories' = [d \in DOMAIN categories \ {c} |->
            IF categories[d].parent = c
            THEN [categories[d] EXCEPT !.parent = Null] ELSE categories[d]]
    /\ removed' = removed \cup {c}
    /\ UNCHANGED <<products, queries, seedVars, migrateVars, moved>>

MoveProduct(p, c) ==
    /\ p \in DOMAIN products /\ ~products[p].deleted /\ Exists(c)
    /\ products' = [products EXCEPT ![p].category = c]
    /\ moved' = moved \cup {p}
    /\ UNCHANGED <<categories, queries, seedVars, migrateVars, removed>>

DeleteProduct(p) ==
    /\ p \in DOMAIN products /\ ~products[p].deleted
    /\ products' = [products EXCEPT ![p].deleted = TRUE]
    /\ UNCHANGED <<categories, queries, seedVars, migrateVars, removed, moved>>

Client ==
    \/ \E c \in ClientCategories, s \in SeedSlugs, d \in Categories \cup {Null} :
            CreateCategory(c, s, d)
    \/ \E c \in Categories : DeleteCategory(c)
    \/ \E p \in Products, c \in Categories : MoveProduct(p, c)
    \/ \E p \in Products : DeleteProduct(p)

Next ==
    \/ \E command \in Commands : ApplyScript(command)
    \/ \E r \in Runs : Seed(r)
    \/ Client

Spec == Init /\ [][Next]_vars

-----------------------------------------------------------------------------
(* Refinement.  The tables as CatalogStore sees them: an identifier without *)
(* a row is unused or belongs to a row that was deleted.  Texts and prices  *)
(* are one value, and views are those counted since the row was inserted.   *)

MappedCategories ==
    [c \in Categories |->
        IF c \in DOMAIN categories
        THEN [state |-> "live", slug |-> categories[c].slug,
              parent |-> categories[c].parent]
        ELSE [state |-> IF c \in removed THEN "dropped" ELSE "unused",
              slug |-> Null, parent |-> Null]]

MappedProducts ==
    [p \in Products |->
        IF p \in DOMAIN products
        THEN [state |-> IF products[p].deleted THEN "deleted" ELSE "live",
              category |-> products[p].category, name |-> "text",
              price |-> 0, indexed |-> "text", views |-> 0]
        ELSE [state |-> "unused", category |-> Null, name |-> Null,
              price |-> Null, indexed |-> Null, views |-> 0]]

Store == INSTANCE CatalogStore WITH
    Names <- {"text"}, Blank <- "", Prices <- {0}, MaxViews <- 0,
    Slugs <- SeedSlugs, products <- MappedProducts, categories <- MappedCategories

(* The seed is one more client of the tables: whatever executions, failing  *)
(* and repeated, run beside the API, each of their statements is one that   *)
(* CatalogStore allows, so all that it promises of references, slugs and    *)
(* the tree holds in a seeded database.  seedCategories, seedProducts.      *)
StoreImplemented == Store!StoreSpec

-----------------------------------------------------------------------------
(* Safety. *)

(* The sample products of one section all come from one execution, as long  *)
(* as no client has moved them: a second execution, at the same time or     *)
(* after a failed one, never adds a second set to a category, although      *)
(* nothing in the program looks whether it has run before.  seedProducts.   *)
SectionsUnmixed ==
    \A p, q \in DOMAIN products \ moved :
        ProductDefs[p[2]] = ProductDefs[q[2]] => p[1] = q[1]

(* An execution that ends with "done." has inserted all its sample rows,    *)
(* its categories included, which none of it shares with an earlier one or  *)
(* with clients; every product that no client has moved is in the category  *)
(* of its slug.  main.                                                      *)
DoneIsWhole ==
    \A r \in Runs : pc[r] = "done" =>
        /\ \A s \in SeedSlugs : <<r, s>> \in DOMAIN categories \cup removed
        /\ \A i \in 1..Len(ProductDefs) :
              /\ <<r, i>> \in DOMAIN products
              /\ <<r, i>> \notin moved =>
                    LET c == products[<<r, i>>].category IN
                    Exists(c) /\ categories[c].slug = ProductDefs[i]
        /\ queries[r] = QueryTotal

(* Taskfile.yml on migrate:down: it rolls back the last migration.  What a  *)
(* call with that argument does to the schema is one step down.             *)
(* cmd/migrate main, migrate.Run.                                           *)
DownRollsBack ==
    [][schema' # schema /\ asked' = "down" => schema' = schema - 1]_vars

=============================================================================
