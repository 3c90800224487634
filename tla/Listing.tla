------------------------------ MODULE Listing -------------------------------
(***************************************************************************)
(* The paginated lists: GET /products, GET /search and one user's           *)
(* GET /favorites, seen by a client that walks the pages of a list while    *)
(* other clients write.                                                    *)
(*                                                                         *)
(* A page is two statements, SELECT COUNT( * ) and SELECT .. LIMIT ..       *)
(* OFFSET, each with a snapshot of its own, and every page is a request of  *)
(* its own.  What the filter of a list compares is abstracted to the set of *)
(* rows it matches, which every write may change.  A behaviour is about one *)
(* list; the table and the columns that list does not look at stay as they  *)
(* are.                                                                    *)
(***************************************************************************)
EXTENDS Integers, FiniteSets, SequencesExt

CONSTANTS
    Products,       \* the products clients may create
    Weights,        \* values of price, rating, view_count or the search rank
    Sizes,          \* values of page_size clients ask for
    Pages,          \* numbers of single pages clients ask for
    DefaultSize,    \* 20 in the code
    MaxSize,        \* 100 in the code
    MaxInt          \* the greatest int, 2^63 - 1 in the code

ASSUME ListingAssumption ==
    /\ Weights \subseteq Nat /\ Weights # {} /\ Sizes \subseteq Nat
    /\ Pages \subseteq Int
    /\ DefaultSize \in 1..MaxSize /\ MaxSize \in Nat /\ MaxInt \in Nat

(* A count of rows fits an int. *)
ASSUME RowsAssumption == IsFiniteSet(Products) /\ Cardinality(Products) <= MaxInt

VARIABLES
    rows,           \* the rows of products, in the order of created_at
    deleted,        \* products whose deleted_at is set
    fits,           \* live rows the filter of a list of products matches
    weight,         \* the column a list may be sorted by, of the rows it shows
    favorites,      \* the user's rows of favorites, in the order of created_at
    pc,             \* what the walk does next
    list,           \* the list it walks
    stop,           \* when it ends, see LastPage
    size, page,     \* of the present request, after normalisation
    total,          \* the count the present request got
    seen,           \* the items of all pages so far
    atStart,        \* history: what the list held when the walk began
    changed,        \* history: since then the list or its weights changed
    joined, left    \* history: since then a product entered, left it, if it
                    \*   is a list sorted by time

tableVars == <<rows, deleted, fits, weight, favorites>>
walkVars == <<pc, list, stop, size, page, total, seen, atStart>>
changeVars == <<changed, joined, left>>
vars == <<tableVars, walkVars, changeVars>>

(* "newest" and "oldest" sort by created_at, "weight" by one other column,  *)
(* "relevance" by the rank and then created_at.                             *)
Lists == {"newest", "oldest", "weight", "relevance", "favorites"}

ByWeight(l) == l \in {"weight", "relevance"}

ByTime(l) == l \in {"newest", "oldest", "favorites"}

(* What stands for the weight of a row that the list does not look at.      *)
Hidden == CHOOSE w \in Weights : TRUE

Live == ToSet(rows) \ deleted

(* The WHERE of the list, which GET /favorites gives no filter.             *)
Matching(l) == IF l = "favorites" THEN ToSet(favorites) \cap Live ELSE fits

TypeOK ==
    /\ rows \in Seq(Products) /\ deleted \subseteq ToSet(rows) /\ fits \subseteq Live
    /\ weight \in [Products -> Weights]
    /\ favorites \in Seq(Products)
    /\ pc \in {"idle", "count", "fetch", "done", "failed"}
    /\ list \in Lists /\ stop \in {"total_pages", "short_page", "one_page"}
    /\ size \in 1..MaxSize /\ page \in Nat \ {0} /\ total \in Nat
    /\ seen \in Seq(Products) /\ atStart \subseteq Products
    /\ {changed, joined, left} \subseteq BOOLEAN

Init ==
    /\ rows = <<>> /\ deleted = {} /\ fits = {} /\ favorites = <<>>
    /\ list \in Lists
    /\ weight = [p \in Products |-> Hidden]
    /\ pc = "idle" /\ stop = "total_pages"
    /\ size = DefaultSize /\ page = 1 /\ total = 0
    /\ seen = <<>> /\ atStart = {}
    /\ changed = FALSE /\ joined = FALSE /\ left = FALSE

-----------------------------------------------------------------------------
(* Faulty variant: a page size above the limit is let through.              *)
NormaliseUnbounded(n) == IF n < 1 THEN DefaultSize ELSE n

(* A size out of range is replaced by the default, not cut to the maximum.  *)
Normalise(n) == IF n < 1 \/ n > MaxSize THEN DefaultSize ELSE n

(* parseIntParam: what is no int, or less than one, is taken for page one.  *)
Asked(n) == IF n < 1 \/ n > MaxInt THEN 1 ELSE n

(* Faulty variant: the remainder is forgotten.                              *)
TotalPagesDown(n, s) == n \div s

TotalPages(n, s) == n \div s + (IF n % s # 0 THEN 1 ELSE 0)

(* Faulty variants: page taken for a page index from zero, and pages that   *)
(* overlap in one row.                                                      *)
OffsetFromZero(pg, s) == pg * s

OffsetOverlapping(pg, s) == (pg - 1) * (IF s > 1 THEN s - 1 ELSE s)

(* An int wraps around. *)
Wrapped(n) == ((n + MaxInt + 1) % (2 * (MaxInt + 1))) - (MaxInt + 1)

Offset(pg, s) == Wrapped((pg - 1) * s)

(* time.Now() of two inserts differs, so that created_at never ties. *)
Older(table, p, q) ==
    \E i, j \in 1..Len(table) : table[i] = p /\ table[j] = q /\ i < j

(* What ORDER BY demands of two rows.  Only descending weights: the others  *)
(* are the same list with the weights turned round.                         *)
Precedes(l, p, q) ==
    CASE l = "newest"    -> Older(rows, q, p)
      [] l = "oldest"    -> Older(rows, p, q)
      [] l = "weight"    -> weight[p] > weight[q]
      [] l = "relevance" -> \/ weight[p] > weight[q]
                            \/ weight[p] = weight[q] /\ Older(rows, q, p)
      [] l = "favorites" -> Older(favorites, q, p)

(* Rows that tie come in any order, anew in every query. *)
Orders(l) ==
    {q \in SetToSeqs(Matching(l)) :
        \A i, j \in 1..Len(q) : i < j => ~Precedes(l, q[j], q[i])}

(* LIMIT s OFFSET Offset(pg, s) *)
Page(q, pg, s) ==
    SubSeq(q, Offset(pg, s) + 1,
           IF Offset(pg, s) + s < Len(q) THEN Offset(pg, s) + s ELSE Len(q))

(* FavoritesRepo.List counts rows of favorites without looking at           *)
(* deleted_at; the other lists count with the WHERE of the page.            *)
Counted(l) == IF l = "favorites" THEN ToSet(favorites) ELSE fits

-----------------------------------------------------------------------------
(* Other clients. *)

Walking == pc # "idle"

(* History: what a write does to the list that is being walked. *)
Watch ==
    /\ UNCHANGED walkVars
    /\ changed' = (changed \/ (Walking /\ <<Matching(list), weight>>' # <<Matching(list), weight>>))
    /\ joined' = (joined \/ (Walking /\ ByTime(list) /\ Matching(list)' \ Matching(list) # {}))
    /\ left' = (left \/ (Walking /\ ByTime(list) /\ Matching(list) \ Matching(list)' # {}))

(* A row takes its created_at from time.Now(), some time before its INSERT:  *)
(* when it appears, rows that are older and rows that are younger may be    *)
(* there already.                                                          *)
Insertions(table, p) == {InsertAt(table, i, p) : i \in 1..(Len(table) + 1)}

(* A row that is written comes to be among those the filter matches, with   *)
(* whatever weight, or comes to be none of them.                            *)
InFilter(p) ==
    /\ list # "favorites"
    /\ fits' = fits \cup {p}
    /\ \E w \in IF ByWeight(list) THEN Weights ELSE {Hidden} :
          weight' = [weight EXCEPT ![p] = w]

OutOfFilter(S) ==
    /\ fits' = fits \ S
    /\ weight' = [p \in Products |-> IF p \in S THEN Hidden ELSE weight[p]]

CreateProduct(p) ==
    /\ p \notin ToSet(rows)
    /\ rows' \in Insertions(rows, p)
    /\ InFilter(p) \/ OutOfFilter({p})
    /\ UNCHANGED <<deleted, favorites>> /\ Watch

DeleteProduct(p) ==
    /\ p \in Live
    /\ deleted' = deleted \cup {p}
    /\ OutOfFilter({p})
    /\ UNCHANGED <<rows, favorites>> /\ Watch

(* An update of what the list looks at, or a view that is counted.          *)
UpdateProduct(p) ==
    /\ p \in Live
    /\ InFilter(p) \/ OutOfFilter({p})
    /\ <<fits, weight>>' # <<fits, weight>>
    /\ UNCHANGED <<rows, deleted, favorites>> /\ Watch

(* The categories below a deleted one lose their parent, and the filter of  *)
(* one further up loses their products, all in one statement.               *)
DeleteCategory ==
    /\ \E below \in SUBSET fits \ {{}} : OutOfFilter(below)
    /\ UNCHANGED <<rows, deleted, favorites>> /\ Watch

(* Add reads the product and inserts the row later, ON CONFLICT DO NOTHING: *)
(* the product may have been deleted in between, and a favorite outlives it. *)
InsertFavorite(p) ==
    /\ list = "favorites"
    /\ p \in ToSet(rows)
    /\ favorites' \in IF p \in ToSet(favorites) THEN {favorites}
                                               ELSE Insertions(favorites, p)
    /\ UNCHANGED <<rows, deleted, fits, weight>> /\ Watch

RemoveFavorite(p) ==
    /\ list = "favorites"
    /\ \/ p \notin ToSet(favorites) /\ UNCHANGED favorites
       \/ \E i \in 1..Len(favorites) :
             favorites[i] = p /\ favorites' = RemoveAt(favorites, i)
    /\ UNCHANGED <<rows, deleted, fits, weight>> /\ Watch

-----------------------------------------------------------------------------
(* The walking client and the two statements that serve each of its pages.  *)

(* The client starts at page one, or wants one page only, whichever. *)
Begin ==
    /\ pc = "idle"
    /\ pc' = "count"
    /\ \E n \in Sizes : size' = Normalise(n)
    /\ \/ stop' \in {"total_pages", "short_page"} /\ UNCHANGED page
       \/ stop' = "one_page" /\ \E n \in Pages : page' = Asked(n)
    /\ atStart' = Matching(list)
    /\ UNCHANGED <<tableVars, list, total, seen, changeVars>>

Count ==
    /\ pc = "count"
    /\ total' = Cardinality(Counted(list))
    /\ pc' = "fetch"
    /\ UNCHANGED <<tableVars, list, stop, size, page, seen, atStart, changeVars>>

(* Stop after total_pages of the last answer, or at a page that is not full. *)
LastPage(items) ==
    CASE stop = "total_pages" -> page >= TotalPages(total, size)
      [] stop = "short_page"  -> Len(items) < size
      [] stop = "one_page"    -> TRUE

(* A negative OFFSET is an error of the database, answered 500. *)
FetchFails ==
    /\ pc = "fetch"
    /\ Offset(page, size) < 0
    /\ pc' = "failed"
    /\ UNCHANGED <<tableVars, list, stop, size, page, total, seen, atStart, changeVars>>

Fetch ==
    /\ pc = "fetch"
    /\ Offset(page, size) >= 0
    /\ \E q \in Orders(list) :
          LET items == Page(q, page, size) IN
          /\ seen' = seen \o items
          /\ IF LastPage(items) THEN pc' = "done" /\ UNCHANGED page
                                ELSE pc' = "count" /\ page' = page + 1
    /\ UNCHANGED <<tableVars, list, stop, size, total, atStart, changeVars>>

(* The client is done with the list and forgets it. *)
Close ==
    /\ pc \in {"done", "failed"}
    /\ pc' = "idle" /\ stop' = "total_pages"
    /\ size' = DefaultSize /\ page' = 1 /\ total' = 0
    /\ seen' = <<>> /\ atStart' = {}
    /\ changed' = FALSE /\ joined' = FALSE /\ left' = FALSE
    /\ UNCHANGED <<tableVars, list>>

OthersWrite ==
    \/ \E p \in Products :
          \/ CreateProduct(p) \/ DeleteProduct(p) \/ UpdateProduct(p)
          \/ InsertFavorite(p) \/ RemoveFavorite(p)
    \/ DeleteCategory

Next == OthersWrite \/ Begin \/ Count \/ Fetch \/ FetchFails \/ Close

Spec == Init /\ [][Next]_vars

-----------------------------------------------------------------------------
(* All of these are about a walk that has met its last page. *)

Times(p) == Cardinality({i \in 1..Len(seen) : seen[i] = p})

Quiet == ~changed

(* Nothing ties with p, and the database cannot shuffle it. *)
Untied(p) ==
    \A q \in Matching(list) \ {p} :
        Precedes(list, p, q) \/ Precedes(list, q, p)

(* When nobody changes the list during the walk, the walk meets every       *)
(* product exactly once, except those that tie with another: a page shuffles *)
(* them without disturbing the rest.  Under /favorites the walk also gets   *)
(* past the rows of deleted products that the count includes.               *)
(* ListUseCase.Execute, ProductRepo.List, SearchRepo.Search.                *)
UntiedExactlyOnce ==
    pc = "done" /\ stop # "one_page" /\ Quiet =>
        \A p \in Matching(list) : Untied(p) => Times(p) = 1

(* The offset of the present page is an int. *)
Fits == (page - 1) * size <= MaxInt

ItemsOn(pg, n) ==
    IF n <= (pg - 1) * size THEN 0
    ELSE IF n < pg * size THEN n - (pg - 1) * size ELSE size

(* When nobody changes the list meanwhile, total is the number of items     *)
(* that its total_pages pages hold together, ties included; each page has   *)
(* the number of items that total gives it, so that one behind total_pages  *)
(* is empty, and no request fails, except pages so far out that the offset  *)
(* overflows: those may fail or show items that are not theirs.             *)
(* ListUseCase.Execute, SearchUseCase.Execute.                              *)
PagesAddUp ==
    Quiet /\ list # "favorites" =>
        /\ pc = "done" /\ stop # "one_page" => Len(seen) = total
        /\ pc = "done" /\ stop = "one_page" /\ Fits => Len(seen) = ItemsOn(page, total)
        /\ pc = "failed" => ~Fits

(* The same of GET /favorites, as docs/CONTRACT.md describes the list.      *)
FavoritesTotalIsExact ==
    pc = "done" /\ stop # "one_page" /\ Quiet /\ list = "favorites" => total = Len(seen)

(* In a list sorted by time, as long as nothing leaves it, a walk that ends *)
(* at the first page that is not full misses nothing that was there when it *)
(* began, whatever others create, update or add meanwhile, and wherever in  *)
(* the list that appears.  ProductRepo.List, FavoritesRepo.List.            *)
NothingMissed ==
    pc = "done" /\ stop = "short_page" /\ ByTime(list) /\ ~left =>
        \A p \in atStart : Times(p) >= 1

(* In a list sorted by time, as long as nothing enters it, a walk meets no  *)
(* product twice, whatever others delete or move out of the filter          *)
(* meanwhile.  One that enters may push another on to the next page, even   *)
(* in the oldest-first list: its created_at was drawn before an INSERT that *)
(* came late, or an update moved an old row into the filter.                *)
(* ProductRepo.List, FavoritesRepo.List.                                    *)
NothingTwice ==
    ByTime(list) /\ ~joined => \A p \in Products : Times(p) <= 1

=============================================================================
