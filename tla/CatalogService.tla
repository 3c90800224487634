--------------------------- MODULE CatalogService ---------------------------
(***************************************************************************)
(* The product and category use cases over the tables of CatalogStore, with *)
(* any number of HTTP requests in flight.                                   *)
(*                                                                         *)
(* gin serves every request in a goroutine of its own and no use case opens *)
(* a transaction or takes a lock, so what is atomic is one SQL statement.   *)
(* Each action below is one statement of one request, with the Go code      *)
(* around it: the decision taken on its result and, for the last one, the   *)
(* status writeError or the handler sends.  GetProduct also starts a        *)
(* goroutine that counts the view and that nothing waits for, before it     *)
(* answers with the row it has read.                                        *)
(***************************************************************************)
EXTENDS CatalogStore

CONSTANTS
    Requests,       \* requests that can be in flight at one time
    Ops,            \* the operations clients ask for
    DatabaseFails,  \* TRUE when a statement may fail or its answer get lost
    MayCrash        \* TRUE when the process may stop at any point

OpNames == {"CreateProduct", "UpdateProduct", "DeleteProduct", "GetProduct",
            "CreateCategory", "DeleteCategory"}

ASSUME ServiceAssumption ==
    /\ Ops \subseteq OpNames
    /\ DatabaseFails \in BOOLEAN /\ MayCrash \in BOOLEAN

VARIABLES
    pc,             \* the statement each request executes next
    call,           \* the operation and the arguments of each request
    copy,           \* the row an update works on, or a get answers with
    reply,          \* the HTTP status of each request that is answered
    pending,        \* goroutines that have yet to count a view, by product
    served,         \* history: calls of GetProduct that found the product
    lost            \* history: views no goroutine will count any more

requestVars == <<pc, call, copy, reply>>
viewVars == <<pending, served, lost>>
vars == <<storeVars, requestVars, viewVars>>

-----------------------------------------------------------------------------
(* Calls.  The identifier of a new row is drawn by uuid.New; it is part of  *)
(* the call here.  In an update an absent field is Null (a nil pointer).    *)
CreateProductCalls ==
    [op : {"CreateProduct"}, product : Products, category : Categories,
     name : Texts, price : Prices]
UpdateProductCalls ==
    [op : {"UpdateProduct"}, product : Products, category : Categories \cup {Null},
     name : Texts \cup {Null}, price : Prices \cup {Null}]
ProductCalls == [op : {"DeleteProduct", "GetProduct"}, product : Products]
CreateCategoryCalls ==
    [op : {"CreateCategory"}, category : Categories, slug : Slugs,
     parent : Categories \cup {Null}]
DeleteCategoryCalls == [op : {"DeleteCategory"}, category : Categories]

Calls == CreateProductCalls \cup UpdateProductCalls \cup ProductCalls
            \cup CreateCategoryCalls \cup DeleteCategoryCalls

NoCall == [op |-> "none"]

(* The statements of the use cases, and the one each of them begins with;   *)
(* "gp_answer" is no statement but the way from the read to the answer.     *)
Steps == {"cp_category", "cp_insert", "up_read", "up_category", "up_write",
          "dp_read", "dp_write", "gp_read", "gp_answer",
          "cc_slug", "cc_parent", "cc_insert",
          "dc_read", "dc_delete"}

FirstStep ==
    [CreateProduct  |-> "cp_category", UpdateProduct  |-> "up_read",
     DeleteProduct  |-> "dp_read",     GetProduct     |-> "gp_read",
     CreateCategory |-> "cc_slug",     DeleteCategory |-> "dc_read"]

Statuses == {"200", "201", "204", "404", "409", "500"}

Running(r) == pc[r] \notin {"idle", "answered"}

TypeOK ==
    /\ StoreTypeOK
    /\ pc \in [Requests -> Steps \cup {"idle", "answered"}]
    /\ call \in [Requests -> Calls \cup {NoCall}]
    /\ copy \in [Requests -> ProductRows]
    /\ reply \in [Requests -> Statuses \cup {Null}]
    /\ pending \in [Products -> Nat]
    /\ served \in [Products -> Nat]
    /\ lost \in [Products -> Nat]

Init ==
    /\ StoreInit
    /\ pc = [r \in Requests |-> "idle"]
    /\ call = [r \in Requests |-> NoCall]
    /\ copy = [r \in Requests |-> NoProduct]
    /\ reply = [r \in Requests |-> Null]
    /\ pending = [p \in Products |-> 0]
    /\ served = [p \in Products |-> 0]
    /\ lost = [p \in Products |-> 0]

-----------------------------------------------------------------------------
(* Building blocks. *)

At(r, step) == pc[r] = step

Goto(r, step) ==
    /\ pc' = [pc EXCEPT ![r] = step]
    /\ UNCHANGED <<call, copy, reply>>

Answer(r, status) ==
    /\ pc' = [pc EXCEPT ![r] = "answered"]
    /\ reply' = [reply EXCEPT ![r] = status]
    /\ copy' = [copy EXCEPT ![r] = NoProduct]
    /\ UNCHANGED call

(* The database executed the last statement of r.  When the connection      *)
(* breaks, or the client's context ends, before pgx has read the result,    *)
(* the use case sees an error all the same.                                 *)
Acknowledge(r, status) ==
    Answer(r, status) \/ (DatabaseFails /\ Answer(r, "500"))

(* Faulty variant: constraint errors are taken for bad requests.            *)
RefusedAsBadRequest(r) == Answer(r, "400") /\ UNCHANGED storeVars

(* A constraint refused the statement: writeError knows none of the errors  *)
(* of pgx and answers 500.                                                  *)
Refused(r) == Answer(r, "500") /\ UNCHANGED storeVars

NoView == UNCHANGED viewVars

-----------------------------------------------------------------------------
(* uuid.New draws an identifier that nobody has drawn. *)
IsNewProduct(p) ==
    /\ products[p].state = "unused"
    /\ \A q \in Requests : call[q].op = "CreateProduct" => call[q].product # p

IsNewCategory(c) ==
    /\ categories[c].state = "unused"
    /\ \A q \in Requests : call[q].op = "CreateCategory" => call[q].category # c

(* MaxViews bounds the views of a product that are ever asked for. *)
ViewsLeft(p) ==
    served[p] + Cardinality({q \in Requests : At(q, "gp_read") /\ call[q].product = p})
        < MaxViews

(* A request arrives and the handler binds its body.  A body that does not  *)
(* bind is answered 400 before any statement and is left out.               *)
Receivable(c) ==
    /\ c.op \in Ops
    /\ c.op = "CreateProduct" => IsNewProduct(c.product)
    /\ c.op = "CreateCategory" => IsNewCategory(c.category) /\ c.parent # c.category
    /\ c.op = "GetProduct" => ViewsLeft(c.product)

Receive(r) ==
    /\ At(r, "idle")
    /\ \E c \in Calls :
          /\ Receivable(c)
          /\ call' = [call EXCEPT ![r] = c]
          /\ pc' = [pc EXCEPT ![r] = FirstStep[c.op]]
    /\ UNCHANGED <<storeVars, copy, reply, viewVars>>

(* The client takes the answer and the connection is free again. *)
Finish(r) ==
    /\ At(r, "answered")
    /\ pc' = [pc EXCEPT ![r] = "idle"]
    /\ call' = [call EXCEPT ![r] = NoCall]
    /\ reply' = [reply EXCEPT ![r] = Null]
    /\ UNCHANGED <<storeVars, copy, viewVars>>

-----------------------------------------------------------------------------
(* CreateProduct: the category is read, then the row is inserted. *)

CheckCategory(r) ==
    /\ At(r, "cp_category")
    /\ IF CategoryLive(call[r].category) THEN Goto(r, "cp_insert")
                                         ELSE Answer(r, "404")
    /\ UNCHANGED storeVars /\ NoView

NewRow(c) == [category |-> c.category, name |-> c.name, price |-> c.price]

(* Faulty variant: a refused insert is tried again until it succeeds.       *)
CreateProductRetrying(r) ==
    /\ At(r, "cp_insert")
    /\ InsertProduct(call[r].product, NewRow(call[r])) /\ Acknowledge(r, "201")
    /\ NoView

CreateProduct(r) ==
    /\ At(r, "cp_insert")
    /\ \/ InsertProduct(call[r].product, NewRow(call[r])) /\ Acknowledge(r, "201")
       \/ ~CategoryLive(call[r].category) /\ Refused(r)
    /\ NoView

-----------------------------------------------------------------------------
(* UpdateProduct: the row is read, the category of the request is read when *)
(* the request names one, the fields of the request are laid over the copy, *)
(* and every column of the copy but the counters is written back.           *)

ReadForUpdate(r) ==
    LET p == call[r].product IN
    /\ At(r, "up_read")
    /\ IF ProductLive(p)
       THEN /\ copy' = [copy EXCEPT ![r] = products[p]]
            /\ pc' = [pc EXCEPT ![r] = IF call[r].category = Null
                                       THEN "up_write" ELSE "up_category"]
            /\ UNCHANGED <<call, reply>>
       ELSE Answer(r, "404")
    /\ UNCHANGED storeVars /\ NoView

CheckNewCategory(r) ==
    /\ At(r, "up_category")
    /\ IF CategoryLive(call[r].category) THEN Goto(r, "up_write")
                                         ELSE Answer(r, "404")
    /\ UNCHANGED storeVars /\ NoView

Field(given, old) == IF given = Null THEN old ELSE given

ApplyUpdateRequest(row, c) ==
    [category |-> Field(c.category, row.category),
     name |-> Field(c.name, row.name),
     price |-> Field(c.price, row.price)]

(* Faulty variant: view_count is written back with the other columns.       *)
WriteBackCounter(r) ==
    LET p == call[r].product
        v == ApplyUpdateRequest(copy[r], call[r])
    IN
    /\ At(r, "up_write")
    /\ CategoryLive(v.category)
    /\ products' = [products EXCEPT ![p] =
            [@ EXCEPT !.category = v.category, !.name = v.name, !.price = v.price,
                      !.indexed = v.name, !.views = copy[r].views]]
    /\ UNCHANGED categories
    /\ Answer(r, "200") /\ NoView

(* UPDATE does not look at the number of rows it changed: a product that    *)
(* was deleted after the read is answered like any other.                   *)
WriteProduct(r) ==
    LET p == call[r].product
        v == ApplyUpdateRequest(copy[r], call[r])
    IN
    /\ At(r, "up_write")
    /\ \/ UpdateProduct(p, v) /\ Acknowledge(r, "200")
       \/ ProductLive(p) /\ ~CategoryLive(v.category) /\ Refused(r)
    /\ NoView

-----------------------------------------------------------------------------
(* DeleteProduct and GetProduct. *)

ReadForDelete(r) ==
    /\ At(r, "dp_read")
    /\ IF ProductLive(call[r].product) THEN Goto(r, "dp_write")
                                       ELSE Answer(r, "404")
    /\ UNCHANGED storeVars /\ NoView

(* Faulty variant: the row is removed instead of marked.                    *)
HardDelete(r) ==
    LET p == call[r].product IN
    /\ At(r, "dp_write")
    /\ products' = [products EXCEPT ![p] = NoProduct]
    /\ UNCHANGED categories
    /\ Acknowledge(r, "204") /\ NoView

DeleteProduct(r) ==
    /\ At(r, "dp_write")
    /\ SoftDeleteProduct(call[r].product) /\ Acknowledge(r, "204")
    /\ NoView

(* The row is found: its view is left to a goroutine, and the row goes into *)
(* the answer as it is now, whatever becomes of it until the answer is sent. *)
Take(r, p) ==
    /\ copy' = [copy EXCEPT ![r] = products[p]]
    /\ pc' = [pc EXCEPT ![r] = "gp_answer"]
    /\ pending' = [pending EXCEPT ![p] = @ + 1]
    /\ served' = [served EXCEPT ![p] = @ + 1]
    /\ UNCHANGED <<call, reply, lost>>

(* Faulty variant: the read has no deleted_at condition.                    *)
GetEvenDeleted(r) ==
    LET p == call[r].product IN
    /\ At(r, "gp_read")
    /\ IF ProductStored(p) THEN Take(r, p) ELSE Answer(r, "404") /\ NoView
    /\ UNCHANGED storeVars

GetProduct(r) ==
    LET p == call[r].product IN
    /\ At(r, "gp_read")
    /\ IF ProductLive(p) THEN Take(r, p) ELSE Answer(r, "404") /\ NoView
    /\ UNCHANGED storeVars

(* The handler sends copy[r]; the product may be deleted by now, and its    *)
(* view counted.                                                            *)
SendProduct(r) ==
    /\ At(r, "gp_answer")
    /\ Answer(r, "200")
    /\ UNCHANGED storeVars /\ NoView

-----------------------------------------------------------------------------
(* CreateCategory: the slug is looked up, the parent is read when there is  *)
(* one, the row is inserted.  The error of GetBySlug is not looked at: a    *)
(* failing lookup counts as a free slug.                                    *)

AfterSlug(r) == IF call[r].parent = Null THEN "cc_insert" ELSE "cc_parent"

CheckSlug(r) ==
    /\ At(r, "cc_slug")
    /\ \/ SlugTaken(call[r].slug) /\ Answer(r, "409")
       \/ (SlugTaken(call[r].slug) => DatabaseFails) /\ Goto(r, AfterSlug(r))
    /\ UNCHANGED storeVars /\ NoView

CheckParent(r) ==
    /\ At(r, "cc_parent")
    /\ IF CategoryLive(call[r].parent) THEN Goto(r, "cc_insert")
                                       ELSE Answer(r, "404")
    /\ UNCHANGED storeVars /\ NoView

(* Faulty variant: row and parent_id in two statements, the second fails.   *)
CreateCategoryInTwo(r) ==
    LET c == call[r] IN
    /\ At(r, "cc_insert")
    /\ \/ /\ InsertCategory(c.category, c.slug, Null)
          /\ Answer(r, IF c.parent = Null THEN "201" ELSE "500")
       \/ SlugTaken(c.slug) /\ Refused(r)
    /\ NoView

CreateCategory(r) ==
    LET c == call[r] IN
    /\ At(r, "cc_insert")
    /\ \/ InsertCategory(c.category, c.slug, c.parent) /\ Acknowledge(r, "201")
       \/ (SlugTaken(c.slug) \/ ~ParentOK(c.parent)) /\ Refused(r)
    /\ NoView

-----------------------------------------------------------------------------
(* DeleteCategory. *)

ReadCategory(r) ==
    /\ At(r, "dc_read")
    /\ IF CategoryLive(call[r].category) THEN Goto(r, "dc_delete")
                                         ELSE Answer(r, "404")
    /\ UNCHANGED storeVars /\ NoView

(* ErrCategoryInUse exists in domain/errors.go and nothing returns it. *)
RemoveCategory(r) ==
    LET c == call[r].category IN
    /\ At(r, "dc_delete")
    /\ \/ DeleteCategory(c) /\ Acknowledge(r, "204")
       \/ CategoryLive(c) /\ CategoryReferenced(c) /\ Refused(r)
    /\ NoView

-----------------------------------------------------------------------------
(* What the database and the process do to all of them. *)

(* A statement fails before it has an effect: no connection, a deadline, a  *)
(* client that went away and cancelled the request's context.               *)
StatementFails(r) ==
    /\ DatabaseFails
    /\ Running(r) /\ pc[r] \notin {"cc_slug", "gp_answer"}
    /\ Refused(r) /\ NoView

(* Faulty variant: the UPDATE has a deleted_at condition.                   *)
CountViewOfLive(p) ==
    /\ pending[p] > 0
    /\ IF ProductLive(p) THEN IncrementViewCount(p) ELSE UNCHANGED storeVars
    /\ pending' = [pending EXCEPT ![p] = @ - 1]
    /\ UNCHANGED <<requestVars, served, lost>>

(* The goroutine of GetProduct.  Its error is dropped. *)
CountView(p) ==
    /\ pending[p] > 0
    /\ IncrementViewCount(p)
    /\ pending' = [pending EXCEPT ![p] = @ - 1]
    /\ UNCHANGED <<requestVars, served, lost>>

CountingFails(p) ==
    /\ DatabaseFails
    /\ pending[p] > 0
    /\ pending' = [pending EXCEPT ![p] = @ - 1]
    /\ lost' = [lost EXCEPT ![p] = @ + 1]
    /\ UNCHANGED <<storeVars, requestVars, served>>

(* The process stops and starts again.  On SIGTERM srv.Shutdown waits for   *)
(* the requests but nothing waits for the goroutines, so a clean stop is a  *)
(* special case.  The tables keep what was committed.                       *)
Crash ==
    /\ MayCrash
    /\ pc' = [r \in Requests |-> "idle"]
    /\ call' = [r \in Requests |-> NoCall]
    /\ copy' = [r \in Requests |-> NoProduct]
    /\ reply' = [r \in Requests |-> Null]
    /\ pending' = [p \in Products |-> 0]
    /\ lost' = [p \in Products |-> lost[p] + pending[p]]
    /\ UNCHANGED <<storeVars, served>>

-----------------------------------------------------------------------------
(* One statement of a request that is being served, with what follows it.   *)
Statement(r) ==
    \/ CheckCategory(r) \/ CreateProduct(r)
    \/ ReadForUpdate(r) \/ CheckNewCategory(r) \/ WriteProduct(r)
    \/ ReadForDelete(r) \/ DeleteProduct(r)
    \/ GetProduct(r) \/ SendProduct(r)
    \/ CheckSlug(r) \/ CheckParent(r) \/ CreateCategory(r)
    \/ ReadCategory(r) \/ RemoveCategory(r)

Serve(r) == Statement(r) \/ StatementFails(r)

RunGoroutine(p) == CountView(p) \/ CountingFails(p)

Next ==
    \/ \E r \in Requests : Receive(r) \/ Serve(r) \/ Finish(r)
    \/ \E p \in Products : RunGoroutine(p)
    \/ Crash

Spec == Init /\ [][Next]_vars

(* The Go scheduler and the database let every goroutine proceed; clients   *)
(* are free to send nothing and to keep an answer waiting.  A request is    *)
(* not counted on to be ended by a statement that fails.                    *)
FairSpec ==
    /\ Spec
    /\ \A r \in Requests : WF_vars(Statement(r))
    /\ \A p \in Products : WF_vars(RunGoroutine(p))

-----------------------------------------------------------------------------
(* Safety. *)

(* The service is a client of the tables and of nothing else: every step of *)
(* any number of interleaved, failing and crashing requests is one          *)
(* statement or leaves the tables alone, so what CatalogStore guarantees    *)
(* holds under it.                                                          *)
StoreImplemented == StoreSpec

(* Every view of GetProduct is counted once, still to be counted, or lost *)
(* with its goroutine; no write of another request takes it back.           *)
(* GetUseCase.Execute, IncrementViewCount, ProductRepo.Update.              *)
ViewAccounting ==
    \A p \in Products : products[p].views + pending[p] + lost[p] = served[p]

Answers(r, status) == Running(r) /\ At(r, "answered")' /\ reply'[r] = status

-----------------------------------------------------------------------------
(* What the contract says of the answers.  Both break when two requests     *)
(* overlap.                                                                 *)

(* docs/CONTRACT.md on UpdateProductRequest: an absent field leaves the     *)
(* record alone.  UpdateUseCase.Execute, ApplyUpdateRequest.                *)
AbsentFieldsUntouched ==
    [][\A r \in Requests :
        LET c == call[r] IN
        At(r, "up_write") /\ Answers(r, "200") =>
            /\ c.category = Null =>
                  products'[c.product].category = products[c.product].category
            /\ c.name = Null =>
                  products'[c.product].name = products[c.product].name
            /\ c.price = Null =>
                  products'[c.product].price = products[c.product].price
      ]_vars

(* A slug that is taken is answered 409, never 500.                         *)
(* category.CreateUseCase.Execute.                                          *)
TakenSlugIsConflict ==
    [][\A r \in Requests :
        Answers(r, "500") /\ call[r].op = "CreateCategory"
        => ~SlugTaken(call[r].slug)]_vars

-----------------------------------------------------------------------------
(* Liveness, under FairSpec. *)

(* Every request is answered, or dies with the process; no request waits    *)
(* for another.                                                             *)
RequestsAreAnswered == \A r \in Requests : Running(r) ~> ~Running(r)

(* Every view reaches view_count or is lost with its goroutine: no          *)
(* goroutine hangs on.                                                      *)
ViewsSettle ==
    \A p \in Products : \A n \in 1..MaxViews :
        served[p] >= n ~> products[p].views + lost[p] >= n

=============================================================================
