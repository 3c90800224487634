------------------------ MODULE CatalogServiceProofs ------------------------
(***************************************************************************)
(* The use cases, with any number of requests in flight, failing statements *)
(* and crashes, keep to the statements of CatalogStore and so inherit what  *)
(* is proved of the tables; and no view that was served is ever unaccounted *)
(* for.                                                                     *)
(*                                                                         *)
(* The inductive invariant ties a request to the call it executes (so that  *)
(* the values it writes are typed), says that a stored row and a copy of    *)
(* one have all their columns (the copy is written back), and that an       *)
(* identifier not yet used has no views.  What is proved of the answers     *)
(* rests on the memory of CatalogHistory: the row a request works on or     *)
(* answers with is in it, undeleted, and stays there until the answer.      *)
(***************************************************************************)
EXTENDS CatalogHistory, CatalogStoreProofs

CallMatches ==
    \A r \in Requests :
        /\ pc[r] \in {"cp_category", "cp_insert"} => call[r] \in CreateProductCalls
        /\ pc[r] \in {"up_read", "up_category", "up_write"}
              => call[r] \in UpdateProductCalls
        /\ pc[r] \in {"dp_read", "dp_write"}
              => call[r] \in ProductCalls /\ call[r].op = "DeleteProduct"
        /\ pc[r] \in {"gp_read", "gp_answer"}
              => call[r] \in ProductCalls /\ call[r].op = "GetProduct"
        /\ pc[r] \in {"cc_slug", "cc_parent", "cc_insert"}
              => call[r] \in CreateCategoryCalls
        /\ pc[r] \in {"dc_read", "dc_delete"} => call[r] \in DeleteCategoryCalls
        /\ pc[r] = "up_category" => call[r].category # Null
        /\ pc[r] = "cc_parent" => call[r].parent # Null

HasAllColumns(row) ==
    row.category \in Categories /\ row.name \in Texts /\ row.price \in Prices

RowsComplete ==
    \A p \in Products : IF ProductStored(p) THEN HasAllColumns(products[p])
                                            ELSE products[p].views = 0

CopiesComplete ==
    \A r \in Requests : pc[r] \in {"up_category", "up_write"} => HasAllColumns(copy[r])

(* The part of the invariant that concerns the requests only. *)
RequestsOK ==
    /\ pc \in [Requests -> Steps \cup {"idle", "answered"}]
    /\ call \in [Requests -> Calls \cup {NoCall}]
    /\ copy \in [Requests -> ProductRows]
    /\ reply \in [Requests -> Statuses \cup {Null}]
    /\ CallMatches
    /\ CopiesComplete

ServiceInv == TypeOK /\ CallMatches /\ RowsComplete /\ CopiesComplete

-----------------------------------------------------------------------------
(* What an update writes back is a complete row. *)
LEMMA AppliedRowIsTyped ==
    ASSUME NEW row, HasAllColumns(row), NEW c \in UpdateProductCalls
    PROVE  ApplyUpdateRequest(row, c) \in ProductValues
BY DEF HasAllColumns, UpdateProductCalls, ApplyUpdateRequest, Field, ProductValues

(* The service starts with empty tables and no request. *)
LEMMA ServiceInitOK == Init => ServiceInv
<1> SUFFICES ASSUME Init PROVE ServiceInv
  OBVIOUS
<1>1. StoreTypeOK
  BY StoreInitOK DEF Init, StoreInv
<1>2. NoProduct \in ProductRows
  BY MaxViewsAssumption DEF NoProduct, ProductRows
<1>3. TypeOK
  BY <1>1, <1>2 DEF Init, TypeOK
<1>4. RowsComplete
  BY DEF Init, StoreInit, RowsComplete, ProductStored, NoProduct
<1> QED
  BY <1>3, <1>4 DEF Init, ServiceInv, CallMatches, CopiesComplete

(* A step of the service is one statement on the tables, or none. *)
LEMMA ServiceStep ==
    ServiceInv /\ [Next]_vars => [StoreNext]_storeVars
<1> SUFFICES ASSUME ServiceInv, [Next]_vars PROVE [StoreNext]_storeVars
  OBVIOUS
<1> USE DEF ServiceInv, CallMatches
<1>1. ASSUME UNCHANGED storeVars PROVE [StoreNext]_storeVars
  BY <1>1
<1>2. ASSUME NEW r \in Requests, CreateProduct(r) PROVE [StoreNext]_storeVars
  <2>1. call[r].product \in Products /\ NewRow(call[r]) \in ProductValues
    BY <1>2 DEF CreateProduct, At, CreateProductCalls, NewRow, ProductValues
  <2> QED
    BY <1>2, <2>1 DEF CreateProduct, Refused, StoreNext
<1>3. ASSUME NEW r \in Requests, WriteProduct(r) PROVE [StoreNext]_storeVars
  <2> DEFINE v == ApplyUpdateRequest(copy[r], call[r])
  <2>1. call[r] \in UpdateProductCalls /\ HasAllColumns(copy[r])
    BY <1>3 DEF WriteProduct, At, CopiesComplete
  <2>2. call[r].product \in Products /\ v \in ProductValues
    BY <2>1, AppliedRowIsTyped DEF UpdateProductCalls
  <2>3. UpdateProduct(call[r].product, v) \/ UNCHANGED storeVars
    BY <1>3 DEF WriteProduct, Refused
  <2> QED
    BY <2>2, <2>3 DEF StoreNext
<1>4. ASSUME NEW r \in Requests, DeleteProduct(r) PROVE [StoreNext]_storeVars
  BY <1>4 DEF DeleteProduct, At, ProductCalls, StoreNext
<1>5. ASSUME NEW r \in Requests, CreateCategory(r) PROVE [StoreNext]_storeVars
  <2>1. call[r] \in CreateCategoryCalls
    BY <1>5 DEF CreateCategory, At
  <2>2. /\ call[r].category \in Categories /\ call[r].slug \in Slugs
        /\ call[r].parent \in Categories \cup {Null}
    BY <2>1 DEF CreateCategoryCalls
  <2>3. \/ InsertCategory(call[r].category, call[r].slug, call[r].parent)
        \/ UNCHANGED storeVars
    BY <1>5 DEF CreateCategory, Refused
  <2> QED
    BY <2>2, <2>3 DEF StoreNext
<1>6. ASSUME NEW r \in Requests, RemoveCategory(r) PROVE [StoreNext]_storeVars
  <2>1. call[r].category \in Categories
    BY <1>6 DEF RemoveCategory, At, DeleteCategoryCalls
  <2> QED
    BY <1>6, <2>1 DEF RemoveCategory, Refused, StoreNext
<1>7. ASSUME NEW p \in Products, CountView(p) PROVE [StoreNext]_storeVars
  BY <1>7 DEF CountView, StoreNext
<1>8. ASSUME NEW r \in Requests, Receive(r) \/ Finish(r) \/ Serve(r)
      PROVE  [StoreNext]_storeVars
  BY <1>1, <1>2, <1>3, <1>4, <1>5, <1>6, <1>8
     DEF Receive, Finish, Serve, Statement, CheckCategory, ReadForUpdate, CheckNewCategory,
         ReadForDelete, GetProduct, SendProduct, CheckSlug, CheckParent, ReadCategory,
         StatementFails, Refused
<1> QED
  BY <1>1, <1>7, <1>8 DEF Next, RunGoroutine, CountingFails, Crash, vars

-----------------------------------------------------------------------------
(* Answering a request keeps every request in order. *)
LEMMA AnswerKeeps ==
    ASSUME RequestsOK, NEW r \in Requests, NEW s \in Statuses, Answer(r, s)
    PROVE  RequestsOK'
<1> USE DEF RequestsOK, Answer
<1>1. NoProduct \in ProductRows
  BY MaxViewsAssumption DEF NoProduct, ProductRows
<1>2. /\ pc' \in [Requests -> Steps \cup {"idle", "answered"}]
      /\ call' \in [Requests -> Calls \cup {NoCall}]
      /\ copy' \in [Requests -> ProductRows]
      /\ reply' \in [Requests -> Statuses \cup {Null}]
  BY <1>1
<1>3. CallMatches'
  BY DEF CallMatches
<1>4. CopiesComplete'
  BY DEF CopiesComplete
<1> QED
  BY <1>2, <1>3, <1>4

(* Going on to another statement of the same operation does, too. *)
LEMMA GotoKeeps ==
    ASSUME RequestsOK, NEW r \in Requests, NEW step \in Steps, Goto(r, step),
           \/ At(r, "cp_category") /\ step = "cp_insert"
           \/ At(r, "up_category") /\ step = "up_write"
           \/ At(r, "dp_read") /\ step = "dp_write"
           \/ At(r, "cc_slug") /\ step \in {"cc_parent", "cc_insert"}
           \/ At(r, "cc_parent") /\ step = "cc_insert"
           \/ At(r, "dc_read") /\ step = "dc_delete",
           step = "cc_parent" => call[r].parent # Null
    PROVE  RequestsOK'
<1> USE DEF RequestsOK, Goto, At
<1>1. pc' \in [Requests -> Steps \cup {"idle", "answered"}]
  OBVIOUS
<1>2. CallMatches'
  BY DEF CallMatches
<1>3. CopiesComplete'
  BY DEF CopiesComplete
<1> QED
  BY <1>1, <1>2, <1>3

(* A new request begins with the first statement of its operation. *)
LEMMA ReceiveKeeps ==
    ASSUME RequestsOK, NEW r \in Requests, Receive(r)
    PROVE  RequestsOK'
<1>1. PICK c \in Calls : /\ call' = [call EXCEPT ![r] = c]
                         /\ pc' = [pc EXCEPT ![r] = FirstStep[c.op]]
  BY DEF Receive
<1> USE DEF FirstStep, Calls, CreateProductCalls, UpdateProductCalls, ProductCalls,
            CreateCategoryCalls, DeleteCategoryCalls
<1>2. c.op \in OpNames /\ FirstStep[c.op] \in Steps
  BY DEF OpNames, Steps
<1>3. /\ FirstStep[c.op] = "cp_category" => c \in CreateProductCalls
      /\ FirstStep[c.op] = "up_read" => c \in UpdateProductCalls
      /\ FirstStep[c.op] \in {"dp_read", "gp_read"} => c \in ProductCalls
      /\ FirstStep[c.op] = "dp_read" => c.op = "DeleteProduct"
      /\ FirstStep[c.op] = "gp_read" => c.op = "GetProduct"
      /\ FirstStep[c.op] = "cc_slug" => c \in CreateCategoryCalls
      /\ FirstStep[c.op] = "dc_read" => c \in DeleteCategoryCalls
      /\ FirstStep[c.op] \in {"cp_category", "up_read", "dp_read", "gp_read",
                              "cc_slug", "dc_read"}
  OBVIOUS
<1> HIDE DEF FirstStep, Calls, CreateProductCalls, UpdateProductCalls, ProductCalls,
             CreateCategoryCalls, DeleteCategoryCalls
<1>4. UNCHANGED <<copy, reply>>
  BY DEF Receive
<1> USE <1>1, <1>4 DEF RequestsOK
<1>5. /\ pc' \in [Requests -> Steps \cup {"idle", "answered"}]
      /\ call' \in [Requests -> Calls \cup {NoCall}]
      /\ copy' \in [Requests -> ProductRows]
      /\ reply' \in [Requests -> Statuses \cup {Null}]
  BY <1>2
<1>6. CallMatches'
  BY <1>3 DEF CallMatches
<1>7. CopiesComplete'
  BY <1>3 DEF CopiesComplete
<1> QED
  BY <1>5, <1>6, <1>7

(* The read of an update leaves a complete row to work on. *)
LEMMA ReadForUpdateKeeps ==
    ASSUME ServiceInv, RequestsOK, NEW r \in Requests, ReadForUpdate(r)
    PROVE  RequestsOK'
<1>1. CASE ~ProductLive(call[r].product)
  <2>1. Answer(r, "404")
    BY <1>1 DEF ReadForUpdate
  <2> QED
    BY <2>1, AnswerKeeps DEF Statuses
<1>2. CASE ProductLive(call[r].product)
  <2> DEFINE p == call[r].product
  <2>1. p \in Products /\ call[r] \in UpdateProductCalls
    BY DEF ReadForUpdate, At, ServiceInv, CallMatches, UpdateProductCalls
  <2>2. products[p] \in ProductRows /\ HasAllColumns(products[p])
    BY <1>2, <2>1
       DEF ServiceInv, TypeOK, StoreTypeOK, RowsComplete, ProductLive, ProductStored
  <2>3. /\ copy' = [copy EXCEPT ![r] = products[p]]
        /\ \/ pc' = [pc EXCEPT ![r] = "up_write"]
           \/ pc' = [pc EXCEPT ![r] = "up_category"] /\ call[r].category # Null
        /\ UNCHANGED <<call, reply>>
    BY <1>2 DEF ReadForUpdate
  <2> HIDE DEF p
  <2> USE DEF RequestsOK
  <2>4. /\ pc' \in [Requests -> Steps \cup {"idle", "answered"}]
        /\ copy' \in [Requests -> ProductRows]
    BY <2>2, <2>3 DEF Steps
  <2>5. CallMatches'
    BY <2>1, <2>3 DEF CallMatches
  <2>6. CopiesComplete'
    <3>1. \A q \in Requests \ {r} : copy'[q] = copy[q] /\ pc'[q] = pc[q]
      BY <2>3
    <3>2. copy'[r] = products[p]
      BY <2>3
    <3> QED
      BY <2>2, <3>1, <3>2 DEF CopiesComplete, HasAllColumns
  <2> QED
    BY <2>3, <2>4, <2>5, <2>6
<1> QED
  BY <1>1, <1>2

(* So does the read of a get. *)
LEMMA GetProductKeeps ==
    ASSUME ServiceInv, RequestsOK, NEW r \in Requests, GetProduct(r)
    PROVE  RequestsOK'
<1>1. CASE ~ProductLive(call[r].product)
  <2>1. Answer(r, "404")
    BY <1>1 DEF GetProduct
  <2> QED
    BY <2>1, AnswerKeeps DEF Statuses
<1>2. CASE ProductLive(call[r].product)
  <2> DEFINE p == call[r].product
  <2>1. /\ p \in Products /\ call[r] \in ProductCalls
        /\ call[r].op = "GetProduct"
    BY DEF GetProduct, At, ServiceInv, CallMatches, ProductCalls
  <2>2. products[p] \in ProductRows
    BY <2>1 DEF ServiceInv, TypeOK, StoreTypeOK
  <2>3. /\ copy' = [copy EXCEPT ![r] = products[p]]
        /\ pc' = [pc EXCEPT ![r] = "gp_answer"]
        /\ UNCHANGED <<call, reply>>
    BY <1>2 DEF GetProduct, Take
  <2> HIDE DEF p
  <2> USE DEF RequestsOK
  <2>4. /\ pc' \in [Requests -> Steps \cup {"idle", "answered"}]
        /\ copy' \in [Requests -> ProductRows]
    BY <2>2, <2>3 DEF Steps
  <2>5. CallMatches'
    BY <2>1, <2>3 DEF CallMatches
  <2>6. CopiesComplete'
    BY <2>3 DEF CopiesComplete
  <2> QED
    BY <2>3, <2>4, <2>5, <2>6
<1> QED
  BY <1>1, <1>2

(* Serving a statement keeps every request in order. *)
LEMMA ServeKeeps ==
    ASSUME ServiceInv, RequestsOK, NEW r \in Requests, Serve(r)
    PROVE  RequestsOK'
<1>1. ASSUME NEW s \in Statuses, Answer(r, s) PROVE RequestsOK'
  BY <1>1, AnswerKeeps
<1>2. {"200", "201", "204", "404", "409", "500"} = Statuses
  BY DEF Statuses
<1>3. ASSUME NEW s \in Statuses, Acknowledge(r, s) PROVE RequestsOK'
  BY <1>1, <1>2, <1>3 DEF Acknowledge
<1>4. ASSUME Refused(r) PROVE RequestsOK'
  BY <1>1, <1>2, <1>4 DEF Refused
<1>5. CASE CreateProduct(r) \/ WriteProduct(r) \/ DeleteProduct(r)
              \/ CreateCategory(r) \/ RemoveCategory(r) \/ StatementFails(r)
  BY <1>2, <1>3, <1>4, <1>5
     DEF CreateProduct, WriteProduct, DeleteProduct, CreateCategory, RemoveCategory,
         StatementFails
<1>6. CASE GetProduct(r) \/ SendProduct(r)
  BY <1>1, <1>2, <1>6, GetProductKeeps DEF SendProduct
<1>7. CASE ReadForUpdate(r)
  BY <1>7, ReadForUpdateKeeps
<1>8. CASE CheckCategory(r) \/ CheckNewCategory(r) \/ ReadForDelete(r)
              \/ CheckParent(r) \/ ReadCategory(r)
  BY <1>1, <1>2, <1>8, GotoKeeps
     DEF CheckCategory, CheckNewCategory, ReadForDelete, CheckParent, ReadCategory, Steps
<1>9. CASE CheckSlug(r)
  BY <1>1, <1>2, <1>9, GotoKeeps DEF CheckSlug, AfterSlug, Steps
<1> QED
  BY <1>5, <1>6, <1>7, <1>8, <1>9 DEF Serve, Statement

(* Every step keeps every request in order. *)
LEMMA RequestsStep == ServiceInv /\ [Next]_vars => RequestsOK'
<1> SUFFICES ASSUME ServiceInv, [Next]_vars PROVE RequestsOK'
  OBVIOUS
<1>1. RequestsOK
  BY DEF ServiceInv, TypeOK, RequestsOK
<1>2. ASSUME NEW r \in Requests, Finish(r) PROVE RequestsOK'
  BY <1>1, <1>2 DEF Finish, RequestsOK, CallMatches, CopiesComplete
<1>3. CASE Crash
  <2>1. NoProduct \in ProductRows
    BY MaxViewsAssumption DEF NoProduct, ProductRows
  <2> QED
    BY <1>3, <2>1 DEF Crash, RequestsOK, CallMatches, CopiesComplete
<1>4. ASSUME UNCHANGED requestVars PROVE RequestsOK'
  BY <1>1, <1>4 DEF requestVars, RequestsOK, CallMatches, CopiesComplete
<1> QED
  BY <1>1, <1>2, <1>3, <1>4, ReceiveKeeps, ServeKeeps
     DEF Next, RunGoroutine, CountView, CountingFails, vars

-----------------------------------------------------------------------------
(* Statements store complete rows and never lower a view counter. *)
LEMMA RowsStep ==
    StoreTypeOK /\ RowsComplete /\ [StoreNext]_storeVars => RowsComplete'
<1> SUFFICES ASSUME StoreTypeOK, RowsComplete, [StoreNext]_storeVars
             PROVE  RowsComplete'
  OBVIOUS
<1> USE DEF StoreTypeOK, RowsComplete, HasAllColumns, ProductStored
<1>1. ASSUME NEW p \in Products, NEW v \in ProductValues, InsertProduct(p, v)
      PROVE  RowsComplete'
  BY <1>1 DEF InsertProduct, ProductValues
<1>2. ASSUME NEW p \in Products, NEW v \in ProductValues, UpdateProduct(p, v)
      PROVE  RowsComplete'
  BY <1>2 DEF UpdateProduct, ProductLive, ProductValues, ProductRows
<1>3. ASSUME NEW p \in Products, SoftDeleteProduct(p) PROVE RowsComplete'
  BY <1>3 DEF SoftDeleteProduct, ProductLive, ProductRows
<1>4. ASSUME NEW p \in Products, IncrementViewCount(p) PROVE RowsComplete'
  BY <1>4 DEF IncrementViewCount, ProductRows
<1>5. ASSUME UNCHANGED products PROVE RowsComplete'
  BY <1>5
<1> QED
  BY <1>1, <1>2, <1>3, <1>4, <1>5
     DEF StoreNext, InsertCategory, UpdateCategory, DeleteCategory, storeVars

(* Only the counting goroutine moves a counter. *)
LEMMA CountersStay ==
    ASSUME StoreTypeOK, RowsComplete, NEW p \in Products,
           \/ UNCHANGED products
           \/ \E q \in Products, v \in ProductValues :
                  InsertProduct(q, v) \/ UpdateProduct(q, v)
           \/ \E q \in Products : SoftDeleteProduct(q)
    PROVE  products'[p].views = products[p].views
<1> USE DEF StoreTypeOK, RowsComplete, ProductRows
<1>1. ASSUME NEW q \in Products, NEW v \in ProductValues, InsertProduct(q, v)
      PROVE  products'[p].views = products[p].views
  BY <1>1 DEF InsertProduct
<1>2. ASSUME NEW q \in Products, NEW v \in ProductValues, UpdateProduct(q, v)
      PROVE  products'[p].views = products[p].views
  BY <1>2 DEF UpdateProduct
<1>3. ASSUME NEW q \in Products, SoftDeleteProduct(q)
      PROVE  products'[p].views = products[p].views
  BY <1>3 DEF SoftDeleteProduct
<1> QED
  BY <1>1, <1>2, <1>3

ViewsTyped ==
    /\ pending \in [Products -> Nat]
    /\ served \in [Products -> Nat]
    /\ lost \in [Products -> Nat]

(* Serving a request either starts a view or leaves all counters alone. *)
LEMMA ServeViews ==
    ASSUME ServiceInv, ViewAccounting, NEW r \in Requests, Serve(r)
    PROVE  ViewsTyped' /\ ViewAccounting'
<1>1. ViewsTyped /\ StoreTypeOK /\ RowsComplete /\ CallMatches
  BY DEF ServiceInv, TypeOK, ViewsTyped
<1>2. \A p \in Products : products[p].views \in Nat
  BY <1>1, MaxViewsAssumption DEF StoreTypeOK, ProductRows
<1>3. CASE GetProduct(r)
  <2> DEFINE p == call[r].product
  <2>1. p \in Products
    BY <1>1, <1>3 DEF GetProduct, At, CallMatches, ProductCalls
  <2>2. UNCHANGED products
    BY <1>3 DEF GetProduct, storeVars
  <2>3. \/ UNCHANGED viewVars
        \/ /\ pending' = [pending EXCEPT ![p] = @ + 1]
           /\ served' = [served EXCEPT ![p] = @ + 1]
           /\ UNCHANGED lost
    BY <1>3 DEF GetProduct, Take, NoView
  <2> HIDE DEF p
  <2> QED
    BY <1>1, <1>2, <2>1, <2>2, <2>3 DEF ViewsTyped, ViewAccounting, viewVars
<1>4. ASSUME UNCHANGED viewVars,
             \/ UNCHANGED products
             \/ \E q \in Products, v \in ProductValues :
                    InsertProduct(q, v) \/ UpdateProduct(q, v)
             \/ \E q \in Products : SoftDeleteProduct(q)
      PROVE  ViewsTyped' /\ ViewAccounting'
  <2>1. \A p \in Products : products'[p].views = products[p].views
    BY <1>1, <1>4, CountersStay
  <2> QED
    BY <1>1, <1>4, <2>1 DEF ViewsTyped, ViewAccounting, viewVars
<1>5. CASE CreateProduct(r)
  <2>1. call[r].product \in Products /\ NewRow(call[r]) \in ProductValues
    BY <1>1, <1>5
       DEF CallMatches, CreateProduct, At, CreateProductCalls, NewRow, ProductValues
  <2> QED
    BY <1>4, <1>5, <2>1 DEF CreateProduct, Refused, NoView, storeVars
<1>6. CASE WriteProduct(r)
  <2> DEFINE v == ApplyUpdateRequest(copy[r], call[r])
  <2>1. call[r] \in UpdateProductCalls /\ HasAllColumns(copy[r])
    BY <1>6 DEF ServiceInv, CallMatches, WriteProduct, At, CopiesComplete
  <2>2. call[r].product \in Products /\ v \in ProductValues
    BY <2>1, AppliedRowIsTyped DEF UpdateProductCalls
  <2>3. UpdateProduct(call[r].product, v) \/ UNCHANGED products
    BY <1>6 DEF WriteProduct, Refused, storeVars
  <2>4. UNCHANGED viewVars
    BY <1>6 DEF WriteProduct, NoView
  <2> QED
    BY <1>4, <2>2, <2>3, <2>4
<1>7. CASE DeleteProduct(r)
  <2>1. call[r].product \in Products
    BY <1>1, <1>7 DEF CallMatches, DeleteProduct, At, ProductCalls
  <2> QED
    BY <1>4, <1>7, <2>1 DEF DeleteProduct, NoView
<1>8. CASE CreateCategory(r) \/ RemoveCategory(r)
  BY <1>4, <1>8
     DEF CreateCategory, RemoveCategory, InsertCategory, DeleteCategory, Refused,
         NoView, storeVars
<1>9. CASE \/ CheckCategory(r) \/ ReadForUpdate(r) \/ CheckNewCategory(r)
           \/ ReadForDelete(r) \/ CheckSlug(r) \/ CheckParent(r)
           \/ ReadCategory(r) \/ StatementFails(r) \/ SendProduct(r)
  BY <1>4, <1>9
     DEF SendProduct, CheckCategory, ReadForUpdate, CheckNewCategory, ReadForDelete, CheckSlug,
         CheckParent, ReadCategory, StatementFails, Refused, NoView, storeVars
<1> QED
  BY <1>3, <1>5, <1>6, <1>7, <1>8, <1>9 DEF Serve, Statement

(* No step loses or invents a view. *)
LEMMA ViewsStep ==
    ServiceInv /\ ViewAccounting /\ [Next]_vars => ViewsTyped' /\ ViewAccounting'
<1> SUFFICES ASSUME ServiceInv, ViewAccounting, [Next]_vars
             PROVE  ViewsTyped' /\ ViewAccounting'
  OBVIOUS
<1>1. ViewsTyped /\ StoreTypeOK
  BY DEF ServiceInv, TypeOK, ViewsTyped
<1>2. \A p \in Products : products[p].views \in Nat
  BY <1>1, MaxViewsAssumption DEF StoreTypeOK, ProductRows
<1>3. ASSUME NEW p \in Products, CountView(p) PROVE ViewsTyped' /\ ViewAccounting'
  <2>1. /\ pending[p] \in Nat /\ pending[p] > 0
        /\ pending' = [pending EXCEPT ![p] = @ - 1]
        /\ UNCHANGED <<served, lost>>
    BY <1>1, <1>3 DEF CountView, ViewsTyped
  <2>2. products' = [products EXCEPT ![p].views = @ + 1]
    BY <1>3 DEF CountView, IncrementViewCount
  <2>3. /\ products'[p].views = products[p].views + 1
        /\ \A q \in Products \ {p} : products'[q].views = products[q].views
    BY <1>1, <2>2 DEF StoreTypeOK, ProductRows
  <2>4. pending[p] - 1 \in Nat
    BY <2>1
  <2>5. ViewsTyped'
    BY <1>1, <2>1, <2>4 DEF ViewsTyped
  <2>6. ASSUME NEW q \in Products
        PROVE  products'[q].views + pending'[q] + lost'[q] = served'[q]
    <3>1. /\ products[q].views + pending[q] + lost[q] = served[q]
          /\ products[q].views \in Nat /\ pending[q] \in Nat /\ lost[q] \in Nat
      BY <1>1, <1>2 DEF ViewsTyped, ViewAccounting
    <3>2. CASE q = p
      <4>1. pending'[q] = pending[q] - 1 /\ lost'[q] = lost[q] /\ served'[q] = served[q]
        BY <1>1, <2>1, <3>2 DEF ViewsTyped
      <4> QED
        BY <2>3, <3>1, <3>2, <4>1
    <3>3. CASE q # p
      BY <1>1, <2>1, <2>3, <3>1, <3>3 DEF ViewsTyped
    <3> QED
      BY <3>2, <3>3
  <2> QED
    BY <2>5, <2>6 DEF ViewAccounting
<1>4. ASSUME NEW p \in Products, CountingFails(p) PROVE ViewsTyped' /\ ViewAccounting'
  <2>1. /\ pending[p] \in Nat /\ pending[p] > 0 /\ lost[p] \in Nat
        /\ pending' = [pending EXCEPT ![p] = @ - 1]
        /\ lost' = [lost EXCEPT ![p] = @ + 1]
        /\ UNCHANGED <<products, served>>
    BY <1>1, <1>4 DEF CountingFails, ViewsTyped, storeVars
  <2>2. pending[p] - 1 \in Nat /\ lost[p] + 1 \in Nat
    BY <2>1
  <2>3. ViewsTyped'
    BY <1>1, <2>1, <2>2 DEF ViewsTyped
  <2>4. ASSUME NEW q \in Products
        PROVE  products'[q].views + pending'[q] + lost'[q] = served'[q]
    <3>1. /\ products[q].views + pending[q] + lost[q] = served[q]
          /\ products[q].views \in Nat /\ pending[q] \in Nat /\ lost[q] \in Nat
      BY <1>1, <1>2 DEF ViewsTyped, ViewAccounting
    <3>2. CASE q = p
      <4>1. pending'[q] = pending[q] - 1 /\ lost'[q] = lost[q] + 1
        BY <1>1, <2>1, <3>2 DEF ViewsTyped
      <4> QED
        BY <2>1, <3>1, <4>1
    <3>3. CASE q # p
      BY <1>1, <2>1, <3>1, <3>3 DEF ViewsTyped
    <3> QED
      BY <3>2, <3>3
  <2> QED
    BY <2>3, <2>4 DEF ViewAccounting
<1>5. CASE Crash
  BY <1>1, <1>2, <1>5 DEF Crash, ViewsTyped, ViewAccounting, storeVars
<1>6. ASSUME UNCHANGED <<storeVars, viewVars>> PROVE ViewsTyped' /\ ViewAccounting'
  BY <1>1, <1>6 DEF storeVars, viewVars, ViewsTyped, ViewAccounting
<1> QED
  BY <1>3, <1>4, <1>5, <1>6, ServeViews DEF Next, RunGoroutine, Receive, Finish, vars

-----------------------------------------------------------------------------
(* The invariant of the service. *)
LEMMA ServiceInvariant == Spec => [](ServiceInv /\ ViewAccounting)
<1>1. Init => ServiceInv /\ ViewAccounting
  <2>1. Init => ViewAccounting
    BY DEF Init, StoreInit, NoProduct, ViewAccounting
  <2> QED
    BY <2>1, ServiceInitOK
<1>2. ServiceInv /\ ViewAccounting /\ [Next]_vars => (ServiceInv /\ ViewAccounting)'
  <2> SUFFICES ASSUME ServiceInv, ViewAccounting, [Next]_vars
               PROVE  ServiceInv' /\ ViewAccounting'
    OBVIOUS
  <2>1. StoreTypeOK' /\ RowsComplete'
    BY ServiceStep, StoreTypeStep, RowsStep DEF ServiceInv, TypeOK
  <2>2. RequestsOK'
    BY RequestsStep
  <2>3. ViewsTyped' /\ ViewAccounting'
    BY ViewsStep
  <2> QED
    BY <2>1, <2>2, <2>3 DEF ServiceInv, TypeOK, RequestsOK, ViewsTyped
<1> QED
  BY <1>1, <1>2, PTL DEF Spec

(* Requests, copies, answers and counters are always well typed. *)
THEOREM TypeCorrect == Spec => []TypeOK
<1>1. ServiceInv => TypeOK
  BY DEF ServiceInv
<1> QED
  BY <1>1, ServiceInvariant, PTL

(* Every view served is counted, still to be counted, or lost. *)
THEOREM ViewsAccounted == Spec => []ViewAccounting
BY ServiceInvariant, PTL

(* Interleaved, failing and crashing requests implement the abstract store. *)
THEOREM ServiceImplementsStore == Spec => StoreImplemented
<1>1. Init => StoreInit
  BY DEF Init
<1>2. ServiceInv /\ [Next]_vars => [StoreNext]_storeVars
  BY ServiceStep
<1> QED
  BY <1>1, <1>2, ServiceInvariant, PTL DEF Spec, StoreImplemented, StoreSpec

(* So the tables of the running service have no dangling reference, no slug  *)
(* used twice, no cycle of parents and no stale search vector.               *)
THEOREM ServiceKeepsTables == Spec => []StoreInv
BY ServiceImplementsStore, StoreInvariant, PTL DEF StoreImplemented

(* The listings that walk the category tree end and find every live         *)
(* category, each below one root, under the running service too.            *)
THEOREM ServiceKeepsTree == Spec => []TreeIsComplete
BY ServiceImplementsStore, TreeStaysComplete, PTL DEF StoreImplemented

(* And a deletion is final under every interleaving of requests. *)
THEOREM ServiceKeepsDeletions == Spec => DeletionIsFinal
BY ServiceImplementsStore, DeletionStaysFinal, PTL DEF StoreImplemented

-----------------------------------------------------------------------------
(* The steps at which a request holds a row it has read. *)
HoldsRow(step) == step \in {"up_category", "up_write", "gp_answer"}

(* Answers.  A request that is about to delete has found the row it is      *)
(* about; rows never go back to being unused, so its 204 is true even when  *)
(* another request was faster.                                              *)
FoundRows ==
    \A r \in Requests :
        /\ At(r, "dp_write") \/ HoldsRow(pc[r]) => ProductStored(call[r].product)
        /\ At(r, "dc_delete") => categories[call[r].category].state # "unused"

(* No statement makes an identifier unused again. *)
LEMMA RowsStay ==
    ASSUME StoreTypeOK, [StoreNext]_storeVars
    PROVE  /\ \A p \in Products : ProductStored(p) => ProductStored(p)'
           /\ \A c \in Categories :
                 categories[c].state # "unused" => categories'[c].state # "unused"
<1> USE DEF StoreTypeOK, ProductStored
<1>1. \A p \in Products : ProductStored(p) => ProductStored(p)'
  <2>1. ASSUME NEW p \in Products, NEW v, InsertProduct(p, v) PROVE <1>1
    BY <2>1 DEF InsertProduct
  <2>2. ASSUME NEW p \in Products, NEW v, UpdateProduct(p, v) PROVE <1>1
    BY <2>2 DEF UpdateProduct, ProductLive, ProductRows
  <2>3. ASSUME NEW p \in Products, SoftDeleteProduct(p) PROVE <1>1
    BY <2>3 DEF SoftDeleteProduct, ProductRows
  <2>4. ASSUME NEW p \in Products, IncrementViewCount(p) PROVE <1>1
    BY <2>4 DEF IncrementViewCount, ProductRows
  <2>5. CASE UNCHANGED products
    BY <2>5
  <2> QED
    BY <2>1, <2>2, <2>3, <2>4, <2>5
       DEF StoreNext, InsertCategory, UpdateCategory, DeleteCategory, storeVars
<1>2. \A c \in Categories :
         categories[c].state # "unused" => categories'[c].state # "unused"
  <2>1. ASSUME NEW c \in Categories, NEW s, NEW d, InsertCategory(c, s, d) PROVE <1>2
    BY <2>1 DEF InsertCategory
  <2>2. ASSUME NEW c \in Categories, NEW s, UpdateCategory(c, s) PROVE <1>2
    BY <2>2 DEF UpdateCategory, CategoryRows
  <2>3. ASSUME NEW c \in Categories, DeleteCategory(c) PROVE <1>2
    BY <2>3 DEF DeleteCategory, NoCategory, CategoryLive, CategoryRows
  <2>4. CASE UNCHANGED categories
    BY <2>4
  <2> QED
    BY <2>1, <2>2, <2>3, <2>4
       DEF StoreNext, InsertProduct, UpdateProduct, SoftDeleteProduct, IncrementViewCount,
           storeVars
<1> QED
  BY <1>1, <1>2

(* What Answer and Goto do to the request at hand and to the others. *)
LEMMA AnswerSets ==
    ASSUME RequestsOK, NEW r \in Requests, NEW s, Answer(r, s)
    PROVE  /\ pc'[r] = "answered" /\ reply'[r] = s /\ call' = call
           /\ \A q \in Requests \ {r} : pc'[q] = pc[q] /\ copy'[q] = copy[q]
BY DEF RequestsOK, Answer

LEMMA GotoSets ==
    ASSUME RequestsOK, NEW r \in Requests, NEW step, Goto(r, step)
    PROVE  /\ pc'[r] = step /\ call' = call /\ copy' = copy
           /\ \A q \in Requests \ {r} : pc'[q] = pc[q]
BY DEF RequestsOK, Goto

(* A statement moves one request, and a request holds a row, or is about to *)
(* delete one, because a statement of its own has just found it.            *)
LEMMA ServeMoves ==
    ASSUME RequestsOK, NEW r \in Requests, Serve(r)
    PROVE  /\ call' = call
           /\ \A q \in Requests \ {r} : pc'[q] = pc[q] /\ copy'[q] = copy[q]
           /\ pc'[r] = "dp_write" => ProductLive(call[r].product)
           /\ pc'[r] = "dc_delete" => CategoryLive(call[r].category)
           /\ HoldsRow(pc'[r]) =>
                 \/ HoldsRow(pc[r]) /\ copy'[r] = copy[r]
                 \/ /\ ProductLive(call[r].product)
                    /\ copy'[r] = products[call[r].product]
<1> DEFINE Moved ==
            /\ call' = call
            /\ \A q \in Requests \ {r} : pc'[q] = pc[q] /\ copy'[q] = copy[q]
            /\ pc'[r] = "dp_write" => ProductLive(call[r].product)
            /\ pc'[r] = "dc_delete" => CategoryLive(call[r].category)
            /\ HoldsRow(pc'[r]) =>
                  \/ HoldsRow(pc[r]) /\ copy'[r] = copy[r]
                  \/ /\ ProductLive(call[r].product)
                     /\ copy'[r] = products[call[r].product]
<1>1. ASSUME NEW s, Answer(r, s) PROVE Moved
  BY <1>1, AnswerSets DEF HoldsRow
<1>2. ASSUME NEW step, Goto(r, step), step \notin {"dp_write", "dc_delete"},
             HoldsRow(step) => HoldsRow(pc[r])
      PROVE  Moved
  BY <1>2, GotoSets
<1>3. ASSUME NEW s, Acknowledge(r, s) PROVE Moved
  BY <1>1, <1>3 DEF Acknowledge
<1>4. ASSUME Refused(r) PROVE Moved
  BY <1>1, <1>4 DEF Refused
<1>5. CASE CreateProduct(r) \/ WriteProduct(r) \/ DeleteProduct(r)
              \/ CreateCategory(r) \/ RemoveCategory(r) \/ StatementFails(r)
  BY <1>3, <1>4, <1>5
     DEF CreateProduct, WriteProduct, DeleteProduct, CreateCategory, RemoveCategory,
         StatementFails
<1>6. CASE GetProduct(r)
  <2>1. CASE ProductLive(call[r].product)
    BY <1>6, <2>1 DEF GetProduct, Take, RequestsOK
  <2>2. CASE ~ProductLive(call[r].product)
    BY <1>1, <1>6, <2>2 DEF GetProduct
  <2> QED
    BY <2>1, <2>2
<1>7. CASE ReadForUpdate(r)
  <2>1. CASE ProductLive(call[r].product)
    BY <1>7, <2>1 DEF ReadForUpdate, RequestsOK
  <2>2. CASE ~ProductLive(call[r].product)
    BY <1>1, <1>7, <2>2 DEF ReadForUpdate
  <2> QED
    BY <2>1, <2>2
<1>8. CASE CheckCategory(r) \/ CheckNewCategory(r) \/ CheckParent(r) \/ CheckSlug(r)
  BY <1>1, <1>2, <1>8
     DEF CheckCategory, CheckNewCategory, CheckParent, CheckSlug, AfterSlug, At, HoldsRow
<1>9. CASE ReadForDelete(r)
  BY <1>1, <1>9, GotoSets DEF ReadForDelete, HoldsRow
<1>10. CASE ReadCategory(r)
  BY <1>1, <1>10, GotoSets DEF ReadCategory, HoldsRow
<1>11. CASE SendProduct(r)
  BY <1>1, <1>11 DEF SendProduct
<1> QED
  BY <1>5, <1>6, <1>7, <1>8, <1>9, <1>10, <1>11 DEF Serve, Statement

(* Nothing but a crash and its own statements moves a request that runs. *)
LEMMA OthersWait ==
    ASSUME RequestsOK, Next, NEW r \in Requests, ~Serve(r)
    PROVE  /\ Running(r) => \/ pc'[r] = pc[r] /\ call'[r] = call[r]
                            \/ pc'[r] = "idle"
           /\ pc'[r] \in {"dp_write", "dc_delete"} \/ HoldsRow(pc'[r])
                 => pc'[r] = pc[r] /\ call'[r] = call[r] /\ copy'[r] = copy[r]
<1> DEFINE Waits ==
            /\ Running(r) => \/ pc'[r] = pc[r] /\ call'[r] = call[r]
                             \/ pc'[r] = "idle"
            /\ pc'[r] \in {"dp_write", "dc_delete"} \/ HoldsRow(pc'[r])
                  => pc'[r] = pc[r] /\ call'[r] = call[r] /\ copy'[r] = copy[r]
<1>1. ASSUME NEW q \in Requests \ {r}, Serve(q) PROVE Waits
  BY <1>1, ServeMoves
<1>2. ASSUME NEW q \in Requests, Receive(q) PROVE Waits
  <2>1. PICK c \in Calls : /\ call' = [call EXCEPT ![q] = c]
                           /\ pc' = [pc EXCEPT ![q] = FirstStep[c.op]]
    BY <1>2 DEF Receive
  <2>2. FirstStep[c.op] \notin {"dp_write", "dc_delete"} /\ ~HoldsRow(FirstStep[c.op])
    BY DEF FirstStep, HoldsRow, Calls, CreateProductCalls, UpdateProductCalls,
           ProductCalls, CreateCategoryCalls, DeleteCategoryCalls
  <2>3. pc[q] = "idle" /\ UNCHANGED copy
    BY <1>2 DEF Receive, At
  <2> QED
    BY <2>1, <2>2, <2>3 DEF RequestsOK, Running
<1>3. ASSUME NEW q \in Requests, Finish(q) PROVE Waits
  BY <1>3 DEF Finish, RequestsOK, HoldsRow
<1>4. CASE Crash
  BY <1>4 DEF Crash, HoldsRow
<1>5. CASE \E p \in Products : RunGoroutine(p)
  BY <1>5 DEF RunGoroutine, CountView, CountingFails, requestVars
<1> QED
  BY <1>1, <1>2, <1>3, <1>4, <1>5 DEF Next

LEMMA FoundStep == ServiceInv /\ FoundRows /\ [Next]_vars => FoundRows'
<1> SUFFICES ASSUME ServiceInv, FoundRows, [Next]_vars, NEW q \in Requests
             PROVE  /\ At(q, "dp_write")' \/ HoldsRow(pc'[q])
                          => ProductStored(call[q].product)'
                    /\ At(q, "dc_delete")' => categories'[call'[q].category].state # "unused"
  BY DEF FoundRows
<1>1. RequestsOK /\ CallMatches /\ StoreTypeOK
  BY DEF ServiceInv, TypeOK, RequestsOK
<1>2. /\ pc'[q] = "dp_write" \/ HoldsRow(pc'[q]) => call'[q].product \in Products
      /\ pc'[q] = "dc_delete" => call'[q].category \in Categories
  BY RequestsStep
     DEF RequestsOK, CallMatches, HoldsRow, ProductCalls, UpdateProductCalls,
         DeleteCategoryCalls
<1>3. /\ pc'[q] = "dp_write" \/ HoldsRow(pc'[q])
            => call'[q] = call[q] /\ ProductStored(call[q].product)
      /\ pc'[q] = "dc_delete"
            => call'[q] = call[q] /\ categories[call[q].category].state # "unused"
  <2>1. CASE Serve(q)
    BY <1>1, <2>1, ServeMoves DEF FoundRows, ProductLive, ProductStored, CategoryLive
  <2>2. CASE Next /\ ~Serve(q)
    BY <1>1, <2>2, OthersWait DEF FoundRows, At
  <2>3. CASE UNCHANGED vars
    BY <2>3 DEF vars, requestVars, FoundRows, At
  <2> QED
    BY <2>1, <2>2, <2>3
<1>4. /\ \A p \in Products : ProductStored(p) => ProductStored(p)'
      /\ \A c \in Categories :
            categories[c].state # "unused" => categories'[c].state # "unused"
  BY <1>1, ServiceStep, RowsStay
<1>5. ASSUME At(q, "dp_write")' \/ HoldsRow(pc'[q])
      PROVE  ProductStored(call[q].product)'
  BY <1>2, <1>3, <1>4, <1>5 DEF At, ProductStored
<1>6. ASSUME At(q, "dc_delete")'
      PROVE  categories'[call'[q].category].state # "unused"
  BY <1>2, <1>3, <1>4, <1>6 DEF At
<1> QED
  BY <1>5, <1>6

-----------------------------------------------------------------------------
(* The memory of CatalogHistory: the row as it is now is in it, and so is   *)
(* the row a request works on or answers with, which was not deleted then.  *)
Remembered ==
    /\ HistoryTypeOK
    /\ \A r \in Requests :
          /\ Running(r) /\ UsesProduct(call[r]) => products[call[r].product] \in rows[r]
          /\ HoldsRow(pc[r]) => copy[r] \in rows[r] /\ copy[r].state = "live"
          /\ At(r, "dp_write") => WasThere(r)

LEMMA UsesTyped ==
    ASSUME NEW c \in Calls \cup {NoCall}, UsesProduct(c)
    PROVE  c.product \in Products
BY DEF Calls, NoCall, UsesProduct, CreateProductCalls, UpdateProductCalls, ProductCalls,
       CreateCategoryCalls, DeleteCategoryCalls

LEMMA HoldersUseProducts ==
    ASSUME RequestsOK, NEW r \in Requests, HoldsRow(pc[r]) \/ At(r, "dp_write")
    PROVE  Running(r) /\ UsesProduct(call[r])
BY DEF RequestsOK, CallMatches, HoldsRow, At, Running, UsesProduct, UpdateProductCalls

LEMMA ServeRuns ==
    ASSUME NEW r \in Requests, Serve(r)
    PROVE  Running(r)
BY DEF Serve, Statement, Running, At, CheckCategory, CreateProduct, ReadForUpdate,
       CheckNewCategory, WriteProduct, ReadForDelete, DeleteProduct, GetProduct,
       SendProduct, CheckSlug, CheckParent, CreateCategory, ReadCategory, RemoveCategory,
       StatementFails

(* Nothing the properties need is forgotten before the answer. *)
LEMMA RememberStep ==
    ASSUME ServiceInv, Remembered, Next, Remember
    PROVE  Remembered'
<1>1. RequestsOK /\ RequestsOK' /\ StoreTypeOK'
  BY RequestsStep, ServiceStep, StoreTypeStep DEF ServiceInv, TypeOK, RequestsOK
<1>2. ASSUME NEW r \in Requests, Running(r)', UsesProduct(call'[r])
      PROVE  /\ products'[call'[r].product] \in ProductRows
             /\ rows'[r] = rows[r] \cup {products'[call'[r].product]}
  <2>1. call'[r] \in Calls \cup {NoCall}
    BY <1>1 DEF RequestsOK
  <2>2. call'[r].product \in Products
    BY <1>2, <2>1, UsesTyped
  <2> QED
    BY <1>1, <1>2, <2>2 DEF Remember, StoreTypeOK
<1>3. HistoryTypeOK'
  BY <1>2 DEF HistoryTypeOK, Remembered, Remember
<1>4. ASSUME NEW r \in Requests, Running(r)', UsesProduct(call[r])'
      PROVE  products'[call'[r].product] \in rows'[r]
  BY <1>2, <1>4 DEF UsesProduct
<1>5. ASSUME NEW r \in Requests, HoldsRow(pc'[r]) \/ pc'[r] = "dp_write"
      PROVE  /\ rows[r] \subseteq rows'[r]
             /\ HoldsRow(pc'[r]) => copy'[r] \in rows[r] /\ copy'[r].state = "live"
             /\ pc'[r] = "dp_write" => WasThere(r)
  <2>1. (HoldsRow(pc[r]) \/ At(r, "dp_write"))'
    BY <1>5 DEF HoldsRow, At
  <2>2. Running(r)' /\ UsesProduct(call[r])'
    BY <1>1, <2>1, HoldersUseProducts DEF RequestsOK, CallMatches, HoldsRow, At, Running,
       UsesProduct, UpdateProductCalls
  <2>3. rows[r] \subseteq rows'[r]
    BY <1>2, <2>2 DEF UsesProduct
  <2>4. CASE Serve(r)
    <3>1. Running(r) /\ call' = call
      BY <1>1, <2>4, ServeRuns, ServeMoves
    <3>2. products[call[r].product] \in rows[r]
      BY <2>2, <3>1 DEF Remembered, UsesProduct
    <3>3. HoldsRow(pc'[r]) => copy'[r] \in rows[r] /\ copy'[r].state = "live"
      BY <1>1, <2>4, <3>2, ServeMoves DEF Remembered, ProductLive
    <3>4. pc'[r] = "dp_write" => WasThere(r)
      BY <1>1, <2>4, <3>2, ServeMoves DEF WasThere, ProductLive
    <3> QED
      BY <2>3, <3>3, <3>4
  <2>5. CASE ~Serve(r)
    BY <1>1, <1>5, <2>3, <2>5, OthersWait DEF Remembered, At
  <2> QED
    BY <2>4, <2>5
<1>6. ASSUME NEW r \in Requests
      PROVE  /\ HoldsRow(pc[r])' => copy'[r] \in rows'[r] /\ copy'[r].state = "live"
             /\ At(r, "dp_write")' => WasThere(r)'
  BY <1>5 DEF HoldsRow, At, WasThere
<1> QED
  BY <1>3, <1>4, <1>6 DEF Remembered

(* Only the request that executes a statement, or sends its row, answers;   *)
(* what it tells had its moment, and is what it has done.                   *)
LEMMA ServeAnswersTruly ==
    ASSUME ServiceInv, FoundRows, Remembered, NEW r \in Requests, Serve(r)
    PROVE  HadItsMoment(r) /\ TellsItsEffect(r)
<1> DEFINE c == call[r]
           Truly == HadItsMoment(r) /\ TellsItsEffect(r)
           Founded == /\ UsesProduct(c) => WasThere(r)
                      /\ c.op = "GetProduct" => copy[r] \in rows[r] /\ copy[r].state = "live"
           Missing == \/ UsesProduct(c) /\ ~ProductLive(c.product)
                      \/ Expected(c) # Null /\ ~CategoryLive(Expected(c))
<1>1. RequestsOK /\ CallMatches /\ StoreTypeOK /\ Running(r)
  BY ServeRuns DEF ServiceInv, TypeOK, RequestsOK
(* The forms an answer takes. *)
<1>2. ASSUME Answer(r, "500"), UNCHANGED storeVars \/ Done(r) PROVE Truly
  <2>1. pc'[r] = "answered" /\ reply'[r] = "500"
    BY <1>1, <1>2, AnswerSets
  <2> QED
    BY <1>2, <2>1 DEF HadItsMoment, TellsItsEffect, Answers, Succeeds, Running
<1>3. ASSUME NEW s \in {"200", "201", "204"}, Answer(r, s), Done(r), Founded PROVE Truly
  <2>1. pc'[r] = "answered" /\ reply'[r] = s
    BY <1>1, <1>3, AnswerSets
  <2> QED
    BY <1>3, <2>1 DEF HadItsMoment, TellsItsEffect, Answers, Succeeds, Running
<1>4. ASSUME NEW s \in {"200", "201", "204"}, Acknowledge(r, s), Done(r), Founded
      PROVE  Truly
  BY <1>2, <1>3, <1>4 DEF Acknowledge
<1>5. ASSUME Refused(r) PROVE Truly
  BY <1>2, <1>5 DEF Refused
<1>6. ASSUME Answer(r, "404"), UNCHANGED storeVars, Missing PROVE Truly
  <2>1. pc'[r] = "answered" /\ reply'[r] = "404"
    BY <1>1, <1>6, AnswerSets
  <2> QED
    BY <1>6, <2>1 DEF HadItsMoment, TellsItsEffect, Answers, Succeeds, Running
<1>7. ASSUME Answer(r, "409"), UNCHANGED storeVars, c.op = "CreateCategory",
             SlugTaken(c.slug)
      PROVE  Truly
  <2>1. pc'[r] = "answered" /\ reply'[r] = "409"
    BY <1>1, <1>7, AnswerSets
  <2> QED
    BY <1>7, <2>1 DEF HadItsMoment, TellsItsEffect, Answers, Succeeds, Running
<1>8. ASSUME pc'[r] # "answered", UNCHANGED storeVars PROVE Truly
  BY <1>8 DEF HadItsMoment, TellsItsEffect, Answers, Succeeds, At
<1>9. ASSUME NEW step \in Steps, Goto(r, step), UNCHANGED storeVars PROVE Truly
  BY <1>1, <1>8, <1>9, GotoSets DEF Steps
(* The statements. *)
<1>10. CASE StatementFails(r)
  BY <1>5, <1>10 DEF StatementFails
<1>11. CASE CheckCategory(r) \/ CheckNewCategory(r) \/ CheckParent(r) \/ ReadCategory(r)
  <2>1. CASE CheckCategory(r)
    <3>1. Expected(c) = c.category /\ c.category \in Categories
      BY <1>1, <2>1 DEF CheckCategory, At, CallMatches, CreateProductCalls, Expected
    <3> QED
      BY <1>6, <1>9, <2>1, <3>1, NullAssumption DEF CheckCategory, Steps
  <2>2. CASE CheckNewCategory(r)
    <3>1. c \in UpdateProductCalls
      BY <1>1, <2>2 DEF CheckNewCategory, At, CallMatches
    <3>2. Expected(c) = c.category
      BY <3>1 DEF UpdateProductCalls, Expected
    <3>3. CASE CategoryLive(c.category)
      BY <1>9, <2>2, <3>3 DEF CheckNewCategory, Steps
    <3>4. CASE ~CategoryLive(c.category)
      <4>1. c.category # Null
        BY <1>1, <2>2 DEF CheckNewCategory, CallMatches, At
      <4> QED
        BY <1>6, <2>2, <3>2, <3>4, <4>1 DEF CheckNewCategory
    <3> QED
      BY <3>3, <3>4
  <2>3. CASE CheckParent(r)
    <3>1. c \in CreateCategoryCalls /\ c.parent # Null
      BY <1>1, <2>3 DEF CheckParent, At, CallMatches
    <3>2. Expected(c) = c.parent
      BY <3>1 DEF CreateCategoryCalls, Expected
    <3>3. CASE CategoryLive(c.parent)
      BY <1>9, <2>3, <3>3 DEF CheckParent, Steps
    <3>4. CASE ~CategoryLive(c.parent)
      BY <1>6, <2>3, <3>1, <3>2, <3>4 DEF CheckParent
    <3> QED
      BY <3>3, <3>4
  <2>4. CASE ReadCategory(r)
    <3>1. Expected(c) = c.category /\ c.category \in Categories
      BY <1>1, <2>4 DEF ReadCategory, At, CallMatches, DeleteCategoryCalls, Expected
    <3> QED
      BY <1>6, <1>9, <2>4, <3>1, NullAssumption DEF ReadCategory, Steps
  <2> QED
    BY <1>11, <2>1, <2>2, <2>3, <2>4
<1>12. CASE ReadForUpdate(r) \/ GetProduct(r) \/ ReadForDelete(r)
  <2>1. UsesProduct(c) /\ UNCHANGED storeVars
    BY <1>1, <1>12
       DEF ReadForUpdate, GetProduct, ReadForDelete, At, CallMatches, UpdateProductCalls,
           UsesProduct
  <2>2. CASE ProductLive(c.product)
    BY <1>1, <1>8, <1>9, <1>12, <2>1, <2>2
       DEF ReadForUpdate, GetProduct, Take, ReadForDelete, RequestsOK, Steps
  <2>3. CASE ~ProductLive(c.product)
    BY <1>6, <1>12, <2>1, <2>3 DEF ReadForUpdate, GetProduct, ReadForDelete
  <2> QED
    BY <2>2, <2>3
<1>13. CASE SendProduct(r)
  <2>1. c.op = "GetProduct" /\ HoldsRow(pc[r])
    BY <1>1, <1>13 DEF SendProduct, At, CallMatches, HoldsRow
  <2>2. Founded
    BY <2>1 DEF Remembered, WasThere
  <2>3. Done(r)
    BY <1>13, <2>1 DEF SendProduct, Done
  <2> QED
    BY <1>3, <1>13, <2>2, <2>3 DEF SendProduct
<1>14. CASE CheckSlug(r)
  <2>1. c.op = "CreateCategory"
    BY <1>1, <1>14 DEF CheckSlug, At, CallMatches, CreateCategoryCalls
  <2> QED
    BY <1>7, <1>9, <1>14, <2>1 DEF CheckSlug, AfterSlug, Steps
<1>15. CASE CreateProduct(r)
  <2>1. c \in CreateProductCalls
    BY <1>1, <1>15 DEF CreateProduct, CallMatches, At
  <2>2. CASE InsertProduct(c.product, NewRow(c)) /\ Acknowledge(r, "201")
    <3>1. c.op = "CreateProduct" /\ c.product \in Products
      BY <2>1 DEF CreateProductCalls
    <3>2. LET row == products'[c.product] IN
          /\ row.state = "live" /\ row.views = 0 /\ row.category = c.category
          /\ row.name = c.name /\ row.price = c.price
      BY <1>1, <2>2, <3>1 DEF InsertProduct, NewRow, StoreTypeOK
    <3>3. Done(r)
      BY <3>1, <3>2 DEF Done
    <3> QED
      BY <1>4, <2>2, <3>1, <3>3 DEF UsesProduct
  <2> QED
    BY <1>5, <1>15, <2>2 DEF CreateProduct
<1>16. CASE WriteProduct(r)
  <2> DEFINE v == ApplyUpdateRequest(copy[r], c)
             new == products'[c.product]
  <2>1. c \in UpdateProductCalls /\ HoldsRow(pc[r])
    BY <1>1, <1>16 DEF WriteProduct, CallMatches, At, HoldsRow
  <2>2. c.op = "UpdateProduct" /\ c.product \in Products
    BY <2>1 DEF UpdateProductCalls
  <2>3. WasThere(r) /\ copy[r] \in rows[r]
    BY <2>1 DEF Remembered, WasThere
  <2>4. ASSUME UpdateProduct(c.product, v) PROVE Done(r)
    <3>1. CASE ProductLive(c.product)
      <4>1. /\ new.state = "live" /\ new.category = v.category
            /\ new.name = v.name /\ new.price = v.price
        BY <1>1, <2>2, <2>4, <3>1 DEF UpdateProduct, ProductLive, StoreTypeOK, ProductRows
      <4>2. /\ v.category = IF c.category # Null THEN c.category ELSE copy[r].category
            /\ v.name = IF c.name # Null THEN c.name ELSE copy[r].name
            /\ v.price = IF c.price # Null THEN c.price ELSE copy[r].price
        BY DEF ApplyUpdateRequest, Field
      <4>3. \A f \in {"category", "name", "price"} :
                new[f] = IF c[f] # Null THEN c[f] ELSE copy[r][f]
        BY <4>1, <4>2
      <4> QED
        BY <2>2, <2>3, <4>1, <4>3 DEF Done
    <3>2. CASE ~ProductLive(c.product)
      <4>1. UNCHANGED storeVars
        BY <2>4, <3>2 DEF UpdateProduct, storeVars
      <4>2. products[c.product].state = "deleted"
        BY <1>1, <2>1, <2>2, <3>2
           DEF FoundRows, ProductLive, ProductStored, StoreTypeOK, ProductRows
      <4> QED
        BY <2>2, <2>3, <4>1, <4>2 DEF Done, storeVars
    <3> QED
      BY <3>1, <3>2
  <2> QED
    BY <1>4, <1>5, <1>16, <2>2, <2>3, <2>4 DEF WriteProduct
<1>17. CASE DeleteProduct(r)
  <2>1. /\ c \in ProductCalls /\ c.op = "DeleteProduct" /\ At(r, "dp_write")
    BY <1>1, <1>17 DEF DeleteProduct, CallMatches, At
  <2>2. c.product \in Products /\ ProductStored(c.product) /\ WasThere(r)
    BY <2>1 DEF ProductCalls, FoundRows, Remembered
  <2>3. products'[c.product].state = "deleted"
    BY <1>1, <1>17, <2>2
       DEF DeleteProduct, SoftDeleteProduct, ProductLive, ProductStored, StoreTypeOK,
           ProductRows
  <2>4. Done(r)
    BY <2>1, <2>3 DEF Done
  <2> QED
    BY <1>4, <1>17, <2>1, <2>2, <2>4 DEF DeleteProduct
<1>18. CASE CreateCategory(r)
  <2>1. c.op = "CreateCategory" /\ c.category \in Categories
    BY <1>1, <1>18 DEF CreateCategory, CallMatches, At, CreateCategoryCalls
  <2>2. CASE InsertCategory(c.category, c.slug, c.parent) /\ Acknowledge(r, "201")
    <3>1. categories'[c.category]
            = [state |-> "live", slug |-> c.slug, parent |-> c.parent]
      BY <1>1, <2>1, <2>2 DEF InsertCategory, StoreTypeOK
    <3>2. Done(r)
      BY <2>1, <3>1 DEF Done
    <3> QED
      BY <1>4, <2>1, <2>2, <3>2 DEF UsesProduct
  <2> QED
    BY <1>5, <1>18, <2>2 DEF CreateCategory
<1>19. CASE RemoveCategory(r)
  <2>1. /\ c.op = "DeleteCategory" /\ c.category \in Categories /\ At(r, "dc_delete")
    BY <1>1, <1>19 DEF RemoveCategory, CallMatches, At, DeleteCategoryCalls
  <2>2. CASE DeleteCategory(c.category) /\ Acknowledge(r, "204")
    <3>1. categories'[c.category].state = "dropped"
      BY <1>1, <2>1, <2>2
         DEF FoundRows, DeleteCategory, CategoryLive, NoCategory, StoreTypeOK,
             CategoryRows
    <3>2. Done(r)
      BY <2>1, <3>1 DEF Done
    <3> QED
      BY <1>4, <2>1, <2>2, <3>2 DEF UsesProduct
  <2> QED
    BY <1>5, <1>19, <2>2 DEF RemoveCategory
<1> QED
  BY <1>10, <1>11, <1>12, <1>13, <1>14, <1>15, <1>16, <1>17, <1>18, <1>19 DEF Serve, Statement

(* The service with its memory is the service. *)
LEMMA HistoryIsService == HistorySpec => Spec
<1>1. [Next /\ Remember]_<<vars, rows>> => [Next]_vars
  OBVIOUS
<1> QED
  BY <1>1, PTL DEF HistorySpec, HistoryInit, Spec

LEMMA HistoryInvariant == HistorySpec => [](ServiceInv /\ FoundRows /\ Remembered)
<1> DEFINE Inv == ServiceInv /\ FoundRows
<1>1. Init => FoundRows
  BY DEF Init, FoundRows, At, HoldsRow
<1>2. Spec => []Inv
  BY <1>1, FoundStep, ServiceInvariant, PTL DEF Spec
<1>3. HistoryInit => Remembered
  BY DEF HistoryInit, Init, Remembered, HistoryTypeOK, Running, HoldsRow, At
<1>4. Inv /\ Remembered /\ [Next /\ Remember]_<<vars, rows>> => Remembered'
  <2>1. CASE UNCHANGED <<vars, rows>>
    BY <2>1
       DEF Remembered, HistoryTypeOK, WasThere, vars, storeVars, requestVars, Running,
           HoldsRow, At, UsesProduct
  <2> QED
    BY <2>1, RememberStep
<1> QED
  BY <1>2, <1>3, <1>4, HistoryIsService, PTL DEF HistorySpec

(* A step answers truly, or is none of r's. *)
LEMMA AnswersStep ==
    ASSUME ServiceInv, FoundRows, Remembered, [Next /\ Remember]_<<vars, rows>>,
           NEW r \in Requests
    PROVE  HadItsMoment(r) /\ TellsItsEffect(r)
<1>1. CASE Serve(r)
  BY <1>1, ServeAnswersTruly
<1>2. CASE ~Serve(r)
  <2>1. RequestsOK
    BY DEF ServiceInv, TypeOK, RequestsOK
  <2>2. Running(r) => pc'[r] = pc[r] \/ pc'[r] = "idle"
    <3>1. CASE Next
      BY <1>2, <2>1, <3>1, OthersWait
    <3>2. CASE UNCHANGED vars
      BY <3>2 DEF vars, requestVars
    <3> QED
      BY <3>1, <3>2
  <2> QED
    BY <2>2 DEF HadItsMoment, TellsItsEffect, Answers, Succeeds, At, Running
<1> QED
  BY <1>1, <1>2

(* No request is answered from before its time: what it is served was       *)
(* there, undeleted, since it came.                                         *)
THEOREM NoAnswerOutOfTime == HistorySpec => AnswersHadTheirMoment
<1>1. ServiceInv /\ FoundRows /\ Remembered /\ [Next /\ Remember]_<<vars, rows>>
      => [\A r \in Requests : HadItsMoment(r)]_<<vars, rows>>
  BY AnswersStep
<1> QED
  BY <1>1, HistoryInvariant, PTL DEF HistorySpec, AnswersHadTheirMoment

(* Every answer tells what the request has done to the tables, with any     *)
(* number of requests between its statements, failures and crashes.         *)
THEOREM EffectsAreTold == HistorySpec => AnswersTellTheEffect
<1>1. ServiceInv /\ FoundRows /\ Remembered /\ [Next /\ Remember]_<<vars, rows>>
      => [\A r \in Requests : TellsItsEffect(r)]_<<vars, rows>>
  BY AnswersStep
<1> QED
  BY <1>1, HistoryInvariant, PTL DEF HistorySpec, AnswersTellTheEffect

-----------------------------------------------------------------------------
(* What RequestsAreAnswered rests on besides fairness: how many statements  *)
(* a request can still execute.                                             *)
StatementsLeft ==
    [cp_category |-> 2, cp_insert |-> 1,
     up_read |-> 3, up_category |-> 2, up_write |-> 1,
     dp_read |-> 2, dp_write |-> 1, gp_read |-> 2, gp_answer |-> 1,
     cc_slug |-> 3, cc_parent |-> 2, cc_insert |-> 1,
     dc_read |-> 2, dc_delete |-> 1, answered |-> 0, idle |-> 0]

LEMMA ServeAdvances ==
    ASSUME RequestsOK, NEW r \in Requests, Serve(r)
    PROVE  /\ Running(r)
           /\ StatementsLeft[pc'[r]] < StatementsLeft[pc[r]]
           /\ pc'[r] # "idle"
<1> DEFINE Advances == /\ StatementsLeft[pc'[r]] < StatementsLeft[pc[r]]
                       /\ pc'[r] # "idle"
<1>1. Running(r)
  BY DEF Serve, Statement, Running, At, CheckCategory, CreateProduct, ReadForUpdate,
         CheckNewCategory, WriteProduct, ReadForDelete, DeleteProduct, GetProduct,
         SendProduct, CheckSlug, CheckParent, CreateCategory, ReadCategory, RemoveCategory,
         StatementFails
<1>2. ASSUME NEW s, Answer(r, s) PROVE Advances
  <2>1. pc[r] \in Steps
    BY <1>1 DEF Running, RequestsOK
  <2>2. pc'[r] = "answered"
    BY <1>2, AnswerSets
  <2> QED
    BY <2>1, <2>2 DEF StatementsLeft, Steps
<1>3. ASSUME NEW s, Acknowledge(r, s) PROVE Advances
  BY <1>2, <1>3 DEF Acknowledge
<1>4. ASSUME Refused(r) PROVE Advances
  BY <1>2, <1>4 DEF Refused
<1>5. ASSUME NEW step \in Steps, Goto(r, step),
             StatementsLeft[step] < StatementsLeft[pc[r]]
      PROVE  Advances
  BY <1>5, GotoSets DEF Steps
<1>6. CASE CreateProduct(r) \/ WriteProduct(r) \/ DeleteProduct(r)
              \/ CreateCategory(r) \/ RemoveCategory(r) \/ StatementFails(r)
  BY <1>1, <1>3, <1>4, <1>6
     DEF CreateProduct, WriteProduct, DeleteProduct, CreateCategory, RemoveCategory,
         StatementFails
<1>7. CASE GetProduct(r) \/ SendProduct(r)
  <2>1. CASE GetProduct(r) /\ ProductLive(call[r].product)
    BY <1>1, <2>1 DEF GetProduct, Take, RequestsOK, StatementsLeft, At
  <2>2. CASE (GetProduct(r) /\ ~ProductLive(call[r].product)) \/ SendProduct(r)
    BY <1>1, <1>2, <2>2 DEF GetProduct, SendProduct
  <2> QED
    BY <1>7, <2>1, <2>2
<1>8. CASE ReadForUpdate(r)
  <2>1. CASE ProductLive(call[r].product)
    BY <1>1, <1>8, <2>1 DEF ReadForUpdate, RequestsOK, StatementsLeft, At
  <2>2. CASE ~ProductLive(call[r].product)
    BY <1>1, <1>2, <1>8, <2>2 DEF ReadForUpdate
  <2> QED
    BY <2>1, <2>2
<1>9. CASE CheckCategory(r) \/ CheckNewCategory(r) \/ ReadForDelete(r)
              \/ CheckParent(r) \/ ReadCategory(r)
  BY <1>1, <1>2, <1>5, <1>9
     DEF CheckCategory, CheckNewCategory, ReadForDelete, CheckParent, ReadCategory,
         Steps, StatementsLeft, At
<1>10. CASE CheckSlug(r)
  BY <1>1, <1>2, <1>5, <1>10 DEF CheckSlug, AfterSlug, Steps, StatementsLeft, At
<1> QED
  BY <1>6, <1>7, <1>8, <1>9, <1>10 DEF Serve, Statement

(* A statement of a request brings its answer nearer; and as long as it is  *)
(* not answered, nothing but its own statements and a crash moves it.       *)
RequestsRunDown ==
    \A r \in Requests :
        /\ Serve(r) => /\ StatementsLeft[pc'[r]] < StatementsLeft[pc[r]]
                       /\ pc'[r] # "idle" /\ call'[r] = call[r]
        /\ Running(r) /\ ~Serve(r) /\ ~Crash
              => pc'[r] = pc[r] /\ call'[r] = call[r]

(* Every request is answered after at most three statements of its own,     *)
(* with any number of other requests in between.                            *)
(* The Execute methods of the use cases.                                    *)
THEOREM RequestsAdvance == Spec => [][RequestsRunDown]_vars
<1>1. ServiceInv /\ [Next]_vars => [RequestsRunDown]_vars
  <2> SUFFICES ASSUME ServiceInv, [Next]_vars, NEW r \in Requests, ~UNCHANGED vars
               PROVE  /\ Serve(r) => /\ StatementsLeft[pc'[r]] < StatementsLeft[pc[r]]
                                     /\ pc'[r] # "idle" /\ call'[r] = call[r]
                      /\ Running(r) /\ ~Serve(r) /\ ~Crash
                            => pc'[r] = pc[r] /\ call'[r] = call[r]
    BY DEF RequestsRunDown
  <2>1. RequestsOK
    BY DEF ServiceInv, TypeOK, RequestsOK
  <2>2. ASSUME Serve(r)
        PROVE  /\ StatementsLeft[pc'[r]] < StatementsLeft[pc[r]]
               /\ pc'[r] # "idle" /\ call'[r] = call[r]
    BY <2>1, <2>2, ServeAdvances, ServeMoves
  <2>3. ASSUME Running(r), ~Serve(r), ~Crash
        PROVE  pc'[r] = pc[r] /\ call'[r] = call[r]
    <3>1. ASSUME NEW q \in Requests \ {r}, Serve(q)
          PROVE  pc'[r] = pc[r] /\ call'[r] = call[r]
      BY <2>1, <3>1, ServeMoves
    <3>2. ASSUME NEW q \in Requests, Receive(q) \/ Finish(q)
          PROVE  pc'[r] = pc[r] /\ call'[r] = call[r]
      BY <2>1, <2>3, <3>2 DEF Receive, Finish, At, Running, RequestsOK
    <3>3. ASSUME NEW p \in Products, RunGoroutine(p)
          PROVE  pc'[r] = pc[r] /\ call'[r] = call[r]
      BY <3>3 DEF RunGoroutine, CountView, CountingFails, requestVars
    <3> QED
      BY <2>3, <3>1, <3>2, <3>3 DEF Next
  <2> QED
    BY <2>2, <2>3
<1> QED
  BY <1>1, ServiceInvariant, PTL DEF Spec

-----------------------------------------------------------------------------
(* What ViewsSettle rests on besides fairness: a view that has been counted *)
(* or lost is not taken back, whatever copy an update writes, and each turn *)
(* of a counting goroutine settles one more.                                *)
ViewsRunDown ==
    \A p \in Products :
        /\ products'[p].views + lost'[p] >= products[p].views + lost[p]
        /\ RunGoroutine(p)
              => products'[p].views + lost'[p] = products[p].views + lost[p] + 1

(* For any number of requests, goroutines and crashes.                      *)
(* GetUseCase.Execute, ProductRepo.Update, ProductRepo.IncrementViewCount.  *)
THEOREM SettledViewsStay == Spec => [][ViewsRunDown]_vars
<1>1. /\ TypeOK /\ ViewAccounting /\ TypeOK' /\ ViewAccounting' /\ [Next]_vars
      => [ViewsRunDown]_vars
  <2> SUFFICES ASSUME TypeOK, ViewAccounting, TypeOK', ViewAccounting', [Next]_vars,
                      ~UNCHANGED vars, NEW p \in Products
               PROVE  /\ products'[p].views + lost'[p] >= products[p].views + lost[p]
                      /\ RunGoroutine(p) =>
                            products'[p].views + lost'[p]
                                = products[p].views + lost[p] + 1
    BY DEF ViewsRunDown
  <2>1. /\ pending[p] \in Nat /\ served[p] \in Nat /\ lost[p] \in Nat
        /\ pending'[p] \in Nat /\ served'[p] \in Nat /\ lost'[p] \in Nat
        /\ products[p].views \in Nat /\ products'[p].views \in Nat
    BY DEF TypeOK, StoreTypeOK, ProductRows
  <2>2. /\ products[p].views + pending[p] + lost[p] = served[p]
        /\ products'[p].views + pending'[p] + lost'[p] = served'[p]
    BY DEF ViewAccounting
  <2>3. served'[p] - pending'[p] >= served[p] - pending[p]
    <3>1. ASSUME NEW r \in Requests, GetProduct(r) PROVE <2>3
      BY <2>1, <3>1 DEF GetProduct, Take, NoView, viewVars, TypeOK
    <3>2. ASSUME NEW r \in Requests, Serve(r) PROVE <2>3
      BY <2>1, <3>1, <3>2
         DEF Serve, Statement, NoView, viewVars, CheckCategory, CreateProduct, ReadForUpdate,
             CheckNewCategory, WriteProduct, ReadForDelete, DeleteProduct, SendProduct,
             CheckSlug, CheckParent, CreateCategory, ReadCategory, RemoveCategory, StatementFails
    <3>3. ASSUME NEW q \in Products, RunGoroutine(q) PROVE <2>3
      BY <2>1, <3>3 DEF RunGoroutine, CountView, CountingFails, TypeOK
    <3>4. CASE Crash
      BY <2>1, <3>4 DEF Crash
    <3>5. ASSUME NEW r \in Requests, Receive(r) \/ Finish(r) PROVE <2>3
      BY <2>1, <3>5 DEF Receive, Finish, viewVars
    <3> QED
      BY <3>2, <3>3, <3>4, <3>5 DEF Next
  <2>4. RunGoroutine(p) => served'[p] = served[p] /\ pending'[p] = pending[p] - 1
    BY DEF RunGoroutine, CountView, CountingFails, TypeOK
  <2> QED
    BY <2>1, <2>2, <2>3, <2>4
<1> QED
  BY <1>1, TypeCorrect, ViewsAccounted, PTL DEF Spec

=============================================================================
