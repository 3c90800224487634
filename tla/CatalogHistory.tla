--------------------------- MODULE CatalogHistory ---------------------------
(***************************************************************************)
(* CatalogService with a memory: for every request in flight that works on  *)
(* a product, the rows this product has had since the request came.  The    *)
(* memory is history, written beside every step and read by the properties  *)
(* only; each behaviour of the service has one.  It lets a property judge   *)
(* an answer by the time between the request and its answer, in which other *)
(* requests create, change and delete what this one has looked at.          *)
(***************************************************************************)
EXTENDS CatalogService

VARIABLE
    rows            \* by request: the rows the product it names has had

UsesProduct(c) == c.op \in {"UpdateProduct", "DeleteProduct", "GetProduct"}

HistoryTypeOK == rows \in [Requests -> SUBSET ProductRows]

(* Every state from the arrival of a request to its answer leaves its mark. *)
Remember ==
    rows' = [r \in Requests |->
                IF Running(r)' /\ UsesProduct(call'[r])
                THEN rows[r] \cup {products'[call'[r].product]} ELSE {}]

HistoryInit == Init /\ rows = [r \in Requests |-> {}]

HistorySpec == HistoryInit /\ [][Next /\ Remember]_<<vars, rows>>

-----------------------------------------------------------------------------
(* The product r names was there at some moment since r came. *)
WasThere(r) == \E row \in rows[r] : row.state = "live"

(* The category a call needs to find, or Null. *)
Expected(c) ==
    CASE c.op \in {"CreateProduct", "UpdateProduct", "DeleteCategory"} -> c.category
      [] c.op = "CreateCategory" -> c.parent
      [] OTHER -> Null

Succeeds(r) == Answers(r, "200") \/ Answers(r, "201") \/ Answers(r, "204")

HadItsMoment(r) ==
    LET c == call[r] IN
    /\ UsesProduct(c) /\ Succeeds(r) => WasThere(r)
    /\ c.op = "GetProduct" /\ Succeeds(r) =>
          copy[r] \in rows[r] /\ copy[r].state = "live"
    /\ Answers(r, "404") =>
          \/ UsesProduct(c) /\ ~ProductLive(c.product)
          \/ Expected(c) # Null /\ ~CategoryLive(Expected(c))
    /\ Answers(r, "409") => c.op = "CreateCategory" /\ SlugTaken(c.slug)

(* What a request is told of the things it names was so since it came.  A   *)
(* get shows a row the product has had, not deleted, between the request    *)
(* and the answer; a get, an update or a delete succeeds only on a product  *)
(* that was there in that time.  So one that is in flight when the product  *)
(* is deleted may still succeed, and none that comes later: a product is    *)
(* never served, neither by GET nor in the answer of an update, from a read *)
(* older than the request.  404 and 409 tell what is so at that moment.     *)
(* GetUseCase, UpdateUseCase and DeleteUseCase.Execute, ProductRepo.GetByID, *)
(* Delete.                                                                  *)
AnswersHadTheirMoment ==
    [][\A r \in Requests : HadItsMoment(r)]_<<vars, rows>>

(* The tables hold what r was sent for.  An update lays the fields it names *)
(* over a row the product had since the request came: it may undo what      *)
(* another update wrote in the meantime, but nothing older comes back.  It  *)
(* is also content with a product that was deleted in the meantime, which   *)
(* it then leaves alone.                                                    *)
Done(r) ==
    LET c == call[r]
        new == products'[c.product]
    IN
    CASE c.op = "CreateProduct" ->
            /\ new.state = "live" /\ new.views = 0
            /\ \A f \in {"category", "name", "price"} : new[f] = c[f]
      [] c.op = "UpdateProduct" ->
            /\ WasThere(r)
            /\ \/ /\ new.state = "live"
                  /\ \E row \in rows[r] : \A f \in {"category", "name", "price"} :
                        new[f] = IF c[f] # Null THEN c[f] ELSE row[f]
               \/ new.state = "deleted" /\ UNCHANGED storeVars
      [] c.op = "DeleteProduct" -> new.state = "deleted"
      [] c.op = "CreateCategory" ->
            categories'[c.category]
                = [state |-> "live", slug |-> c.slug, parent |-> c.parent]
      [] c.op = "DeleteCategory" -> categories'[c.category].state = "dropped"
      [] OTHER -> UNCHANGED storeVars

TellsItsEffect(r) ==
    /\ Succeeds(r) => Done(r)
    /\ Answers(r, "404") \/ Answers(r, "409") => UNCHANGED storeVars
    /\ Answers(r, "500") => UNCHANGED storeVars \/ Done(r)
    /\ Running(r) /\ Running(r)' /\ pc'[r] # pc[r] => UNCHANGED storeVars

(* What a request does to the tables it does at once, with its answer, and  *)
(* the answer tells of it: after a success it is done, after 404 and 409    *)
(* nothing has changed, and after 500, which also stands for an             *)
(* acknowledgement that got lost, it is done entirely or not at all.        *)
(* The Execute methods of the use cases, response.go writeError.            *)
AnswersTellTheEffect == [][\A r \in Requests : TellsItsEffect(r)]_<<vars, rows>>

=============================================================================
