------------------------------ MODULE SearchLog ------------------------------
(***************************************************************************)
(* What a search leaves behind.  SearchUseCase.Execute answers a query_id    *)
(* and starts a goroutine that inserts the row it names into search_queries  *)
(* and then a row into search_history.  Nothing waits for the goroutine, and *)
(* the second error is dropped.  Meanwhile users clear their history, and    *)
(* clicks refer to the query_id.                                             *)
(*                                                                         *)
(* A member of Searches is one call of Execute, and the id it draws.  The    *)
(* search itself (COUNT and SELECT) is the subject of Listing.               *)
(***************************************************************************)
EXTENDS Naturals

CONSTANTS
    Searches,
    Users,
    NoUser,         \* no X-User-ID header, or one that does not parse
    Queries,
    Blank,          \* the empty query
    Clicks,         \* calls of TrackUseCase.TrackClick
    Products

ASSUME SearchLogAssumption == NoUser \notin Users /\ Blank \notin Queries

VARIABLES
    user, query,    \* the parameters of each search
    request,        \* where each search is
    recorder,       \* where its goroutine is
    queries,        \* search_queries: the searches that have a row
    history,        \* search_history: the number of rows of each search
    live,           \* the products that are not deleted
    click,          \* where each click is, and what it refers to
    troubled,       \* history: a recording that failed or was cut off
    cleared         \* history: recordings that had ended at a clear

searchVars == <<user, query, request>>
logVars == <<recorder, queries, history, troubled>>
clickVars == <<live, click>>
vars == <<searchVars, logVars, clickVars, cleared>>

NoClick == [at |-> "none"]

ClickRows ==
    {NoClick} \cup [at : {"sent", "checked", "stored", "refused"},
                    search : Searches, product : Products, late : BOOLEAN]

TypeOK ==
    /\ user \in [Searches -> Users \cup {NoUser}]
    /\ query \in [Searches -> Queries \cup {Blank}]
    /\ request \in [Searches -> {"none", "searching", "answering", "answered",
                                  "failed", "gone"}]
    /\ recorder \in [Searches -> {"none", "query", "history", "done"}]
    /\ queries \subseteq Searches /\ history \in [Searches -> 0..1]
    /\ live \subseteq Products /\ click \in [Clicks -> ClickRows]
    /\ troubled \subseteq Searches /\ cleared \subseteq Searches

Init ==
    /\ user = [s \in Searches |-> NoUser] /\ query = [s \in Searches |-> Blank]
    /\ request = [s \in Searches |-> "none"]
    /\ recorder = [s \in Searches |-> "none"]
    /\ queries = {} /\ history = [s \in Searches |-> 0]
    /\ live = Products /\ click = [k \in Clicks |-> NoClick]
    /\ troubled = {} /\ cleared = {}

-----------------------------------------------------------------------------
(* SearchUseCase.Execute. *)

Search(s) ==
    /\ request[s] = "none"
    /\ request' = [request EXCEPT ![s] = "searching"]
    /\ \E u \in Users \cup {NoUser} : user' = [user EXCEPT ![s] = u]
    /\ \E q \in Queries \cup {Blank} : query' = [query EXCEPT ![s] = q]
    /\ UNCHANGED <<logVars, clickVars, cleared>>

(* COUNT or SELECT fails, or the client has gone away: 500.                 *)
SearchFails(s) ==
    /\ request[s] = "searching"
    /\ request' = [request EXCEPT ![s] = "failed"]
    /\ UNCHANGED <<user, query, logVars, clickVars, cleared>>

(* Faulty variant: recordHistory inserts a row too, as its comment suggests. *)
SearchSucceedsTwice(s) ==
    /\ request[s] = "searching"
    /\ request' = [request EXCEPT ![s] = "answering"]
    /\ recorder' = [recorder EXCEPT ![s] = IF query[s] = Blank THEN "done" ELSE "query"]
    /\ history' = [history EXCEPT ![s] =
                       IF query[s] # Blank /\ user[s] # NoUser THEN @ + 1 ELSE @]
    /\ UNCHANGED <<user, query, queries, troubled, clickVars, cleared>>

(* Faulty variant: only searches of a user are recorded, but all are        *)
(* answered a query_id.                                                     *)
SearchSucceedsForUsers(s) ==
    /\ request[s] = "searching"
    /\ request' = [request EXCEPT ![s] = "answering"]
    /\ recorder' = [recorder EXCEPT ![s] =
                        IF query[s] = Blank \/ user[s] = NoUser THEN "none" ELSE "query"]
    /\ UNCHANGED <<user, query, queries, history, troubled, clickVars, cleared>>

(* The goroutine starts; an empty query needs none.  recordHistory, which   *)
(* is started too, keeps its row to itself.                                 *)
SearchSucceeds(s) ==
    /\ request[s] = "searching"
    /\ request' = [request EXCEPT ![s] = "answering"]
    /\ recorder' = [recorder EXCEPT ![s] = IF query[s] = Blank THEN "done" ELSE "query"]
    /\ UNCHANGED <<user, query, queries, history, troubled, clickVars, cleared>>

(* Faulty variant: the goroutine runs under the context of the request,     *)
(* which ends with the answer.                                              *)
AnswerCancelling(s) ==
    /\ request[s] = "answering"
    /\ request' = [request EXCEPT ![s] = "answered"]
    /\ recorder' = [recorder EXCEPT ![s] = "done"]
    /\ UNCHANGED <<user, query, queries, history, troubled, clickVars, cleared>>

(* The answer, with its query_id, goes out.                                 *)
Answer(s) ==
    /\ request[s] = "answering"
    /\ request' = [request EXCEPT ![s] = "answered"]
    /\ UNCHANGED <<user, query, logVars, clickVars, cleared>>

-----------------------------------------------------------------------------
(* SearchRepo.RecordQuery, run by the goroutine. *)

AfterQuery(s) == IF user[s] = NoUser THEN "done" ELSE "history"

Recorded(s, place) ==
    /\ queries' = queries \cup {s}
    /\ recorder' = [recorder EXCEPT ![s] = place]

EndTroubled(s) ==
    /\ recorder' = [recorder EXCEPT ![s] = "done"]
    /\ troubled' = troubled \cup {s}

(* Faulty variant: the error of the first INSERT is not looked at.          *)
InsertQueryUnchecked(s) ==
    /\ recorder[s] = "query"
    /\ \/ Recorded(s, AfterQuery(s)) /\ UNCHANGED troubled
       \/ /\ recorder' = [recorder EXCEPT ![s] = AfterQuery(s)]
          /\ troubled' = troubled \cup {s} /\ UNCHANGED queries
    /\ UNCHANGED <<searchVars, history, clickVars, cleared>>

(* The row is inserted, or inserted without the goroutine learning of it,   *)
(* or not inserted.                                                         *)
InsertQuery(s) ==
    /\ recorder[s] = "query"
    /\ \/ Recorded(s, AfterQuery(s)) /\ UNCHANGED troubled
       \/ Recorded(s, "done") /\ troubled' = troubled \cup {s}
       \/ EndTroubled(s) /\ UNCHANGED queries
    /\ UNCHANGED <<searchVars, history, clickVars, cleared>>

InsertHistory(s) ==
    /\ recorder[s] = "history"
    /\ \/ /\ history' = [history EXCEPT ![s] = @ + 1]
          /\ recorder' = [recorder EXCEPT ![s] = "done"]
          /\ UNCHANGED troubled
       \/ EndTroubled(s) /\ UNCHANGED history
    /\ UNCHANGED <<searchVars, queries, clickVars, cleared>>

(* Faulty variant: the condition compares the wrong column, and matches no  *)
(* row.                                                                     *)
ClearNothing(u) ==
    /\ cleared' = cleared \cup {s \in Searches : user[s] = u /\ recorder[s] = "done"}
    /\ UNCHANGED <<searchVars, logVars, clickVars>>

(* DELETE ... WHERE user_id: the rows that are there at this time.          *)
ClearSearchHistory(u) ==
    /\ history' = [s \in Searches |-> IF user[s] = u THEN 0 ELSE history[s]]
    /\ cleared' = cleared \cup {s \in Searches : user[s] = u /\ recorder[s] = "done"}
    /\ UNCHANGED <<searchVars, recorder, queries, troubled, clickVars>>

-----------------------------------------------------------------------------
(* TrackUseCase.TrackClick, and the product it refers to. *)

DeleteProduct(p) ==
    /\ p \in live
    /\ live' = live \ {p}
    /\ UNCHANGED <<searchVars, logVars, click, cleared>>

(* A client that was given a query_id clicks on a product, which it may     *)
(* have seen long ago.                                                      *)
SendClick(k) ==
    /\ click[k] = NoClick
    /\ \E s \in Searches, p \in Products :
          /\ request[s] = "answered" /\ query[s] # Blank
          /\ click' = [click EXCEPT ![k] = [at |-> "sent", search |-> s,
                                            product |-> p, late |-> p \notin live]]
    /\ UNCHANGED <<searchVars, logVars, live, cleared>>

EndClick(k, how) == click' = [click EXCEPT ![k].at = how]

(* Faulty variant: the product is not looked up.                            *)
CheckNothing(k) ==
    /\ click[k].at = "sent"
    /\ EndClick(k, "checked")
    /\ UNCHANGED <<searchVars, logVars, live, cleared>>

(* products.GetByID, which may also fail.                                   *)
CheckProduct(k) ==
    /\ click[k].at = "sent"
    /\ \/ click[k].product \in live /\ EndClick(k, "checked")
       \/ EndClick(k, "refused")
    /\ UNCHANGED <<searchVars, logVars, live, cleared>>

(* The foreign key wants the search_queries row; a product keeps its row    *)
(* when it is deleted, so that reference always holds.                      *)
InsertClick(k) ==
    /\ click[k].at = "checked"
    /\ \/ click[k].search \in queries /\ EndClick(k, "stored")
       \/ EndClick(k, "refused")
    /\ UNCHANGED <<searchVars, logVars, live, cleared>>

-----------------------------------------------------------------------------

(* The process stops and starts again: every request and every goroutine is *)
(* gone, the tables stay.                                                   *)
Crash ==
    /\ request' = [s \in Searches |->
           IF request[s] \in {"searching", "answering"} THEN "gone" ELSE request[s]]
    /\ recorder' = [s \in Searches |->
           IF recorder[s] \in {"query", "history"} THEN "done" ELSE recorder[s]]
    /\ troubled' = troubled \cup {s \in Searches : recorder[s] \in {"query", "history"}}
    /\ click' = [k \in Clicks |->
           IF click[k].at \in {"sent", "checked"}
               THEN [click[k] EXCEPT !.at = "refused"] ELSE click[k]]
    /\ UNCHANGED <<user, query, queries, history, live, cleared>>

Record(s) == InsertQuery(s) \/ InsertHistory(s)

Next ==
    \/ \E s \in Searches :
          Search(s) \/ SearchFails(s) \/ SearchSucceeds(s) \/ Answer(s) \/ Record(s)
    \/ \E u \in Users : ClearSearchHistory(u)
    \/ \E p \in Products : DeleteProduct(p)
    \/ \E k \in Clicks : SendClick(k) \/ CheckProduct(k) \/ InsertClick(k)
    \/ Crash

Spec == Init /\ [][Next]_vars

(* The runtime runs the recording goroutines, and their statements end.     *)
FairSpec == Spec /\ \A s \in Searches : WF_vars(Record(s))

-----------------------------------------------------------------------------
(* Properties. *)

(* Nothing is recorded without its cause.  A search appears in the history  *)
(* of a user only when it appears in search_queries, whichever of the two   *)
(* INSERTs fails; and it appears there only when it had a query and had     *)
(* succeeded before its goroutine began.  Execute, RecordQuery.             *)
RecordsHaveCause ==
    /\ \A s \in Searches : history[s] > 0 => s \in queries /\ user[s] \in Users
    /\ \A s \in queries :
          query[s] # Blank /\ request[s] \notin {"searching", "failed"}

(* Unless its recording failed or was cut off by a stop, an answered search *)
(* ends up in search_queries, and in the history of its user exactly once,  *)
(* until the user clears it: the end of the request does not end the        *)
(* recording (WithoutCancel).                                               *)
RecordedInFull ==
    \A s \in Searches :
        recorder[s] = "done" /\ query[s] # Blank /\ s \notin troubled
            => /\ s \in queries
               /\ user[s] # NoUser /\ s \notin cleared => history[s] = 1

(* A row that was there when its user cleared the history does not come     *)
(* back; only a recording that was still under way can add one.             *)
ClearedStaysCleared == \A s \in cleared : history[s] = 0

(* A stored click refers to a recorded search, and to a product that was    *)
(* still there when the click came in.  It may be deleted between the check *)
(* and the INSERT.                                                          *)
ClicksAreSound ==
    \A k \in Clicks : click[k].at = "stored" =>
        click[k].search \in queries /\ ~click[k].late

(* Under FairSpec every query_id that a client was given becomes one that   *)
(* clicks can refer to, or its recording is known to have failed.           *)
QueryIdsSettle ==
    \A s \in Searches :
        request[s] = "answered" /\ query[s] # Blank ~> s \in queries \/ s \in troubled

=============================================================================
