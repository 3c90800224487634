--------------------------- MODULE SearchLogProofs ---------------------------
(***************************************************************************)
(* Theorems about SearchLog, for any number of searches, users and clicks.  *)
(*                                                                         *)
(* What the properties say of a search depends on how far its goroutine has *)
(* come, so the inductive invariant says for each place of the goroutine    *)
(* which rows are there.                                                    *)
(***************************************************************************)
EXTENDS SearchLog, TLAPS

(* Before its goroutine has come to an INSERT, a search has no row of it.   *)
NotYet(s) ==
    /\ recorder[s] \in {"none", "query"} => s \notin queries
    /\ recorder[s] # "done" => history[s] = 0 /\ s \notin cleared
    /\ recorder[s] = "history" => s \in queries /\ user[s] \in Users
    /\ recorder[s] \in {"query", "history"} => query[s] # Blank

(* There is no goroutine before the search has succeeded.                   *)
StartedLate(s) ==
    request[s] \in {"none", "searching", "failed"} => recorder[s] = "none"

(* What a search leaves behind.                                             *)
Settled(s) ==
    /\ history[s] > 0 => s \in queries /\ user[s] \in Users
    /\ s \in queries => query[s] # Blank
    /\ recorder[s] = "done" /\ query[s] # Blank /\ s \notin troubled
           => s \in queries /\ (user[s] # NoUser /\ s \notin cleared => history[s] = 1)
    /\ s \in cleared => history[s] = 0

SearchOK(s) == NotYet(s) /\ StartedLate(s) /\ Settled(s)

LogInv == TypeOK /\ \A s \in Searches : SearchOK(s)

-----------------------------------------------------------------------------

LEMMA InitLog == Init => LogInv
BY DEF Init, LogInv, TypeOK, SearchOK, NotYet, StartedLate, Settled, ClickRows, NoClick

(* Every step keeps the types; an INSERT into search_history finds no row.  *)
LEMMA TypeStep ==
    ASSUME LogInv, [Next]_vars
    PROVE  TypeOK'
<1> USE DEF LogInv, TypeOK
<1>1. ASSUME NEW s \in Searches, Search(s)
      PROVE  TypeOK'
  BY <1>1 DEF Search, logVars, clickVars
<1>2. ASSUME NEW s \in Searches, SearchFails(s) \/ SearchSucceeds(s) \/ Answer(s)
      PROVE  TypeOK'
  BY <1>2 DEF SearchFails, SearchSucceeds, Answer, logVars, clickVars
<1>3. ASSUME NEW s \in Searches, InsertQuery(s)
      PROVE  TypeOK'
  BY <1>3 DEF InsertQuery, Recorded, AfterQuery, EndTroubled, searchVars, clickVars
<1>4. ASSUME NEW s \in Searches, InsertHistory(s)
      PROVE  TypeOK'
  <2>1. history[s] = 0
    BY <1>4 DEF InsertHistory, SearchOK, NotYet
  <2>2. QED
    BY <1>4, <2>1 DEF InsertHistory, EndTroubled, searchVars, clickVars
<1>5. ASSUME NEW u \in Users, ClearSearchHistory(u)
      PROVE  TypeOK'
  BY <1>5 DEF ClearSearchHistory, searchVars, clickVars
<1>6. ASSUME NEW p \in Products, DeleteProduct(p)
      PROVE  TypeOK'
  BY <1>6 DEF DeleteProduct, searchVars, logVars
<1>7. ASSUME NEW k \in Clicks, SendClick(k) \/ CheckProduct(k) \/ InsertClick(k)
      PROVE  TypeOK'
  <2>1. click' \in [Clicks -> ClickRows]
    <3>1. CASE SendClick(k)
      BY <3>1 DEF SendClick, ClickRows
    <3>2. CASE CheckProduct(k) \/ InsertClick(k)
      <4>1. click[k] # NoClick
        BY <3>2 DEF CheckProduct, InsertClick, NoClick
      <4>2. \A how \in {"checked", "stored", "refused"} :
                [click[k] EXCEPT !.at = how] \in ClickRows
        BY <4>1 DEF ClickRows
      <4>3. QED
        BY <3>2, <4>2 DEF CheckProduct, InsertClick, EndClick
    <3>3. QED
      BY <1>7, <3>1, <3>2
  <2>2. QED
    BY <1>7, <2>1 DEF SendClick, CheckProduct, InsertClick, searchVars, logVars
<1>8. ASSUME Crash
      PROVE  TypeOK'
  <2>1. click' \in [Clicks -> ClickRows]
    <3>1. ASSUME NEW k \in Clicks, click[k].at \in {"sent", "checked"}
          PROVE  [click[k] EXCEPT !.at = "refused"] \in ClickRows
      <4>1. click[k] # NoClick
        BY <3>1 DEF NoClick
      <4>2. QED
        BY <4>1 DEF ClickRows
    <3>2. QED
      BY <1>8, <3>1 DEF Crash
  <2>2. QED
    BY <1>8, <2>1 DEF Crash
<1>9. CASE UNCHANGED vars
  BY <1>9 DEF vars, searchVars, logVars, clickVars
<1>10. QED
  BY <1>1, <1>2, <1>3, <1>4, <1>5, <1>6, <1>7, <1>8, <1>9 DEF Next, Record

(* Every step keeps what is said of each search.                            *)
LEMMA SearchStep ==
    ASSUME LogInv, [Next]_vars, NEW s \in Searches
    PROVE  SearchOK(s)'
<1> USE SearchLogAssumption DEF LogInv, TypeOK, SearchOK, NotYet, StartedLate, Settled
<1>1. ASSUME NEW t \in Searches, Search(t)
      PROVE  SearchOK(s)'
  BY <1>1 DEF Search, logVars
<1>2. ASSUME NEW t \in Searches, SearchFails(t) \/ SearchSucceeds(t) \/ Answer(t)
      PROVE  SearchOK(s)'
  BY <1>2 DEF SearchFails, SearchSucceeds, Answer, logVars
<1>3. ASSUME NEW t \in Searches, InsertQuery(t)
      PROVE  SearchOK(s)'
  BY <1>3 DEF InsertQuery, Recorded, AfterQuery, EndTroubled, searchVars
<1>4. ASSUME NEW t \in Searches, InsertHistory(t)
      PROVE  SearchOK(s)'
  BY <1>4 DEF InsertHistory, EndTroubled, searchVars
<1>5. ASSUME NEW u \in Users, ClearSearchHistory(u)
      PROVE  SearchOK(s)'
  BY <1>5 DEF ClearSearchHistory, searchVars
<1>6. CASE Crash
  BY <1>6 DEF Crash
<1>7. CASE UNCHANGED <<searchVars, logVars, cleared>>
  BY <1>7 DEF searchVars, logVars
<1>8. QED
  BY <1>1, <1>2, <1>3, <1>4, <1>5, <1>6, <1>7
     DEF Next, Record, DeleteProduct, SendClick, CheckProduct, InsertClick, vars

(* What the goroutine of a search has done so far fits the place it is at.  *)
THEOREM LogCorrect == Spec => []LogInv
<1>1. LogInv /\ [Next]_vars => LogInv'
  <2>1. SUFFICES ASSUME LogInv, [Next]_vars
                 PROVE  TypeOK' /\ \A s \in Searches : SearchOK(s)'
    BY DEF LogInv
  <2>2. QED
    BY <2>1, TypeStep, SearchStep
<1>2. QED
  BY <1>1, InitLog, PTL DEF Spec

(* The tables and the goroutines keep their types; a search has at most one *)
(* row in search_history.                                                   *)
THEOREM LogTypeCorrect == Spec => []TypeOK
<1>1. LogInv => TypeOK
  BY DEF LogInv
<1>2. QED
  BY <1>1, LogCorrect, PTL

(* Nothing is in a history that is not in search_queries, and a search that *)
(* failed, or had no query, is in neither.                                  *)
THEOREM RecordsAlwaysHaveCause == Spec => []RecordsHaveCause
<1>1. LogInv => RecordsHaveCause
  BY DEF LogInv, TypeOK, SearchOK, NotYet, StartedLate, Settled, RecordsHaveCause
<1>2. QED
  BY <1>1, LogCorrect, PTL

(* An answered search is recorded exactly once, unless that failed.         *)
THEOREM RecordingIsFull == Spec => []RecordedInFull
<1>1. LogInv => RecordedInFull
  BY DEF LogInv, SearchOK, Settled, RecordedInFull
<1>2. QED
  BY <1>1, LogCorrect, PTL

(* A history that was cleared does not fill again by itself.                *)
THEOREM ClearingIsLasting == Spec => []ClearedStaysCleared
<1>1. LogInv => ClearedStaysCleared
  BY DEF LogInv, TypeOK, SearchOK, Settled, ClearedStaysCleared
<1>2. QED
  BY <1>1, LogCorrect, PTL

-----------------------------------------------------------------------------
(* Clicks. *)

(* A click that passed the check came in while its product was there.       *)
ClickOK(k) ==
    /\ click[k].at = "stored" => click[k].search \in queries /\ ~click[k].late
    /\ click[k].at = "checked" => ~click[k].late
    /\ click[k].at = "sent" /\ click[k].late => click[k].product \notin live


(* Products are never brought back, so a check that succeeds shows that the *)
(* product was there all the time since the click came in.                  *)
LEMMA ClickStep ==
    ASSUME TypeOK, TypeOK', [Next]_vars, NEW k \in Clicks, ClickOK(k)
    PROVE  ClickOK(k)'
<1> USE DEF TypeOK, ClickOK
<1>1. ASSUME NEW j \in Clicks, SendClick(j)
      PROVE  ClickOK(k)'
  <2>1. CASE j = k
    <3>1. PICK p \in Products : /\ click'[k].at = "sent" /\ click'[k].product = p
                                /\ click'[k].late = (p \notin live)
      BY <1>1, <2>1 DEF SendClick
    <3>2. live' = live
      BY <1>1 DEF SendClick
    <3>3. QED
      BY <3>1, <3>2
  <2>2. CASE j # k
    BY <1>1, <2>2 DEF SendClick, searchVars, logVars
  <2>3. QED
    BY <2>1, <2>2
<1>2. ASSUME NEW j \in Clicks, CheckProduct(j) \/ InsertClick(j)
      PROVE  ClickOK(k)'
  BY <1>2 DEF CheckProduct, InsertClick, EndClick, ClickRows, NoClick,
              searchVars, logVars
<1>3. ASSUME NEW p \in Products, DeleteProduct(p)
      PROVE  ClickOK(k)'
  BY <1>3 DEF DeleteProduct, searchVars, logVars
<1>4. ASSUME NEW s \in Searches, Record(s)
      PROVE  ClickOK(k)'
  BY <1>4 DEF Record, InsertQuery, Recorded, EndTroubled, InsertHistory, clickVars
<1>5. CASE Crash
  BY <1>5 DEF Crash, ClickRows, NoClick
<1>6. CASE UNCHANGED <<queries, clickVars>>
  BY <1>6 DEF clickVars
<1>7. QED
  BY <1>1, <1>2, <1>3, <1>4, <1>5, <1>6
     DEF Next, Search, SearchFails, SearchSucceeds, Answer, ClearSearchHistory,
         vars, logVars

(* A stored click refers to a recorded search, and its product was there    *)
(* when the click came in.                                                  *)
THEOREM ClicksStaySound == Spec => []ClicksAreSound
<1> DEFINE ClickInv == TypeOK /\ \A k \in Clicks : ClickOK(k)
<1>1. Init => ClickInv
  BY InitLog DEF Init, LogInv, ClickOK, NoClick
<1>2. ClickInv /\ TypeOK' /\ [Next]_vars => ClickInv'
  BY ClickStep
<1>3. ClickInv => ClicksAreSound
  BY DEF ClickOK, ClicksAreSound
<1>4. QED
  BY <1>1, <1>2, <1>3, LogTypeCorrect, PTL DEF Spec

-----------------------------------------------------------------------------
(* What QueryIdsSettle rests on besides fairness: a query_id that is handed *)
(* out is never forgotten.                                                  *)
RecordingBegun ==
    \A s \in Searches :
        request[s] \in {"answering", "answered"} => recorder[s] # "none"

NoQueryIdForgotten ==
    \A s \in Searches :
        request[s] = "answered" /\ query[s] # Blank =>
            s \in queries \/ s \in troubled \/ recorder[s] = "query"

LEMMA BegunStep == LogInv /\ RecordingBegun /\ [Next]_vars => RecordingBegun'
<1> SUFFICES ASSUME LogInv, RecordingBegun, [Next]_vars PROVE RecordingBegun'
  OBVIOUS
<1> USE DEF LogInv, TypeOK, RecordingBegun
<1>1. CASE UNCHANGED <<request, recorder>>
  BY <1>1
<1>2. ASSUME NEW s \in Searches, Search(s) \/ SearchFails(s) PROVE RecordingBegun'
  BY <1>2 DEF Search, SearchFails, logVars
<1>3. ASSUME NEW s \in Searches, SearchSucceeds(s) \/ Answer(s) PROVE RecordingBegun'
  BY <1>3 DEF SearchSucceeds, Answer, logVars
<1>4. ASSUME NEW s \in Searches, Record(s) PROVE RecordingBegun'
  BY <1>4
     DEF Record, InsertQuery, InsertHistory, Recorded, AfterQuery, EndTroubled, searchVars
<1>5. CASE Crash
  BY <1>5 DEF Crash
<1> QED
  BY <1>1, <1>2, <1>3, <1>4, <1>5
     DEF Next, ClearSearchHistory, DeleteProduct, SendClick, CheckProduct, InsertClick,
         searchVars, logVars, vars

(* At every moment an answered query_id is recorded, or its recording is    *)
(* known to have failed, or its goroutine is still at the INSERT.           *)
(* SearchUseCase.Execute, SearchRepo.RecordQuery.                           *)
THEOREM QueryIdsStayKnown == Spec => []NoQueryIdForgotten
<1>1. Init => RecordingBegun
  BY DEF Init, RecordingBegun
<1>2. LogInv /\ RecordingBegun => NoQueryIdForgotten
  BY DEF LogInv, TypeOK, SearchOK, NotYet, Settled, RecordingBegun, NoQueryIdForgotten
<1> QED
  BY <1>1, <1>2, BegunStep, LogCorrect, PTL DEF Spec

(* A goroutine passes each of its INSERTs once, and nothing but its own     *)
(* steps and a stop moves it; what was recorded, and what is known to have  *)
(* failed, stays so.                                                        *)
InsertsLeft == [query |-> 2, history |-> 1, done |-> 0, none |-> 0]

RecordingRunsDown ==
    /\ queries \subseteq queries' /\ troubled \subseteq troubled'
    /\ \A s \in Searches :
          /\ Record(s) => InsertsLeft[recorder'[s]] < InsertsLeft[recorder[s]]
          /\ recorder[s] \in {"query", "history"} /\ ~Record(s) =>
                recorder'[s] = recorder[s] \/ s \in troubled'

(* For any number of searches under way.                                    *)
THEOREM RecordingsRunDown == Spec => [][RecordingRunsDown]_vars
<1>1. LogInv /\ [Next]_vars => [RecordingRunsDown]_vars
  <2> SUFFICES ASSUME LogInv, [Next]_vars PROVE RecordingRunsDown \/ UNCHANGED vars
    OBVIOUS
  <2> USE DEF LogInv, TypeOK
  <2>1. ASSUME NEW s \in Searches, Record(s) PROVE RecordingRunsDown
    <3>1. queries \subseteq queries' /\ troubled \subseteq troubled'
      BY <2>1 DEF Record, InsertQuery, InsertHistory, Recorded, EndTroubled
    <3>2. InsertsLeft[recorder'[s]] < InsertsLeft[recorder[s]]
      BY <2>1 DEF Record, InsertQuery, InsertHistory, Recorded, AfterQuery, EndTroubled,
                  InsertsLeft
    <3>3. \A q \in Searches \ {s} : recorder'[q] = recorder[q]
      BY <2>1 DEF Record, InsertQuery, InsertHistory, Recorded, EndTroubled
    <3>4. \A q \in Searches : Record(q) => recorder'[q] # recorder[q]
      BY DEF Record, InsertQuery, InsertHistory, Recorded, AfterQuery, EndTroubled
    <3> QED
      BY <2>1, <3>1, <3>2, <3>3, <3>4 DEF RecordingRunsDown
  <2>2. ASSUME \A s \in Searches : ~Record(s),
               queries' = queries, troubled \subseteq troubled',
               \A s \in Searches : recorder[s] \in {"query", "history"} =>
                   recorder'[s] = recorder[s] \/ s \in troubled'
        PROVE  RecordingRunsDown
    BY <2>2 DEF RecordingRunsDown
  <2>3. ASSUME NEW s \in Searches, SearchSucceeds(s)
        PROVE  \A q \in Searches : recorder[q] \in {"query", "history"} =>
                   recorder'[q] = recorder[q]
    BY <2>3 DEF SearchSucceeds, SearchOK, StartedLate
  <2> QED
    BY <2>1, <2>2, <2>3
       DEF Next, Search, SearchFails, SearchSucceeds, Answer, ClearSearchHistory,
           DeleteProduct, SendClick, CheckProduct, InsertClick, Crash, searchVars, logVars
<1> QED
  BY <1>1, LogCorrect, PTL DEF Spec

=============================================================================
