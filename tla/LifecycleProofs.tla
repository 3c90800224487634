--------------------------- MODULE LifecycleProofs ---------------------------
(***************************************************************************)
(* Theorems about Lifecycle, for any number of requests and goroutines and  *)
(* any size of the pool.                                                    *)
(*                                                                         *)
(* The inductive invariant LifeInv says what the progress of RunServer means *)
(* for the pool, the tracer and the tasks; in which order tasks get their   *)
(* connections does not matter for it.  TypeInv adds the queue: who waits   *)
(* stands in it once, and nobody else does.                                 *)
(***************************************************************************)
EXTENDS Lifecycle, DataLemmas

Alive(t) == at[t] # "none"

(* RunServer opens and closes things in a fixed order.                      *)
Progress ==
    /\ main \in {"loading", "starting", "connecting", "pinging", "serving",
                 "draining", "closing", "flushing", "exited"}
    /\ main \in {"loading", "starting", "connecting"} => pool = "none"
    /\ main \in {"pinging", "serving", "draining"} => pool = "open"
    /\ main = "closing" => pool \in {"open", "closing"}
    /\ main = "flushing" => pool = "closed"
    /\ main \in {"loading", "starting"} => tracing = "off"
    /\ tracing \in {"off", "on", "flushed"}
    /\ main # "exited" => exit = "none"
    /\ NothingLeftOpen

(* There are tasks only between the start and the exit; once RunServer is   *)
(* past srv.Shutdown, requests only if it gave up on them.                  *)
TasksFit ==
    /\ at \in [Tasks -> Places]
    /\ main \in {"loading", "starting", "connecting", "pinging", "exited"}
           => \A t \in Tasks : ~Alive(t)
    /\ main \in {"closing", "flushing"} /\ ~timedOut
           => \A r \in Requests : ~Alive(r)
    /\ main \notin {"closing", "flushing", "exited"} => ~refused
    /\ StopIsGraceful

(* The two parts of ConnectionsAccounted. *)
InUseHeld == inUse = Cardinality(Holding)

NothingRunsAfterClose == pool = "closed" => Holding = {}

LifeInv == Progress /\ TasksFit /\ InUseHeld /\ NothingRunsAfterClose

-----------------------------------------------------------------------------
LEMMA TasksFinite == IsFiniteSet(Tasks) /\ IsFiniteSet(Holding)
<1>1. IsFiniteSet(Tasks)
  BY LifecycleAssumption, FS_Union DEF Tasks
<1>2. Holding \in SUBSET Tasks
  BY DEF Holding
<1>3. QED
  BY <1>1, <1>2, FS_Subset

LEMMA InitLife == Init => LifeInv
<1> SUFFICES ASSUME Init PROVE LifeInv
  OBVIOUS
<1>1. Holding = {}
  BY DEF Init, Holding
<1>2. Cardinality({}) = 0
  BY FS_EmptySet
<1>3. QED
  BY <1>1, <1>2 DEF Init, LifeInv, Progress, TasksFit, InUseHeld,
        NothingRunsAfterClose, NothingLeftOpen, StopIsGraceful, Alive, Places

LEMMA ProgressStep ==
    ASSUME LifeInv, [Next]_vars
    PROVE  Progress'
<1> USE DEF LifeInv, Progress, NothingLeftOpen, Proceed, Exit
<1>1. CASE RunServer
  BY <1>1 DEF RunServer, Load, StartTracing, ShutdownTracing, Connect, Ping, Stop, BeginClose, EndClose,
              Flush, mainVars
<1>2. CASE Drain \/ Signal \/ ServeFails
  BY <1>2 DEF Drain, Signal, ServeFails
<1>3. CASE UNCHANGED <<mainVars, pool>>
  BY <1>3 DEF mainVars
<1>4. QED
  BY <1>1, <1>2, <1>3 DEF Next, Step, Ask, Acquire, FindClosed, Execute, Accept,
                          Cancel, vars

(* The tasks that are alive, and the answers they get.                      *)
LEMMA TasksStep ==
    ASSUME LifeInv, [Next]_vars
    PROVE  TasksFit'
<1> USE DEF LifeInv, Progress, TasksFit, StopIsGraceful, Alive
<1>1. CASE RunServer \/ Signal \/ ServeFails
  BY <1>1 DEF RunServer, Load, StartTracing, ShutdownTracing, Connect, Ping, Stop, BeginClose, EndClose,
              Flush, Signal, ServeFails, Proceed, Exit, mainVars, taskVars, Places
<1>2. CASE Drain
  <2>1. ~refused' /\ UNCHANGED at /\ main' = "closing"
    BY <1>2 DEF Drain, Proceed, taskVars
  <2>2. ~timedOut' => \A r \in Requests : at[r] = "none"
    BY <1>2 DEF Drain
  <2>3. QED
    BY <2>1, <2>2
<1>3. ASSUME NEW t \in Tasks, Ask(t) \/ Acquire(t)
      PROVE  TasksFit'
  BY <1>3 DEF Ask, Acquire, AtHead, Move, mainVars, Places, Tasks
<1>4. ASSUME NEW t \in Tasks, FindClosed(t)
      PROVE  TasksFit'
  <2>1. at[t] # "none"
    BY <1>4 DEF FindClosed, AtHead
  <2>2. main \in {"closing", "flushing"}
    BY <1>4, <2>1 DEF FindClosed
  <2>3. t \in Requests => timedOut
    BY <2>1, <2>2
  <2>4. QED
    BY <1>4, <2>1, <2>2, <2>3 DEF FindClosed, Move, mainVars, Places, Tasks
<1>5. ASSUME NEW t \in Tasks, Execute(t)
      PROVE  TasksFit'
  <2>1. Alive(t) /\ UNCHANGED mainVars /\ UNCHANGED refused
    BY <1>5 DEF Execute
  <2>2. at' \in [Tasks -> Places]
    BY <1>5 DEF Execute, Move, Places, Tasks
  <2>3. \A r \in Requests : Alive(r)' => Alive(r)
    BY <1>5, LifecycleAssumption DEF Execute, Move, Tasks
  <2>4. main \notin {"loading", "starting", "connecting", "pinging", "exited"}
    BY <2>1
  <2>5. QED
    BY <2>1, <2>2, <2>3, <2>4 DEF mainVars
<1>6. ASSUME NEW r \in Requests, Accept(r) \/ Cancel(r)
      PROVE  TasksFit'
  BY <1>6 DEF Accept, Cancel, Move, mainVars, Places, Tasks
<1>7. CASE UNCHANGED vars
  BY <1>7 DEF vars, mainVars, taskVars
<1>8. QED
  BY <1>1, <1>2, <1>3, <1>4, <1>5, <1>6, <1>7 DEF Next, Step

(* A connection is handed out and given back together with the place of its *)
(* task; the exit takes all of them.                                        *)
LEMMA ConnectionsStep ==
    ASSUME LifeInv, [Next]_vars
    PROVE  InUseHeld'
<1> USE DEF LifeInv, TasksFit, InUseHeld
<1>1. ASSUME NEW t \in Tasks, Acquire(t)
      PROVE  InUseHeld'
  <2>1. t \notin Holding /\ Holding' = Holding \cup {t}
    BY <1>1 DEF Acquire, AtHead, Move, Holding
  <2>2. QED
    BY <1>1, <2>1, TasksFinite, FS_AddElement DEF Acquire
<1>2. ASSUME NEW t \in Tasks, Execute(t)
      PROVE  InUseHeld'
  <2>1. t \in Holding /\ Holding' = Holding \ {t}
    BY <1>2, LifecycleAssumption DEF Execute, Move, Holding, Tasks
  <2>2. QED
    BY <1>2, <2>1, TasksFinite, FS_RemoveElement DEF Execute
<1>3. ASSUME NEW r \in Requests, Cancel(r)
      PROVE  InUseHeld'
  <2>1. CASE at[r] = "holding"
    <3>1. r \in Holding /\ Holding' = Holding \ {r}
      BY <1>3, <2>1 DEF Cancel, Move, Holding, Tasks
    <3>2. QED
      BY <1>3, <2>1, <3>1, TasksFinite, FS_RemoveElement DEF Cancel
  <2>2. CASE at[r] = "queued"
    BY <1>3, <2>2 DEF Cancel, Move, Holding, Tasks
  <2>3. QED
    BY <1>3, <2>1, <2>2 DEF Cancel
<1>4. ASSUME NEW t \in Tasks, Ask(t) \/ FindClosed(t)
      PROVE  InUseHeld'
  BY <1>4 DEF Ask, FindClosed, AtHead, Move, Holding
<1>5. ASSUME NEW r \in Requests, Accept(r)
      PROVE  InUseHeld'
  BY <1>5 DEF Accept, Move, Holding, Tasks
<1>6. CASE inUse' = 0 /\ at' = [t \in Tasks |-> "none"]
  <2>1. Holding' = {}
    BY <1>6 DEF Holding
  <2>2. QED
    BY <1>6, <2>1, FS_EmptySet
<1>7. CASE UNCHANGED taskVars
  BY <1>7 DEF taskVars, Holding
<1>8. CASE RunServer \/ Drain \/ Signal \/ ServeFails
  BY <1>6, <1>7, <1>8
     DEF RunServer, Load, StartTracing, ShutdownTracing, Connect, Ping, Stop, BeginClose, EndClose, Flush,
         Drain, Signal, ServeFails, Proceed, Exit
<1>9. QED
  BY <1>1, <1>2, <1>3, <1>4, <1>5, <1>7, <1>8 DEF Next, Step, vars

(* The pool closes when no connection is out, and hands none out again.     *)
LEMMA CloseStep ==
    ASSUME LifeInv, [Next]_vars
    PROVE  NothingRunsAfterClose'
<1> USE DEF LifeInv, NothingRunsAfterClose
<1>1. CASE EndClose
  <2>1. Cardinality(Holding) = 0
    BY <1>1 DEF EndClose, InUseHeld
  <2>2. Holding = {}
    BY <2>1, TasksFinite, FS_EmptySet
  <2>3. QED
    BY <1>1, <2>2 DEF EndClose, Proceed, taskVars, Holding
<1>2. CASE at' = [t \in Tasks |-> "none"]
  BY <1>2 DEF Holding
<1>3. CASE pool' # "closed"
  BY <1>3
<1>4. CASE UNCHANGED pool /\ Holding' \subseteq Holding
  BY <1>4
<1>5. ASSUME NEW t \in Tasks, Step(t)
      PROVE  NothingRunsAfterClose'
  <2>1. CASE Acquire(t)
    BY <2>1, <1>3 DEF Acquire
  <2>2. CASE Ask(t) \/ FindClosed(t) \/ Execute(t)
    <3>1. UNCHANGED pool /\ Holding' \subseteq Holding
      BY <2>2, LifecycleAssumption
         DEF Ask, FindClosed, Execute, Move, Holding, Tasks, TasksFit
    <3>2. QED
      BY <1>4, <3>1
  <2>3. QED
    BY <1>5, <2>1, <2>2 DEF Step
<1>6. ASSUME NEW r \in Requests, Accept(r) \/ Cancel(r)
      PROVE  NothingRunsAfterClose'
  <2>1. UNCHANGED pool /\ Holding' \subseteq Holding
    BY <1>6 DEF Accept, Cancel, Move, Holding, Tasks, TasksFit
  <2>2. QED
    BY <1>4, <2>1
<1>7. CASE UNCHANGED <<pool, taskVars>>
  BY <1>7, <1>4 DEF taskVars, Holding
<1>8. QED
  BY <1>1, <1>2, <1>3, <1>5, <1>6, <1>7
     DEF Next, RunServer, Load, StartTracing, ShutdownTracing, Connect, Ping, Stop, BeginClose, Flush,
         Drain, Signal, ServeFails, Proceed, Exit, vars

(* The progress of RunServer determines what is open and who is alive.      *)
THEOREM LifeCorrect == Spec => []LifeInv
<1>1. LifeInv /\ [Next]_vars => LifeInv'
  <2>1. SUFFICES ASSUME LifeInv, [Next]_vars
                 PROVE  LifeInv'
    OBVIOUS
  <2>2. QED
    BY <2>1, ProgressStep, TasksStep, ConnectionsStep, CloseStep DEF LifeInv
<1>2. QED
  BY <1>1, InitLife, PTL DEF Spec

(* Whatever way statements end, every connection in use belongs to a task,  *)
(* and no statement runs on a closed pool.                                  *)
THEOREM ConnectionsStayAccounted == Spec => []ConnectionsAccounted
<1>1. LifeInv => ConnectionsAccounted
  BY DEF LifeInv, InUseHeld, NothingRunsAfterClose, ConnectionsAccounted
<1>2. QED
  BY <1>1, LifeCorrect, PTL

(* A stop that is not cut off after 30 s turns no request away.             *)
THEOREM StopStaysGraceful == Spec => []StopIsGraceful
<1>1. LifeInv => StopIsGraceful
  BY DEF LifeInv, TasksFit
<1>2. QED
  BY <1>1, LifeCorrect, PTL

(* A stop that was asked for, or a start that failed, leaves nothing open.  *)
THEOREM NothingStaysOpen == Spec => []NothingLeftOpen
<1>1. LifeInv => NothingLeftOpen
  BY DEF LifeInv, Progress
<1>2. QED
  BY <1>1, LifeCorrect, PTL

-----------------------------------------------------------------------------
(* The queue of the pool. *)

Waiting == {t \in Tasks : at[t] = "queued"}

(* Who waits stands in the queue, once, and nobody else does.               *)
QueueFits ==
    /\ queue \in Seq(Tasks)
    /\ \A i, j \in 1..Len(queue) : queue[i] = queue[j] => i = j
    /\ \A i \in 1..Len(queue) : at[queue[i]] = "queued"
    /\ \A t \in Waiting : \E i \in 1..Len(queue) : queue[i] = t

TypeInv == LifeInv /\ TypeOK /\ QueueFits

LEMMA NobodyWaits ==
    ASSUME queue = <<>>, \A t \in Tasks : at[t] = "none"
    PROVE  QueueFits
<1>1. queue \in Seq(Tasks) /\ Len(queue) = 0
  OBVIOUS
<1>2. Waiting = {}
  BY DEF Waiting
<1> QED
  BY <1>1, <1>2 DEF QueueFits

LEMMA SameQueue ==
    ASSUME QueueFits, UNCHANGED queue, Waiting' = Waiting
    PROVE  QueueFits'
<1>1. \A i \in 1..Len(queue) : queue[i] \in Waiting
  BY DEF QueueFits, Waiting
<1>2. \A i \in 1..Len(queue') : at'[queue'[i]] = "queued"
  BY <1>1 DEF Waiting
<1> QED
  BY <1>2 DEF QueueFits

LEMMA AskQueue ==
    ASSUME TypeInv, NEW t \in Tasks, Ask(t)
    PROVE  QueueFits'
<1>0. /\ at[t] = "running" /\ at \in [Tasks -> Places] /\ at' = [at EXCEPT ![t] = "queued"]
      /\ queue' = Append(queue, t) /\ queue \in Seq(Tasks) /\ Len(queue) \in Nat
  BY DEF Ask, Move, TypeInv, TypeOK
<1>1. /\ queue' \in Seq(Tasks) /\ Len(queue') = Len(queue) + 1
      /\ \A i \in 1..Len(queue) : queue'[i] = queue[i]
      /\ queue'[Len(queue) + 1] = t
  BY <1>0, AppendProperties
<1>2. \A i \in 1..Len(queue) : queue[i] \in Tasks /\ queue[i] # t
  BY <1>0 DEF TypeInv, QueueFits
<1>3. \A i \in 1..Len(queue') : i \in 1..Len(queue) \/ i = Len(queue) + 1
  BY <1>0, <1>1
<1>4. \A i, j \in 1..Len(queue') : queue'[i] = queue'[j] => i = j
  BY <1>1, <1>2, <1>3 DEF TypeInv, QueueFits
<1>5. \A i \in 1..Len(queue') : at'[queue'[i]] = "queued"
  BY <1>0, <1>1, <1>2, <1>3 DEF TypeInv, QueueFits
<1>6. ASSUME NEW u \in Waiting' PROVE \E i \in 1..Len(queue') : queue'[i] = u
  <2>1. CASE u = t
    <3>1. Len(queue) + 1 \in 1..Len(queue')
      BY <1>0, <1>1
    <3> QED
      BY <1>1, <2>1, <3>1
  <2>2. CASE u # t
    <3>1. u \in Waiting
      BY <1>0, <2>2 DEF Waiting
    <3>2. PICK i \in 1..Len(queue) : queue[i] = u
      BY <3>1 DEF TypeInv, QueueFits
    <3>3. i \in 1..Len(queue')
      BY <1>0, <1>1
    <3> QED
      BY <1>1, <3>2, <3>3
  <2> QED
    BY <2>1, <2>2
<1> QED
  BY <1>1, <1>4, <1>5, <1>6 DEF QueueFits

(* A task leaves the queue, at its head or anywhere else.                   *)
LEMMA LeaveQueueStep ==
    ASSUME TypeInv, NEW t \in Tasks, NEW place \in Places \ {"queued"}, Move(t, place),
           NEW k \in 1..Len(queue), queue[k] = t,
           queue' \in Seq(Tasks), Len(queue') = Len(queue) - 1,
           \A j \in 1..(Len(queue) - 1) : queue'[j] = IF j < k THEN queue[j] ELSE queue[j + 1]
    PROVE  QueueFits'
<1> DEFINE old(j) == IF j < k THEN j ELSE j + 1
<1>0. /\ at \in [Tasks -> Places] /\ at' = [at EXCEPT ![t] = place]
      /\ queue \in Seq(Tasks) /\ Len(queue) \in Nat /\ k \in Nat /\ k <= Len(queue)
  BY DEF Move, TypeInv, TypeOK
<1>1. \A j \in 1..Len(queue') :
         old(j) \in 1..Len(queue) /\ queue'[j] = queue[old(j)] /\ old(j) # k
  BY <1>0
<1>2. \A i, j \in 1..Len(queue') : old(i) = old(j) => i = j
  BY <1>0
<1>3. \A i \in 1..Len(queue) : i # k => \E j \in 1..Len(queue') : old(j) = i
  <2> SUFFICES ASSUME NEW i \in 1..Len(queue), i # k
               PROVE  \E j \in 1..Len(queue') : old(j) = i
    OBVIOUS
  <2>1. CASE i < k
    <3>1. i \in 1..Len(queue') /\ old(i) = i
      BY <1>0, <2>1
    <3> QED
      BY <3>1
  <2>2. CASE ~(i < k)
    <3>1. i - 1 \in 1..Len(queue') /\ old(i - 1) = i
      BY <1>0, <2>2
    <3> QED
      BY <3>1
  <2> QED
    BY <2>1, <2>2
<1> HIDE DEF old
<1>4. \A i, j \in 1..Len(queue') : queue'[i] = queue'[j] => i = j
  BY <1>1, <1>2 DEF TypeInv, QueueFits
<1>5. \A i \in 1..Len(queue') : queue'[i] # t /\ queue'[i] \in Tasks
  BY <1>0, <1>1 DEF TypeInv, QueueFits
<1>6. \A i \in 1..Len(queue') : at'[queue'[i]] = "queued"
  <2> SUFFICES ASSUME NEW i \in 1..Len(queue') PROVE at'[queue'[i]] = "queued"
    OBVIOUS
  <2>1. at'[queue'[i]] = at[queue'[i]]
    BY <1>0, <1>5
  <2>2. at[queue'[i]] = "queued"
    BY <1>1 DEF TypeInv, QueueFits
  <2> QED
    BY <2>1, <2>2
<1>7. ASSUME NEW u \in Waiting' PROVE \E i \in 1..Len(queue') : queue'[i] = u
  <2>1. u \in Waiting /\ u # t
    BY <1>0, <1>7 DEF Waiting
  <2>2. PICK i \in 1..Len(queue) : queue[i] = u
    BY <2>1 DEF TypeInv, QueueFits
  <2>3. PICK j \in 1..Len(queue') : old(j) = i
    BY <1>3, <2>1, <2>2
  <2> QED
    BY <1>1, <2>2, <2>3
<1> QED
  BY <1>4, <1>6, <1>7 DEF QueueFits

LEMMA HeadQueue ==
    ASSUME TypeInv, NEW t \in Tasks, AtHead(t), queue' = Tail(queue),
           NEW place \in Places \ {"queued"}, Move(t, place)
    PROVE  QueueFits'
<1>1. queue \in Seq(Tasks) /\ Len(queue) \in Nat
  BY DEF TypeInv, TypeOK
<1>2. t \in Waiting
  BY DEF AtHead, Waiting
<1>3. PICK i \in 1..Len(queue) : queue[i] = t
  BY <1>2 DEF TypeInv, QueueFits
<1>4. queue # <<>> /\ 1 \in 1..Len(queue) /\ queue[1] = t
  BY <1>1, <1>3 DEF AtHead
<1>5. /\ queue' \in Seq(Tasks) /\ Len(queue') = Len(queue) - 1
      /\ \A j \in 1..Len(queue') : queue'[j] = queue[j + 1]
  BY <1>1, <1>4, HeadTailProperties
<1>6. \A j \in 1..(Len(queue) - 1) : queue'[j] = IF j < 1 THEN queue[j] ELSE queue[j + 1]
  BY <1>1, <1>5
<1> QED
  BY <1>4, <1>5, <1>6, LeaveQueueStep

LEMMA CancelQueue ==
    ASSUME TypeInv, NEW r \in Requests, Cancel(r)
    PROVE  QueueFits'
<1>0. r \in Tasks /\ Move(r, "none") /\ "none" \in Places \ {"queued"}
  BY DEF Cancel, Tasks, Places
<1>1. CASE at[r] = "queued" /\ LeaveQueue(r)
  <2>1. PICK k \in 1..Len(queue) : queue[k] = r /\ queue' = RemoveAt(queue, k)
    BY <1>1 DEF LeaveQueue
  <2>2. queue \in Seq(Tasks)
    BY DEF TypeInv, TypeOK
  <2>3. /\ queue' \in Seq(Tasks) /\ Len(queue') = Len(queue) - 1
        /\ \A j \in 1..(Len(queue) - 1) :
              queue'[j] = IF j < k THEN queue[j] ELSE queue[j + 1]
    BY <2>1, <2>2, RemoveAtProperties
  <2> QED
    BY <1>0, <2>1, <2>3, LeaveQueueStep
<1>2. CASE at[r] = "holding" /\ UNCHANGED queue
  <2>1. Waiting' = Waiting
    BY <1>0, <1>2 DEF Move, Waiting, TypeInv, TypeOK
  <2> QED
    BY <1>2, <2>1, SameQueue DEF TypeInv
<1> QED
  BY <1>1, <1>2 DEF Cancel

LEMMA QueueStep ==
    ASSUME TypeInv, [Next]_vars
    PROVE  QueueFits'
<1> USE DEF TypeInv
<1>1. ASSUME NEW t \in Tasks, Step(t)
      PROVE  QueueFits'
  <2>1. CASE Ask(t)
    BY <2>1, AskQueue
  <2>2. CASE Acquire(t)
    <3>1. AtHead(t) /\ queue' = Tail(queue) /\ Move(t, "holding")
          /\ "holding" \in Places \ {"queued"}
      BY <2>2 DEF Acquire, Places
    <3> QED
      BY <3>1, HeadQueue
  <2>3. CASE FindClosed(t)
    <3>0. Move(t, "none") /\ "none" \in Places \ {"queued"}
      BY <2>3 DEF FindClosed, Places
    <3>1. CASE at[t] = "running" /\ UNCHANGED queue
      <4>1. Waiting' = Waiting
        BY <3>0, <3>1 DEF Move, Waiting, TypeOK
      <4> QED
        BY <3>1, <4>1, SameQueue
    <3>2. CASE AtHead(t) /\ queue' = Tail(queue)
      BY <3>0, <3>2, HeadQueue
    <3> QED
      BY <2>3, <3>1, <3>2 DEF FindClosed
  <2>4. CASE Execute(t)
    <3>1. UNCHANGED queue
      BY <2>4 DEF Execute
    <3>2. Waiting' = Waiting
      <4>1. CASE Move(t, "running") \/ Move(t, "none")
        BY <2>4, <4>1 DEF Execute, Move, Waiting, TypeOK
      <4>2. CASE \E b \in Background : /\ at[b] = "none"
                                        /\ at' = [at EXCEPT ![t] = "none", ![b] = "running"]
        BY <2>4, <4>2 DEF Execute, Waiting, TypeOK
      <4> QED
        BY <2>4, <4>1, <4>2 DEF Execute
    <3> QED
      BY <3>1, <3>2, SameQueue
  <2> QED
    BY <1>1, <2>1, <2>2, <2>3, <2>4 DEF Step
<1>2. ASSUME NEW r \in Requests, Accept(r)
      PROVE  QueueFits'
  <2>1. UNCHANGED queue /\ Waiting' = Waiting
    BY <1>2 DEF Accept, Move, Waiting, TypeOK
  <2> QED
    BY <2>1, SameQueue
<1>3. CASE queue' = <<>> /\ at' = [t \in Tasks |-> "none"]
  <2>1. queue' \in Seq(Tasks) /\ Len(queue') = 0 /\ Waiting' = {}
    BY <1>3 DEF Waiting
  <2> QED
    BY <2>1 DEF QueueFits
<1>4. CASE UNCHANGED taskVars
  <2>1. UNCHANGED queue /\ Waiting' = Waiting
    BY <1>4 DEF taskVars, Waiting
  <2> QED
    BY <2>1, SameQueue
<1>5. CASE RunServer \/ Drain \/ Signal \/ ServeFails
  BY <1>3, <1>4, <1>5
     DEF RunServer, Load, StartTracing, Connect, Ping, Stop, BeginClose, EndClose, Flush,
         Drain, Signal, ServeFails, Proceed, Exit
<1> QED
  BY <1>1, <1>2, <1>4, <1>5, CancelQueue DEF Next, vars

(* The places of the tasks, what they have left to do, and connections.     *)
LEMMA TypeStep ==
    ASSUME TypeInv, [Next]_vars
    PROVE  TypeOK'
<1>0. /\ LifeInv' /\ QueueFits'
  BY ProgressStep, TasksStep, ConnectionsStep, CloseStep, QueueStep DEF TypeInv, LifeInv
<1>1. /\ main \in {"loading", "starting", "connecting", "pinging", "serving",
                    "draining", "closing", "flushing", "exited"}
      /\ tracing \in {"off", "on", "flushed"}
      /\ at \in [Tasks -> Places] /\ queue \in Seq(Tasks)
  BY DEF TypeInv, LifeInv, Progress, TasksFit, QueueFits
<1>1n. /\ main' \in {"loading", "starting", "connecting", "pinging", "serving",
                     "draining", "closing", "flushing", "exited"}
       /\ tracing' \in {"off", "on", "flushed"}
       /\ at' \in [Tasks -> Places] /\ queue' \in Seq(Tasks)
  BY <1>0 DEF LifeInv, Progress, TasksFit, QueueFits
<1>2. /\ exit' \in {"none", "config", "init", "serve", "stopped"}
      /\ traced' \in BOOLEAN /\ signalled' \in BOOLEAN
      /\ timedOut' \in BOOLEAN /\ refused' \in BOOLEAN
      /\ pool' \in {"none", "open", "closing", "closed"}
  <2> USE DEF TypeInv, TypeOK
  <2>1. CASE UNCHANGED <<mainVars, pool>> /\ refused' \in BOOLEAN
    BY <2>1 DEF mainVars
  <2>2. CASE RunServer
    BY <2>2 DEF RunServer, Load, StartTracing, ShutdownTracing, Connect, Ping, Stop, BeginClose,
                EndClose, Flush, Proceed, Exit, mainVars, taskVars
  <2>3. CASE Drain \/ Signal \/ ServeFails
    BY <2>3 DEF Drain, Signal, ServeFails, Proceed, Exit, taskVars
  <2> QED
    BY <2>1, <2>2, <2>3 DEF Next, Step, Ask, Acquire, FindClosed, Execute, Accept,
                            Cancel, vars, taskVars
<1>3. left' \in [Tasks -> 0..MaxStatements]
  <2> USE LifecycleAssumption DEF TypeInv, TypeOK
  <2>1. CASE UNCHANGED left
    BY <2>1
  <2>2. CASE left' = [t \in Tasks |-> 0]
    BY <2>2
  <2>3. ASSUME NEW t \in Tasks, left' = [left EXCEPT ![t] = 0]
        PROVE  left' \in [Tasks -> 0..MaxStatements]
    BY <2>3
  <2>4. ASSUME NEW t \in Tasks, Execute(t)
        PROVE  left' \in [Tasks -> 0..MaxStatements]
    BY <2>4 DEF Execute, Tasks
  <2>5. ASSUME NEW r \in Requests, Accept(r)
        PROVE  left' \in [Tasks -> 0..MaxStatements]
    BY <2>5 DEF Accept, Tasks
  <2>6. CASE RunServer \/ Drain \/ Signal \/ ServeFails
    BY <2>1, <2>2, <2>6
       DEF RunServer, Load, StartTracing, Connect, Ping, Stop, BeginClose, EndClose, Flush,
           Drain, Signal, ServeFails, Proceed, Exit, taskVars
  <2> QED
    BY <2>1, <2>3, <2>4, <2>5, <2>6
       DEF Next, Step, Ask, Acquire, FindClosed, Cancel, Tasks, vars, taskVars
<1>4. inUse' \in 0..PoolSize
  <2>1. inUse' \in Nat
    <3>1. inUse' = Cardinality(Holding')
      BY <1>0 DEF LifeInv, InUseHeld
    <3>2. Holding' \in SUBSET Tasks
      BY DEF Holding
    <3> QED
      BY <3>1, <3>2, TasksFinite, FS_Subset, FS_CardinalityType
  <2>2. \/ inUse' = inUse \/ inUse' = inUse - 1 \/ inUse' = 0
        \/ inUse < PoolSize /\ inUse' = inUse + 1
    <3>1. CASE RunServer \/ Drain \/ Signal \/ ServeFails
      BY <3>1
         DEF RunServer, Load, StartTracing, Connect, Ping, Stop, BeginClose, EndClose, Flush,
             Drain, Signal, ServeFails, Proceed, Exit, taskVars
    <3>2. ASSUME NEW t \in Tasks, Step(t)
          PROVE  \/ inUse' = inUse \/ inUse' = inUse - 1
                 \/ inUse < PoolSize /\ inUse' = inUse + 1
      BY <3>2 DEF Step, Ask, Acquire, AtHead, FindClosed, Execute
    <3>3. ASSUME NEW r \in Requests, Accept(r) \/ Cancel(r)
          PROVE  inUse' = inUse \/ inUse' = inUse - 1
      BY <3>3 DEF Accept, Cancel
    <3> QED
      BY <3>1, <3>2, <3>3 DEF Next, vars, taskVars
  <2> QED
    BY <2>1, <2>2, LifecycleAssumption DEF TypeInv, TypeOK
<1> QED
  BY <1>1n, <1>2, <1>3, <1>4 DEF TypeOK

LEMMA InitTypes == Init => TypeInv
<1> SUFFICES ASSUME Init PROVE TypeInv
  OBVIOUS
<1>1. QueueFits
  BY NobodyWaits DEF Init
<1>2. left \in [Tasks -> 0..MaxStatements] /\ inUse \in 0..PoolSize
  BY LifecycleAssumption DEF Init
<1>3. TypeOK
  BY <1>1, <1>2 DEF Init, TypeOK, Places, QueueFits
<1> QED
  BY <1>1, <1>3, InitLife DEF TypeInv

LEMMA TypeInvHolds == Spec => []TypeInv
<1>1. TypeInv /\ [Next]_vars => TypeInv'
  BY ProgressStep, TasksStep, ConnectionsStep, CloseStep, QueueStep, TypeStep
     DEF TypeInv, LifeInv
<1> QED
  BY <1>1, InitTypes, PTL DEF Spec

(* Every variable keeps its type; in particular no more connections are out *)
(* than the pool has.                                                       *)
THEOREM LifecycleTypeCorrect == Spec => []TypeOK
<1>1. TypeInv => TypeOK
  BY DEF TypeInv
<1> QED
  BY <1>1, TypeInvHolds, PTL

-----------------------------------------------------------------------------
(* Where a waiting task stands after a step, and where it stood before.     *)
NeverPushedBack ==
    \A t \in Waiting \cap Waiting' :
        \A i \in 1..Len(queue), j \in 1..Len(queue') :
            queue[i] = t /\ queue'[j] = t => j <= i

LEMMA NotPushedBack ==
    ASSUME TypeInv, [Next]_vars
    PROVE  NeverPushedBack
<1> DEFINE CameFrom(j) == queue'[j] \in Waiting =>
                              \E i \in 1..Len(queue) : j <= i /\ queue[i] = queue'[j]
<1>0. queue \in Seq(Tasks) /\ Len(queue) \in Nat
  BY DEF TypeInv, TypeOK
<1>1. ASSUME \A j \in 1..Len(queue') : CameFrom(j)
      PROVE  NeverPushedBack
  <2> SUFFICES ASSUME NEW t \in Waiting, NEW i \in 1..Len(queue), NEW j \in 1..Len(queue'),
                      queue[i] = t, queue'[j] = t
               PROVE  j <= i
    BY DEF NeverPushedBack
  <2>1. PICK k \in 1..Len(queue) : j <= k /\ queue[k] = t
    BY <1>1
  <2>2. k = i
    BY <2>1 DEF TypeInv, QueueFits
  <2> QED
    BY <2>1, <2>2
<1>2. CASE UNCHANGED queue
  <2>1. \A j \in 1..Len(queue') : CameFrom(j)
    BY <1>0, <1>2
  <2> QED
    BY <1>1, <2>1
<1>3. CASE queue' = <<>>
  <2>1. 1..Len(queue') = {}
    BY <1>3
  <2> QED
    BY <2>1 DEF NeverPushedBack
<1>4. ASSUME NEW t \in Tasks, Ask(t) PROVE NeverPushedBack
  <2>1. queue' = Append(queue, t) /\ t \notin Waiting
    BY <1>4 DEF Ask, Waiting
  <2>2. /\ Len(queue') = Len(queue) + 1 /\ queue'[Len(queue) + 1] = t
        /\ \A i \in 1..Len(queue) : queue'[i] = queue[i]
    BY <1>0, <2>1, AppendProperties
  <2>3. \A j \in 1..Len(queue') : j \in 1..Len(queue) \/ j = Len(queue) + 1
    BY <1>0, <2>2
  <2>4. \A j \in 1..Len(queue) : j <= j
    BY <1>0
  <2>5. \A j \in 1..Len(queue') : CameFrom(j)
    BY <2>1, <2>2, <2>3, <2>4
  <2> QED
    BY <1>1, <2>5
<1>5. ASSUME NEW t \in Tasks, AtHead(t), queue' = Tail(queue) PROVE NeverPushedBack
  <2>1. queue # <<>>
    <3>1. t \in Waiting
      BY <1>5 DEF AtHead, Waiting
    <3>2. \E i \in 1..Len(queue) : queue[i] = t
      BY <3>1 DEF TypeInv, QueueFits
    <3> QED
      BY <3>2
  <2>2. /\ Len(queue') = Len(queue) - 1
        /\ \A j \in 1..Len(queue') : queue'[j] = queue[j + 1]
    BY <1>0, <1>5, <2>1, HeadTailProperties
  <2>3. \A j \in 1..Len(queue') : j + 1 \in 1..Len(queue) /\ j <= j + 1
    BY <1>0, <2>2
  <2>4. \A j \in 1..Len(queue') : CameFrom(j)
    BY <2>2, <2>3
  <2> QED
    BY <1>1, <2>4
<1>6. ASSUME NEW r \in Requests, LeaveQueue(r) PROVE NeverPushedBack
  <2>1. PICK k \in 1..Len(queue) : queue' = RemoveAt(queue, k)
    BY <1>6 DEF LeaveQueue
  <2>2. /\ Len(queue') = Len(queue) - 1
        /\ \A j \in 1..(Len(queue) - 1) :
              queue'[j] = IF j < k THEN queue[j] ELSE queue[j + 1]
    BY <1>0, <2>1, RemoveAtProperties
  <2>3. \A j \in 1..Len(queue') : /\ j \in 1..Len(queue) /\ j + 1 \in 1..Len(queue)
                                   /\ j <= j /\ j <= j + 1
    BY <1>0, <2>2
  <2>4. \A j \in 1..Len(queue') : CameFrom(j)
    BY <2>2, <2>3
  <2> QED
    BY <1>1, <2>4
<1>7. ASSUME NEW t \in Tasks, Step(t) PROVE NeverPushedBack
  BY <1>2, <1>4, <1>5, <1>7 DEF Step, Acquire, FindClosed, Execute
<1>8. ASSUME NEW r \in Requests, Accept(r) \/ Cancel(r) PROVE NeverPushedBack
  BY <1>2, <1>6, <1>8 DEF Accept, Cancel
<1>9. CASE RunServer \/ Drain \/ Signal \/ ServeFails
  BY <1>2, <1>3, <1>9
     DEF RunServer, Load, StartTracing, Connect, Ping, Stop, BeginClose, EndClose, Flush,
         Drain, Signal, ServeFails, Proceed, Exit, taskVars
<1> QED
  BY <1>2, <1>7, <1>8, <1>9 DEF Next, vars, taskVars

(* Of two tasks that wait for a connection none overtakes the other: from   *)
(* step to step a waiting task only moves towards the head of the queue.    *)
THEOREM QueueIsFirstComeFirstServed == Spec => [][NeverPushedBack]_vars
<1>1. TypeInv /\ [Next]_vars => [NeverPushedBack]_vars
  BY NotPushedBack
<1> QED
  BY <1>1, TypeInvHolds, PTL DEF Spec

-----------------------------------------------------------------------------
(* What RequestsEnd and StopCompletes rest on besides fairness.  A task can *)
(* move when the guard of one of its actions holds: Execute, Ask or         *)
(* FindClosed, Acquire or FindClosed.                                       *)
CanMove(t) ==
    \/ at[t] = "holding"
    \/ (at[t] = "running" \/ AtHead(t)) /\ pool # "none"

NeverStuck ==
    /\ (\E t \in Tasks : at[t] # "none") => \E t \in Tasks : CanMove(t)
    /\ main = "closing" /\ pool = "closing" =>
          inUse = 0 \/ \E t \in Tasks : at[t] = "holding"

(* However small the pool: as long as there are tasks one of them can move, *)
(* since the head of the queue finds a connection unless all are held, and  *)
(* a holder needs nothing more; and DB.Close waits for holders only.        *)
THEOREM PoolNeverStuck == Spec => []NeverStuck
<1>1. TypeInv => NeverStuck
  <2> SUFFICES ASSUME TypeInv PROVE NeverStuck
    OBVIOUS
  <2>1. inUse # 0 => \E t \in Tasks : at[t] = "holding"
    <3>1. Holding = {} => inUse = 0
      BY FS_EmptySet DEF TypeInv, LifeInv, InUseHeld
    <3> QED
      BY <3>1 DEF Holding
  <2>2. ASSUME NEW t \in Tasks, at[t] # "none" PROVE \E u \in Tasks : CanMove(u)
    <3>1. pool # "none"
      BY <2>2 DEF TypeInv, LifeInv, Progress, TasksFit, Alive
    <3>2. CASE at[t] = "running" \/ at[t] = "holding"
      BY <3>1, <3>2 DEF CanMove
    <3>3. CASE at[t] = "queued"
      <4>1. queue \in Seq(Tasks) /\ Len(queue) \in Nat /\ 1 \in 1..Len(queue)
        BY <3>3 DEF TypeInv, QueueFits, Waiting
      <4>2. Head(queue) = queue[1] /\ queue[1] \in Tasks /\ at[queue[1]] = "queued"
        BY <4>1 DEF TypeInv, QueueFits
      <4>3. CASE inUse < PoolSize
        BY <3>1, <4>2, <4>3 DEF CanMove, AtHead
      <4>4. CASE ~(inUse < PoolSize)
        <5>1. inUse # 0
          BY <4>4, LifecycleAssumption
        <5> QED
          BY <2>1, <5>1 DEF CanMove
      <4> QED
        BY <4>3, <4>4
    <3> QED
      BY <2>2, <3>2, <3>3 DEF TypeInv, TypeOK, Places
  <2> QED
    BY <2>1, <2>2 DEF NeverStuck
<1> QED
  BY <1>1, TypeInvHolds, PTL

PlaceRank == [running |-> 3, queued |-> 2, holding |-> 1]

WorkLeft(t) ==
    IF at[t] = "none" THEN 0 ELSE 3 * (left[t] - 1) + PlaceRank[at[t]]

(* A task that is under way has a statement to execute. *)
WorkInv == \A t \in Tasks : at[t] # "none" => left[t] > 0

(* What a task's own steps do to it and to the others: only a request that  *)
(* ends moves another task, the goroutine it starts.                        *)
LEMMA StepMoves ==
    ASSUME TypeInv, NEW t \in Tasks, Step(t)
    PROVE  /\ at[t] # "none"
           /\ \/ at'[t] = "none"
              \/ at[t] = "running" /\ at'[t] = "queued" /\ left'[t] = left[t]
              \/ at[t] = "queued" /\ at'[t] = "holding" /\ left'[t] = left[t]
              \/ /\ at[t] = "holding" /\ at'[t] = "running"
                 /\ left[t] > 1 /\ left'[t] = left[t] - 1
           /\ \A u \in Tasks \ {t} :
                 \/ at'[u] = at[u] /\ left'[u] = left[u]
                 \/ at[u] = "none" /\ at'[u] = "running" /\ left'[u] > 0
<1>0. at \in [Tasks -> Places] /\ left \in [Tasks -> 0..MaxStatements]
  BY DEF TypeInv, TypeOK
<1>1. CASE Ask(t) \/ Acquire(t)
  BY <1>0, <1>1 DEF Ask, Acquire, AtHead, Move
<1>2. CASE FindClosed(t)
  BY <1>0, <1>2 DEF FindClosed, AtHead, Move
<1>3. CASE Execute(t)
  <2>1. CASE /\ left[t] > 1
             /\ left' = [left EXCEPT ![t] = @ - 1] /\ Move(t, "running")
    BY <1>0, <1>3, <2>1 DEF Execute, Move
  <2>2. CASE left' = [left EXCEPT ![t] = 0] /\ Move(t, "none")
    BY <1>0, <1>3, <2>2 DEF Execute, Move
  <2>3. ASSUME NEW b \in Background, NEW n \in 1..MaxStatements, t \in Requests,
               at[b] = "none",
               at' = [at EXCEPT ![t] = "none", ![b] = "running"],
               left' = [left EXCEPT ![t] = 0, ![b] = n]
        PROVE  /\ at'[t] = "none"
               /\ \A u \in Tasks \ {t} :
                     \/ at'[u] = at[u] /\ left'[u] = left[u]
                     \/ at[u] = "none" /\ at'[u] = "running" /\ left'[u] > 0
    <3>1. b # t /\ b \in Tasks
      BY <2>3, LifecycleAssumption DEF Tasks
    <3>2. n > 0
      BY LifecycleAssumption
    <3> QED
      BY <1>0, <2>3, <3>1, <3>2
  <2>4. at[t] = "holding"
    BY <1>3 DEF Execute
  <2>5. CASE \E b \in Background, n \in 1..MaxStatements :
                /\ t \in Requests /\ at[b] = "none"
                /\ at' = [at EXCEPT ![t] = "none", ![b] = "running"]
                /\ left' = [left EXCEPT ![t] = 0, ![b] = n]
    BY <2>3, <2>4, <2>5
  <2> QED
    BY <1>3, <2>1, <2>2, <2>5 DEF Execute
<1> QED
  BY <1>1, <1>2, <1>3 DEF Step

(* What everybody else can do to a task: accept it, or end it.              *)
LEMMA OthersMove ==
    ASSUME TypeInv, [Next]_vars, NEW t \in Tasks, \A u \in Tasks : ~Step(u)
    PROVE  \/ at'[t] = at[t] /\ left'[t] = left[t]
           \/ at'[t] = "none"
           \/ at[t] = "none" /\ left'[t] > 0
<1>0. at \in [Tasks -> Places] /\ left \in [Tasks -> 0..MaxStatements]
  BY DEF TypeInv, TypeOK
<1>1. ASSUME NEW r \in Requests, Accept(r)
      PROVE  \/ at'[t] = at[t] /\ left'[t] = left[t]
             \/ at[t] = "none" /\ left'[t] > 0
  <2>1. PICK n \in 1..MaxStatements : left' = [left EXCEPT ![r] = n]
    BY <1>1 DEF Accept
  <2>2. n > 0
    BY LifecycleAssumption
  <2> QED
    BY <1>0, <1>1, <2>1, <2>2 DEF Accept, Move
<1>2. ASSUME NEW r \in Requests, Cancel(r)
      PROVE  (at'[t] = at[t] /\ left'[t] = left[t]) \/ at'[t] = "none"
  BY <1>0, <1>2 DEF Cancel, Move
<1>3. CASE RunServer \/ Drain \/ Signal \/ ServeFails
  BY <1>3
     DEF RunServer, Load, StartTracing, Connect, Ping, Stop, BeginClose, EndClose, Flush,
         Drain, Signal, ServeFails, Proceed, Exit, taskVars
<1>4. CASE UNCHANGED vars
  BY <1>4 DEF vars, taskVars
<1> QED
  BY <1>1, <1>2, <1>3, <1>4 DEF Next

LEMMA WorkInvHolds == Spec => []WorkInv
<1>1. Init => WorkInv
  BY DEF Init, WorkInv
<1>2. TypeInv /\ WorkInv /\ [Next]_vars => WorkInv'
  <2> SUFFICES ASSUME TypeInv, WorkInv, [Next]_vars, NEW t \in Tasks, at'[t] # "none"
               PROVE  left'[t] > 0
    BY DEF WorkInv
  <2>1. left[t] \in Nat
    BY LifecycleAssumption DEF TypeInv, TypeOK
  <2>2. ASSUME NEW u \in Tasks, Step(u) PROVE left'[t] > 0
    BY <2>1, <2>2, StepMoves DEF WorkInv
  <2>3. CASE \A u \in Tasks : ~Step(u)
    BY <2>3, OthersMove DEF WorkInv
  <2> QED
    BY <2>2, <2>3
<1> QED
  BY <1>1, <1>2, TypeInvHolds, PTL DEF Spec

(* Each step of a task brings its end nearer, and nobody gives it more to   *)
(* do: what others do leaves it alone or ends it.                           *)
TasksRunDown ==
    \A t \in Tasks :
        /\ WorkLeft(t) \in Nat
        /\ Step(t) => WorkLeft(t)' < WorkLeft(t)
        /\ at[t] # "none" /\ ~Step(t) =>
              at'[t] = "none" \/ (at'[t] = at[t] /\ left'[t] = left[t])

(* For any size of the pool and any number of tasks: a task is over after   *)
(* at most three steps of its own for each of its statements.               *)
THEOREM WorkRunsDown == Spec => [][TasksRunDown]_vars
<1>1. TypeInv /\ WorkInv /\ [Next]_vars => [TasksRunDown]_vars
  <2> SUFFICES ASSUME TypeInv, WorkInv, [Next]_vars, NEW t \in Tasks
               PROVE  /\ WorkLeft(t) \in Nat
                      /\ Step(t) => WorkLeft(t)' < WorkLeft(t)
                      /\ at[t] # "none" /\ ~Step(t) =>
                            \/ at'[t] = "none"
                            \/ at'[t] = at[t] /\ left'[t] = left[t]
    BY DEF TasksRunDown
  <2>1. left[t] \in Nat /\ at[t] \in Places
    BY LifecycleAssumption DEF TypeInv, TypeOK
  <2>2. /\ WorkLeft(t) \in Nat
        /\ at[t] # "none" => WorkLeft(t) > 0
    BY <2>1 DEF WorkLeft, WorkInv, PlaceRank, Places
  <2>3. Step(t) => WorkLeft(t)' < WorkLeft(t)
    BY <2>1, <2>2, StepMoves DEF WorkLeft, PlaceRank
  <2>4. ASSUME at[t] # "none", ~Step(t)
        PROVE  at'[t] = "none" \/ (at'[t] = at[t] /\ left'[t] = left[t])
    <3>1. ASSUME NEW u \in Tasks, Step(u)
          PROVE  at'[t] = "none" \/ (at'[t] = at[t] /\ left'[t] = left[t])
      BY <2>4, <3>1, StepMoves
    <3>2. CASE \A u \in Tasks : ~Step(u)
      BY <2>4, <3>2, OthersMove
    <3> QED
      BY <3>1, <3>2
  <2> QED
    BY <2>2, <2>3, <2>4
<1> QED
  BY <1>1, TypeInvHolds, WorkInvHolds, PTL DEF Spec

=============================================================================
