------------------------------ MODULE Lifecycle ------------------------------
(***************************************************************************)
(* The process from start to exit: Load, initInfra, the server, SIGTERM, the *)
(* orderly shutdown, and the connection pool that all requests and all      *)
(* goroutines they leave behind share.                                      *)
(*                                                                         *)
(* A task is a request, or a goroutine that counts a view or records a      *)
(* search.  For each of its statements a task asks the pool for a           *)
(* connection, waits, holds it while the statement runs and gives it back;  *)
(* what the statements do is the subject of the other modules.              *)
(***************************************************************************)
EXTENDS Naturals, FiniteSets, SequencesExt

CONSTANTS
    Requests,       \* requests that can be in flight at one time
    Background,     \* goroutines that can be under way at one time
    PoolSize,       \* max_conns of the pool
    MaxStatements   \* statements of one task

ASSUME LifecycleAssumption ==
    /\ Requests \cap Background = {}
    /\ IsFiniteSet(Requests) /\ IsFiniteSet(Background)
    /\ PoolSize \in Nat \ {0} /\ MaxStatements \in Nat \ {0}

(* Autocomplete, PopularQueries and every other request that needs the      *)
(* database, and the goroutines.                                            *)
Tasks == Requests \cup Background

VARIABLES
    main,           \* where RunServer is
    exit,           \* how it returned
    traced,         \* cfg.OTel.Enabled
    signalled,      \* SIGINT or SIGTERM has ended the context
    tracing,        \* the tracer provider; "flushed": its shutdown was called
    pool,           \* the connection pool
    inUse,          \* connections it has handed out
    queue,          \* tasks that wait for one, in the order they asked
    at,             \* where each task is
    left,           \* statements each task has yet to execute
    timedOut,       \* history: srv.Shutdown gave up on requests
    refused         \* history: a request found the pool closed

mainVars == <<main, exit, traced, signalled, tracing, timedOut>>
taskVars == <<inUse, queue, at, left, refused>>
vars == <<mainVars, pool, taskVars>>

Places == {"none", "running", "queued", "holding"}

Holding == {t \in Tasks : at[t] = "holding"}

TypeOK ==
    /\ main \in {"loading", "starting", "connecting", "pinging", "serving",
                 "draining", "closing", "flushing", "exited"}
    /\ exit \in {"none", "config", "init", "serve", "stopped"}
    /\ traced \in BOOLEAN /\ signalled \in BOOLEAN
    /\ timedOut \in BOOLEAN /\ refused \in BOOLEAN
    /\ tracing \in {"off", "on", "flushed"}
    /\ pool \in {"none", "open", "closing", "closed"}
    /\ inUse \in 0..PoolSize
    /\ queue \in Seq(Tasks)
    /\ at \in [Tasks -> Places]
    /\ left \in [Tasks -> 0..MaxStatements]

Init ==
    /\ main = "loading" /\ exit = "none" /\ traced = FALSE /\ signalled = FALSE
    /\ tracing = "off" /\ pool = "none" /\ inUse = 0 /\ queue = <<>>
    /\ at = [t \in Tasks |-> "none"] /\ left = [t \in Tasks |-> 0]
    /\ timedOut = FALSE /\ refused = FALSE

-----------------------------------------------------------------------------
(* RunServer and initInfra. *)

(* The process ends, and every task with it. *)
Exit(how) ==
    /\ main' = "exited" /\ exit' = how
    /\ inUse' = 0 /\ queue' = <<>>
    /\ at' = [t \in Tasks |-> "none"] /\ left' = [t \in Tasks |-> 0]

Proceed(place) == main' = place /\ UNCHANGED <<exit, taskVars>>

(* Without DATABASE_DSN there is no start; OTEL_ENABLED counts when it      *)
(* parses as a boolean, every other variable has a default.                 *)
Load ==
    /\ main = "loading"
    /\ \/ traced' \in BOOLEAN /\ Proceed("starting")
       \/ Exit("config") /\ UNCHANGED <<traced, refused>>
    /\ UNCHANGED <<signalled, tracing, pool, timedOut>>

(* tracing.Init: no tracer provider unless tracing is enabled; the resource *)
(* or the exporter may fail, before there is one.                           *)
StartTracing ==
    /\ main = "starting"
    /\ \/ tracing' = (IF traced THEN "on" ELSE "off") /\ Proceed("connecting")
       \/ traced /\ Exit("init") /\ UNCHANGED <<tracing, refused>>
    /\ UNCHANGED <<traced, signalled, pool, timedOut>>

(* shutdownTracing: tp.Shutdown, or nothing at all. *)
ShutdownTracing == tracing' = IF tracing = "on" THEN "flushed" ELSE tracing

Connect ==
    /\ main = "connecting"
    /\ \/ pool' = "open" /\ Proceed("pinging") /\ UNCHANGED tracing
       \/ ShutdownTracing /\ Exit("init") /\ UNCHANGED <<pool, refused>>
    /\ UNCHANGED <<traced, signalled, timedOut>>

(* Faulty variant: the pool is forgotten when the ping fails.               *)
PingForgetting ==
    /\ main = "pinging"
    /\ \/ Proceed("serving") /\ UNCHANGED <<pool, tracing>>
       \/ ShutdownTracing /\ Exit("init") /\ UNCHANGED <<pool, refused>>
    /\ UNCHANGED <<traced, signalled, timedOut>>

(* The ping fails too when the signal or the 10 s limit ends its context.   *)
Ping ==
    /\ main = "pinging"
    /\ \/ Proceed("serving") /\ UNCHANGED <<pool, tracing>>
       \/ /\ pool' = "closed" /\ ShutdownTracing
          /\ Exit("init") /\ UNCHANGED refused
    /\ UNCHANGED <<traced, signalled, timedOut>>

Signal ==
    /\ main \notin {"loading", "starting", "exited"}
    /\ ~signalled /\ signalled' = TRUE
    /\ UNCHANGED <<main, exit, traced, tracing, timedOut, pool, taskVars>>

(* ListenAndServe returns an error of its own: RunServer returns it at once. *)
ServeFails ==
    /\ main = "serving"
    /\ Exit("serve")
    /\ UNCHANGED <<traced, signalled, tracing, pool, timedOut, refused>>

(* Faulty variant: the infrastructure is shut down before the server.       *)
StopPoolFirst ==
    /\ main = "serving" /\ signalled
    /\ pool' = "closing" /\ Proceed("draining")
    /\ UNCHANGED <<traced, signalled, tracing, timedOut>>

(* From here on srv.Shutdown accepts no request. *)
Stop ==
    /\ main = "serving" /\ signalled
    /\ Proceed("draining")
    /\ UNCHANGED <<traced, signalled, tracing, pool, timedOut>>

(* srv.Shutdown returns: no request is left, or the 30 s are over.          *)
Drain ==
    /\ main = "draining"
    /\ timedOut' = (\E r \in Requests : at[r] # "none")
    /\ Proceed("closing")
    /\ UNCHANGED <<traced, signalled, tracing, pool>>

(* Infra.Shutdown: DB.Close refuses new connections, waits for the ones in  *)
(* use, and then the tracer is flushed.                                     *)
BeginClose ==
    /\ main = "closing" /\ pool = "open"
    /\ pool' = "closing"
    /\ UNCHANGED <<mainVars, taskVars>>

(* Faulty variant: nobody waits for the connections in use.                 *)
EndCloseAtOnce ==
    /\ main = "closing" /\ pool = "closing"
    /\ pool' = "closed" /\ Proceed("flushing")
    /\ UNCHANGED <<traced, signalled, tracing, timedOut>>

EndClose ==
    /\ main = "closing" /\ pool = "closing" /\ inUse = 0
    /\ pool' = "closed" /\ Proceed("flushing")
    /\ UNCHANGED <<traced, signalled, tracing, timedOut>>

Flush ==
    /\ main = "flushing"
    /\ ShutdownTracing /\ Exit("stopped")
    /\ UNCHANGED <<traced, signalled, pool, timedOut, refused>>

RunServer ==
    \/ Load \/ StartTracing \/ Connect \/ Ping \/ Stop
    \/ BeginClose \/ EndClose \/ Flush

-----------------------------------------------------------------------------
(* Tasks. *)

Move(t, place) == at' = [at EXCEPT ![t] = place]

Accept(r) ==
    /\ main = "serving" /\ at[r] = "none"
    /\ Move(r, "running")
    /\ \E n \in 1..MaxStatements : left' = [left EXCEPT ![r] = n]
    /\ UNCHANGED <<mainVars, pool, inUse, queue, refused>>

(* The next statement asks the pool for a connection. *)
Ask(t) ==
    /\ at[t] = "running" /\ pool = "open"
    /\ queue' = Append(queue, t) /\ Move(t, "queued")
    /\ UNCHANGED <<mainVars, pool, inUse, left, refused>>

AtHead(t) == at[t] = "queued" /\ Head(queue) = t /\ inUse < PoolSize

Acquire(t) ==
    /\ AtHead(t) /\ pool = "open"
    /\ queue' = Tail(queue) /\ Move(t, "holding")
    /\ inUse' = inUse + 1
    /\ UNCHANGED <<mainVars, pool, left, refused>>

(* The pool is closed: the statement fails.  A request answers 500, a       *)
(* goroutine drops the error.                                               *)
FindClosed(t) ==
    /\ pool \in {"closing", "closed"}
    /\ \/ at[t] = "running" /\ UNCHANGED queue
       \/ AtHead(t) /\ queue' = Tail(queue)
    /\ Move(t, "none") /\ left' = [left EXCEPT ![t] = 0]
    /\ refused' = (refused \/ t \in Requests)
    /\ UNCHANGED <<mainVars, pool, inUse>>

(* Faulty variant: the rows of a query are not closed.                      *)
ExecuteLeaking(t) ==
    /\ at[t] = "holding"
    /\ UNCHANGED inUse
    /\ \/ /\ left[t] > 1
          /\ left' = [left EXCEPT ![t] = @ - 1] /\ Move(t, "running")
       \/ left' = [left EXCEPT ![t] = 0] /\ Move(t, "none")
    /\ UNCHANGED <<mainVars, pool, queue, refused>>

(* A statement ends and gives its connection back before the next one asks. *)
(* When it was the last one, or failed, the task ends; a request may leave  *)
(* a goroutine behind, which nothing waits for.                             *)
Execute(t) ==
    /\ at[t] = "holding"
    /\ inUse' = inUse - 1
    /\ \/ /\ left[t] > 1
          /\ left' = [left EXCEPT ![t] = @ - 1] /\ Move(t, "running")
       \/ left' = [left EXCEPT ![t] = 0] /\ Move(t, "none")
       \/ /\ t \in Requests /\ left[t] = 1
          /\ \E b \in Background, n \in 1..MaxStatements :
                /\ at[b] = "none"
                /\ at' = [at EXCEPT ![t] = "none", ![b] = "running"]
                /\ left' = [left EXCEPT ![t] = 0, ![b] = n]
    /\ UNCHANGED <<mainVars, pool, queue, refused>>

(* A wait that is given up, wherever in the queue.                           *)
LeaveQueue(t) ==
    \E i \in 1..Len(queue) : queue[i] = t /\ queue' = RemoveAt(queue, i)

(* Faulty variant: a request that only waits gives back a connection too.   *)
CancelReleasing(r) ==
    /\ \/ at[r] = "queued" /\ LeaveQueue(r)
       \/ at[r] = "holding" /\ UNCHANGED queue
    /\ inUse' = inUse - 1
    /\ Move(r, "none") /\ left' = [left EXCEPT ![r] = 0]
    /\ UNCHANGED <<mainVars, pool, refused>>

(* The client of a request goes away, which ends the context of the wait or *)
(* of the statement.  Goroutines run under WithoutCancel.                   *)
Cancel(r) ==
    /\ \/ at[r] = "queued" /\ LeaveQueue(r) /\ UNCHANGED inUse
       \/ at[r] = "holding" /\ inUse' = inUse - 1 /\ UNCHANGED queue
    /\ Move(r, "none") /\ left' = [left EXCEPT ![r] = 0]
    /\ UNCHANGED <<mainVars, pool, refused>>

Step(t) == Ask(t) \/ Acquire(t) \/ FindClosed(t) \/ Execute(t)

Next ==
    \/ RunServer \/ Drain \/ Signal \/ ServeFails
    \/ \E t \in Tasks : Step(t)
    \/ \E r \in Requests : Accept(r) \/ Cancel(r)

Spec == Init /\ [][Next]_vars

(* The runtime runs every goroutine, statements end, the 30 s pass.         *)
FairSpec ==
    /\ Spec
    /\ WF_vars(RunServer) /\ WF_vars(Drain)
    /\ \A t \in Tasks : WF_vars(Step(t))

-----------------------------------------------------------------------------
(* Safety. *)

(* Every connection the pool has handed out is held by a task, whichever of *)
(* the ways a statement can end was taken; and once the pool is closed no   *)
(* statement runs any more, neither of requests that outlived srv.Shutdown  *)
(* nor of goroutines.  QueryRow.Scan, defer rows.Close, Infra.Shutdown.     *)
ConnectionsAccounted ==
    /\ inUse = Cardinality(Holding)
    /\ pool = "closed" => Holding = {}

(* No request is turned away by the pool unless srv.Shutdown had given up   *)
(* on it: a stop within 30 s answers everything it accepted.  RunServer.    *)
StopIsGraceful == refused => timedOut

(* When RunServer returns because it was told to stop, or because initInfra *)
(* failed half-way, the pool is closed and the tracer flushed.  The error   *)
(* path of ListenAndServe is left out: it closes neither.                   *)
NothingLeftOpen ==
    exit \in {"config", "init", "stopped"} =>
        pool \in {"none", "closed"} /\ tracing \in {"off", "flushed"}

-----------------------------------------------------------------------------
(* Liveness, under FairSpec. *)

(* No request waits for a connection for ever, however small the pool: a    *)
(* task never asks for a connection while it holds one.                     *)
RequestsEnd == \A r \in Requests : at[r] # "none" ~> at[r] = "none"

(* After a signal the process ends, whatever requests and goroutines are    *)
(* still under way.                                                         *)
StopCompletes == signalled ~> main = "exited"

=============================================================================
