---------------------------- MODULE RequestPipeline ----------------------------
(***************************************************************************)
(* The threads of the IO manager between a client's connection and the     *)
(* database engine (iomgr/lib/main), from start to shutdown:               *)
(*   - the listener of an IOManagerConnectionManager, which accepts        *)
(*     connections, and its thread for dead connections;                   *)
(*   - the thread of each IOManagerConnectionHandler, which submits one    *)
(*     statement at a time and waits for its result;                       *)
(*   - the dispatcher and the executor, each with a queue of its own;      *)
(*   - the main thread, which destroys all of them after a signal.         *)
(* A connection handler is owned by the list of the manager and, while it  *)
(* executes its request, by the executor.  Whoever drops the last          *)
(* reference runs the destructor, which closes the connection and joins    *)
(* the thread.  Requests refer to their handler by a weak pointer.         *)
(***************************************************************************)
EXTENDS Integers, Sequences, FiniteSets

CONSTANTS
    Handlers,       \* connections that may be accepted
    RestHandlers,   \* those to the REST port; the others are SQL
    MaxStatements,  \* statements of an SQL request
    MayExit,        \* whether a termination signal may come
    MaxPerConnection \* bound: requests that come over one connection

ASSUME HandlersAssumption == RestHandlers \subseteq Handlers
ASSUME PipelineBoundsAssumption ==
    MaxStatements \in Nat \ {0} /\ MaxPerConnection \in Nat
ASSUME MayExitAssumption == MayExit \in BOOLEAN

NoHandler == "none"
ASSUME NoHandlerAssumption == NoHandler \notin Handlers /\ "ended" \notin Handlers

VARIABLES
    lst,       \* the listener thread
    cleanup,   \* whether the thread for dead connections has to run yet
    conn,      \* [Handlers -> m_clientConnection: "none", "open", "null"]
    owned,     \* [Handlers -> "no", "held" or "dropped" by the manager]
    thr,       \* [Handlers -> where the thread of the connection is]
    left,      \* [Handlers -> statements of its request yet to be submitted]
    sent,      \* [Handlers -> requests that came over the connection]
    promise,   \* [Handlers -> result of the submitted statement]
    dispQ,     \* Seq(Handlers): queue of the dispatcher, one request each
    disp,      \* what the dispatcher has taken from it
    execQ,     \* Seq(Handlers): queue of the executor
    exec,      \* what the executor does
    mainThread, \* what the main thread does
    crashed    \* "no", or who used a null connection

handlerVars == <<thr, left, sent>>
queueVars == <<dispQ, disp, execQ>>
listenVars == <<lst, cleanup>>
pipelineVars == <<lst, cleanup, conn, owned, thr, left, sent, promise, dispQ, disp,
                  execQ, exec, mainThread, crashed>>

Results == {"none", "ok", "fail"}
ExecIdle == [at |-> "idle", h |-> NoHandler, res |-> "none"]

PipelineInit ==
    /\ lst = "check"
    /\ cleanup = TRUE
    /\ conn = [h \in Handlers |-> "none"]
    /\ owned = [h \in Handlers |-> "no"]
    /\ thr = [h \in Handlers |-> "none"]
    /\ left = [h \in Handlers |-> 0]
    /\ sent = [h \in Handlers |-> 0]
    /\ promise = [h \in Handlers |-> "none"]
    /\ dispQ = << >>
    /\ disp = NoHandler
    /\ execQ = << >>
    /\ exec = ExecIdle
    /\ mainThread = [at |-> "serving", h |-> NoHandler]
    /\ crashed = "no"

\* The process has not crashed.
Up == crashed = "no"

\* m_exitRequested
ExitRequested == mainThread.at # "serving"

\* The executor has a shared pointer to the handler.
ExecHolds(h) == exec.h = h /\ exec.at \in {"run", "release"}

\* The weak pointer of a request, or of the handler itself, can be locked.
Alive(h) == owned[h] = "held" \/ ExecHolds(h)

--------------------------------------------------------------------------------
(***************************************************************************)
(* Connection listener and the thread for dead connections.                *)
(***************************************************************************)

ListenerCheck ==
    /\ Up
    /\ lst = "check"
    /\ lst' = IF ExitRequested THEN "stopped" ELSE "enter"
    /\ UNCHANGED <<cleanup, conn, owned, handlerVars, promise, queueVars, exec,
                   mainThread, crashed>>

\* The thread blocks in accept4.
ListenerBlocks ==
    /\ Up
    /\ lst = "enter"
    /\ lst' = "accept"
    /\ UNCHANGED <<cleanup, conn, owned, handlerVars, promise, queueVars, exec,
                   mainThread, crashed>>

\* A connection comes: its handler is created and its thread started.
ListenerAccept(h) ==
    /\ Up
    /\ lst = "accept"
    /\ conn[h] = "none"
    /\ lst' = "register"
    /\ conn' = [conn EXCEPT ![h] = "open"]
    /\ thr' = [thr EXCEPT ![h] = "top"]
    /\ UNCHANGED <<cleanup, owned, left, sent, promise, queueVars, exec, mainThread,
                   crashed>>

\* Only now is there a shared pointer to the handler.
ListenerRegister(h) ==
    /\ Up
    /\ lst = "register"
    /\ conn[h] # "none"
    /\ owned[h] = "no"
    /\ lst' = "check"
    /\ owned' = [owned EXCEPT ![h] = "held"]
    /\ UNCHANGED <<cleanup, conn, handlerVars, promise, queueVars, exec, mainThread,
                   crashed>>

\* The thread runs removeDeadConnections once.  A connection that is not null
\* is valid; the one of a thread that has ended is null.
RemoveDeadConnections ==
    /\ Up
    /\ cleanup
    /\ cleanup' = FALSE
    /\ crashed' = IF /\ ~ExitRequested
                     /\ \E h \in Handlers : owned[h] = "held" /\ conn[h] = "null"
                  THEN "cleanup" ELSE "no"
    /\ UNCHANGED <<lst, conn, owned, handlerVars, promise, queueVars, exec, mainThread>>

--------------------------------------------------------------------------------
(***************************************************************************)
(* The thread of a connection (threadLogicImpl of the two handlers).       *)
(***************************************************************************)

\* while (m_clientConnection->isValid())
HandlerLoop(h) ==
    /\ Up
    /\ thr[h] = "top"
    /\ IF conn[h] = "null"
       THEN crashed' = "handler" /\ UNCHANGED thr
       ELSE thr' = [thr EXCEPT ![h] = "poll"] /\ UNCHANGED crashed
    /\ UNCHANGED <<listenVars, conn, owned, left, sent, promise, queueVars, exec,
                   mainThread>>

\* epollWaitForData: a request has come.
HandlerPolls(h) ==
    /\ Up
    /\ thr[h] = "poll"
    /\ conn[h] = "open"
    /\ sent[h] < MaxPerConnection
    /\ thr' = [thr EXCEPT ![h] = "read"]
    /\ sent' = [sent EXCEPT ![h] = @ + 1]
    /\ UNCHANGED <<listenVars, conn, owned, left, promise, queueVars, exec, mainThread,
                   crashed>>

\* The client has disconnected, an invalid message was read, or the descriptor
\* was closed by the destructor: closeConnection and return.
HandlerReadFails(h) ==
    /\ Up
    /\ thr[h] \in {"poll", "read"}
    /\ thr' = [thr EXCEPT ![h] = "ended"]
    /\ conn' = [conn EXCEPT ![h] = "null"]
    /\ UNCHANGED <<listenVars, owned, left, sent, promise, queueVars, exec, mainThread,
                   crashed>>

\* The request is read and parsed.
HandlerReads(h) ==
    /\ Up
    /\ thr[h] = "read"
    /\ conn[h] = "open"
    /\ \E n \in 1..MaxStatements :
        /\ h \in RestHandlers => n = 1
        /\ left' = [left EXCEPT ![h] = n]
    /\ thr' = [thr EXCEPT ![h] = "submit"]
    /\ UNCHANGED <<listenVars, conn, owned, sent, promise, queueVars, exec, mainThread,
                   crashed>>

\* The request is refused: authentication or parse error.
HandlerRefuses(h) ==
    /\ Up
    /\ thr[h] = "read"
    /\ conn[h] = "open"
    /\ thr' = [thr EXCEPT ![h] = "top"]
    /\ UNCHANGED <<listenVars, conn, owned, left, sent, promise, queueVars, exec,
                   mainThread, crashed>>

\* The destructor has destroyed the connection that is being read from.
HandlerReadsNull(h) ==
    /\ Up
    /\ thr[h] = "read"
    /\ conn[h] = "null"
    /\ crashed' = "handler"
    /\ UNCHANGED <<listenVars, conn, owned, handlerVars, promise, queueVars, exec,
                   mainThread>>

\* A statement goes to the dispatcher.  shared_from_this throws when there is
\* no shared pointer; the exception is logged and the loop goes on.
HandlerSubmits(h) ==
    /\ Up
    /\ thr[h] = "submit"
    /\ IF Alive(h)
       THEN /\ dispQ' = Append(dispQ, h)
            /\ thr' = [thr EXCEPT ![h] = "wait"]
            /\ left' = [left EXCEPT ![h] = @ - 1]
            /\ promise' = [promise EXCEPT ![h] = "none"]
       ELSE /\ thr' = [thr EXCEPT ![h] = "top"]
            /\ UNCHANGED <<dispQ, left, promise>>
    /\ UNCHANGED <<listenVars, conn, owned, sent, disp, execQ, exec, mainThread, crashed>>

\* future.wait returns.  After a failure the REST handler leaves its loop, the
\* SQL handler only the loop over the statements.
HandlerWakes(h) ==
    /\ Up
    /\ thr[h] = "wait"
    /\ promise[h] # "none"
    /\ IF promise[h] = "fail" /\ h \in RestHandlers
       THEN /\ thr' = [thr EXCEPT ![h] = "ended"]
            /\ conn' = [conn EXCEPT ![h] = "null"]
       ELSE /\ thr' = [thr EXCEPT ![h] = IF promise[h] = "ok" /\ left[h] > 0
                                         THEN "submit" ELSE "top"]
            /\ UNCHANGED conn
    /\ UNCHANGED <<listenVars, owned, left, sent, promise, queueVars, exec, mainThread,
                   crashed>>

--------------------------------------------------------------------------------
(***************************************************************************)
(* Dispatcher and executor (threadMain of IOManagerRequestHandlerBase).    *)
(***************************************************************************)

DispatcherTakes ==
    /\ Up
    /\ disp = NoHandler
    /\ mainThread.at # "dispatcher"
    /\ dispQ # << >>
    /\ disp' = Head(dispQ)
    /\ dispQ' = Tail(dispQ)
    /\ UNCHANGED <<listenVars, conn, owned, handlerVars, promise, execQ, exec,
                   mainThread, crashed>>

\* Mutant: the request goes to an executor that has no thread.
DispatcherAddsMutant ==
    /\ Up
    /\ disp \in Handlers
    /\ disp' = NoHandler
    /\ UNCHANGED <<listenVars, conn, owned, handlerVars, promise, dispQ, execQ,
                   exec, mainThread, crashed>>

\* handleRequest of the dispatcher: everything goes to the first executor.
DispatcherAdds ==
    /\ Up
    /\ disp \in Handlers
    /\ disp' = NoHandler
    /\ execQ' = Append(execQ, disp)
    /\ UNCHANGED <<listenVars, conn, owned, handlerVars, promise, dispQ, exec,
                   mainThread, crashed>>

DispatcherEnds ==
    /\ Up
    /\ disp = NoHandler
    /\ mainThread.at = "dispatcher"
    /\ disp' = "ended"
    /\ UNCHANGED <<listenVars, conn, owned, handlerVars, promise, dispQ, execQ,
                   exec, mainThread, crashed>>

\* The executor takes a request and locks its weak pointer.
ExecutorTakes ==
    /\ Up
    /\ exec.at = "idle"
    /\ mainThread.at # "executors"
    /\ execQ # << >>
    /\ execQ' = Tail(execQ)
    /\ LET h == Head(execQ) IN
       exec' = IF Alive(h) THEN [at |-> "run", h |-> h, res |-> "fail"]
               ELSE [at |-> "set", h |-> h, res |-> "fail"]
    /\ UNCHANGED <<listenVars, conn, owned, handlerVars, promise, dispQ, disp,
                   mainThread, crashed>>

\* executeIOManagerRequest returns; it catches exceptions.
ExecutorRuns ==
    /\ Up
    /\ exec.at = "run"
    /\ \E r \in {"ok", "fail"} : exec' = [exec EXCEPT !.at = "release", !.res = r]
    /\ UNCHANGED <<listenVars, conn, owned, handlerVars, promise, queueVars, mainThread,
                   crashed>>

\* connectionHandler goes out of scope before the guard that sets the result.
\* Without another reference the destructor runs here.
ExecutorReleases ==
    /\ Up
    /\ exec.at = "release"
    /\ IF owned[exec.h] = "dropped"
       THEN /\ exec' = [exec EXCEPT !.at = "join"]
            /\ conn' = [conn EXCEPT ![exec.h] = "null"]
       ELSE exec' = [exec EXCEPT !.at = "set"] /\ UNCHANGED conn
    /\ UNCHANGED <<listenVars, owned, handlerVars, promise, queueVars, mainThread,
                   crashed>>

\* The destructor of the guard.  If the destructor of the handler runs before,
\* it joins the thread of the connection first.
ExecutorSetsResult ==
    /\ Up
    /\ exec.at \in {"join", "set"}
    /\ exec.at = "join" => thr[exec.h] = "ended"
    /\ promise' = [promise EXCEPT ![exec.h] = exec.res]
    /\ exec' = ExecIdle
    /\ UNCHANGED <<listenVars, conn, owned, handlerVars, queueVars, mainThread, crashed>>

ExecutorEnds ==
    /\ Up
    /\ exec.at = "idle"
    /\ mainThread.at = "executors"
    /\ exec' = [exec EXCEPT !.at = "ended"]
    /\ UNCHANGED <<listenVars, conn, owned, handlerVars, promise, queueVars, mainThread,
                   crashed>>

--------------------------------------------------------------------------------
(***************************************************************************)
(* Shutdown in the main thread: the connection manager, then the           *)
(* dispatcher, whose executors are destroyed before its own thread ends.   *)
(***************************************************************************)

MainAt(where) == mainThread' = [at |-> where, h |-> NoHandler]

MainRequestsExit ==
    /\ Up
    /\ MayExit
    /\ mainThread.at = "serving"
    /\ MainAt("signal")
    /\ UNCHANGED <<listenVars, conn, owned, handlerVars, promise, queueVars, exec,
                   crashed>>

\* Mutant: the thread in accept4 is not interrupted.
MainSignalsListenerMutant ==
    /\ Up
    /\ mainThread.at = "signal"
    /\ MainAt("joinListener")
    /\ UNCHANGED <<listenVars, conn, owned, handlerVars, promise, queueVars, exec,
                   crashed>>

\* SIGUSR1 interrupts accept4, if the thread is in it.
MainSignalsListener ==
    /\ Up
    /\ mainThread.at = "signal"
    /\ MainAt("joinListener")
    /\ lst' = IF lst = "accept" THEN "check" ELSE lst
    /\ UNCHANGED <<cleanup, conn, owned, handlerVars, promise, queueVars, exec,
                   crashed>>

MainJoinsListener ==
    /\ Up
    /\ mainThread.at = "joinListener"
    /\ lst = "stopped"
    /\ ~cleanup
    /\ MainAt("drop")
    /\ UNCHANGED <<listenVars, conn, owned, handlerVars, promise, queueVars, exec,
                   crashed>>

\* Mutant: the handler is destroyed although the executor uses it.
MainDropsMutant(h) ==
    /\ Up
    /\ mainThread.at = "drop"
    /\ owned[h] = "held"
    /\ owned' = [owned EXCEPT ![h] = "dropped"]
    /\ mainThread' = [at |-> "joinHandler", h |-> h]
    /\ conn' = [conn EXCEPT ![h] = "null"]
    /\ UNCHANGED <<listenVars, handlerVars, promise, queueVars, exec, crashed>>

\* The list drops a handler, and destroys it unless the executor holds it.
\* (Which one is first makes no difference here.)
MainDrops(h) ==
    /\ Up
    /\ mainThread.at = "drop"
    /\ owned[h] = "held"
    /\ owned' = [owned EXCEPT ![h] = "dropped"]
    /\ IF ExecHolds(h)
       THEN UNCHANGED <<mainThread, conn>>
       ELSE /\ mainThread' = [at |-> "joinHandler", h |-> h]
            /\ conn' = [conn EXCEPT ![h] = "null"]
    /\ UNCHANGED <<listenVars, handlerVars, promise, queueVars, exec, crashed>>

MainJoinsHandler ==
    /\ Up
    /\ mainThread.at = "joinHandler"
    /\ thr[mainThread.h] = "ended"
    /\ MainAt("drop")
    /\ UNCHANGED <<listenVars, conn, owned, handlerVars, promise, queueVars, exec,
                   crashed>>

MainDropsExecutors ==
    /\ Up
    /\ mainThread.at = "drop"
    /\ \A h \in Handlers : owned[h] # "held"
    /\ MainAt("executors")
    /\ UNCHANGED <<listenVars, conn, owned, handlerVars, promise, queueVars, exec,
                   crashed>>

MainJoinsExecutor ==
    /\ Up
    /\ mainThread.at = "executors"
    /\ exec.at = "ended"
    /\ MainAt("dispatcher")
    /\ UNCHANGED <<listenVars, conn, owned, handlerVars, promise, queueVars, exec,
                   crashed>>

MainJoinsDispatcher ==
    /\ Up
    /\ mainThread.at = "dispatcher"
    /\ disp = "ended"
    /\ MainAt("stopped")
    /\ UNCHANGED <<listenVars, conn, owned, handlerVars, promise, queueVars, exec,
                   crashed>>

--------------------------------------------------------------------------------
\* Steps that do not wait for a client.
ListenerStep ==
    ListenerCheck \/ ListenerBlocks \/ \E h \in Handlers : ListenerRegister(h)

HandlerStep(h) ==
    \/ HandlerLoop(h) \/ HandlerReads(h) \/ HandlerRefuses(h)
    \/ HandlerReadsNull(h) \/ HandlerSubmits(h) \/ HandlerWakes(h)
    \/ conn[h] = "null" /\ HandlerReadFails(h)

DispatcherStep == DispatcherTakes \/ DispatcherAdds \/ DispatcherEnds

ExecutorStep ==
    \/ ExecutorTakes \/ ExecutorRuns \/ ExecutorReleases
    \/ ExecutorSetsResult \/ ExecutorEnds

MainStep ==
    \/ MainSignalsListener \/ MainJoinsListener \/ MainJoinsHandler
    \/ MainDropsExecutors \/ MainJoinsExecutor \/ MainJoinsDispatcher
    \/ \E h \in Handlers : MainDrops(h)

PipelineNext ==
    \/ ListenerStep \/ RemoveDeadConnections \/ DispatcherStep
    \/ ExecutorStep \/ MainStep \/ MainRequestsExit
    \/ \E h \in Handlers :
        \/ ListenerAccept(h) \/ HandlerStep(h) \/ HandlerPolls(h)
        \/ HandlerReadFails(h)

PipelineSpec == PipelineInit /\ [][PipelineNext]_pipelineVars

(***************************************************************************)
(* Every thread that can run does.  Clients need not connect or send, but  *)
(* one that waits for rows is assumed to take them or to go away: the      *)
(* executor writes them itself, without a deadline.                        *)
(***************************************************************************)
PipelineFairness ==
    /\ WF_pipelineVars(ListenerStep)
    /\ WF_pipelineVars(RemoveDeadConnections)
    /\ \A h \in Handlers : WF_pipelineVars(HandlerStep(h))
    /\ WF_pipelineVars(DispatcherStep)
    /\ WF_pipelineVars(ExecutorStep)
    /\ WF_pipelineVars(MainStep)

PipelineFairSpec == PipelineSpec /\ PipelineFairness

--------------------------------------------------------------------------------
\* The state of the threads keeps its types, and no more statements are
\* submitted than the request has.
PipelineTypeOK ==
    /\ lst \in {"check", "enter", "accept", "register", "stopped"}
    /\ cleanup \in BOOLEAN
    /\ conn \in [Handlers -> {"none", "open", "null"}]
    /\ owned \in [Handlers -> {"no", "held", "dropped"}]
    /\ thr \in [Handlers -> {"none", "top", "poll", "read", "submit", "wait",
                             "ended"}]
    /\ left \in [Handlers -> 0..MaxStatements]
    /\ sent \in [Handlers -> 0..MaxPerConnection]
    /\ promise \in [Handlers -> Results]
    /\ dispQ \in Seq(Handlers)
    /\ disp \in Handlers \cup {NoHandler, "ended"}
    /\ execQ \in Seq(Handlers)
    /\ exec \in [at: {"idle", "run", "release", "join", "set", "ended"},
                 h: Handlers \cup {NoHandler}, res: Results]
    /\ mainThread \in [at: {"serving", "signal", "joinListener", "drop", "joinHandler",
                      "executors", "dispatcher", "stopped"},
                 h: Handlers \cup {NoHandler}]
    /\ crashed \in {"no", "cleanup", "handler"}

\* While the executor runs a request, the connection it writes the answer to
\* exists, whatever the main thread destroys meanwhile, and no other thread
\* uses it.
ExecutionHasConnection ==
    exec.at = "run" => conn[exec.h] = "open" /\ thr[exec.h] = "wait"

\* A statement received on a connection whose handler is listed reaches the
\* executor, through both queues, unless the IO manager is told to stop or
\* crashes.  The clients of the statements before it are assumed to take their
\* rows or to go away.
EveryStatementExecuted ==
    \A h \in Handlers :
        thr[h] = "submit" /\ owned[h] = "held" ~>
            (exec.at = "run" /\ exec.h = h) \/ ExitRequested \/ ~Up

\* The listener ends after the one signal that wakes it, wherever it is when
\* the signal comes, except between its test of m_exitRequested and accept4.
ListenerStops ==
    mainThread.at = "signal" /\ lst # "enter" ~>
        mainThread.at \notin {"signal", "joinListener"} \/ ~Up

================================================================================
