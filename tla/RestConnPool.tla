----------------------------- MODULE RestConnPool -----------------------------
(***************************************************************************)
(* The pool of connections to the IO manager in the REST server            *)
(* (rest_server/IOMgrConnPool.go), the requests that use it                *)
(* (RestWorker.go, RequestHandler*.go) and the shutdown in main().         *)
(*                                                                         *)
(* Every request runs in a goroutine of its own.  To get a connection it   *)
(* starts another goroutine that may add a connection to the pool, and     *)
(* waits for the channel of idle connections.  pool.lock guards only       *)
(* totalConnNum.  createConn and the decrement in ReturnTrackedNetConn     *)
(* take and release it within one action; CloseAllConnections keeps it     *)
(* while it waits for the channel, so the lock is held between actions     *)
(* exactly when main is "draining".                                        *)
(***************************************************************************)
EXTENDS Integers, FiniteSets

CONSTANTS
    Requests,     \* the calls of GetTrackedNetConn
    MinConn,      \* ioMgrCPoolMinConn
    MaxConn,      \* ioMgrCPoolMaxConn, also the capacity of the channel
    DialMayFail,  \* whether the IO manager may be unreachable
    MaxDials,     \* bound: connections made during the life of the server
    MaxBreaks     \* bound: connections closed because of an error

\* createIOMgrConnPool refuses other values.
ASSUME ConnAssumption ==
    MinConn \in Nat /\ MaxConn \in Nat \ {0} /\ MinConn <= MaxConn
ASSUME PoolBoundsAssumption ==
    MaxDials \in Nat /\ MinConn <= MaxDials /\ MaxBreaks \in Nat
ASSUME DialMayFailAssumption == DialMayFail \in BOOLEAN

Conn == 1..MaxDials
NoConn == 0

VARIABLES
    place,      \* [Conn -> where the connection is]
    total,      \* pool.totalConnNum
    pc,         \* [Requests -> what the goroutine of the request does]
    held,       \* [Requests -> its ioMgrConn.trackedNetConn]
    creators,   \* requests whose creator goroutine has not run createConn yet
    main,       \* "serving", "draining" (in CloseAllConnections), "stopped"
    drained,    \* connections CloseAllConnections has received
    dialed,     \* connections made so far
    breaks      \* connections closed because of an error so far

poolVars == <<place, total, pc, held, creators, main, drained, dialed, breaks>>

\* "unmade"; "pushing": made by a creator that has yet to put it in the
\* channel; "idle": in the channel; "held"; "broken": Conn = nil, to be
\* returned; "removed": no longer counted; "lost": closed but still counted.
Places == {"unmade", "pushing", "idle", "held", "broken", "drained", "removed",
           "lost"}

Idle == {c \in Conn : place[c] = "idle"}

ChannelHasRoom == Cardinality(Idle) < MaxConn

\* createIOMgrConnPool: the server does not start without MinConn connections.
PoolInit ==
    /\ place = [c \in Conn |-> IF c <= MinConn THEN "idle" ELSE "unmade"]
    /\ total = MinConn
    /\ pc = [r \in Requests |-> "absent"]
    /\ held = [r \in Requests |-> NoConn]
    /\ creators = {}
    /\ main = "serving"
    /\ drained = 0
    /\ dialed = MinConn
    /\ breaks = 0

Running == main # "stopped"
LockIsFree == main = "serving"

--------------------------------------------------------------------------------
(***************************************************************************)
(* GetTrackedNetConn                                                       *)
(***************************************************************************)

\* A request arrives, starts its creator and waits for the channel.
Arrive(r) ==
    /\ Running
    /\ pc[r] = "absent"
    /\ pc' = [pc EXCEPT ![r] = "waiting"]
    /\ creators' = creators \cup {r}
    /\ UNCHANGED <<place, total, held, main, drained, dialed, breaks>>

\* createConn: the limit is reached.  The creator just ends.
CreatorRefused(r) ==
    /\ r \in creators
    /\ LockIsFree
    /\ total >= MaxConn
    /\ creators' = creators \ {r}
    /\ UNCHANGED <<place, total, pc, held, main, drained, dialed, breaks>>

\* createConn: net.Dial fails.  The creator just ends.
CreatorDialFails(r) ==
    /\ DialMayFail
    /\ r \in creators
    /\ LockIsFree
    /\ total < MaxConn
    /\ creators' = creators \ {r}
    /\ UNCHANGED <<place, total, pc, held, main, drained, dialed, breaks>>

\* Mutant: the limit may be exceeded by one.
CreatorDialsMutant(r) ==
    /\ r \in creators
    /\ LockIsFree
    /\ total <= MaxConn
    /\ dialed < MaxDials
    /\ creators' = creators \ {r}
    /\ dialed' = dialed + 1
    /\ place' = [place EXCEPT ![dialed + 1] = "pushing"]
    /\ total' = total + 1
    /\ UNCHANGED <<pc, held, main, drained, breaks>>

\* createConn succeeds; the connection is counted before it is in the channel.
CreatorDials(r) ==
    /\ r \in creators
    /\ LockIsFree
    /\ total < MaxConn
    /\ dialed < MaxDials
    /\ creators' = creators \ {r}
    /\ dialed' = dialed + 1
    /\ place' = [place EXCEPT ![dialed + 1] = "pushing"]
    /\ total' = total + 1
    /\ UNCHANGED <<pc, held, main, drained, breaks>>

\* pool.connections <- conn: blocks while the channel is full.
CreatorPushes(c) ==
    /\ Running
    /\ place[c] = "pushing"
    /\ ChannelHasRoom
    /\ place' = [place EXCEPT ![c] = "idle"]
    /\ UNCHANGED <<total, pc, held, creators, main, drained, dialed, breaks>>

\* Mutant: the connection stays in the channel.
ReceiveMutant(r) ==
    /\ Running
    /\ pc[r] = "waiting"
    /\ \E c \in Idle : held' = [held EXCEPT ![r] = c]
    /\ pc' = [pc EXCEPT ![r] = "using"]
    /\ UNCHANGED <<place, total, creators, main, drained, dialed, breaks>>

\* <-pool.connections of a waiting request.
Receive(r) ==
    /\ Running
    /\ pc[r] = "waiting"
    /\ \E c \in Idle :
        /\ place' = [place EXCEPT ![c] = "held"]
        /\ held' = [held EXCEPT ![r] = c]
    /\ pc' = [pc EXCEPT ![r] = "using"]
    /\ UNCHANGED <<total, creators, main, drained, dialed, breaks>>

--------------------------------------------------------------------------------
(***************************************************************************)
(* The exchange with the IO manager and closeRequest.                      *)
(***************************************************************************)

\* The exchange succeeds, or fails in a way that keeps the connection: the
\* request has no credentials, the IO manager answers with an error, the HTTP
\* client is gone, or a read fails for another reason than a timeout.
ExchangeKeeps(r) ==
    /\ Running
    /\ pc[r] = "using"
    /\ pc' = [pc EXCEPT ![r] = "returning"]
    /\ UNCHANGED <<place, total, held, creators, main, drained, dialed, breaks>>

\* A write error, a read timeout, a message of another type or of another
\* request, a payload that is too large, or a panic: Close() and Conn = nil.
ExchangeBreaks(r) ==
    /\ Running
    /\ pc[r] = "using"
    /\ breaks < MaxBreaks
    /\ breaks' = breaks + 1
    /\ place' = [place EXCEPT ![held[r]] = "broken"]
    /\ pc' = [pc EXCEPT ![r] = "returning"]
    /\ UNCHANGED <<total, held, creators, main, drained, dialed>>

\* Mutant: the connection is not put back.
ReturnKeptMutant(r) ==
    /\ Running
    /\ pc[r] = "returning"
    /\ place[held[r]] = "held"
    /\ place' = [place EXCEPT ![held[r]] = "lost"]
    /\ pc' = [pc EXCEPT ![r] = "done"]
    /\ held' = [held EXCEPT ![r] = NoConn]
    /\ UNCHANGED <<total, creators, main, drained, dialed, breaks>>

\* ReturnTrackedNetConn with an open connection: a select that never blocks.
\* Were the channel full, it would close the connection and still count it.
ReturnKept(r) ==
    /\ Running
    /\ pc[r] = "returning"
    /\ place[held[r]] = "held"
    /\ place' = [place EXCEPT
                    ![held[r]] = IF ChannelHasRoom THEN "idle" ELSE "lost"]
    /\ pc' = [pc EXCEPT ![r] = "done"]
    /\ held' = [held EXCEPT ![r] = NoConn]
    /\ UNCHANGED <<total, creators, main, drained, dialed, breaks>>

\* Mutant: a closed connection is still counted.
ReturnBrokenMutant(r) ==
    /\ pc[r] = "returning"
    /\ LockIsFree
    /\ place[held[r]] = "broken"
    /\ place' = [place EXCEPT ![held[r]] = "removed"]
    /\ pc' = [pc EXCEPT ![r] = "done"]
    /\ held' = [held EXCEPT ![r] = NoConn]
    /\ UNCHANGED <<total, creators, main, drained, dialed, breaks>>

\* ReturnTrackedNetConn with Conn = nil: needs the lock; nothing replaces it.
ReturnBroken(r) ==
    /\ pc[r] = "returning"
    /\ LockIsFree
    /\ place[held[r]] = "broken"
    /\ place' = [place EXCEPT ![held[r]] = "removed"]
    /\ total' = total - 1
    /\ pc' = [pc EXCEPT ![r] = "done"]
    /\ held' = [held EXCEPT ![r] = NoConn]
    /\ UNCHANGED <<creators, main, drained, dialed, breaks>>

--------------------------------------------------------------------------------
(***************************************************************************)
(* SIGINT or SIGTERM: main() calls CloseAllConnections and returns.  The   *)
(* listeners keep accepting requests until the process ends.               *)
(***************************************************************************)

Terminate ==
    /\ main = "serving"
    /\ main' = "draining"
    /\ UNCHANGED <<place, total, pc, held, creators, drained, dialed, breaks>>

\* One round of the loop: receive a connection and close it.
DrainOne ==
    /\ main = "draining"
    /\ drained < total
    /\ \E c \in Idle : place' = [place EXCEPT ![c] = "drained"]
    /\ drained' = drained + 1
    /\ UNCHANGED <<total, pc, held, creators, main, dialed, breaks>>

\* Mutant: one round too many.
DrainEndsMutant ==
    /\ main = "draining"
    /\ drained = total + 1
    /\ main' = "stopped"
    /\ UNCHANGED <<place, total, pc, held, creators, drained, dialed, breaks>>

DrainEnds ==
    /\ main = "draining"
    /\ drained = total
    /\ main' = "stopped"
    /\ UNCHANGED <<place, total, pc, held, creators, drained, dialed, breaks>>

--------------------------------------------------------------------------------
RequestStep(r) ==
    ExchangeKeeps(r) \/ ExchangeBreaks(r) \/ ReturnKept(r) \/ ReturnBroken(r)

CreatorStep(r) ==
    CreatorRefused(r) \/ CreatorDialFails(r) \/ CreatorDials(r)

PoolNext ==
    \/ \E r \in Requests :
        Arrive(r) \/ CreatorStep(r) \/ Receive(r) \/ RequestStep(r)
    \/ \E c \in Conn : CreatorPushes(c)
    \/ Terminate \/ DrainOne \/ DrainEnds

(***************************************************************************)
(* Goroutines are scheduled fairly and a blocked receiver of a channel is  *)
(* served in its turn, hence strong fairness where requests and main       *)
(* compete for connections.  Requests need not arrive, nor a signal.       *)
(* That a request ends (RequestStep) is an assumption on clients and on    *)
(* the IO manager too: no deadline limits the read of an HTTP body or a    *)
(* write, so that a client that stops in the middle of an upload keeps its *)
(* connection for ever.                                                    *)
(***************************************************************************)
PoolFairness ==
    /\ \A r \in Requests :
        WF_poolVars(CreatorStep(r)) /\ SF_poolVars(Receive(r)) /\ WF_poolVars(RequestStep(r))
    /\ \A c \in Conn : WF_poolVars(CreatorPushes(c))
    /\ SF_poolVars(DrainOne)
    /\ WF_poolVars(DrainEnds)

PoolSpec == PoolInit /\ [][PoolNext]_poolVars

PoolFairSpec == PoolSpec /\ PoolFairness

--------------------------------------------------------------------------------
\* The state of the pool keeps its types, and a request holds a connection
\* exactly while it uses or returns one.
PoolTypeOK ==
    /\ place \in [Conn -> Places]
    /\ total \in 0..MaxConn
    /\ pc \in [Requests -> {"absent", "waiting", "using", "returning", "done"}]
    /\ held \in [Requests -> Conn \cup {NoConn}]
    /\ \A r \in Requests : held[r] # NoConn <=> pc[r] \in {"using", "returning"}
    /\ creators \subseteq Requests
    /\ main \in {"serving", "draining", "stopped"}
    /\ drained \in 0..MaxConn
    /\ dialed \in 0..MaxDials
    /\ breaks \in 0..MaxBreaks

Counted == {c \in Conn : place[c] \notin {"unmade", "removed"}}

\* totalConnNum, by which createConn decides, is the number of connections
\* that exist: nothing is counted twice, forgotten or counted after its
\* removal, whatever the goroutines do between two uses of the lock.
TotalIsExact == total = Cardinality(Counted)

\* The two places that put a connection into the channel always find room:
\* a creator never blocks, and ReturnTrackedNetConn never takes its default
\* branch, which would close a connection that stays counted for ever.
ChannelNeverFull ==
    /\ (\E c \in Conn : place[c] \in {"pushing", "held"}) => ChannelHasRoom
    /\ \A c \in Conn : place[c] # "lost"

\* No two requests hold the same connection: an answer is never read by a
\* request other than the one that uses the connection.
OneHolder ==
    \A r, s \in Requests : held[r] = held[s] /\ held[r] # NoConn => r = s

\* A request that waits in GetTrackedNetConn gets a connection, unless the
\* server is told to stop or errors have closed every connection of the pool.
\* (Then it waits until a later request makes one: the creator of this one is
\* gone, and ReturnTrackedNetConn only discounts what was closed.)  Requests that
\* hold a connection are assumed to end, clients to finish their uploads.
EveryRequestServed ==
    \A r \in Requests :
        pc[r] = "waiting" ~> pc[r] # "waiting" \/ main # "serving" \/ total = 0

\* After SIGINT or SIGTERM CloseAllConnections gets every counted connection
\* and the server stops, unless a request has a connection that an error has
\* closed: to discount it the request needs the lock, which is held meanwhile.
\* Again requests in progress are assumed to end.
ShutdownCompletes ==
    main = "draining" ~> main = "stopped" \/ \E c \in Conn : place[c] = "broken"
================================================================================
