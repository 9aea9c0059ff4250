------------------------------ MODULE ServerProofs ------------------------------
(***************************************************************************)
(* Proofs about the servers: the REST server and the threads of the IO     *)
(* manager.                                                                *)
(*                                                                         *)
(* RestConnPool: for any number of requests and any limits, the count of   *)
(* connections is exact, the channel always has room for a connection that *)
(* is put into it, and no connection has two users.                        *)
(*                                                                         *)
(* RestExchange, for any number of requests of any kinds over a connection:*)
(* whose answer a client gets, what success means, and when a request may  *)
(* still be executed after it was answered with an error.                  *)
(*                                                                         *)
(* RequestPipeline, for any number of connections, statements and requests:*)
(* the types, and that a request is executed over a connection that exists,*)
(* also while the IO manager shuts down.                                   *)
(***************************************************************************)
EXTENDS RestConnPool, RestExchange, RequestPipeline, FiniteSetTheorems, SequenceTheorems, TLAPS

--------------------------------------------------------------------------------
(***************************************************************************)
(* The pool of connections: its inductive invariant.                       *)
(***************************************************************************)

\* A connection is unmade exactly while its number has not been dialed.
DialedMade == \A c \in Conn : place[c] = "unmade" <=> c > dialed

\* What a request holds is neither in the channel nor uncounted.
HeldPlaces ==
    \A r \in Requests :
        /\ pc[r] = "using" => place[held[r]] = "held"
        /\ pc[r] = "returning" => place[held[r]] \in {"held", "broken"}

\* No connection has been closed and left in the count.
NothingLost == \A c \in Conn : place[c] # "lost"

\* The inductive invariant.
PoolInv ==
    /\ PoolTypeOK
    /\ DialedMade
    /\ HeldPlaces
    /\ OneHolder
    /\ NothingLost
    /\ TotalIsExact

--------------------------------------------------------------------------------
(***************************************************************************)
(* Lemmas about the sets of connections.                                   *)
(***************************************************************************)

\* Only finitely many connections are counted or idle.
LEMMA PoolIsFinite ==
    ASSUME ConnAssumption, PoolBoundsAssumption
    PROVE  /\ IsFiniteSet(Counted)
           /\ IsFiniteSet(Idle)
           /\ Cardinality(Counted) \in Nat
<1>1. IsFiniteSet(Conn)
  BY FS_Interval, PoolBoundsAssumption DEF Conn
<1>2. Counted \subseteq Conn /\ Idle \subseteq Conn
  BY DEF Counted, Idle
<1>3. IsFiniteSet(Counted) /\ IsFiniteSet(Idle)
  BY <1>1, <1>2, FS_Subset
<1> QED
  BY <1>3, FS_CardinalityType

\* A connection outside the channel leaves room in it (CreatorPushes and
\* ReturnKept rely on this).
LEMMA RoomInChannel ==
    ASSUME ConnAssumption, PoolBoundsAssumption, PoolInv,
           NEW c \in Conn, place[c] \in {"pushing", "held", "broken"}
    PROVE  ChannelHasRoom
<1> USE ConnAssumption, PoolBoundsAssumption
<1>1. c \in Counted /\ Idle \subseteq Counted \ {c}
  BY DEF Counted, Idle
<1>2. /\ IsFiniteSet(Counted \ {c})
      /\ Cardinality(Counted \ {c}) = Cardinality(Counted) - 1
  BY <1>1, PoolIsFinite, FS_RemoveElement
<1>3. Cardinality(Idle) <= Cardinality(Counted \ {c}) /\ Cardinality(Idle) \in Nat
  BY <1>1, <1>2, PoolIsFinite, FS_Subset, FS_CardinalityType
<1>4. Cardinality(Counted) <= MaxConn /\ Cardinality(Counted) \in Nat
  BY PoolIsFinite DEF PoolInv, PoolTypeOK, TotalIsExact
<1> QED
  BY <1>2, <1>3, <1>4 DEF ChannelHasRoom

\* A connection that moves between two counted places keeps the count.
LEMMA MoveKeepsCount ==
    ASSUME PoolInv, NEW c \in Conn, NEW p \in Places,
           place[c] \notin {"unmade", "removed"},
           p \notin {"unmade", "removed"},
           place' = [place EXCEPT ![c] = p],
           total' = total
    PROVE  TotalIsExact'
<1>1. Counted' = Counted
  BY DEF PoolInv, PoolTypeOK, Counted
<1> QED
  BY <1>1 DEF PoolInv, TotalIsExact

--------------------------------------------------------------------------------
(***************************************************************************)
(* The invariant holds initially and every step preserves it.              *)
(***************************************************************************)

\* createIOMgrConnPool establishes the invariant.
LEMMA PoolInitInv ==
    ASSUME ConnAssumption, PoolBoundsAssumption
    PROVE  PoolInit => PoolInv
<1> SUFFICES ASSUME PoolInit PROVE PoolInv
  OBVIOUS
<1> USE ConnAssumption, PoolBoundsAssumption
<1>1. PoolTypeOK
  BY DEF PoolInit, PoolTypeOK, Places, Conn, NoConn
<1>2. DialedMade /\ HeldPlaces /\ OneHolder /\ NothingLost
  BY DEF PoolInit, DialedMade, HeldPlaces, OneHolder, NothingLost, Conn, NoConn
<1>3. TotalIsExact
  <2>1. Counted = 1..MinConn
    BY DEF PoolInit, Counted, Conn
  <2>2. Cardinality(1..MinConn) = MinConn
    BY FS_Interval
  <2> QED
    BY <2>1, <2>2 DEF PoolInit, TotalIsExact
<1> QED
  BY <1>1, <1>2, <1>3 DEF PoolInv

\* Steps of a request that move no connection preserve the invariant.
LEMMA PoolQuietSteps ==
    ASSUME PoolInv, NEW r \in Requests,
           \/ Arrive(r) \/ CreatorRefused(r) \/ CreatorDialFails(r)
           \/ ExchangeKeeps(r)
    PROVE  PoolInv'
<1>1. PoolTypeOK'
  BY DEF PoolInv, PoolTypeOK, Arrive, CreatorRefused, CreatorDialFails, ExchangeKeeps, NoConn
<1>2. DialedMade' /\ OneHolder' /\ NothingLost'
  BY DEF PoolInv, DialedMade, OneHolder, NothingLost, Arrive, CreatorRefused,
         CreatorDialFails, ExchangeKeeps
<1>3. HeldPlaces'
  BY DEF PoolInv, PoolTypeOK, HeldPlaces, Arrive, CreatorRefused, CreatorDialFails,
         ExchangeKeeps
<1>4. TotalIsExact'
  <2>1. place' = place /\ total' = total
    BY DEF Arrive, CreatorRefused, CreatorDialFails, ExchangeKeeps
  <2>2. Counted' = Counted
    BY <2>1 DEF Counted
  <2> QED
    BY <2>1, <2>2 DEF PoolInv, TotalIsExact
<1> QED
  BY <1>1, <1>2, <1>3, <1>4 DEF PoolInv

\* createConn counts exactly the connection it makes, below the limit.
LEMMA CreatorDialsStep ==
    ASSUME ConnAssumption, PoolBoundsAssumption, PoolInv,
           NEW r \in Requests, CreatorDials(r)
    PROVE  PoolInv'
<1> USE ConnAssumption, PoolBoundsAssumption
<1> DEFINE c == dialed + 1
<1>0. c \in Conn /\ place[c] = "unmade" /\ dialed \in Nat
  BY DEF PoolInv, PoolTypeOK, DialedMade, CreatorDials, Conn
<1>1. PoolTypeOK'
  BY <1>0 DEF PoolInv, PoolTypeOK, CreatorDials, Places
<1>2. DialedMade'
  BY <1>0 DEF PoolInv, PoolTypeOK, DialedMade, CreatorDials, Conn
<1>3. \A s \in Requests : held[s] # c \/ pc[s] \notin {"using", "returning"}
  BY <1>0 DEF PoolInv, HeldPlaces
<1>4. HeldPlaces'
  BY <1>0, <1>3 DEF PoolInv, PoolTypeOK, HeldPlaces, CreatorDials, NoConn
<1>5. OneHolder' /\ NothingLost'
  BY <1>0 DEF PoolInv, PoolTypeOK, OneHolder, NothingLost, CreatorDials
<1>6. TotalIsExact'
  <2>1. Counted' = Counted \cup {c} /\ c \notin Counted
    BY <1>0 DEF PoolInv, PoolTypeOK, Counted, CreatorDials
  <2>2. Cardinality(Counted \cup {c}) = Cardinality(Counted) + 1
    BY <2>1, PoolIsFinite, FS_AddElement
  <2> QED
    BY <2>1, <2>2 DEF PoolInv, TotalIsExact, CreatorDials
<1> QED
  BY <1>1, <1>2, <1>4, <1>5, <1>6 DEF PoolInv

\* The push of a creator moves a counted connection into the channel.
LEMMA CreatorPushesStep ==
    ASSUME PoolInv, NEW c \in Conn, CreatorPushes(c)
    PROVE  PoolInv'
<1>1. PoolTypeOK' /\ DialedMade' /\ OneHolder' /\ NothingLost'
  BY DEF PoolInv, PoolTypeOK, DialedMade, OneHolder, NothingLost, CreatorPushes, Places
<1>2. HeldPlaces'
  BY DEF PoolInv, PoolTypeOK, HeldPlaces, CreatorPushes, NoConn
<1>3. TotalIsExact'
  BY MoveKeepsCount DEF CreatorPushes, Places
<1> QED
  BY <1>1, <1>2, <1>3 DEF PoolInv

\* A waiting request takes a connection that nobody holds.
LEMMA ReceiveStep ==
    ASSUME PoolInv, NEW r \in Requests, Receive(r)
    PROVE  PoolInv'
<1> PICK c \in Idle : /\ place' = [place EXCEPT ![c] = "held"]
                      /\ held' = [held EXCEPT ![r] = c]
  BY DEF Receive
<1>0. c \in Conn /\ place[c] = "idle"
  BY DEF Idle
<1>1. PoolTypeOK' /\ DialedMade' /\ NothingLost'
  BY <1>0 DEF PoolInv, PoolTypeOK, DialedMade, NothingLost, Receive, Places, Conn, NoConn
<1>2. \A s \in Requests : held[s] # c
  BY <1>0 DEF PoolInv, PoolTypeOK, HeldPlaces, Conn, NoConn
<1>3. OneHolder'
  BY <1>0, <1>2 DEF PoolInv, PoolTypeOK, OneHolder, Receive
<1>4. HeldPlaces'
  BY <1>0, <1>2 DEF PoolInv, PoolTypeOK, HeldPlaces, Receive
<1>5. TotalIsExact'
  BY <1>0, MoveKeepsCount DEF Receive, Places
<1> QED
  BY <1>1, <1>3, <1>4, <1>5 DEF PoolInv

\* An error closes the connection but leaves it counted until its return.
LEMMA ExchangeBreaksStep ==
    ASSUME ConnAssumption, PoolBoundsAssumption, PoolInv,
           NEW r \in Requests, ExchangeBreaks(r)
    PROVE  PoolInv'
<1> USE ConnAssumption, PoolBoundsAssumption
<1>0. held[r] \in Conn /\ place[held[r]] = "held"
  BY DEF PoolInv, PoolTypeOK, HeldPlaces, ExchangeBreaks
<1>1. PoolTypeOK' /\ DialedMade' /\ NothingLost'
  BY <1>0 DEF PoolInv, PoolTypeOK, DialedMade, NothingLost, ExchangeBreaks, Places
<1>2. OneHolder'
  BY <1>0 DEF PoolInv, OneHolder, ExchangeBreaks
<1>3. HeldPlaces'
  BY <1>0 DEF PoolInv, PoolTypeOK, HeldPlaces, OneHolder, ExchangeBreaks
<1>4. TotalIsExact'
  BY <1>0, MoveKeepsCount DEF ExchangeBreaks, Places
<1> QED
  BY <1>1, <1>2, <1>3, <1>4 DEF PoolInv

\* A kept connection goes back into the channel, which has room for it.
LEMMA ReturnKeptStep ==
    ASSUME ConnAssumption, PoolBoundsAssumption, PoolInv,
           NEW r \in Requests, ReturnKept(r)
    PROVE  PoolInv'
<1> USE ConnAssumption, PoolBoundsAssumption
<1>0. held[r] \in Conn /\ place[held[r]] = "held"
  BY DEF PoolInv, PoolTypeOK, ReturnKept
<1>1. place' = [place EXCEPT ![held[r]] = "idle"]
  BY <1>0, RoomInChannel DEF ReturnKept
<1>2. PoolTypeOK' /\ DialedMade' /\ NothingLost'
  BY <1>0, <1>1 DEF PoolInv, PoolTypeOK, DialedMade, NothingLost, ReturnKept, Places
<1>3. OneHolder'
  BY <1>0 DEF PoolInv, PoolTypeOK, OneHolder, ReturnKept
<1>4. HeldPlaces'
  BY <1>0, <1>1 DEF PoolInv, PoolTypeOK, HeldPlaces, OneHolder, ReturnKept
<1>5. TotalIsExact'
  BY <1>0, <1>1, MoveKeepsCount DEF ReturnKept, Places
<1> QED
  BY <1>2, <1>3, <1>4, <1>5 DEF PoolInv

\* A broken connection leaves the count.
LEMMA ReturnBrokenStep ==
    ASSUME ConnAssumption, PoolBoundsAssumption, PoolInv,
           NEW r \in Requests, ReturnBroken(r)
    PROVE  PoolInv'
<1> USE ConnAssumption, PoolBoundsAssumption
<1>0. held[r] \in Conn /\ place[held[r]] = "broken"
  BY DEF PoolInv, PoolTypeOK, ReturnBroken
<1>1. held[r] \in Counted /\ Counted' = Counted \ {held[r]}
  BY <1>0 DEF PoolInv, PoolTypeOK, Counted, ReturnBroken
<1>2. /\ Cardinality(Counted \ {held[r]}) = Cardinality(Counted) - 1
      /\ Cardinality(Counted \ {held[r]}) \in Nat
  BY <1>1, PoolIsFinite, FS_RemoveElement, FS_CardinalityType
<1>3. TotalIsExact' /\ total' \in 0..MaxConn
  BY <1>1, <1>2 DEF PoolInv, PoolTypeOK, TotalIsExact, ReturnBroken
<1>4. PoolTypeOK' /\ DialedMade' /\ NothingLost'
  BY <1>0, <1>3 DEF PoolInv, PoolTypeOK, DialedMade, NothingLost, ReturnBroken, Places
<1>5. OneHolder'
  BY <1>0 DEF PoolInv, PoolTypeOK, OneHolder, ReturnBroken
<1>6. HeldPlaces'
  BY <1>0 DEF PoolInv, PoolTypeOK, HeldPlaces, OneHolder, ReturnBroken
<1> QED
  BY <1>3, <1>4, <1>5, <1>6 DEF PoolInv

\* CloseAllConnections takes only idle connections and leaves them counted.
LEMMA DrainOneStep ==
    ASSUME ConnAssumption, PoolBoundsAssumption, PoolInv, DrainOne
    PROVE  PoolInv'
<1> USE ConnAssumption, PoolBoundsAssumption
<1> PICK c \in Idle : place' = [place EXCEPT ![c] = "drained"]
  BY DEF DrainOne
<1>0. c \in Conn /\ place[c] = "idle"
  BY DEF Idle
<1>1. PoolTypeOK' /\ DialedMade' /\ NothingLost'
  BY <1>0 DEF PoolInv, PoolTypeOK, DialedMade, NothingLost, DrainOne, Places
<1>2. OneHolder'
  BY DEF PoolInv, OneHolder, DrainOne
<1>3. HeldPlaces'
  BY <1>0 DEF PoolInv, PoolTypeOK, HeldPlaces, DrainOne
<1>4. TotalIsExact'
  BY <1>0, MoveKeepsCount DEF DrainOne, Places
<1> QED
  BY <1>1, <1>2, <1>3, <1>4 DEF PoolInv

\* Every step preserves the invariant.
LEMMA PoolNextInv ==
    ASSUME ConnAssumption, PoolBoundsAssumption
    PROVE  PoolInv /\ [PoolNext]_poolVars => PoolInv'
<1> SUFFICES ASSUME PoolInv, [PoolNext]_poolVars PROVE PoolInv'
  OBVIOUS
<1> USE ConnAssumption, PoolBoundsAssumption
<1>1. ASSUME NEW r \in Requests,
             Arrive(r) \/ CreatorStep(r) \/ Receive(r) \/ RequestStep(r)
      PROVE  PoolInv'
  <2>1. CASE CreatorDials(r)
    BY <2>1, CreatorDialsStep
  <2>2. CASE Receive(r)
    BY <2>2, ReceiveStep
  <2>3. CASE ExchangeBreaks(r)
    BY <2>3, ExchangeBreaksStep
  <2>4. CASE ReturnKept(r)
    BY <2>4, ReturnKeptStep
  <2>5. CASE ReturnBroken(r)
    BY <2>5, ReturnBrokenStep
  <2> QED
    BY <1>1, <2>1, <2>2, <2>3, <2>4, <2>5, PoolQuietSteps DEF CreatorStep, RequestStep
<1>2. ASSUME NEW c \in Conn, CreatorPushes(c) PROVE PoolInv'
  BY <1>2, CreatorPushesStep
<1>3. CASE DrainOne
  BY <1>3, DrainOneStep
<1>4. CASE Terminate \/ DrainEnds \/ UNCHANGED poolVars
  <2>1. place' = place /\ total' = total
    BY <1>4 DEF Terminate, DrainEnds, poolVars
  <2>2. Counted' = Counted
    BY <2>1 DEF Counted
  <2>3. PoolTypeOK'
    BY <1>4 DEF PoolInv, PoolTypeOK, Terminate, DrainEnds, poolVars
  <2>4. DialedMade' /\ OneHolder' /\ NothingLost' /\ HeldPlaces'
    BY <1>4 DEF PoolInv, DialedMade, OneHolder, NothingLost, HeldPlaces, Terminate,
                DrainEnds, poolVars
  <2> QED
    BY <2>1, <2>2, <2>3, <2>4 DEF PoolInv, TotalIsExact
<1> QED
  BY <1>1, <1>2, <1>3, <1>4 DEF PoolNext

--------------------------------------------------------------------------------
\* The inductive invariant holds in every reachable state.
THEOREM PoolInvariant == PoolSpec => []PoolInv
<1>1. PoolInit => PoolInv
  BY PoolInitInv, ConnAssumption, PoolBoundsAssumption
<1>2. PoolInv /\ [PoolNext]_poolVars => PoolInv'
  BY PoolNextInv, ConnAssumption, PoolBoundsAssumption
<1> QED
  BY <1>1, <1>2, PTL DEF PoolSpec

\* totalConnNum is the number of existing connections and never exceeds the
\* limit (createConn, ReturnTrackedNetConn), for every number of requests.
THEOREM TotalStaysExact == PoolSpec => [](TotalIsExact /\ PoolTypeOK)
<1>1. PoolInv => TotalIsExact /\ PoolTypeOK
  BY DEF PoolInv
<1> QED
  BY <1>1, PoolInvariant, PTL

\* The channel has room for every connection outside it, so a creator never
\* blocks and ReturnTrackedNetConn never takes its default branch.
THEOREM ChannelKeepsRoom == PoolSpec => []ChannelNeverFull
<1>1. PoolInv => ChannelNeverFull
  BY RoomInChannel, ConnAssumption, PoolBoundsAssumption
     DEF PoolInv, NothingLost, ChannelNeverFull
<1> QED
  BY <1>1, PoolInvariant, PTL

\* A connection is never used by two requests at once (GetTrackedNetConn).
THEOREM NoConnectionShared == PoolSpec => []OneHolder
<1>1. PoolInv => OneHolder
  BY DEF PoolInv
<1> QED
  BY <1>1, PoolInvariant, PTL

--------------------------------------------------------------------------------
(***************************************************************************)
(* The exchange over one connection: its inductive invariant.              *)
(***************************************************************************)

FramesOK == up \in Seq(UpFrames) /\ down \in Seq(DownFrames)

\* Where the two sides are with the requests.
PlacesOK ==
    /\ rest \notin {"pooled", "closed"} => cur \in Id /\ ans[cur] = "none"
    /\ rest = "send" => srvReq < cur
    /\ rest \in {"first", "body", "bodyEnd"} => kind[cur] \in Posts
    /\ srv \notin {"read", "closed"} => srvReq \in Id
    /\ srvReq <= cur
    /\ \A r \in Id : r > cur => ans[r] = "none"

\* Requests that were sent and not read come in their order, after the one
\* that the IO manager works on.
RequestsInOrder ==
    /\ \A i \in 1..Len(up) : up[i].t = "request" =>
        srvReq < up[i].id /\ up[i].id <= cur /\ (rest = "send" => up[i].id < cur)
    /\ \A i, j \in 1..Len(up) :
        i < j /\ up[i].t = "request" /\ up[j].t = "request" => up[i].id < up[j].id

\* What was written and not read was written in the order of the requests.
\* Chunks carry no ID: when they are read, nothing of another request is left.
AnswersInOrder ==
    /\ \A i \in 1..Len(down) : down[i].id <= srvReq
    /\ \A i, j \in 1..Len(down) : i < j => down[i].id <= down[j].id
    /\ rest = "json" => srvReq = cur /\ \A i \in 1..Len(down) : down[i].id = cur

\* A POST is told once that its user is authenticated, before anything else.
AuthenticatedFirst ==
    /\ \A i \in 1..Len(down) :
        down[i].t = "authenticated" => kind[down[i].id] \in Posts
    /\ \A i, j \in 1..Len(down) :
        i < j /\ down[j].t = "authenticated" => down[i].id < down[j].id
    /\ rest \in {"body", "bodyEnd"} \/ (rest = "final" /\ kind[cur] \in Posts) =>
        /\ srvReq = cur
        /\ \A i \in 1..Len(down) : down[i].t = "authenticated" => down[i].id # cur

\* The requests that, if they are modifications, are made, which executing them
\* again would not change.
Made ==
    {r \in Id : kind[r] \in Modifications =>
                    kind[r] # "postPartial" /\ stored[r] = "all"}

OkMeansMade ==
    /\ \A i \in 1..Len(down) : down[i].t = "ok" => down[i].id \in Made
    /\ rest = "json" => cur \in Made
    /\ \A r \in Id : ans[r] = "success" => r \in Made

--------------------------------------------------------------------------------
\* The requests up to which nothing has spoiled the connection.
Clean == {r \in 0..MaxRequests : \A s \in 1..r : ~Spoils(s)}

(***************************************************************************)
(* As long as nothing has spoiled the connection, the two sides take turns *)
(* and these are the states that they can be in together.                  *)
(***************************************************************************)

\* The IO manager waits for a request and nothing is on its way.
Quiet == srv = "read" /\ up = << >> /\ down = << >>

\* It has been sent a request that it has not read.
Asked == srv = "read" /\ up = <<Frame("request", cur)>> /\ down = << >>

\* It works on the current request.
WorksAt(places) == srv \in places /\ srvReq = cur /\ ~garbled

\* It has answered, or answers.
Answering ==
    \/ srv = "read" /\ up = << >> /\ down = <<Frame("error", cur)>>
    \/ WorksAt({"stream"}) /\ up = << >> /\ down = <<Frame("ok", cur)>>
    \/ /\ srv = "read" /\ up = << >>
       /\ down = <<Frame("ok", cur), Frame("json", cur), Frame("jsonEnd", cur)>>

InTurn ==
    \/ rest \in {"pooled", "send"} /\ Quiet
    \/ rest = "first" /\ Asked
    \/ /\ rest = "first" /\ WorksAt({"create", "body"})
       /\ up = << >> /\ down = <<Frame("authenticated", cur)>>
    \/ rest = "body" /\ WorksAt({"create", "body"}) /\ up = << >> /\ down = << >>
    \/ /\ rest = "bodyEnd" /\ WorksAt({"create", "body"})
       /\ up \in {<<Frame("chunk", cur)>>, << >>} /\ down = << >>
    \/ /\ rest = "final" /\ kind[cur] \in Posts \ {"postHuge"}
       /\ \/ /\ WorksAt({"create", "body"}) /\ down = << >>
             /\ up \in {<<Frame("chunk", cur), Frame("end", cur)>>,
                        <<Frame("end", cur)>>}
          \/ WorksAt({"execute"}) /\ up = << >> /\ down = << >>
          \/ Answering
    \/ /\ rest = "final" /\ kind[cur] \notin Posts
       /\ \/ Asked
          \/ WorksAt({"create", "execute"}) /\ up = << >> /\ down = << >>
          \/ Answering
    \/ /\ rest = "json" /\ up = << >>
       /\ \/ WorksAt({"stream"}) /\ down = << >>
          \/ /\ srv = "read"
             /\ down \in {<<Frame("json", cur), Frame("jsonEnd", cur)>>,
                          <<Frame("jsonEnd", cur)>>}
    \/ rest = "closed" /\ srv \in {"read", "closed"} /\ up = << >>
    \/ rest = "closed" /\ cur \in Id /\ ans[cur] = "late"
    \/ rest = "closed" /\ cur \in Id /\ kind[cur] = "postHuge"
          /\ srv # "execute"

InTurnWhileClean == cur \in Clean => InTurn

\* Until something spoils the connection, no request is left behind unread or
\* unfinished when the next one begins.
NothingLeftBehind ==
    /\ srvReq < cur /\ srvReq \in Clean => srv \in {"read", "closed"}
    /\ \A i \in 1..Len(up) :
        up[i].t = "request" /\ up[i].id < cur => up[i].id \notin Clean

CoreInv ==
    /\ TypeOK /\ FramesOK /\ PlacesOK
    /\ RequestsInOrder /\ AnswersInOrder /\ AuthenticatedFirst
    /\ AnswerIsOwn /\ OkMeansMade

IInv == CoreInv /\ InTurnWhileClean /\ NothingLeftBehind

--------------------------------------------------------------------------------
(***************************************************************************)
(* Lemmas about the two directions of the connection.                      *)
(***************************************************************************)

\* What reading the first frame leaves.
LEMMA FrameRead ==
    ASSUME NEW S, NEW q \in Seq(S), q # << >>
    PROVE  /\ Len(q) \in Nat \ {0}
           /\ Head(q) = q[1] /\ q[1] \in S
           /\ Tail(q) \in Seq(S)
           /\ Len(Tail(q)) = Len(q) - 1
           /\ \A i \in 1..Len(Tail(q)) : Tail(q)[i] = q[i + 1]
  OBVIOUS

\* What writing a frame does.
LEMMA FrameWritten ==
    ASSUME NEW S, NEW q \in Seq(S), NEW x \in S
    PROVE  /\ Append(q, x) \in Seq(S)
           /\ Len(q) \in Nat
           /\ Len(Append(q, x)) = Len(q) + 1
           /\ \A i \in 1..Len(q) : Append(q, x)[i] = q[i]
           /\ Append(q, x)[Len(q) + 1] = x
  OBVIOUS

\* The frames that the code writes and reads, spelled out.
LEMMA ShortSequences ==
    ASSUME NEW x, NEW y, NEW z
    PROVE  /\ << >> # <<x>> /\ << >> # <<x, y>> /\ << >> # <<x, y, z>>
           /\ Head(<<x>>) = x /\ Tail(<<x>>) = << >>
           /\ Head(<<x, y>>) = x /\ Tail(<<x, y>>) = <<y>>
           /\ Head(<<x, y, z>>) = x /\ Tail(<<x, y, z>>) = <<y, z>>
           /\ Append(<< >>, x) = <<x>> /\ Append(<<x>>, y) = <<x, y>>
           /\ << >> \o << >> = << >> /\ << >> \o <<x>> = <<x>>
           /\ <<x>> \o << >> = <<x>>
           /\ << >> \o <<x, y>> = <<x, y>> /\ <<x, y>> \o << >> = <<x, y>>
<1>1. /\ << >> # <<x>> /\ << >> # <<x, y>> /\ << >> # <<x, y, z>>
      /\ Head(<<x>>) = x /\ Head(<<x, y>>) = x /\ Head(<<x, y, z>>) = x
  OBVIOUS
<1>2. Tail(<<x>>) = << >>
  OBVIOUS
<1>3. Tail(<<x, y>>) = <<y>>
  OBVIOUS
<1>4. Tail(<<x, y, z>>) = <<y, z>>
  OBVIOUS
<1>5. Append(<< >>, x) = <<x>>
  OBVIOUS
<1>6. /\ << >> \o << >> = << >> /\ << >> \o <<x>> = <<x>> /\ <<x>> \o << >> = <<x>>
      /\ << >> \o <<x, y>> = <<x, y>> /\ <<x, y>> \o << >> = <<x, y>>
  BY ConcatEmptySeq
<1> DEFINE S == {x, y, z}
<1>7. /\ <<x>> \in Seq(S) /\ <<y, z>> \in Seq(S) /\ <<x, y>> \in Seq(S)
      /\ <<x, y, z>> \in Seq(S)
  OBVIOUS
<1>8. Append(<<x>>, y) = <<x, y>>
  <2>1. /\ Append(<<x>>, y) \in Seq(S) /\ Len(Append(<<x>>, y)) = 2
        /\ \A i \in 1..2 : Append(<<x>>, y)[i] = <<x, y>>[i]
    BY <1>7, AppendProperties
  <2> QED
    BY <1>7, <2>1, SeqEqual
<1> QED
  BY <1>1, <1>2, <1>3, <1>4, <1>5, <1>6, <1>8

\* The payload after the response.
LEMMA OneAndTwo ==
    ASSUME NEW x, NEW y, NEW z
    PROVE  <<x>> \o <<y, z>> = <<x, y, z>>
<1> DEFINE S == {x, y, z}
<1>1. <<x>> \in Seq(S) /\ <<y, z>> \in Seq(S) /\ <<x, y, z>> \in Seq(S)
  OBVIOUS
<1>2. <<x>> \o <<y, z>> \in Seq(S) /\ Len(<<x>> \o <<y, z>>) = 3
  BY <1>1, ConcatProperties
<1>3. \A i \in 1..3 : (<<x>> \o <<y, z>>)[i] = <<x, y, z>>[i]
  BY <1>1, ConcatProperties
<1> QED
  BY <1>1, <1>2, <1>3, SeqEqual

\* What the IO manager writes.  After the REST server has closed it is lost.
LEMMA FramesSent ==
    ASSUME FramesOK, NEW fs \in Seq(DownFrames), Send(fs)
    PROVE  /\ down' \in Seq(DownFrames)
           /\ Len(down) \in Nat /\ Len(down') \in Nat /\ Len(down) <= Len(down')
           /\ \A i \in 1..Len(down) : down'[i] = down[i]
           /\ \A i \in 1..Len(down') : i > Len(down) =>
                \E j \in 1..Len(fs) : j = i - Len(down) /\ down'[i] = fs[j]
<1>1. down \in Seq(DownFrames)
  BY DEF FramesOK
<1>2. CASE rest = "closed"
  <2>1. down' = down
    BY <1>2 DEF Send
  <2> QED
    BY <1>1, <2>1
<1>3. CASE rest # "closed"
  <2>1. down' = down \o fs
    BY <1>3 DEF Send
  <2> QED
    BY <1>1, <2>1
<1> QED
  BY <1>2, <1>3

--------------------------------------------------------------------------------
(***************************************************************************)
(* The REST server: steps preserve the part of the invariant that holds    *)
(* also on a connection that is spoiled.                                   *)
(***************************************************************************)

\* What the REST server does to the frames for it: it leaves them, or reads one.
Reads == down' = down \/ (down # << >> /\ down' = Tail(down))

\* Reading keeps the order of what is left.
LEMMA ReadsKeepOrder ==
    ASSUME FramesOK, Reads
    PROVE  /\ down' \in Seq(DownFrames)
           /\ \E d \in {0, 1} :
                \A i \in 1..Len(down') :
                    i + d \in 1..Len(down) /\ down'[i] = down[i + d]
           /\ Len(down) \in Nat /\ Len(down') \in Nat
<1>1. down \in Seq(DownFrames)
  BY DEF FramesOK
<1>2. CASE down' = down
  <2>1. \A i \in 1..Len(down') : i + 0 \in 1..Len(down) /\ down'[i] = down[i + 0]
    BY <1>1, <1>2
  <2> QED
    BY <1>1, <1>2, <2>1
<1>3. CASE down # << >> /\ down' = Tail(down)
  <2>1. \A i \in 1..Len(down') : i + 1 \in 1..Len(down) /\ down'[i] = down[i + 1]
    BY <1>1, <1>3, FrameRead
  <2> QED
    BY <1>1, <1>3, <2>1, FrameRead
<1> QED
  BY <1>2, <1>3 DEF Reads

\* A request is answered in one of the ways in which it can be.
Answers ==
    \E a \in {"refused", "failed", "late", "left", "success"} :
        /\ rest \notin {"pooled", "closed"}
        /\ a = "success" => rest = "json"
        /\ ans' = [ans EXCEPT ![cur] = a]
        /\ rest' \in {"pooled", "closed"}
        /\ Reads
        /\ relayed' \in {relayed, [relayed EXCEPT ![cur] = @ \cup {cur}]}
        /\ UNCHANGED <<kind, cur, up, srv, srvReq, garbled, gotData, stored>>

\* Every action that calls Answer is such a step.
LEMMA AnswerSteps ==
    ASSUME CoreInv,
           \/ WriteFails \/ ReadError \/ ReadForeign \/ BodyEof \/ BodyTooLarge
           \/ ReadJsonEnd \/ ClientGone \/ ReadTimeout \/ ReadEof
    PROVE  Answers
<1> USE DEF Answers, Answer, Reads, srvVars
<1>1. CASE WriteFails
  BY <1>1 DEF WriteFails
<1>2. CASE ReadError
  BY <1>2 DEF ReadError, OwnResponse
<1>3. CASE ReadForeign
  BY <1>3 DEF ReadForeign
<1>4. CASE BodyEof
  BY <1>4 DEF BodyEof
<1>5. CASE BodyTooLarge
  BY <1>5 DEF BodyTooLarge
<1>6. CASE ReadJsonEnd
  BY <1>6 DEF ReadJsonEnd
<1>7. CASE ClientGone
  BY <1>7 DEF ClientGone
<1>8. CASE ReadTimeout
  BY <1>8 DEF ReadTimeout
<1>9. CASE ReadEof
  BY <1>9 DEF ReadEof
<1> QED
  BY <1>1, <1>2, <1>3, <1>4, <1>5, <1>6, <1>7, <1>8, <1>9

\* An answer keeps the core of the invariant.
LEMMA AnswersCore ==
    ASSUME CoreInv, Answers
    PROVE  CoreInv'
<1>0. /\ TypeOK /\ FramesOK /\ PlacesOK /\ Reads
      /\ UNCHANGED <<kind, cur, up, srv, srvReq, garbled, gotData, stored>>
      /\ rest' \in {"pooled", "closed"} /\ rest \notin {"pooled", "closed"}
  BY DEF CoreInv, Answers
<1>1. cur \in Id /\ cur \in Nat
  BY <1>0, ExchangeAssumption DEF PlacesOK, Id
<1>2. PICK a \in {"refused", "failed", "late", "left", "success"} :
            ans' = [ans EXCEPT ![cur] = a] /\ (a = "success" => rest = "json")
  BY DEF Answers
<1>3. /\ ans'[cur] = a /\ \A r \in Id \ {cur} : ans'[r] = ans[r]
      /\ ans' \in [Id -> {"none", "refused", "failed", "late", "left", "success"}]
  BY <1>0, <1>1, <1>2 DEF TypeOK
<1>4. relayed' \in [Id -> SUBSET Id] /\ AnswerIsOwn'
  BY <1>0, <1>1 DEF CoreInv, TypeOK, Answers, AnswerIsOwn
<1>5. FramesOK'
  BY <1>0, ReadsKeepOrder DEF FramesOK
<1>6. TypeOK'
  <2>1. \A r \in 1..cur : ans'[r] # "none"
    BY <1>0, <1>1, <1>2, <1>3, ExchangeAssumption DEF TypeOK, Id
  <2>2. /\ \A i \in 1..Len(down') : down'[i] \in DownFrames
        /\ \A i \in 1..Len(up') : up'[i] \in UpFrames
    BY <1>5, ElementOfSeq DEF FramesOK
  <2> QED
    BY <1>0, <1>3, <1>4, <2>1, <2>2 DEF TypeOK
<1>7. PlacesOK'
  BY <1>0, <1>1, <1>3, ExchangeAssumption DEF TypeOK, PlacesOK, Id
<1>8. RequestsInOrder'
  BY <1>0 DEF CoreInv, RequestsInOrder
<1>9. PICK d \in {0, 1} : \A i \in 1..Len(down') :
            i + d \in 1..Len(down) /\ down'[i] = down[i + d]
  BY <1>0, ReadsKeepOrder
<1>10. AnswersInOrder' /\ AuthenticatedFirst'
  <2>1. \A i, j \in 1..Len(down') : i < j => i + d < j + d
    BY <1>0, ReadsKeepOrder
  <2> QED
    BY <1>0, <1>9, <2>1 DEF CoreInv, AnswersInOrder, AuthenticatedFirst
<1>11. OkMeansMade'
  BY <1>0, <1>1, <1>2, <1>3, <1>9 DEF CoreInv, OkMeansMade, Made
<1> QED
  BY <1>4, <1>5, <1>6, <1>7, <1>8, <1>10, <1>11 DEF CoreInv

\* A request begins; nothing in the connection is its own yet.
LEMMA BeginCore ==
    ASSUME CoreInv, NEW k \in Kinds, Begin(k)
    PROVE  CoreInv'
<1>0. /\ TypeOK /\ FramesOK /\ PlacesOK
      /\ rest = "pooled" /\ cur < MaxRequests /\ cur' = cur + 1
      /\ kind' = [kind EXCEPT ![cur + 1] = k]
      /\ UNCHANGED <<up, down, relayed, srv, srvReq, garbled, gotData, stored>>
  BY DEF CoreInv, Begin, srvVars
<1>1. /\ cur \in Nat /\ cur' \in Id /\ cur + 1 \in Id /\ k \in AllKinds
      /\ srvReq \in Nat
  BY <1>0, ExchangeAssumption, KindsAssumption DEF TypeOK, Id
<1>2. \/ ans' = [ans EXCEPT ![cur + 1] = "refused"] /\ rest' = "pooled"
      \/ ans' = ans /\ rest' = "send"
  BY DEF Begin
<1>3. /\ kind' \in [Id -> AllKinds \cup {"none"}]
      /\ \A r \in Id : r # cur + 1 => kind'[r] = kind[r] /\ ans'[r] = ans[r]
      /\ ans' \in [Id -> {"none", "refused", "failed", "late", "left", "success"}]
      /\ ans[cur + 1] = "none"
      /\ rest' = "pooled" => ans'[cur + 1] = "refused"
      /\ rest' = "send" => ans'[cur + 1] = "none"
      /\ rest' \in {"pooled", "send"}
  BY <1>0, <1>1, <1>2 DEF TypeOK, PlacesOK
<1>4. TypeOK'
  <2>1. \A r \in 1..cur' : r < cur' \/ rest' \in {"pooled", "closed"} => ans'[r] # "none"
    <3> SUFFICES ASSUME NEW r \in 1..cur',
                        r < cur' \/ rest' \in {"pooled", "closed"}
                 PROVE  ans'[r] # "none"
      OBVIOUS
    <3>1. r \in Id /\ (r \in 1..cur \/ r = cur + 1)
      BY <1>0, <1>1, ExchangeAssumption DEF Id
    <3>2. CASE r = cur + 1
      BY <3>2, <1>0, <1>1, <1>3
    <3>3. CASE r \in 1..cur /\ r # cur + 1
      BY <3>1, <3>3, <1>0, <1>3 DEF TypeOK
    <3> QED
      BY <3>1, <3>2, <3>3
  <2>2. cur' \in 0..MaxRequests
    BY <1>0, <1>1, ExchangeAssumption
  <2> QED
    BY <1>0, <1>3, <2>1, <2>2 DEF TypeOK
<1>5. FramesOK'
  BY <1>0 DEF FramesOK
<1>6. PlacesOK'
  BY <1>0, <1>1, <1>3, ExchangeAssumption DEF PlacesOK, Id
<1>7. \A i \in 1..Len(down) : down[i].id \in Id /\ down[i].id # cur + 1
  <2>1. \A i \in 1..Len(down) : down[i].id \in Id
    BY <1>0 DEF TypeOK, DownFrames
  <2> QED
    BY <1>0, <1>1, <2>1, ExchangeAssumption DEF CoreInv, AnswersInOrder, PlacesOK, Id
<1>8. RequestsInOrder'
  <2>1. \A i \in 1..Len(up) : up[i].t = "request" => up[i].id \in Id
    BY <1>0 DEF TypeOK, UpFrames
  <2>2. \A i \in 1..Len(up) : up[i].t = "request" => srvReq < up[i].id /\ up[i].id <= cur
    BY DEF CoreInv, RequestsInOrder
  <2>3. \A i \in 1..Len(up) : up[i].t = "request" => up[i].id < cur + 1
    BY <1>1, <2>1, <2>2, ExchangeAssumption DEF Id
  <2>4. \A i \in 1..Len(up) : up[i].t = "request" => up[i].id <= cur + 1
    BY <1>1, <2>1, <2>2, ExchangeAssumption DEF Id
  <2> QED
    BY <1>0, <2>2, <2>3, <2>4 DEF CoreInv, RequestsInOrder
<1>9. AnswersInOrder' /\ AnswerIsOwn'
  BY <1>0, <1>3 DEF CoreInv, AnswersInOrder, AnswerIsOwn
<1>10. AuthenticatedFirst'
  BY <1>0, <1>3, <1>7 DEF CoreInv, AuthenticatedFirst
<1>11. OkMeansMade'
  BY <1>0, <1>3, <1>7 DEF CoreInv, OkMeansMade, Made
<1> QED
  BY <1>4, <1>5, <1>6, <1>8, <1>9, <1>10, <1>11 DEF CoreInv

\* The connection is closed at the end of the REST server.
LEMMA CloseConnectionCore ==
    ASSUME CoreInv, CloseConnection
    PROVE  CoreInv'
<1>0. /\ rest = "pooled" /\ rest' = "closed"
      /\ UNCHANGED <<kind, cur, up, down, ans, relayed, srv, srvReq, garbled,
                     gotData, stored>>
  BY DEF CloseConnection, srvVars
<1>1. TypeOK' /\ FramesOK' /\ PlacesOK'
  BY <1>0 DEF CoreInv, TypeOK, FramesOK, PlacesOK
<1>2. RequestsInOrder' /\ AnswersInOrder' /\ AuthenticatedFirst'
  BY <1>0 DEF CoreInv, RequestsInOrder, AnswersInOrder, AuthenticatedFirst
<1>3. AnswerIsOwn' /\ OkMeansMade'
  BY <1>0 DEF CoreInv, AnswerIsOwn, OkMeansMade, Made
<1> QED
  BY <1>1, <1>2, <1>3 DEF CoreInv

\* A frame of the request is written.
LEMMA WritesCore ==
    ASSUME CoreInv, WriteRequest \/ WriteChunk \/ WriteEnd
    PROVE  CoreInv'
<1>0. /\ TypeOK /\ FramesOK /\ PlacesOK /\ rest \in {"send", "body", "bodyEnd"}
      /\ UNCHANGED <<kind, cur, down, ans, relayed, srv, srvReq, garbled, gotData,
                     stored>>
  BY DEF CoreInv, WriteRequest, WriteChunk, WriteEnd, srvVars
<1>1. cur \in Id /\ cur \in Nat /\ srvReq \in Nat /\ ans[cur] = "none"
  BY <1>0, ExchangeAssumption DEF TypeOK, PlacesOK, Id
<1>2. PICK t \in {"request", "chunk", "end"} :
        /\ up' = Append(up, Frame(t, cur))
        /\ t = "request" <=> rest = "send"
        /\ t = "request" => rest' \in {"first", "final"}
        /\ t = "chunk" => rest' = "bodyEnd"
        /\ t = "end" => rest' = "final"
        /\ rest' = "first" => kind[cur] \in Posts
        /\ rest' = "final" /\ kind[cur] \in Posts => t = "end"
  BY DEF WriteRequest, WriteChunk, WriteEnd
<1>3. /\ Frame(t, cur) \in UpFrames
      /\ Frame(t, cur).t = t /\ Frame(t, cur).id = cur
  BY <1>1 DEF UpFrames, Frame
<1>4. /\ up' \in Seq(UpFrames) /\ Len(up) \in Nat /\ Len(up') = Len(up) + 1
      /\ \A i \in 1..Len(up) : up'[i] = up[i]
      /\ up'[Len(up')] = Frame(t, cur)
  BY <1>0, <1>2, <1>3, FrameWritten DEF FramesOK
<1>5. FramesOK' /\ rest' \in {"first", "final", "bodyEnd"}
  BY <1>0, <1>2, <1>4 DEF FramesOK
<1>6. TypeOK'
  <2>1. \A i \in 1..Len(up') : up'[i] \in UpFrames
    BY <1>4, ElementOfSeq
  <2> QED
    BY <1>0, <1>5, <2>1 DEF TypeOK
<1>7. PlacesOK'
  BY <1>0, <1>1, <1>2, <1>5 DEF PlacesOK
<1>8. RequestsInOrder'
  <2>1. \A i \in 1..Len(up) : up[i].t = "request" =>
            srvReq < up[i].id /\ up[i].id <= cur /\ (rest = "send" => up[i].id < cur)
    BY DEF CoreInv, RequestsInOrder
  <2>2. \A i \in 1..Len(up') : up'[i].t = "request" =>
            srvReq < up'[i].id /\ up'[i].id <= cur
    <3> SUFFICES ASSUME NEW i \in 1..Len(up'), up'[i].t = "request"
                 PROVE  srvReq < up'[i].id /\ up'[i].id <= cur
      OBVIOUS
    <3>1. CASE i \in 1..Len(up)
      BY <3>1, <2>1, <1>4
    <3>2. CASE i = Len(up')
      <4>1. t = "request" /\ up'[i].id = cur
        BY <3>2, <1>3, <1>4
      <4> QED
        BY <4>1, <1>0, <1>1, <1>2 DEF PlacesOK
    <3> QED
      BY <1>4, <3>1, <3>2
  <2>3. \A i, j \in 1..Len(up') :
            i < j /\ up'[i].t = "request" /\ up'[j].t = "request"
                => up'[i].id < up'[j].id
    <3> SUFFICES ASSUME NEW i \in 1..Len(up'), NEW j \in 1..Len(up'), i < j,
                        up'[i].t = "request", up'[j].t = "request"
                 PROVE  up'[i].id < up'[j].id
      OBVIOUS
    <3>1. i \in 1..Len(up) /\ up'[i] = up[i]
      BY <1>4
    <3>2. CASE j \in 1..Len(up)
      BY <3>1, <3>2, <1>4 DEF CoreInv, RequestsInOrder
    <3>3. CASE j = Len(up')
      <4>1. t = "request" /\ up'[j].id = cur
        BY <3>3, <1>3, <1>4
      <4> QED
        BY <4>1, <3>1, <2>1, <1>2
    <3> QED
      BY <1>4, <3>2, <3>3
  <2> QED
    BY <1>0, <1>5, <2>2, <2>3 DEF RequestsInOrder
<1>9. AnswersInOrder' /\ AnswerIsOwn' /\ OkMeansMade'
  BY <1>0, <1>5 DEF CoreInv, AnswersInOrder, AnswerIsOwn, OkMeansMade, Made
<1>10. AuthenticatedFirst'
  <2>1. rest' = "bodyEnd" \/ (rest' = "final" /\ kind[cur] \in Posts)
            => rest \in {"body", "bodyEnd"}
    BY <1>0, <1>2
  <2> QED
    BY <1>0, <1>5, <2>1 DEF CoreInv, AuthenticatedFirst
<1> QED
  BY <1>5, <1>6, <1>7, <1>8, <1>9, <1>10 DEF CoreInv

\* The first frame is read and its content is relayed or waited for no more.
LEMMA ReadsCore ==
    ASSUME CoreInv, ReadAuthenticated \/ ReadOk \/ ReadJson
    PROVE  CoreInv'
<1>0. /\ TypeOK /\ FramesOK /\ PlacesOK /\ Reads
      /\ down # << >> /\ down' = Tail(down)
      /\ UNCHANGED <<kind, cur, up, ans, srv, srvReq, garbled, gotData, stored>>
      /\ relayed' = [relayed EXCEPT ![cur] = @ \cup {Head(down).id}]
      /\ rest \in {"first", "final", "json"} /\ rest' \in {"body", "json"}
  BY DEF CoreInv, ReadAuthenticated, ReadOk, ReadJson, Reads, srvVars
<1>1. cur \in Id /\ cur \in Nat /\ srvReq \in Nat /\ ans[cur] = "none"
  BY <1>0, ExchangeAssumption DEF TypeOK, PlacesOK, Id
<1>2. /\ Len(down) \in Nat \ {0} /\ Head(down) = down[1]
      /\ Len(down') = Len(down) - 1 /\ down' \in Seq(DownFrames)
      /\ \A i \in 1..Len(down') : down'[i] = down[i + 1]
  BY <1>0, FrameRead DEF FramesOK
<1>3. Head(down).id = cur
  <2>1. CASE ReadAuthenticated \/ ReadOk
    BY <2>1 DEF ReadAuthenticated, ReadOk, OwnResponse
  <2>2. CASE ReadJson
    BY <2>2, <1>2 DEF ReadJson, CoreInv, AnswersInOrder
  <2> QED
    BY <2>1, <2>2
<1>4. srvReq = cur
  BY <1>0, <1>1, <1>2, <1>3 DEF CoreInv, AnswersInOrder, PlacesOK
<1>5. FramesOK' /\ TypeOK'
  <2>1. \A i \in 1..Len(down') : down'[i] \in DownFrames
    BY <1>2, ElementOfSeq
  <2>2. relayed' \in [Id -> SUBSET Id]
    BY <1>0, <1>1, <1>3 DEF TypeOK
  <2> QED
    BY <1>0, <1>2, <2>1, <2>2 DEF FramesOK, TypeOK
<1>6. PlacesOK' /\ RequestsInOrder'
  <2>1. rest' = "body" => rest = "first"
    BY DEF ReadAuthenticated, ReadOk, ReadJson
  <2> QED
    BY <1>0, <1>1, <2>1 DEF CoreInv, PlacesOK, RequestsInOrder
<1>7. \A i \in 1..Len(down) : down[i].id = cur
  <2>1. \A i \in 1..Len(down) : down[i].id \in Nat
    BY <1>0, ExchangeAssumption DEF TypeOK, DownFrames, Id
  <2>2. \A i \in 1..Len(down) : down[i].id <= cur
    BY <1>4 DEF CoreInv, AnswersInOrder
  <2>3. \A i \in 1..Len(down) : 1 < i => cur <= down[i].id
    BY <1>2, <1>3 DEF CoreInv, AnswersInOrder
  <2> QED
    BY <1>1, <1>2, <1>3, <2>1, <2>2, <2>3
<1>8. \A i \in 1..Len(down') : i + 1 \in 1..Len(down) /\ 1 < i + 1
  BY <1>2
<1>9. AnswersInOrder'
  BY <1>0, <1>1, <1>2, <1>4, <1>7, <1>8 DEF CoreInv, AnswersInOrder
<1>10. AnswerIsOwn'
  BY <1>0, <1>1, <1>3 DEF CoreInv, TypeOK, AnswerIsOwn
<1>11. \A i \in 1..Len(down') : down'[i].t # "authenticated"
  BY <1>1, <1>2, <1>3, <1>7, <1>8 DEF CoreInv, AuthenticatedFirst
<1>12. AuthenticatedFirst'
  BY <1>0, <1>4, <1>11 DEF CoreInv, AuthenticatedFirst
<1>13. OkMeansMade'
  <2>1. rest' = "json" => cur \in Made
    <3>1. CASE ReadOk
      <4>1. rest = "final" /\ Head(down).t \in {"authenticated", "ok"}
        BY <3>1 DEF ReadOk, OwnResponse, Responses
      <4>2. down[1].t # "authenticated"
        BY <1>2, <1>3, <4>1 DEF CoreInv, AuthenticatedFirst
      <4> QED
        BY <1>2, <1>3, <4>1, <4>2 DEF CoreInv, OkMeansMade
    <3>2. CASE ReadJson
      BY <3>2 DEF ReadJson, CoreInv, OkMeansMade
    <3>3. CASE ReadAuthenticated
      BY <3>3 DEF ReadAuthenticated
    <3> QED
      BY <3>1, <3>2, <3>3
  <2> QED
    BY <1>0, <1>2, <1>8, <2>1 DEF CoreInv, OkMeansMade, Made
<1> QED
  BY <1>5, <1>6, <1>9, <1>10, <1>12, <1>13 DEF CoreInv

--------------------------------------------------------------------------------
(***************************************************************************)
(* The IO manager: the same for its steps.                                 *)
(***************************************************************************)

\* What a step of the IO manager that stays with its request does to the core.
LEMMA ServesCore ==
    ASSUME CoreInv, NEW fs \in Seq(DownFrames), Send(fs),
           UNCHANGED <<kind, cur, rest, ans, relayed, srvReq>>,
           \A j \in 1..Len(fs) :
               /\ fs[j].id = srvReq
               /\ fs[j].t # "authenticated"
               /\ fs[j].t = "ok" => srvReq \in Made',
           Made \subseteq Made',
           up' \in Seq(UpFrames), RequestsInOrder',
           srv' \in {"read", "create", "body", "execute", "stream", "closed"},
           srv' \notin {"read", "closed"} => srvReq \in Id,
           garbled' \in BOOLEAN, gotData' \in BOOLEAN,
           stored' \in [Id -> {"no", "part", "all"}]
    PROVE  CoreInv'
<1>0. TypeOK /\ FramesOK /\ PlacesOK
  BY DEF CoreInv
<1>1. /\ down' \in Seq(DownFrames)
      /\ Len(down) \in Nat /\ Len(down') \in Nat /\ Len(down) <= Len(down')
      /\ \A i \in 1..Len(down) : down'[i] = down[i]
      /\ \A i \in 1..Len(down') : i > Len(down) =>
            \E j \in 1..Len(fs) : down'[i] = fs[j]
  BY <1>0, FramesSent
<1>2. \A i \in 1..Len(down') : i > Len(down) =>
            /\ down'[i].id = srvReq /\ down'[i].t # "authenticated"
            /\ down'[i].t = "ok" => srvReq \in Made'
  BY <1>1
<1>3. FramesOK' /\ TypeOK'
  <2>1. /\ \A i \in 1..Len(down') : down'[i] \in DownFrames
        /\ \A i \in 1..Len(up') : up'[i] \in UpFrames
    BY <1>1, ElementOfSeq
  <2> QED
    BY <1>0, <1>1, <2>1 DEF FramesOK, TypeOK
<1>4. PlacesOK' /\ AnswerIsOwn'
  BY <1>0 DEF CoreInv, PlacesOK, AnswerIsOwn
<1>5. \A i \in 1..Len(down') : i \in 1..Len(down) \/ i > Len(down)
  BY <1>1
<1>6. \A i \in 1..Len(down) : down[i].id \in Id /\ down[i].id <= srvReq
  BY <1>0 DEF CoreInv, TypeOK, DownFrames, AnswersInOrder
<1>7. AnswersInOrder'
  <2>1. \A i \in 1..Len(down') : down'[i].id <= srvReq
    BY <1>0, <1>1, <1>2, <1>5, <1>6 DEF TypeOK
  <2>2. \A i, j \in 1..Len(down') : i < j => down'[i].id <= down'[j].id
    <3> SUFFICES ASSUME NEW i \in 1..Len(down'), NEW j \in 1..Len(down'), i < j
                 PROVE  down'[i].id <= down'[j].id
      OBVIOUS
    <3>1. CASE j > Len(down)
      BY <3>1, <2>1, <1>2
    <3>2. CASE j \in 1..Len(down)
      <4>1. i \in 1..Len(down)
        BY <3>2, <1>1
      <4> QED
        BY <3>2, <4>1, <1>1 DEF CoreInv, AnswersInOrder
    <3> QED
      BY <1>5, <3>1, <3>2
  <2> QED
    BY <1>1, <1>2, <1>5, <2>1, <2>2 DEF CoreInv, AnswersInOrder
<1>8. AuthenticatedFirst'
  <2>1. \A i \in 1..Len(down') : down'[i].t = "authenticated" =>
            i \in 1..Len(down) /\ down'[i] = down[i]
    BY <1>1, <1>2, <1>5
  <2>2. \A i, j \in 1..Len(down') :
            i < j /\ down'[j].t = "authenticated" => down'[i].id < down'[j].id
    <3> SUFFICES ASSUME NEW i \in 1..Len(down'), NEW j \in 1..Len(down'), i < j,
                        down'[j].t = "authenticated"
                 PROVE  down'[i].id < down'[j].id
      OBVIOUS
    <3>1. j \in 1..Len(down) /\ i \in 1..Len(down)
      BY <1>1, <2>1
    <3> QED
      BY <3>1, <1>1 DEF CoreInv, AuthenticatedFirst
  <2> QED
    BY <2>1, <2>2 DEF CoreInv, AuthenticatedFirst
<1>9. OkMeansMade'
  <2>1. \A i \in 1..Len(down') : down'[i].t = "ok" => down'[i].id \in Made'
    <3> SUFFICES ASSUME NEW i \in 1..Len(down'), down'[i].t = "ok"
                 PROVE  down'[i].id \in Made'
      OBVIOUS
    <3>1. CASE i > Len(down)
      <4>1. down'[i].id = srvReq /\ srvReq \in Made'
        BY <3>1, <1>2
      <4> QED
        BY <4>1
    <3>2. CASE i \in 1..Len(down)
      <4>1. down'[i] = down[i] /\ down[i].id \in Made /\ down[i].id \in Id
        BY <3>2, <1>1, <1>6 DEF CoreInv, OkMeansMade
      <4> QED
        BY <4>1
    <3> QED
      BY <1>5, <3>1, <3>2
  <2>2. rest' = "json" => cur \in Made'
    BY DEF CoreInv, OkMeansMade
  <2>3. \A r \in Id : ans'[r] = "success" => r \in Made'
    BY DEF CoreInv, OkMeansMade
  <2> QED
    BY <2>1, <2>2, <2>3 DEF OkMeansMade
<1> QED
  BY <1>3, <1>4, <1>7, <1>8, <1>9 DEF CoreInv

\* What the IO manager does to the frames for it.
Takes ==
    \/ up' = up
    \/ up # << >> /\ up' = Tail(up)
    \/ up # << >> /\ up' = <<Frame("garbage", 0)>> \o Tail(up)

\* What is left of them is in order.
LEMMA TakesKeepOrder ==
    ASSUME CoreInv, Takes, UNCHANGED <<cur, rest, srvReq>>
    PROVE  up' \in Seq(UpFrames) /\ RequestsInOrder'
<1>0. up \in Seq(UpFrames) /\ RequestsInOrder
  BY DEF CoreInv, FramesOK
<1>1. CASE up' = up
  BY <1>0, <1>1 DEF RequestsInOrder
<1>2. CASE up # << >> /\ up' = Tail(up)
  <2>1. /\ up' \in Seq(UpFrames) /\ Len(up) \in Nat \ {0}
        /\ Len(up') = Len(up) - 1
        /\ \A i \in 1..Len(up') : up'[i] = up[i + 1]
    BY <1>0, <1>2, FrameRead
  <2>2. /\ \A i \in 1..Len(up') : i + 1 \in 1..Len(up)
        /\ \A i, j \in 1..Len(up') : i < j => i + 1 < j + 1
    BY <2>1
  <2> QED
    BY <1>0, <2>1, <2>2 DEF RequestsInOrder
<1>3. CASE up # << >> /\ up' = <<Frame("garbage", 0)>> \o Tail(up)
  <2>1. /\ Tail(up) \in Seq(UpFrames) /\ Len(up) \in Nat \ {0}
        /\ Len(Tail(up)) = Len(up) - 1
        /\ \A i \in 1..Len(Tail(up)) : Tail(up)[i] = up[i + 1]
    BY <1>0, <1>3, FrameRead
  <2>2. Frame("garbage", 0) \in UpFrames /\ Frame("garbage", 0).t = "garbage"
    BY DEF UpFrames, Frame
  <2> DEFINE g == <<Frame("garbage", 0)>>
             tl == Tail(up)
  <2>3. g \in Seq(UpFrames) /\ Len(g) = 1 /\ g[1] = Frame("garbage", 0)
    BY <2>2
  <2> HIDE DEF g, tl
  <2>4. /\ g \o tl \in Seq(UpFrames)
        /\ Len(g \o tl) = Len(up)
        /\ (g \o tl)[1] = g[1]
        /\ \A i \in 1..Len(up) : i # 1 => (g \o tl)[i] = tl[i - 1]
    <3>1. tl \in Seq(UpFrames) /\ Len(tl) = Len(up) - 1 /\ Len(up) \in Nat
      BY <2>1 DEF tl
    <3>2. /\ g \o tl \in Seq(UpFrames)
          /\ Len(g \o tl) = Len(g) + Len(tl)
          /\ \A i \in 1..(Len(g) + Len(tl)) :
               (g \o tl)[i] = IF i <= Len(g) THEN g[i] ELSE tl[i - Len(g)]
      BY <2>3, <3>1, ConcatProperties
    <3>3. Len(g) + Len(tl) = Len(up) /\ Len(g) = 1 /\ 1 \in 1..Len(up)
      BY <2>1, <2>3, <3>1
    <3> QED
      BY <3>1, <3>2, <3>3
  <2>5. \A i \in 1..Len(up) : i # 1 => tl[i - 1] = up[i]
    BY <2>1 DEF tl
  <2>6. /\ up' \in Seq(UpFrames) /\ Len(up') = Len(up)
        /\ up'[1].t = "garbage" /\ \A i \in 1..Len(up) : i # 1 => up'[i] = up[i]
    BY <1>3, <2>2, <2>3, <2>4, <2>5 DEF g, tl
  <2> QED
    BY <1>0, <2>6 DEF RequestsInOrder
<1> QED
  BY <1>1, <1>2, <1>3 DEF Takes

\* The actions of the IO manager, except that it reads a request.
ServerActs ==
    \/ SrvMisreads \/ SrvDisconnected \/ SrvCreate \/ SrvReadChunk \/ SrvReadEnd
    \/ SrvSwallows \/ SrvSwallowsEnd \/ SrvBodyCut \/ SrvExecute \/ SrvStream

\* Writing nothing is a way of sending.
LEMMA SendsNothing ==
    ASSUME FramesOK, down' = down
    PROVE  Send(<< >>)
<1>1. down \o << >> = down
  BY ConcatEmptySeq DEF FramesOK
<1> QED
  BY <1>1 DEF Send

\* What an error answer consists of.
LEMMA ErrorFrame ==
    ASSUME NEW t \in {"authenticated", "error", "ok"}, NEW r \in Id
    PROVE  /\ <<Frame(t, r)>> \in Seq(DownFrames) /\ Len(<<Frame(t, r)>>) = 1
           /\ \A j \in 1..Len(<<Frame(t, r)>>) :
                <<Frame(t, r)>>[j].id = r /\ <<Frame(t, r)>>[j].t = t
<1>1. Frame(t, r) \in DownFrames /\ Frame(t, r).t = t /\ Frame(t, r).id = r
  BY DEF Frame, DownFrames
<1> QED
  BY <1>1

\* These actions keep the core of the invariant.
LEMMA ServerActsCore ==
    ASSUME CoreInv, ServerActs
    PROVE  CoreInv'
<1>0. /\ TypeOK /\ FramesOK /\ PlacesOK
      /\ UNCHANGED <<kind, cur, rest, ans, relayed, srvReq>>
  BY DEF CoreInv, ServerActs, SrvMisreads, SrvDisconnected, SrvCreate,
         SrvReadChunk, SrvReadEnd, SrvSwallows, SrvSwallowsEnd, SrvBodyCut,
         SrvExecute, SrvStream, restVars
<1>1. Takes
  BY DEF Takes, ServerActs, SrvMisreads, SrvDisconnected, SrvCreate,
         SrvReadChunk, SrvReadEnd, SrvSwallows, SrvSwallowsEnd, SrvBodyCut,
         SrvExecute, SrvStream
<1>2. up' \in Seq(UpFrames) /\ RequestsInOrder'
  BY <1>0, <1>1, TakesKeepOrder
<1>3. garbled' \in BOOLEAN /\ gotData' \in BOOLEAN
  <2>1. garbled \in BOOLEAN /\ gotData \in BOOLEAN
    BY <1>0 DEF TypeOK
  <2>2. (garbled' = garbled \/ garbled' = TRUE) /\ (gotData' = gotData \/ gotData' = TRUE)
    BY DEF ServerActs, SrvMisreads, SrvDisconnected, SrvCreate,
           SrvReadChunk, SrvReadEnd, SrvSwallows, SrvSwallowsEnd, SrvBodyCut,
           SrvExecute, SrvStream
  <2> QED
    BY <2>1, <2>2, Zenon
<1>4. CASE stored' = stored /\ down' = down /\ srv' \in {"body", "execute", "closed"}
             /\ (srv' # "closed" => srvReq \in Id)
  <2>1. Made \subseteq Made' /\ stored' \in [Id -> {"no", "part", "all"}]
    BY <1>0, <1>4 DEF Made, TypeOK
  <2>2. Send(<< >>) /\ << >> \in Seq(DownFrames) /\ Len(<< >>) = 0
    BY <1>0, <1>4, SendsNothing
  <2>3. \A j \in 1..Len(<< >>) : FALSE
    BY <2>2
  <2> QED
    BY <1>0, <1>2, <1>3, <1>4, <2>1, <2>2, <2>3, ServesCore
<1>5. CASE stored' = stored /\ Send(<<Frame("error", srvReq)>>) /\ srv' = "read"
             /\ srvReq \in Id
  <2>1. Made \subseteq Made' /\ stored' \in [Id -> {"no", "part", "all"}]
    BY <1>0, <1>5 DEF Made, TypeOK
  <2> DEFINE fs == <<Frame("error", srvReq)>>
  <2>2. /\ fs \in Seq(DownFrames) /\ Send(fs)
        /\ \A j \in 1..Len(fs) : fs[j].id = srvReq /\ fs[j].t = "error"
    BY <1>5, ErrorFrame
  <2> HIDE DEF fs
  <2> QED
    BY <1>0, <1>2, <1>3, <1>5, <2>1, <2>2, ServesCore
<1>6. CASE SrvExecute
  <2> DEFINE k == kind[srvReq]
             w == IF k = "postPartial" THEN "part"
                  ELSE IF k \in Modifications THEN "all" ELSE "no"
             t == IF k \in {"getRefused", "postPartial"} THEN "error" ELSE "ok"
             fs == <<Frame(t, srvReq)>>
  <2>1. srvReq \in Id
    BY <1>0, <1>6 DEF PlacesOK, SrvExecute
  <2>2. /\ stored' = [stored EXCEPT ![srvReq] = w]
        /\ Send(fs) /\ srv' \in {"read", "stream"}
    BY <1>6 DEF SrvExecute
  <2>3. /\ stored' \in [Id -> {"no", "part", "all"}]
        /\ stored'[srvReq] = w /\ \A r \in Id \ {srvReq} : stored'[r] = stored[r]
    BY <1>0, <2>1, <2>2 DEF TypeOK
  <2>4. Made \subseteq Made' /\ (t = "ok" => srvReq \in Made')
    BY <1>0, <2>1, <2>3 DEF Made
  <2>5. t \in {"error", "ok"}
    OBVIOUS
  <2>6. /\ fs \in Seq(DownFrames)
        /\ \A j \in 1..Len(fs) : fs[j].id = srvReq /\ fs[j].t = t
    BY <2>1, <2>5, ErrorFrame
  <2> HIDE DEF k, w, t, fs
  <2>7. \A j \in 1..Len(fs) : /\ fs[j].id = srvReq
                              /\ fs[j].t # "authenticated"
                              /\ fs[j].t = "ok" => srvReq \in Made'
    BY <2>4, <2>5, <2>6
  <2> QED
    BY <1>0, <1>2, <1>3, <2>1, <2>2, <2>3, <2>4, <2>6, <2>7, ServesCore
<1>7. CASE SrvStream
  <2>1. srvReq \in Id
    BY <1>0, <1>7 DEF PlacesOK, SrvStream
  <2> DEFINE js == <<Frame("json", srvReq), Frame("jsonEnd", srvReq)>>
             es == IF kind[srvReq] = "getBreaks" THEN <<Frame("error", srvReq)>>
                   ELSE << >>
  <2>2. Send(js \o es) /\ srv' = "read" /\ stored' = stored
    BY <1>7 DEF SrvStream
  <2>3. Made \subseteq Made' /\ stored' \in [Id -> {"no", "part", "all"}]
    BY <1>0, <2>2 DEF Made, TypeOK
  <2>4. /\ js \in Seq(DownFrames)
        /\ \A j \in 1..Len(js) : js[j].id = srvReq /\ js[j].t \in {"json", "jsonEnd"}
    <3>1. /\ Frame("json", srvReq) \in DownFrames
          /\ Frame("jsonEnd", srvReq) \in DownFrames
          /\ Frame("json", srvReq).id = srvReq /\ Frame("json", srvReq).t = "json"
          /\ Frame("jsonEnd", srvReq).id = srvReq
          /\ Frame("jsonEnd", srvReq).t = "jsonEnd"
      BY <2>1 DEF Frame, DownFrames
    <3> QED
      BY <3>1
  <2>5. /\ es \in Seq(DownFrames)
        /\ \A j \in 1..Len(es) : es[j].id = srvReq /\ es[j].t = "error"
    <3>1. CASE kind[srvReq] = "getBreaks"
      BY <2>1, <3>1, ErrorFrame
    <3>2. CASE kind[srvReq] # "getBreaks"
      BY <3>2
    <3> QED
      BY <3>1, <3>2
  <2> HIDE DEF js, es
  <2>6. /\ js \o es \in Seq(DownFrames)
        /\ \A j \in 1..Len(js \o es) :
            \/ \E i \in 1..Len(js) : (js \o es)[j] = js[i]
            \/ \E i \in 1..Len(es) : (js \o es)[j] = es[i]
    BY <2>4, <2>5
  <2>7. \A j \in 1..Len(js \o es) :
            /\ (js \o es)[j].id = srvReq
            /\ (js \o es)[j].t \in {"json", "jsonEnd", "error"}
    BY <2>4, <2>5, <2>6
  <2> QED
    BY <1>0, <1>2, <1>3, <2>2, <2>3, <2>6, <2>7, ServesCore
<1>8. CASE SrvMisreads \/ SrvDisconnected
  BY <1>4, <1>8 DEF SrvMisreads, SrvDisconnected
<1>9. CASE SrvCreate
  BY <1>0, <1>4, <1>5, <1>9 DEF SrvCreate, PlacesOK
<1>10. CASE SrvReadChunk \/ SrvSwallows
  BY <1>0, <1>4, <1>10 DEF SrvReadChunk, SrvSwallows, PlacesOK
<1>11. CASE SrvSwallowsEnd
  BY <1>0, <1>5, <1>11 DEF SrvSwallowsEnd, PlacesOK
<1>12. CASE SrvReadEnd \/ SrvBodyCut
  BY <1>0, <1>4, <1>5, <1>12 DEF SrvReadEnd, SrvBodyCut, ParseBody, PlacesOK
<1> QED
  BY <1>6, <1>7, <1>8, <1>9, <1>10, <1>11, <1>12 DEF ServerActs

\* The IO manager reads a request: one that comes after all it has worked on.
LEMMA SrvReadCore ==
    ASSUME CoreInv, SrvRead
    PROVE  CoreInv'
<1> DEFINE r == Head(up).id
<1>0. /\ TypeOK /\ FramesOK /\ PlacesOK
      /\ up # << >> /\ up' = Tail(up) /\ Head(up).t = "request" /\ srvReq' = r
      /\ srv' \in {"read", "create"} /\ garbled' = FALSE /\ gotData' = FALSE
      /\ UNCHANGED <<kind, cur, rest, ans, relayed, stored>>
  BY DEF CoreInv, SrvRead, restVars
<1>1. /\ Len(up) \in Nat \ {0} /\ Head(up) = up[1] /\ up[1] \in UpFrames
      /\ Len(up') = Len(up) - 1 /\ up' \in Seq(UpFrames)
      /\ \A i \in 1..Len(up') : up'[i] = up[i + 1]
  BY <1>0, FrameRead DEF FramesOK
<1>2. r \in Id
  BY <1>0, <1>1 DEF UpFrames
<1>3. /\ srvReq < r /\ r <= cur /\ (rest = "send" => r < cur)
      /\ srvReq \in Nat /\ cur \in Nat /\ r \in Nat
  BY <1>0, <1>1, <1>2, ExchangeAssumption
  DEF CoreInv, RequestsInOrder, TypeOK, Id
<1>4. \E fs \in Seq(DownFrames) :
        /\ Send(fs)
        /\ \A j \in 1..Len(fs) :
            /\ fs[j].id = r /\ fs[j].t \in {"error", "authenticated"}
            /\ fs[j].t = "authenticated" => kind[r] \in Posts /\ Len(fs) = 1
  <2>1. CASE kind[r] = "badToken"
    <3> DEFINE fs == <<Frame("error", r)>>
    <3>1. Send(fs)
      BY <2>1 DEF SrvRead
    <3>2. /\ fs \in Seq(DownFrames) /\ Len(fs) = 1
          /\ \A j \in 1..Len(fs) : fs[j].id = r /\ fs[j].t = "error"
      BY <1>2, ErrorFrame
    <3> HIDE DEF fs
    <3> QED
      BY <3>1, <3>2
  <2>2. CASE kind[r] # "badToken" /\ kind[r] \in Posts
    <3> DEFINE fs == <<Frame("authenticated", r)>>
    <3>1. Send(fs)
      BY <2>2 DEF SrvRead
    <3>2. /\ fs \in Seq(DownFrames) /\ Len(fs) = 1
          /\ \A j \in 1..Len(fs) : fs[j].id = r /\ fs[j].t = "authenticated"
      BY <1>2, ErrorFrame
    <3> HIDE DEF fs
    <3> QED
      BY <2>2, <3>1, <3>2
  <2>3. CASE kind[r] # "badToken" /\ kind[r] \notin Posts
    <3>1. Send(<< >>)
      BY <2>3 DEF SrvRead
    <3>2. << >> \in Seq(DownFrames) /\ \A j \in 1..Len(<< >>) : FALSE
      OBVIOUS
    <3> QED
      BY <3>1, <3>2
  <2> QED
    BY <2>1, <2>2, <2>3
<1> HIDE DEF r
<1>5. PICK fs \in Seq(DownFrames) :
        /\ Send(fs)
        /\ \A j \in 1..Len(fs) :
            /\ fs[j].id = r /\ fs[j].t \in {"error", "authenticated"}
            /\ fs[j].t = "authenticated" => kind[r] \in Posts /\ Len(fs) = 1
  BY <1>4
<1>6. /\ down' \in Seq(DownFrames)
      /\ Len(down) \in Nat /\ Len(down') \in Nat /\ Len(down) <= Len(down')
      /\ \A i \in 1..Len(down) : down'[i] = down[i]
      /\ \A i \in 1..Len(down') : i > Len(down) =>
            \E j \in 1..Len(fs) : j = i - Len(down) /\ down'[i] = fs[j]
  BY <1>0, <1>5, FramesSent
<1>7. \A i \in 1..Len(down') : i > Len(down) =>
        /\ down'[i].id = r /\ down'[i].t \in {"error", "authenticated"}
        /\ down'[i].t = "authenticated" => kind[r] \in Posts /\ i = Len(down) + 1
  <2> SUFFICES ASSUME NEW i \in 1..Len(down'), i > Len(down)
               PROVE  /\ down'[i].id = r
                      /\ down'[i].t \in {"error", "authenticated"}
                      /\ down'[i].t = "authenticated" =>
                            kind[r] \in Posts /\ i = Len(down) + 1
    OBVIOUS
  <2>1. PICK j \in 1..Len(fs) : j = i - Len(down) /\ down'[i] = fs[j]
    BY <1>6
  <2>2. Len(fs) = 1 => i = Len(down) + 1
    BY <1>6, <2>1
  <2> QED
    BY <1>5, <2>1, <2>2
<1>8. \A i \in 1..Len(down) : down[i].id \in Nat /\ down[i].id < r
  BY <1>0, <1>3, ExchangeAssumption
  DEF CoreInv, TypeOK, DownFrames, AnswersInOrder, Id
<1>9. \A i \in 1..Len(down') : i \in 1..Len(down) \/ i > Len(down)
  BY <1>6
<1>10. FramesOK' /\ TypeOK'
  <2>1. /\ \A i \in 1..Len(down') : down'[i] \in DownFrames
        /\ \A i \in 1..Len(up') : up'[i] \in UpFrames
    BY <1>1, <1>6, ElementOfSeq
  <2>2. srvReq' \in 0..MaxRequests
    BY <1>0, <1>2, ExchangeAssumption DEF Id
  <2> QED
    BY <1>0, <1>1, <1>6, <2>1, <2>2 DEF FramesOK, TypeOK
<1>11. PlacesOK' /\ AnswerIsOwn'
  BY <1>0, <1>2, <1>3 DEF CoreInv, PlacesOK, AnswerIsOwn
<1>12. RequestsInOrder'
  <2>1. /\ \A i \in 1..Len(up') : i + 1 \in 1..Len(up) /\ 1 < i + 1
        /\ \A i, j \in 1..Len(up') : i < j => i + 1 < j + 1
    BY <1>1
  <2>2. 1 \in 1..Len(up) /\ up[1].t = "request" /\ up[1].id = r
    BY <1>0, <1>1 DEF r
  <2> QED
    BY <1>0, <1>1, <2>1, <2>2 DEF CoreInv, RequestsInOrder
<1>13. rest \notin {"json", "body", "bodyEnd"} /\ ~(rest = "final" /\ kind[cur] \in Posts)
  BY <1>3 DEF CoreInv, AnswersInOrder, AuthenticatedFirst
<1>14. AnswersInOrder'
  <2>1. ASSUME NEW i \in 1..Len(down')
        PROVE  down'[i].id \in Nat /\ down'[i].id <= r
    <3>1. r \in Nat
      BY <1>2, ExchangeAssumption DEF Id
    <3>2. CASE i \in 1..Len(down)
      <4>1. down'[i] = down[i] /\ down[i].id \in Nat /\ down[i].id < r
        BY <1>6, <1>8, <3>2
      <4> QED
        BY <3>1, <4>1
    <3>3. CASE i > Len(down)
      <4>1. down'[i].id = r
        BY <1>7, <3>3
      <4> QED
        BY <3>1, <4>1
    <3> QED
      BY <1>9, <3>2, <3>3
  <2>2. \A i, j \in 1..Len(down') : i < j => down'[i].id <= down'[j].id
    <3> SUFFICES ASSUME NEW i \in 1..Len(down'), NEW j \in 1..Len(down'), i < j
                 PROVE  down'[i].id <= down'[j].id
      OBVIOUS
    <3>1. CASE j > Len(down)
      BY <3>1, <2>1, <1>7
    <3>2. CASE j \in 1..Len(down)
      <4>1. i \in 1..Len(down)
        BY <3>2, <1>6
      <4> QED
        BY <3>2, <4>1, <1>6 DEF CoreInv, AnswersInOrder
    <3> QED
      BY <1>9, <3>1, <3>2
  <2> QED
    BY <1>0, <1>13, <2>1, <2>2 DEF AnswersInOrder
<1>15. AuthenticatedFirst'
  <2>1. \A i \in 1..Len(down') :
            down'[i].t = "authenticated" => kind'[down'[i].id] \in Posts
    BY <1>0, <1>6, <1>7, <1>9 DEF CoreInv, AuthenticatedFirst
  <2>2. \A i, j \in 1..Len(down') :
            i < j /\ down'[j].t = "authenticated" => down'[i].id < down'[j].id
    <3> SUFFICES ASSUME NEW i \in 1..Len(down'), NEW j \in 1..Len(down'), i < j,
                        down'[j].t = "authenticated"
                 PROVE  down'[i].id < down'[j].id
      OBVIOUS
    <3>1. i \in 1..Len(down)
      <4>1. j \in 1..Len(down) \/ j = Len(down) + 1
        BY <1>7, <1>9
      <4> QED
        BY <1>6, <4>1
    <3>2. CASE j \in 1..Len(down)
      BY <3>1, <3>2, <1>6 DEF CoreInv, AuthenticatedFirst
    <3>3. CASE j > Len(down)
      BY <3>1, <3>3, <1>6, <1>7, <1>8
    <3> QED
      BY <1>9, <3>2, <3>3
  <2> QED
    BY <1>0, <1>13, <2>1, <2>2 DEF AuthenticatedFirst
<1>16. OkMeansMade'
  <2>1. Made' = Made
    BY <1>0 DEF Made
  <2> QED
    BY <1>0, <1>6, <1>7, <1>9, <2>1 DEF CoreInv, OkMeansMade
<1> QED
  BY <1>10, <1>11, <1>12, <1>14, <1>15, <1>16 DEF CoreInv

\* Both sides start with nothing sent.
LEMMA InitCore == Init => CoreInv
<1> SUFFICES ASSUME Init PROVE CoreInv
  OBVIOUS
<1>1. TypeOK /\ FramesOK
  <2>1. up \in Seq(UpFrames) /\ down \in Seq(DownFrames) /\ Len(up) = 0 /\ Len(down) = 0
    BY DEF Init
  <2>2. \A r \in 1..cur : FALSE
    BY DEF Init
  <2>3. /\ relayed \in [Id -> SUBSET Id]
        /\ stored \in [Id -> {"no", "part", "all"}]
        /\ ans \in [Id -> {"none", "refused", "failed", "late", "left", "success"}]
        /\ kind \in [Id -> AllKinds \cup {"none"}]
        /\ cur \in 0..MaxRequests /\ srvReq \in 0..MaxRequests
    BY ExchangeAssumption DEF Init
  <2> QED
    BY <2>1, <2>2, <2>3 DEF Init, TypeOK, FramesOK
<1>2. PlacesOK /\ RequestsInOrder /\ AnswersInOrder /\ AuthenticatedFirst
  BY DEF Init, PlacesOK, RequestsInOrder, AnswersInOrder, AuthenticatedFirst
<1>3. AnswerIsOwn /\ OkMeansMade
  BY DEF Init, AnswerIsOwn, OkMeansMade
<1> QED
  BY <1>1, <1>2, <1>3 DEF CoreInv

\* Every step keeps the core of the invariant.
LEMMA NextCore == CoreInv /\ [Next]_vars => CoreInv'
<1> SUFFICES ASSUME CoreInv, [Next]_vars PROVE CoreInv'
  OBVIOUS
<1>1. CASE \E k \in Kinds : Begin(k)
  BY <1>1, BeginCore
<1>2. CASE RestStep
  BY <1>2, AnswerSteps, AnswersCore, WritesCore, ReadsCore DEF RestStep
<1>3. CASE CloseConnection
  BY <1>3, CloseConnectionCore
<1>4. CASE SrvStep \/ SrvMisreads
  BY <1>4, SrvReadCore, ServerActsCore DEF SrvStep, ServerActs
<1>5. CASE UNCHANGED vars
  BY <1>5 DEF vars, CoreInv, TypeOK, FramesOK, PlacesOK, RequestsInOrder,
              AnswersInOrder, AuthenticatedFirst, AnswerIsOwn, OkMeansMade, Made
<1> QED
  BY <1>1, <1>2, <1>3, <1>4, <1>5 DEF Next

--------------------------------------------------------------------------------
(***************************************************************************)
(* The two sides take turns while nothing has spoiled the connection.      *)
(***************************************************************************)

\* What has spoiled the connection stays.
LEMMA SpoiledStays ==
    ASSUME CoreInv, UNCHANGED <<kind, cur>>,
           \/ ans' = ans
           \/ /\ rest \notin {"pooled", "closed"}
              /\ \A s \in Id \ {cur} : ans'[s] = ans[s]
    PROVE  Clean' \subseteq Clean
<1>1. \A r \in 0..MaxRequests : \A s \in 1..r : s \in Id
  BY ExchangeAssumption DEF Id
<1>2. \A s \in Id : Spoils(s) => Spoils(s)'
  BY DEF CoreInv, PlacesOK, Spoils
<1> QED
  BY <1>1, <1>2 DEF Clean

\* What is clean up to a request is clean up to earlier ones; the current
\* request is then none that spoils.
LEMMA CleanPrefix ==
    ASSUME CoreInv, cur \in Clean
    PROVE  /\ srvReq \in Clean
           /\ cur \in Id => ~Spoils(cur)
<1>1. srvReq \in 0..MaxRequests /\ cur \in 0..MaxRequests /\ srvReq <= cur
  BY DEF CoreInv, TypeOK, PlacesOK
<1>2. 1..srvReq \subseteq 1..cur /\ (cur \in Id => cur \in 1..cur)
  BY <1>1, ExchangeAssumption DEF Id
<1> QED
  BY <1>1, <1>2 DEF Clean

\* A request begins: on a clean connection there is nothing left.
LEMMA BeginTurn ==
    ASSUME IInv, NEW k \in Kinds, Begin(k)
    PROVE  InTurnWhileClean' /\ NothingLeftBehind'
<1>0. /\ CoreInv /\ TypeOK /\ rest = "pooled" /\ cur' = cur + 1
      /\ kind' = [kind EXCEPT ![cur + 1] = k]
      /\ rest' \in {"pooled", "send"}
      /\ UNCHANGED <<up, down, srv, srvReq>>
  BY DEF IInv, CoreInv, Begin, srvVars
<1>1. cur \in Nat /\ cur + 1 \in Id /\ srvReq \in Nat /\ srvReq <= cur
  BY <1>0, ExchangeAssumption DEF CoreInv, TypeOK, PlacesOK, Begin, Id
<1>2. \A s \in Id : s # cur + 1 => (Spoils(s) <=> Spoils(s)')
  BY <1>0, <1>1 DEF TypeOK, Spoils, Begin
<1>3. \A r \in 0..cur : r \in Clean' => r \in Clean
  <2>1. \A r \in 0..cur : r \in 0..MaxRequests /\ \A s \in 1..r : s \in Id /\ s # cur + 1
    BY <1>1, ExchangeAssumption DEF Id
  <2> QED
    BY <1>2, <2>1 DEF Clean
<1>4. cur' \in Clean' => cur \in Clean'
  <2>1. cur \in 0..MaxRequests /\ 1..cur \subseteq 1..(cur + 1)
    BY <1>1, ExchangeAssumption DEF Id
  <2> QED
    BY <1>0, <2>1 DEF Clean
<1>5. cur \in Clean => Quiet
  BY <1>0 DEF IInv, InTurnWhileClean, InTurn
<1>6. InTurnWhileClean'
  <2>1. cur' \in Clean' => Quiet
    BY <1>1, <1>3, <1>4, <1>5
  <2> QED
    BY <1>0, <2>1 DEF InTurnWhileClean, InTurn, Quiet
<1>7. srvReq < cur' /\ srvReq \in Clean' => srv \in {"read", "closed"}
  <2>1. srvReq \in Clean' => srvReq \in Clean
    BY <1>1, <1>3
  <2>2. CASE srvReq = cur
    BY <1>5, <2>1, <2>2 DEF Quiet
  <2>3. CASE srvReq < cur
    BY <2>1, <2>3 DEF IInv, NothingLeftBehind
  <2> QED
    BY <1>1, <2>2, <2>3
<1>8. \A i \in 1..Len(up) : up[i].t = "request" /\ up[i].id < cur' => up[i].id \notin Clean'
  <2> SUFFICES ASSUME NEW i \in 1..Len(up), up[i].t = "request"
               PROVE  up[i].id \notin Clean'
    OBVIOUS
  <2>1. up[i].id \in Id /\ up[i].id <= cur
    BY <1>0 DEF CoreInv, TypeOK, UpFrames, RequestsInOrder
  <2>2. up[i].id \in 0..cur /\ (up[i].id = cur \/ up[i].id < cur)
    BY <1>1, <2>1 DEF Id
  <2>3. CASE up[i].id = cur
    BY <1>3, <1>5, <2>2, <2>3 DEF Quiet
  <2>4. CASE up[i].id < cur
    BY <1>3, <2>2, <2>4 DEF IInv, NothingLeftBehind
  <2> QED
    BY <2>2, <2>3, <2>4
<1> QED
  BY <1>0, <1>6, <1>7, <1>8 DEF NothingLeftBehind

\* The REST server leaves the IO manager and the frames for it alone.
LEMMA RestLeavesNothing ==
    ASSUME IInv, UNCHANGED <<cur, up, srv, srvReq>>, Clean' \subseteq Clean
    PROVE  NothingLeftBehind'
  BY DEF IInv, NothingLeftBehind

\* The frames that are read and written, in terms of the sequences of InTurn.
LEMMA Wire ==
    /\ <<Frame("request", cur)>> # << >>
    /\ Head(<<Frame("request", cur)>>) = Frame("request", cur)
    /\ Tail(<<Frame("request", cur)>>) = << >>
    /\ <<Frame("authenticated", cur)>> # << >>
    /\ Head(<<Frame("authenticated", cur)>>) = Frame("authenticated", cur)
    /\ Tail(<<Frame("authenticated", cur)>>) = << >>
    /\ <<Frame("error", cur)>> # << >>
    /\ Head(<<Frame("error", cur)>>) = Frame("error", cur)
    /\ Tail(<<Frame("error", cur)>>) = << >>
    /\ <<Frame("ok", cur)>> # << >> /\ Head(<<Frame("ok", cur)>>) = Frame("ok", cur)
    /\ Tail(<<Frame("ok", cur)>>) = << >>
    /\ <<Frame("jsonEnd", cur)>> # << >>
    /\ Head(<<Frame("jsonEnd", cur)>>) = Frame("jsonEnd", cur)
    /\ Tail(<<Frame("jsonEnd", cur)>>) = << >>
    /\ <<Frame("chunk", cur)>> # << >>
    /\ Head(<<Frame("chunk", cur)>>) = Frame("chunk", cur)
    /\ Tail(<<Frame("chunk", cur)>>) = << >>
    /\ <<Frame("end", cur)>> # << >>
    /\ Head(<<Frame("end", cur)>>) = Frame("end", cur)
    /\ Tail(<<Frame("end", cur)>>) = << >>
    /\ <<Frame("json", cur), Frame("jsonEnd", cur)>> # << >>
    /\ Head(<<Frame("json", cur), Frame("jsonEnd", cur)>>) = Frame("json", cur)
    /\ Tail(<<Frame("json", cur), Frame("jsonEnd", cur)>>) = <<Frame("jsonEnd", cur)>>
    /\ <<Frame("chunk", cur), Frame("end", cur)>> # << >>
    /\ Head(<<Frame("chunk", cur), Frame("end", cur)>>) = Frame("chunk", cur)
    /\ Tail(<<Frame("chunk", cur), Frame("end", cur)>>) = <<Frame("end", cur)>>
    /\ <<Frame("ok", cur), Frame("json", cur), Frame("jsonEnd", cur)>> # << >>
    /\ Head(<<Frame("ok", cur), Frame("json", cur), Frame("jsonEnd", cur)>>) = Frame("ok", cur)
    /\ Tail(<<Frame("ok", cur), Frame("json", cur), Frame("jsonEnd", cur)>>) = <<Frame("json", cur), Frame("jsonEnd", cur)>>
    /\ Frame("request", cur).t = "request" /\ Frame("request", cur).id = cur
    /\ Frame("authenticated", cur).t = "authenticated" /\ Frame("authenticated", cur).id = cur
    /\ Frame("error", cur).t = "error" /\ Frame("error", cur).id = cur
    /\ Frame("ok", cur).t = "ok" /\ Frame("ok", cur).id = cur
    /\ Frame("jsonEnd", cur).t = "jsonEnd" /\ Frame("jsonEnd", cur).id = cur
    /\ Frame("chunk", cur).t = "chunk" /\ Frame("chunk", cur).id = cur
    /\ Frame("end", cur).t = "end" /\ Frame("end", cur).id = cur
    /\ Frame("json", cur).t = "json" /\ Frame("json", cur).id = cur
  BY ShortSequences DEF Frame

\* The same for what is written.
LEMMA WireWrites ==
    /\ Append(<< >>, Frame("request", cur)) = <<Frame("request", cur)>>
    /\ Append(<< >>, Frame("chunk", cur)) = <<Frame("chunk", cur)>>
    /\ Append(<< >>, Frame("end", cur)) = <<Frame("end", cur)>>
    /\ Append(<<Frame("chunk", cur)>>, Frame("end", cur))
         = <<Frame("chunk", cur), Frame("end", cur)>>
    /\ << >> \o << >> = << >>
    /\ << >> \o <<Frame("authenticated", cur)>> = <<Frame("authenticated", cur)>>
    /\ << >> \o <<Frame("error", cur)>> = <<Frame("error", cur)>>
    /\ << >> \o <<Frame("ok", cur)>> = <<Frame("ok", cur)>>
    /\ << >> \o (<<Frame("json", cur), Frame("jsonEnd", cur)>> \o << >>)
         = <<Frame("json", cur), Frame("jsonEnd", cur)>>
    /\ <<Frame("ok", cur)>> \o (<<Frame("json", cur), Frame("jsonEnd", cur)>> \o << >>)
         = <<Frame("ok", cur), Frame("json", cur), Frame("jsonEnd", cur)>>
<1> DEFINE rq == Frame("request", cur)
           au == Frame("authenticated", cur)
           er == Frame("error", cur)
           ok == Frame("ok", cur)
           ch == Frame("chunk", cur)
           en == Frame("end", cur)
           js == Frame("json", cur)
           je == Frame("jsonEnd", cur)
<1> HIDE DEF rq, au, er, ok, ch, en, js, je
<1>1. Append(<< >>, rq) = <<rq>> /\ Append(<< >>, ch) = <<ch>>
  BY ShortSequences
<1>2. Append(<< >>, en) = <<en>> /\ Append(<<ch>>, en) = <<ch, en>>
  BY ShortSequences
<1>3. << >> \o << >> = << >> /\ << >> \o <<au>> = <<au>>
  BY ShortSequences
<1>4. << >> \o <<er>> = <<er>> /\ << >> \o <<ok>> = <<ok>>
  BY ShortSequences
<1>5. <<js, je>> \o << >> = <<js, je>> /\ << >> \o <<js, je>> = <<js, je>>
  BY ShortSequences
<1>6. <<ok>> \o <<js, je>> = <<ok, js, je>>
  BY OneAndTwo
<1> QED
  BY <1>1, <1>2, <1>3, <1>4, <1>5, <1>6 DEF rq, au, er, ok, ch, en, js, je

\* The steps of the REST server with its current request.
LEMMA RestTurn ==
    ASSUME IInv, RestStep, cur \in Clean'
    PROVE  InTurn'
<1>0. /\ CoreInv /\ TypeOK /\ PlacesOK
      /\ UNCHANGED <<kind, cur, srv, srvReq, garbled>>
  BY DEF IInv, CoreInv, RestStep, WriteRequest, WriteFails, ReadAuthenticated,
         ReadOk, ReadError, ReadForeign, WriteChunk, WriteEnd, BodyEof,
         BodyTooLarge, ReadJson, ReadJsonEnd, ClientGone, ReadTimeout, ReadEof,
         srvVars
<1>1. rest \notin {"pooled", "closed"}
  BY DEF RestStep, WriteRequest, WriteFails, ReadAuthenticated,
         ReadOk, ReadError, ReadForeign, WriteChunk, WriteEnd, BodyEof,
         BodyTooLarge, ReadJson, ReadJsonEnd, ClientGone, ReadTimeout, ReadEof
<1>2. \A s \in Id \ {cur} : ans'[s] = ans[s]
  BY <1>0 DEF TypeOK, Answer, RestStep, WriteRequest, WriteFails, ReadAuthenticated,
         ReadOk, ReadError, ReadForeign, WriteChunk, WriteEnd, BodyEof,
         BodyTooLarge, ReadJson, ReadJsonEnd, ClientGone, ReadTimeout, ReadEof
<1>3. cur \in Clean /\ InTurn /\ cur \in Id /\ ~Spoils(cur)
  BY <1>0, <1>1, <1>2, SpoiledStays, CleanPrefix DEF IInv, InTurnWhileClean, PlacesOK
<1>4. kind[cur] \notin {"postExact", "postEmpty", "postBadName", "getBreaks"}
  BY <1>3 DEF Spoils
<1>5. CASE WriteRequest
  <2>1. Quiet /\ down' = down /\ up' = Append(up, Frame("request", cur))
    BY <1>3, <1>5 DEF WriteRequest, InTurn
  <2>2. Asked'
    BY <1>0, <2>1, WireWrites DEF Quiet, Asked
  <2>3. \/ rest' = "first"
        \/ rest' = "final" /\ kind[cur] \notin Posts
    BY <1>5 DEF WriteRequest
  <2> QED
    BY <1>0, <2>2, <2>3 DEF InTurn
<1>6. CASE WriteFails
  BY <1>3, <1>6 DEF WriteFails, InTurn, Quiet, WorksAt
<1>7. CASE ReadAuthenticated
  <2>1. /\ WorksAt({"create", "body"}) /\ up = << >>
        /\ down = <<Frame("authenticated", cur)>>
    BY <1>3, <1>7 DEF ReadAuthenticated, InTurn, Asked
  <2>2. up' = << >> /\ down' = << >> /\ rest' = "body"
    BY <1>7, <2>1, Wire DEF ReadAuthenticated
  <2> QED
    BY <1>0, <2>1, <2>2 DEF InTurn, WorksAt
<1>8. CASE ReadOk
  <2>1. Answering /\ Head(down).t # "error"
    BY <1>3, <1>8 DEF ReadOk, InTurn, Asked
  <2>2. up = << >> /\ up' = up /\ rest' = "json" /\ down' = Tail(down)
    BY <1>8, <2>1 DEF ReadOk, Answering
  <2>3. \/ WorksAt({"stream"}) /\ down' = << >>
        \/ srv = "read" /\ down' = <<Frame("json", cur), Frame("jsonEnd", cur)>>
    BY <2>1, <2>2, Wire DEF Answering
  <2> QED
    BY <1>0, <2>2, <2>3 DEF InTurn, WorksAt
<1>9. CASE ReadError
  <2>1. Head(down).t = "error" /\ down # << >> /\ rest \in {"first", "final"}
    BY <1>9 DEF ReadError
  <2>2. ~(down = <<Frame("authenticated", cur)>>)
    BY <2>1, Wire
  <2>3. Answering
    BY <1>3, <2>1, <2>2 DEF InTurn, Asked
  <2>4. srv = "read" /\ up = << >> /\ down = <<Frame("error", cur)>>
    BY <2>1, <2>3, Wire DEF Answering
  <2>5. srv' = "read" /\ up' = << >> /\ down' = << >> /\ rest' = "pooled"
    BY <1>0, <1>9, <2>4, Wire DEF ReadError, Answer
  <2> QED
    BY <2>5 DEF InTurn, Quiet
<1>10. CASE ReadForeign
  <2>1. ~OwnResponse(Head(down)) /\ down # << >> /\ rest \in {"first", "final"}
    BY <1>10 DEF ReadForeign
  <2>2. down = <<Frame("authenticated", cur)>> \/ Answering
    BY <1>3, <2>1 DEF InTurn, Asked
  <2>3. Head(down).id = cur /\ Head(down).t \in {"authenticated", "error", "ok"}
    BY <2>2, Wire DEF Answering
  <2> QED
    BY <2>1, <2>3 DEF OwnResponse, Responses
<1>11. CASE WriteChunk
  <2>1. WorksAt({"create", "body"}) /\ up = << >> /\ down = << >>
    BY <1>3, <1>11 DEF WriteChunk, InTurn
  <2>2. up' = <<Frame("chunk", cur)>> /\ down' = << >> /\ rest' = "bodyEnd"
    BY <1>11, <2>1, WireWrites DEF WriteChunk
  <2> QED
    BY <1>0, <2>1, <2>2 DEF InTurn, WorksAt
<1>12. CASE WriteEnd
  <2>1. /\ WorksAt({"create", "body"}) /\ down = << >>
        /\ up = <<Frame("chunk", cur)>> \/ up = << >>
    BY <1>3, <1>12 DEF WriteEnd, InTurn
  <2>2. up' = Append(up, Frame("end", cur)) /\ down' = << >> /\ rest' = "final"
    BY <1>12, <2>1 DEF WriteEnd
  <2>3. up' \in {<<Frame("chunk", cur), Frame("end", cur)>>, <<Frame("end", cur)>>}
    BY <2>1, <2>2, WireWrites
  <2>4. kind[cur] \in Posts \ {"postHuge"}
    BY <1>0, <1>12 DEF WriteEnd, PlacesOK
  <2> QED
    BY <1>0, <2>1, <2>2, <2>3, <2>4 DEF InTurn, WorksAt
<1>13. CASE BodyEof
  BY <1>4, <1>13 DEF BodyEof
<1>14. CASE BodyTooLarge
  BY <1>0, <1>3, <1>14 DEF BodyTooLarge, Answer, InTurn, WorksAt
<1>15. CASE ReadJson
  <2>1. /\ up = << >> /\ Head(down).t = "json" /\ down # << >>
        /\ \/ WorksAt({"stream"}) /\ down = << >>
           \/ srv = "read" /\ down = <<Frame("json", cur), Frame("jsonEnd", cur)>>
           \/ srv = "read" /\ down = <<Frame("jsonEnd", cur)>>
    BY <1>3, <1>15 DEF ReadJson, InTurn
  <2>2. srv = "read" /\ down = <<Frame("json", cur), Frame("jsonEnd", cur)>>
    BY <2>1, Wire
  <2>3. up' = << >> /\ down' = <<Frame("jsonEnd", cur)>> /\ rest' = "json"
    BY <1>15, <2>1, <2>2, Wire DEF ReadJson
  <2> QED
    BY <1>0, <2>2, <2>3 DEF InTurn
<1>16. CASE ReadJsonEnd
  <2>1. /\ up = << >> /\ Head(down).t = "jsonEnd" /\ down # << >>
        /\ \/ WorksAt({"stream"}) /\ down = << >>
           \/ srv = "read" /\ down = <<Frame("json", cur), Frame("jsonEnd", cur)>>
           \/ srv = "read" /\ down = <<Frame("jsonEnd", cur)>>
    BY <1>3, <1>16 DEF ReadJsonEnd, InTurn
  <2>2. srv = "read" /\ down = <<Frame("jsonEnd", cur)>>
    BY <2>1, Wire
  <2>3. up' = << >> /\ down' = << >> /\ rest' = "pooled"
    BY <1>16, <2>1, <2>2, Wire DEF ReadJsonEnd, Answer
  <2> QED
    BY <1>0, <2>2, <2>3 DEF InTurn, Quiet
<1>17. CASE ClientGone
  <2>1. ans'[cur] = "left"
    BY <1>0, <1>3, <1>17 DEF ClientGone, Answer, TypeOK
  <2>2. cur \in 1..cur
    BY <1>3, ExchangeAssumption DEF Id
  <2> QED
    BY <1>0, <2>1, <2>2 DEF Clean, Spoils
<1>18. CASE ReadTimeout
  <2>1. rest \in {"first", "final", "json"} /\ down = << >> /\ rest' = "closed"
    BY <1>18 DEF ReadTimeout, Answer
  <2>2. ~Answering
    BY <2>1, Wire DEF Answering
  <2>3. \/ Asked
        \/ WorksAt({"create", "execute", "stream"})
        \/ WorksAt({"create", "body"}) /\ up # << >> /\ Head(up).t \in {"chunk", "end"}
    BY <1>3, <2>1, <2>2, Wire DEF InTurn, WorksAt
  <2>4. ~ServerIsIdle
    BY <2>3, Wire DEF ServerIsIdle, Asked, WorksAt
  <2>5. ans'[cur] = "late"
    BY <1>0, <1>3, <1>18, <2>4 DEF ReadTimeout, Answer, TypeOK
  <2> QED
    BY <1>0, <1>3, <2>1, <2>5 DEF InTurn
<1>19. CASE ReadEof
  BY <1>3, <1>19 DEF ReadEof, InTurn, Asked, Answering, WorksAt
<1> QED
  BY <1>5, <1>6, <1>7, <1>8, <1>9, <1>10, <1>11, <1>12, <1>13, <1>14, <1>15,
     <1>16, <1>17, <1>18, <1>19
  DEF RestStep

\* On a clean connection the IO manager works on the current request only.
LEMMA WorksOnCurrent ==
    ASSUME IInv, cur \in Clean, srv \notin {"read", "closed"}
    PROVE  srvReq = cur /\ cur \in Id
<1>1. srvReq <= cur /\ srvReq \in Id /\ cur \in 0..MaxRequests /\ srvReq \in Clean
  BY CleanPrefix DEF IInv, CoreInv, TypeOK, PlacesOK
<1>2. ~(srvReq < cur)
  BY <1>1 DEF IInv, NothingLeftBehind
<1> QED
  BY <1>1, <1>2, ExchangeAssumption DEF Id

\* The steps of the IO manager.
LEMMA ServerTurn ==
    ASSUME IInv, SrvStep \/ SrvMisreads, cur \in Clean'
    PROVE  InTurn'
<1>0. /\ CoreInv /\ TypeOK /\ PlacesOK
      /\ UNCHANGED <<kind, cur, rest, ans>>
  BY DEF IInv, CoreInv, SrvStep, SrvRead, SrvMisreads, SrvDisconnected, SrvCreate,
         SrvReadChunk, SrvReadEnd, SrvSwallows, SrvSwallowsEnd, SrvBodyCut,
         SrvExecute, SrvStream, restVars
<1>1. cur \in Clean /\ InTurn
  BY <1>0, SpoiledStays DEF IInv, InTurnWhileClean
<1>2. cur \in Id => kind[cur] \notin {"postExact", "postEmpty", "postBadName", "getBreaks"}
  BY <1>0, <1>1, CleanPrefix DEF Spoils
<1>3. CASE rest = "closed" /\ cur \in Id /\ ans[cur] = "late"
  BY <1>0, <1>3 DEF InTurn
<1>4. ASSUME rest = "closed", cur \in Id, kind[cur] = "postHuge", srv # "execute"
      PROVE  InTurn'
  <2>1. srv \notin {"read", "closed"} => srvReq = cur
    BY <1>1, WorksOnCurrent
  <2>2. kind[cur] \in Posts
    BY <1>4 DEF Posts
  <2>3. srv' # "execute"
    BY <1>0, <1>4, <2>1, <2>2
    DEF SrvStep, SrvRead, SrvMisreads, SrvDisconnected, SrvCreate,
        SrvReadChunk, SrvReadEnd, SrvSwallows, SrvSwallowsEnd, SrvBodyCut,
        SrvExecute, SrvStream, ParseBody, BodyIsGood
  <2> QED
    BY <1>0, <1>4, <2>3 DEF InTurn
<1>5. ASSUME rest = "closed", srv \in {"read", "closed"}, up = << >>
      PROVE  InTurn'
  <2>1. SrvDisconnected
    BY <1>5
    DEF SrvStep, SrvRead, SrvMisreads, SrvDisconnected, SrvCreate,
        SrvReadChunk, SrvReadEnd, SrvSwallows, SrvSwallowsEnd, SrvBodyCut,
        SrvExecute, SrvStream
  <2> QED
    BY <1>0, <1>5, <2>1 DEF SrvDisconnected, InTurn
<1>6. CASE rest = "closed"
  BY <1>1, <1>3, <1>4, <1>5, <1>6 DEF InTurn
<1>7. ASSUME rest # "closed"
      PROVE  InTurn'
  <2>0. \A fs : Send(fs) => down' = down \o fs
    BY <1>7 DEF Send
  <2>1. CASE SrvRead
    <3>1. srv = "read" /\ up # << >> /\ Head(up).t = "request"
      BY <2>1 DEF SrvRead
    <3>2. ~Answering
      BY <3>1 DEF Answering, WorksAt
    <3>3. Asked /\ (rest = "first" \/ (rest = "final" /\ kind[cur] \notin Posts))
      BY <1>1, <1>7, <3>1, <3>2 DEF InTurn, Quiet, WorksAt
    <3>4. /\ Head(up).id = cur /\ up' = << >> /\ srvReq' = cur /\ garbled' = FALSE
          /\ down = << >>
      BY <2>1, <3>3, Wire DEF SrvRead, Asked
    <3>5. CASE rest = "first"
      <4>1. kind[cur] \in Posts /\ kind[cur] # "badToken"
        BY <1>0, <3>5 DEF PlacesOK, Posts
      <4>2. srv' = "create" /\ Send(<<Frame("authenticated", cur)>>)
        BY <2>1, <3>4, <4>1 DEF SrvRead
      <4>3. down' = <<Frame("authenticated", cur)>>
        BY <2>0, <3>4, <4>2, WireWrites
      <4> QED
        BY <1>0, <3>4, <3>5, <4>2, <4>3 DEF InTurn, WorksAt
    <3>6. CASE rest = "final" /\ kind[cur] \notin Posts
      <4>1. CASE kind[cur] = "badToken"
        <5>1. srv' = "read" /\ Send(<<Frame("error", cur)>>)
          BY <2>1, <3>4, <4>1 DEF SrvRead
        <5>2. down' = <<Frame("error", cur)>>
          BY <2>0, <3>4, <5>1, WireWrites
        <5> QED
          BY <1>0, <3>4, <3>6, <5>1, <5>2 DEF InTurn, Answering
      <4>2. CASE kind[cur] # "badToken"
        <5>1. srv' = "create" /\ Send(<< >>)
          BY <2>1, <3>4, <3>6, <4>2 DEF SrvRead
        <5>2. down' = << >>
          BY <2>0, <3>4, <5>1, WireWrites
        <5> QED
          BY <1>0, <3>4, <3>6, <5>1, <5>2 DEF InTurn, WorksAt
      <4> QED
        BY <4>1, <4>2
    <3> QED
      BY <3>3, <3>5, <3>6
  <2>2. CASE SrvMisreads
    <3>1. srv = "read" /\ up # << >> /\ Head(up).t # "request"
      BY <2>2 DEF SrvMisreads
    <3>2. ~Answering /\ ~Asked
      BY <3>1, Wire DEF Answering, WorksAt, Asked
    <3> QED
      BY <1>1, <1>7, <3>1, <3>2 DEF InTurn, Quiet, WorksAt
  <2>3. CASE SrvDisconnected \/ SrvBodyCut
    BY <1>7, <2>3 DEF SrvDisconnected, SrvBodyCut
  <2>4. CASE SrvCreate
    <3>1. srv = "create" /\ srvReq = cur /\ cur \in Id
      BY <1>1, <2>4, WorksOnCurrent DEF SrvCreate
    <3>2. /\ srv' = IF kind[cur] \in Posts THEN "body" ELSE "execute"
          /\ UNCHANGED <<up, down, srvReq, garbled>>
      BY <1>2, <2>4, <3>1 DEF SrvCreate
    <3>3. ~Asked /\ ~Answering /\ ~Quiet
      BY <3>1 DEF Asked, Answering, Quiet, WorksAt
    <3>4. rest \in {"first", "body", "bodyEnd"} => kind[cur] \in Posts
      BY <1>0 DEF PlacesOK
    <3> QED
      BY <1>0, <1>1, <1>7, <3>1, <3>2, <3>3, <3>4 DEF InTurn, WorksAt
  <2>5. CASE SrvReadChunk
    <3>1. /\ srv = "body" /\ up # << >> /\ Head(up).t = "chunk" /\ up' = Tail(up)
          /\ UNCHANGED <<down, srv, srvReq, garbled>>
      BY <2>5 DEF SrvReadChunk
    <3>2. ~Asked /\ ~Answering /\ ~Quiet /\ up # <<Frame("end", cur)>>
      BY <3>1, Wire DEF Asked, Answering, Quiet, WorksAt
    <3>3. CASE rest = "bodyEnd"
      <4>1. WorksAt({"create", "body"}) /\ up = <<Frame("chunk", cur)>> /\ down = << >>
        BY <1>1, <3>1, <3>3 DEF InTurn
      <4>2. up' = << >>
        BY <3>1, <4>1, Wire
      <4> QED
        BY <1>0, <3>1, <3>3, <4>1, <4>2 DEF InTurn, WorksAt
    <3>4. CASE rest # "bodyEnd"
      <4>1. /\ rest = "final" /\ kind[cur] \in Posts \ {"postHuge"}
            /\ WorksAt({"create", "body"}) /\ down = << >>
            /\ up = <<Frame("chunk", cur), Frame("end", cur)>>
        BY <1>1, <1>7, <3>1, <3>2, <3>4 DEF InTurn, WorksAt
      <4>2. up' = <<Frame("end", cur)>>
        BY <3>1, <4>1, Wire
      <4> QED
        BY <1>0, <3>1, <4>1, <4>2 DEF InTurn, WorksAt
    <3> QED
      BY <3>3, <3>4
  <2>6. CASE SrvReadEnd
    <3>1. /\ srv = "body" /\ up # << >> /\ Head(up).t = "end" /\ up' = Tail(up)
          /\ UNCHANGED <<srvReq, garbled>>
      BY <2>6 DEF SrvReadEnd
    <3>2. /\ ~Asked /\ ~Answering /\ ~Quiet /\ up # <<Frame("chunk", cur)>>
          /\ up # <<Frame("chunk", cur), Frame("end", cur)>>
      BY <3>1, Wire DEF Asked, Answering, Quiet, WorksAt
    <3>3. /\ rest = "final" /\ kind[cur] \in Posts \ {"postHuge"}
          /\ WorksAt({"create", "body"}) /\ down = << >> /\ up = <<Frame("end", cur)>>
      BY <1>1, <1>7, <3>1, <3>2 DEF InTurn, WorksAt
    <3>4. up' = << >>
      BY <3>1, <3>3, Wire
    <3>5. \/ srv' = "execute" /\ down' = down
          \/ srv' = "read" /\ Send(<<Frame("error", srvReq)>>)
      BY <2>6 DEF SrvReadEnd, ParseBody
    <3>6. CASE srv' = "execute" /\ down' = down
      BY <1>0, <3>1, <3>3, <3>4, <3>6 DEF InTurn, WorksAt
    <3>7. CASE srv' = "read" /\ Send(<<Frame("error", srvReq)>>)
      <4>1. down' = <<Frame("error", cur)>>
        BY <2>0, <3>3, <3>7, WireWrites DEF WorksAt
      <4> QED
        BY <1>0, <3>3, <3>4, <3>7, <4>1 DEF InTurn, Answering
    <3> QED
      BY <3>5, <3>6, <3>7
  <2>7. CASE SrvSwallows \/ SrvSwallowsEnd
    <3>1. srv = "body" /\ up # << >> /\ Head(up).t = "request"
      BY <2>7 DEF SrvSwallows, SrvSwallowsEnd
    <3>2. /\ ~Asked /\ ~Answering /\ ~Quiet /\ up # <<Frame("chunk", cur)>>
          /\ up # <<Frame("chunk", cur), Frame("end", cur)>> /\ up # <<Frame("end", cur)>>
      BY <3>1, Wire DEF Asked, Answering, Quiet, WorksAt
    <3> QED
      BY <1>1, <1>7, <3>1, <3>2 DEF InTurn, WorksAt
  <2>8. CASE SrvExecute
    <3>1. srv = "execute" /\ UNCHANGED <<up, srvReq, garbled>>
      BY <2>8 DEF SrvExecute
    <3>2. ~Asked /\ ~Answering /\ ~Quiet
      BY <3>1 DEF Asked, Answering, Quiet, WorksAt
    <3>3. /\ rest = "final" /\ srvReq = cur /\ ~garbled /\ up = << >> /\ down = << >>
          /\ kind[cur] \in Posts \ {"postHuge"} \/ kind[cur] \notin Posts
      BY <1>1, <1>7, <3>1, <3>2 DEF InTurn, WorksAt
    <3>4. \/ srv' = "read" /\ Send(<<Frame("error", cur)>>)
          \/ srv' = "stream" /\ Send(<<Frame("ok", cur)>>)
      BY <2>8, <3>3 DEF SrvExecute
    <3>5. Answering'
      <4>1. CASE srv' = "read" /\ Send(<<Frame("error", cur)>>)
        <5>1. down' = <<Frame("error", cur)>>
          BY <2>0, <3>3, <4>1, WireWrites
        <5> QED
          BY <1>0, <3>1, <3>3, <4>1, <5>1 DEF Answering
      <4>2. CASE srv' = "stream" /\ Send(<<Frame("ok", cur)>>)
        <5>1. down' = <<Frame("ok", cur)>>
          BY <2>0, <3>3, <4>2, WireWrites
        <5> QED
          BY <1>0, <3>1, <3>3, <4>2, <5>1 DEF Answering, WorksAt
      <4> QED
        BY <3>4, <4>1, <4>2
    <3> QED
      BY <1>0, <3>3, <3>5 DEF InTurn
  <2>9. CASE SrvStream
    <3>1. /\ srv = "stream" /\ srv' = "read" /\ UNCHANGED <<up, srvReq, garbled>>
          /\ srvReq = cur /\ cur \in Id
      BY <1>1, <2>9, WorksOnCurrent DEF SrvStream
    <3>2. Send(<<Frame("json", cur), Frame("jsonEnd", cur)>> \o << >>)
      BY <1>2, <2>9, <3>1 DEF SrvStream
    <3>3. up = << >>
      BY <1>1, <1>7, <3>1 DEF InTurn, Quiet, Asked, WorksAt, Answering
    <3>4. CASE rest = "json"
      <4>1. down = << >>
        BY <1>1, <3>1, <3>4 DEF InTurn
      <4>2. down' = <<Frame("json", cur), Frame("jsonEnd", cur)>>
        BY <2>0, <3>2, <4>1, WireWrites
      <4> QED
        BY <1>0, <3>1, <3>3, <3>4, <4>2 DEF InTurn
    <3>5. CASE rest # "json"
      <4>1. /\ rest = "final" /\ down = <<Frame("ok", cur)>>
            /\ kind[cur] \in Posts \ {"postHuge"} \/ kind[cur] \notin Posts
        BY <1>1, <1>7, <3>1, <3>5 DEF InTurn, Quiet, Asked, WorksAt, Answering
      <4>2. down' = <<Frame("ok", cur), Frame("json", cur), Frame("jsonEnd", cur)>>
        BY <2>0, <3>2, <4>1, WireWrites
      <4>3. Answering'
        BY <1>0, <3>1, <3>3, <4>2 DEF Answering
      <4> QED
        BY <1>0, <4>1, <4>3 DEF InTurn
    <3> QED
      BY <3>4, <3>5
  <2> QED
    BY <2>1, <2>2, <2>3, <2>4, <2>5, <2>6, <2>7, <2>8, <2>9 DEF SrvStep
<1> QED
  BY <1>6, <1>7

\* The writes of the REST server add no request but the current one.
LEMMA WritesLeaveNothing ==
    ASSUME IInv, WriteRequest \/ WriteChunk \/ WriteEnd
    PROVE  NothingLeftBehind'
<1>0. /\ CoreInv /\ FramesOK /\ PlacesOK /\ rest \in {"send", "body", "bodyEnd"}
      /\ UNCHANGED <<kind, cur, ans, srv, srvReq>>
  BY DEF IInv, CoreInv, WriteRequest, WriteChunk, WriteEnd, srvVars
<1>1. PICK t \in {"request", "chunk", "end"} : up' = Append(up, Frame(t, cur))
  BY DEF WriteRequest, WriteChunk, WriteEnd
<1>2. Frame(t, cur) \in UpFrames /\ Frame(t, cur).id = cur /\ cur \in Nat
  BY <1>0, ExchangeAssumption DEF UpFrames, Frame, PlacesOK, Id
<1>3. /\ Len(up) \in Nat /\ Len(up') = Len(up) + 1
      /\ \A i \in 1..Len(up) : up'[i] = up[i]
      /\ up'[Len(up')].id = cur
  BY <1>0, <1>1, <1>2, FrameWritten DEF FramesOK
<1>4. Clean' \subseteq Clean
  BY <1>0, SpoiledStays
<1>5. \A i \in 1..Len(up') : i \in 1..Len(up) \/ i = Len(up')
  BY <1>3
<1> QED
  BY <1>0, <1>2, <1>3, <1>4, <1>5 DEF IInv, NothingLeftBehind

\* The IO manager leaves no request behind: it works until it can read again.
LEMMA ServerLeavesNothing ==
    ASSUME IInv, SrvStep \/ SrvMisreads
    PROVE  NothingLeftBehind'
<1>0. /\ CoreInv /\ TypeOK /\ FramesOK /\ UNCHANGED <<kind, cur, rest, ans>>
  BY DEF IInv, CoreInv, SrvStep, SrvRead, SrvMisreads, SrvDisconnected, SrvCreate,
         SrvReadChunk, SrvReadEnd, SrvSwallows, SrvSwallowsEnd, SrvBodyCut,
         SrvExecute, SrvStream, restVars
<1>1. Clean' \subseteq Clean
  BY <1>0, SpoiledStays
<1>2. Takes
  BY DEF Takes, SrvStep, SrvRead, SrvMisreads, SrvDisconnected, SrvCreate,
         SrvReadChunk, SrvReadEnd, SrvSwallows, SrvSwallowsEnd, SrvBodyCut,
         SrvExecute, SrvStream
<1>3. \A i \in 1..Len(up') : up'[i].t = "request" =>
            \E j \in 1..Len(up) : up'[i] = up[j]
  <2>1. CASE up' = up
    BY <2>1
  <2>2. CASE up # << >> /\ up' = Tail(up)
    <3>1. /\ Len(up) \in Nat \ {0} /\ Len(up') = Len(up) - 1
          /\ \A i \in 1..Len(up') : up'[i] = up[i + 1]
      BY <1>0, <2>2, FrameRead DEF FramesOK
    <3>2. \A i \in 1..Len(up') : i + 1 \in 1..Len(up)
      BY <3>1
    <3> QED
      BY <3>1, <3>2
  <2>3. CASE up # << >> /\ up' = <<Frame("garbage", 0)>> \o Tail(up)
    <3> DEFINE g == <<Frame("garbage", 0)>>
               tl == Tail(up)
    <3>1. /\ tl \in Seq(UpFrames) /\ Len(up) \in Nat \ {0} /\ Len(tl) = Len(up) - 1
          /\ \A i \in 1..Len(tl) : tl[i] = up[i + 1]
      BY <1>0, <2>3, FrameRead DEF FramesOK
    <3>2. g \in Seq(UpFrames) /\ Len(g) = 1 /\ g[1].t = "garbage"
      BY DEF UpFrames, Frame
    <3> HIDE DEF g, tl
    <3>3. /\ Len(g \o tl) = Len(up) /\ (g \o tl)[1] = g[1]
          /\ \A i \in 1..Len(up) : i # 1 => (g \o tl)[i] = tl[i - 1]
      BY <3>1, <3>2, ConcatProperties
    <3>4. \A i \in 1..Len(up) : i # 1 => tl[i - 1] = up[i]
      BY <3>1
    <3>5. Len(up') = Len(up) /\ up'[1].t = "garbage"
          /\ \A i \in 1..Len(up) : i # 1 => up'[i] = up[i]
      BY <2>3, <3>2, <3>3, <3>4 DEF g, tl
    <3> QED
      BY <3>5
  <2> QED
    BY <1>2, <2>1, <2>2, <2>3 DEF Takes
<1>4. \A i \in 1..Len(up') : up'[i].t = "request" /\ up'[i].id < cur' => up'[i].id \notin Clean'
  BY <1>0, <1>1, <1>3 DEF IInv, NothingLeftBehind
<1>5. srvReq' < cur' /\ srvReq' \in Clean' => srv' \in {"read", "closed"}
  <2>1. CASE SrvRead
    <3>1. up # << >> /\ Head(up).t = "request" /\ srvReq' = Head(up).id
      BY <2>1 DEF SrvRead
    <3>2. Head(up) = up[1] /\ 1 \in 1..Len(up)
      BY <1>0, <3>1, FrameRead DEF FramesOK
    <3> QED
      BY <1>0, <1>1, <3>1, <3>2 DEF IInv, NothingLeftBehind
  <2>2. CASE ~SrvRead
    <3>1. srvReq' = srvReq
      BY <2>2 DEF SrvStep, SrvMisreads, SrvDisconnected, SrvCreate,
         SrvReadChunk, SrvReadEnd, SrvSwallows, SrvSwallowsEnd, SrvBodyCut,
         SrvExecute, SrvStream
    <3>2. srv' = "closed" \/ srv \notin {"read", "closed"}
      BY <2>2 DEF SrvStep, SrvMisreads, SrvDisconnected, SrvCreate,
         SrvReadChunk, SrvReadEnd, SrvSwallows, SrvSwallowsEnd, SrvBodyCut,
         SrvExecute, SrvStream
    <3> QED
      BY <1>0, <1>1, <3>1, <3>2 DEF IInv, NothingLeftBehind
  <2> QED
    BY <2>1, <2>2
<1> QED
  BY <1>4, <1>5 DEF NothingLeftBehind

--------------------------------------------------------------------------------
(***************************************************************************)
(* The theorems.                                                           *)
(***************************************************************************)

\* A new connection is a state of the invariant.
LEMMA InitInv == Init => IInv
<1> SUFFICES ASSUME Init PROVE IInv
  OBVIOUS
<1>1. CoreInv
  BY InitCore
<1>2. InTurnWhileClean
  BY DEF Init, InTurnWhileClean, InTurn, Quiet
<1>3. NothingLeftBehind
  BY DEF Init, NothingLeftBehind
<1> QED
  BY <1>1, <1>2, <1>3 DEF IInv

\* Every step of either side keeps it.
LEMMA NextInv == IInv /\ [Next]_vars => IInv'
<1> SUFFICES ASSUME IInv, [Next]_vars PROVE IInv'
  OBVIOUS
<1>1. CoreInv'
  BY NextCore DEF IInv
<1>2. CASE \E k \in Kinds : Begin(k)
  BY <1>1, <1>2, BeginTurn DEF IInv
<1>3. CASE RestStep
  <2>1. /\ UNCHANGED <<kind, cur, srv, srvReq>> /\ CoreInv /\ TypeOK
        /\ rest \notin {"pooled", "closed"}
    BY <1>3 DEF IInv, CoreInv, RestStep, WriteRequest, WriteFails, ReadAuthenticated,
         ReadOk, ReadError, ReadForeign, WriteChunk, WriteEnd, BodyEof,
         BodyTooLarge, ReadJson, ReadJsonEnd, ClientGone, ReadTimeout, ReadEof,
         srvVars
  <2>2. \A s \in Id \ {cur} : ans'[s] = ans[s]
    BY <1>3, <2>1 DEF TypeOK, Answer, RestStep, WriteRequest, WriteFails,
         ReadAuthenticated, ReadOk, ReadError, ReadForeign, WriteChunk, WriteEnd,
         BodyEof, BodyTooLarge, ReadJson, ReadJsonEnd, ClientGone, ReadTimeout,
         ReadEof
  <2>3. Clean' \subseteq Clean
    BY <2>1, <2>2, SpoiledStays
  <2>4. NothingLeftBehind'
    <3>1. CASE WriteRequest \/ WriteChunk \/ WriteEnd
      BY <3>1, WritesLeaveNothing
    <3>2. CASE ~(WriteRequest \/ WriteChunk \/ WriteEnd)
      <4>1. up' = up
        BY <1>3, <3>2 DEF RestStep, WriteFails, ReadAuthenticated, ReadOk,
           ReadError, ReadForeign, BodyEof, BodyTooLarge, ReadJson, ReadJsonEnd,
           ClientGone, ReadTimeout, ReadEof
      <4> QED
        BY <2>1, <2>3, <4>1, RestLeavesNothing
    <3> QED
      BY <3>1, <3>2
  <2>5. InTurnWhileClean'
    BY <1>3, <2>1, RestTurn DEF InTurnWhileClean
  <2> QED
    BY <1>1, <2>4, <2>5 DEF IInv
<1>4. CASE CloseConnection
  <2>1. /\ rest = "pooled" /\ rest' = "closed"
        /\ UNCHANGED <<kind, cur, up, srv, srvReq, ans>> /\ CoreInv
    BY <1>4 DEF CloseConnection, srvVars, IInv
  <2>2. Clean' \subseteq Clean
    BY <2>1, SpoiledStays
  <2>3. NothingLeftBehind'
    BY <2>1, <2>2, RestLeavesNothing
  <2>4. cur \in Clean' => srv = "read" /\ up = << >>
    BY <2>1, <2>2 DEF IInv, InTurnWhileClean, InTurn, Quiet
  <2>5. InTurnWhileClean'
    BY <2>1, <2>4 DEF InTurnWhileClean, InTurn
  <2> QED
    BY <1>1, <2>3, <2>5 DEF IInv
<1>5. CASE SrvStep \/ SrvMisreads
  <2>1. cur' = cur
    BY <1>5 DEF SrvStep, SrvRead, SrvMisreads, SrvDisconnected, SrvCreate,
         SrvReadChunk, SrvReadEnd, SrvSwallows, SrvSwallowsEnd, SrvBodyCut,
         SrvExecute, SrvStream, restVars
  <2>2. InTurnWhileClean'
    BY <1>5, <2>1, ServerTurn DEF InTurnWhileClean
  <2> QED
    BY <1>1, <1>5, <2>2, ServerLeavesNothing DEF IInv
<1>6. CASE UNCHANGED vars
  <2>1. Clean' = Clean
    BY <1>6 DEF vars, Clean, Spoils
  <2>2. InTurn' = InTurn
    BY <1>6 DEF vars, InTurn, Quiet, Asked, WorksAt, Answering
  <2> QED
    BY <1>1, <1>6, <2>1, <2>2 DEF vars, IInv, InTurnWhileClean, NothingLeftBehind
<1> QED
  BY <1>2, <1>3, <1>4, <1>5, <1>6 DEF Next

\* A client is only sent what the IO manager answered to its own request:
\* readIOMgrResponse compares IDs, and the chunks that readChunkedJSON reads
\* without an ID always follow the response with the right one.
THEOREM ClientsGetTheirOwn == Spec => []AnswerIsOwn
<1>1. IInv => AnswerIsOwn
  BY DEF IInv, CoreInv
<1> QED
  BY <1>1, InitInv, NextInv, PTL DEF Spec

\* A modification that is answered with success has been made in full.
THEOREM SuccessIsTrue == Spec => []SuccessMeansStored
<1>1. IInv => SuccessMeansStored
  BY DEF IInv, CoreInv, OkMeansMade, Made, SuccessMeansStored
<1> QED
  BY <1>1, InitInv, NextInv, PTL DEF Spec

\* The types of the state of a connection.
THEOREM TypeCorrect == Spec => []TypeOK
<1>1. IInv => TypeOK
  BY DEF IInv, CoreInv
<1> QED
  BY <1>1, InitInv, NextInv, PTL DEF Spec

\* A request that was answered with an error is executed later only if its
\* answer was not waited for or something has spoiled the connection.
THEOREM ErrorsAreFinal == Spec => NoLateExecution
<1> DEFINE OnlyThen ==
      \A r \in Id : stored'[r] # stored[r] =>
          ans[r] \in {"none", "late"} \/ \E s \in 1..r : Spoils(s)
<1>1. IInv /\ [Next]_vars => [OnlyThen]_vars
  <2> SUFFICES ASSUME IInv, [Next]_vars, NEW r \in Id, stored'[r] # stored[r],
                      ~(\E s \in 1..r : Spoils(s))
               PROVE  ans[r] \in {"none", "late"}
    OBVIOUS
  <2>1. SrvExecute
    BY DEF Next, Begin, RestStep, WriteRequest, WriteFails, ReadAuthenticated,
         ReadOk, ReadError, ReadForeign, WriteChunk, WriteEnd, BodyEof,
         BodyTooLarge, ReadJson, ReadJsonEnd, ClientGone, ReadTimeout, ReadEof,
         CloseConnection, SrvStep, SrvRead, SrvMisreads, SrvDisconnected, SrvCreate,
         SrvReadChunk, SrvReadEnd, SrvSwallows, SrvSwallowsEnd, SrvBodyCut,
         SrvStream, srvVars, vars
  <2>2. srv = "execute" /\ r = srvReq
    BY <2>1 DEF SrvExecute, IInv, CoreInv, TypeOK
  <2>3. r \in Clean
    BY ExchangeAssumption DEF Clean, Id
  <2>4. srvReq = cur
    <3>1. ~(srvReq < cur)
      BY <2>2, <2>3 DEF IInv, NothingLeftBehind
    <3> QED
      BY <3>1, <2>2, ExchangeAssumption DEF IInv, CoreInv, TypeOK, PlacesOK, Id
  <2>5. InTurn
    BY <2>2, <2>3, <2>4 DEF IInv, InTurnWhileClean
  <2>6. CASE rest \notin {"pooled", "closed"}
    BY <2>2, <2>4, <2>6 DEF IInv, CoreInv, PlacesOK
  <2>7. CASE rest \in {"pooled", "closed"}
    BY <2>2, <2>4, <2>5, <2>7 DEF InTurn, Quiet
  <2> QED
    BY <2>6, <2>7
<1> QED
  BY <1>1, InitInv, NextInv, PTL DEF Spec, NoLateExecution

--------------------------------------------------------------------------------
(***************************************************************************)
(* The request pipeline: its inductive invariant.  A connection is         *)
(* destroyed by three threads: its own, the main thread and the executor.  *)
(* That none of them destroys it during an execution follows from where    *)
(* its one request can be.                                                 *)
(***************************************************************************)

\* The executor has a request whose result it has not set yet.
Working == exec.at \in {"run", "release", "join", "set"}

\* The connections whose threads wait for a result that is not set.
Waiting == {h \in Handlers : thr[h] = "wait" /\ promise[h] = "none"}

\* A request is in one place only.
PlacesDisjoint ==
    /\ \A i, j \in 1..Len(dispQ) : dispQ[i] = dispQ[j] => i = j
    /\ \A i, j \in 1..Len(execQ) : execQ[i] = execQ[j] => i = j
    /\ \A i \in 1..Len(dispQ) :
        /\ dispQ[i] # disp /\ dispQ[i] # exec.h
        /\ \A j \in 1..Len(execQ) : dispQ[i] # execQ[j]
    /\ \A j \in 1..Len(execQ) : execQ[j] # disp /\ execQ[j] # exec.h
    /\ disp \in Handlers => disp # exec.h

\* Whoever has a request in flight waits for it.
SubmittersWait ==
    /\ \A i \in 1..Len(dispQ) : dispQ[i] \in Waiting
    /\ \A j \in 1..Len(execQ) : execQ[j] \in Waiting
    /\ disp \in Handlers => disp \in Waiting
    /\ Working => exec.h \in Waiting
    /\ ~Working => exec.h = NoHandler

\* A connection that its thread uses exists until its handler is dropped from
\* the list, and as long as the executor holds the handler.
ConnectionsExist ==
    \A h \in Handlers :
        /\ conn[h] = "none" => thr[h] = "none"
        /\ owned[h] # "dropped" /\ thr[h] \notin {"none", "ended"}
             => conn[h] = "open"
        /\ ExecHolds(h) => conn[h] = "open"
        /\ thr[h] = "submit" => left[h] > 0

\* The three parts of the type invariant: the threads that are not a handler's,
\* the handlers, and the requests in flight.
ThreadTypes ==
    /\ lst \in {"check", "enter", "accept", "register", "stopped"}
    /\ cleanup \in BOOLEAN
    /\ mainThread \in [at: {"serving", "signal", "joinListener", "drop", "joinHandler",
                      "executors", "dispatcher", "stopped"},
                 h: Handlers \cup {NoHandler}]
    /\ crashed \in {"no", "cleanup", "handler"}

HandlerTypes ==
    /\ conn \in [Handlers -> {"none", "open", "null"}]
    /\ owned \in [Handlers -> {"no", "held", "dropped"}]
    /\ thr \in [Handlers -> {"none", "top", "poll", "read", "submit", "wait",
                             "ended"}]
    /\ left \in [Handlers -> 0..MaxStatements]
    /\ sent \in [Handlers -> 0..MaxPerConnection]
    /\ promise \in [Handlers -> Results]

QueueTypes ==
    /\ dispQ \in Seq(Handlers)
    /\ disp \in Handlers \cup {NoHandler, "ended"}
    /\ execQ \in Seq(Handlers)
    /\ exec \in [at: {"idle", "run", "release", "join", "set", "ended"},
                 h: Handlers \cup {NoHandler}, res: Results]

PipelineInv == PipelineTypeOK /\ PlacesDisjoint /\ SubmittersWait /\ ConnectionsExist

--------------------------------------------------------------------------------
\* Every part of the types stays when its variables do.
LEMMA TypeParts ==
    /\ PipelineTypeOK <=> ThreadTypes /\ HandlerTypes /\ QueueTypes
    /\ PipelineTypeOK' <=> ThreadTypes' /\ HandlerTypes' /\ QueueTypes'
    /\ ThreadTypes /\ UNCHANGED <<lst, cleanup, mainThread, crashed>> => ThreadTypes'
    /\ HandlerTypes /\ UNCHANGED <<conn, owned, thr, left, sent, promise>> => HandlerTypes'
    /\ QueueTypes /\ UNCHANGED <<dispQ, disp, execQ, exec>> => QueueTypes'
<1>1. PipelineTypeOK <=> ThreadTypes /\ HandlerTypes /\ QueueTypes
  BY DEF PipelineTypeOK, ThreadTypes, HandlerTypes, QueueTypes
<1>2. PipelineTypeOK' <=> ThreadTypes' /\ HandlerTypes' /\ QueueTypes'
  BY DEF PipelineTypeOK, ThreadTypes, HandlerTypes, QueueTypes
<1>3. ThreadTypes /\ UNCHANGED <<lst, cleanup, mainThread, crashed>> => ThreadTypes'
  BY DEF ThreadTypes
<1>4. HandlerTypes /\ UNCHANGED <<conn, owned, thr, left, sent, promise>> => HandlerTypes'
  BY DEF HandlerTypes
<1>5. QueueTypes /\ UNCHANGED <<dispQ, disp, execQ, exec>> => QueueTypes'
  BY DEF QueueTypes
<1> QED
  BY <1>1, <1>2, <1>3, <1>4, <1>5

(***************************************************************************)
(* Lemmas about the queues.                                                *)
(***************************************************************************)

\* What taking the first request leaves in a queue.
LEMMA TakenFromQueue ==
    ASSUME NEW S, NEW q \in Seq(S), q # << >>
    PROVE  /\ Len(q) \in Nat \ {0}
           /\ Head(q) = q[1] /\ q[1] \in S
           /\ Tail(q) \in Seq(S)
           /\ Len(Tail(q)) = Len(q) - 1
           /\ \A i \in 1..Len(Tail(q)) : Tail(q)[i] = q[i + 1]
  OBVIOUS

\* What adding a request does to a queue.
LEMMA AddedToQueue ==
    ASSUME NEW S, NEW q \in Seq(S), NEW x \in S
    PROVE  /\ Append(q, x) \in Seq(S)
           /\ Len(q) \in Nat
           /\ Len(Append(q, x)) = Len(q) + 1
           /\ \A i \in 1..Len(q) : Append(q, x)[i] = q[i]
           /\ Append(q, x)[Len(q) + 1] = x
  OBVIOUS

--------------------------------------------------------------------------------
(***************************************************************************)
(* Each action preserves the invariant.                                    *)
(***************************************************************************)

\* The state that the invariant is about, apart from its types.
coreVars == <<conn, owned, thr, left, promise, dispQ, disp, execQ, exec>>

\* The steps of the listener, of the thread for dead connections and of the
\* main thread that leave connections and requests alone.
LEMMA OtherThreadsInv ==
    ASSUME PipelineInv, UNCHANGED coreVars,
           \/ ListenerCheck \/ ListenerBlocks \/ RemoveDeadConnections
           \/ MainRequestsExit \/ MainSignalsListener \/ MainJoinsListener
           \/ MainJoinsHandler \/ MainDropsExecutors \/ MainJoinsExecutor
           \/ MainJoinsDispatcher
    PROVE  PipelineInv'
<1>1. PipelineTypeOK'
  <2> USE DEF PipelineInv, PipelineTypeOK, coreVars, handlerVars, listenVars, MainAt
  <2>1. CASE ListenerCheck
    BY <2>1 DEF ListenerCheck
  <2>2. CASE ListenerBlocks
    BY <2>2 DEF ListenerBlocks
  <2>3. CASE RemoveDeadConnections
    BY <2>3 DEF RemoveDeadConnections
  <2>4. CASE MainRequestsExit
    BY <2>4 DEF MainRequestsExit
  <2>5. CASE MainSignalsListener
    BY <2>5 DEF MainSignalsListener
  <2>6. CASE MainJoinsListener
    BY <2>6 DEF MainJoinsListener
  <2>7. CASE MainJoinsHandler
    BY <2>7 DEF MainJoinsHandler
  <2>8. CASE MainDropsExecutors
    BY <2>8 DEF MainDropsExecutors
  <2>9. CASE MainJoinsExecutor
    BY <2>9 DEF MainJoinsExecutor
  <2>10. CASE MainJoinsDispatcher
    BY <2>10 DEF MainJoinsDispatcher
  <2> QED
    BY <2>1, <2>2, <2>3, <2>4, <2>5, <2>6, <2>7, <2>8, <2>9, <2>10
<1>2. PlacesDisjoint' /\ SubmittersWait' /\ ConnectionsExist'
  BY DEF PipelineInv, coreVars, PlacesDisjoint, SubmittersWait, Waiting, Working,
         ConnectionsExist, ExecHolds
<1> QED
  BY <1>1, <1>2 DEF PipelineInv

\* A handler that has no request in flight goes on, or ends and destroys its
\* connection; nobody else does anything.
HandlerMoves(h) ==
    /\ UNCHANGED <<owned, promise, dispQ, disp, execQ, exec>>
    /\ ~(thr[h] = "wait" /\ promise[h] = "none")
    /\ \A g \in Handlers \ {h} :
        thr'[g] = thr[g] /\ conn'[g] = conn[g] /\ left'[g] = left[g]
    /\ conn'[h] = "none" => thr'[h] = "none"
    /\ owned[h] # "dropped" /\ thr'[h] \notin {"none", "ended"}
         => conn'[h] = "open"
    /\ thr'[h] = "submit" => left'[h] > 0

\* Such a step keeps the invariant.
LEMMA HandlerMovesInv ==
    ASSUME PipelineInv, NEW h \in Handlers, HandlerMoves(h), PipelineTypeOK'
    PROVE  PipelineInv'
<1> USE DEF HandlerMoves
<1>1. PlacesDisjoint'
  BY DEF PipelineInv, PlacesDisjoint
<1>2. /\ \A i \in 1..Len(dispQ) : dispQ[i] \in Handlers \ {h}
      /\ \A i \in 1..Len(execQ) : execQ[i] \in Handlers \ {h}
  BY DEF PipelineInv, SubmittersWait, Waiting
<1>3. disp # h /\ (Working => exec.h # h) /\ ~ExecHolds(h)
  BY DEF PipelineInv, SubmittersWait, Waiting, ExecHolds, Working
<1>4. SubmittersWait'
  BY <1>2, <1>3 DEF PipelineInv, SubmittersWait, Waiting, Working
<1>5. ConnectionsExist'
  BY <1>3 DEF PipelineInv, ConnectionsExist, ExecHolds
<1> QED
  BY <1>1, <1>4, <1>5 DEF PipelineInv

\* A connection comes.
LEMMA ListenerAcceptInv ==
    ASSUME PipelineInv, NEW h \in Handlers, ListenerAccept(h)
    PROVE  PipelineInv'
<1>1. PipelineTypeOK'
  BY DEF PipelineInv, PipelineTypeOK, ListenerAccept, queueVars
<1>2. HandlerMoves(h)
  BY DEF PipelineInv, PipelineTypeOK, ConnectionsExist, HandlerMoves, Waiting, ListenerAccept,
         queueVars
<1> QED
  BY <1>1, <1>2, HandlerMovesInv

\* It is put into the list of the manager.
LEMMA ListenerRegisterInv ==
    ASSUME PipelineInv, NEW h \in Handlers, ListenerRegister(h)
    PROVE  PipelineInv'
<1>1. PipelineTypeOK'
  BY DEF PipelineInv, PipelineTypeOK, ListenerRegister, handlerVars, queueVars
<1>2. PlacesDisjoint' /\ SubmittersWait'
  BY DEF PipelineInv, ListenerRegister, handlerVars, queueVars, PlacesDisjoint,
         SubmittersWait, Waiting, Working
<1>3. ConnectionsExist'
  BY DEF PipelineInv, PipelineTypeOK, ListenerRegister, handlerVars, queueVars,
         ConnectionsExist, ExecHolds
<1> QED
  BY <1>1, <1>2, <1>3 DEF PipelineInv

\* The steps of a handler's thread that submit nothing.
LEMMA HandlerThreadInv ==
    ASSUME PipelineInv, NEW h \in Handlers,
           \/ HandlerLoop(h) \/ HandlerPolls(h) \/ HandlerReadFails(h)
           \/ HandlerReads(h) \/ HandlerRefuses(h) \/ HandlerReadsNull(h)
           \/ HandlerWakes(h)
    PROVE  PipelineInv'
<1> SUFFICES HandlerMoves(h) /\ PipelineTypeOK'
  BY HandlerMovesInv
<1>0. PipelineTypeOK /\ ConnectionsExist
  BY DEF PipelineInv
<1> USE DEF PipelineTypeOK, listenVars, queueVars, handlerVars
<1>1. CASE HandlerLoop(h)
  <2>1. /\ thr[h] = "top" /\ conn' = conn
        /\ \/ conn[h] = "null" /\ thr' = thr /\ crashed' = "handler"
           \/ conn[h] # "null" /\ thr' = [thr EXCEPT ![h] = "poll"] /\ crashed' = crashed
    BY <1>1 DEF HandlerLoop
  <2>2. conn[h] # "none"
    BY <1>0, <2>1 DEF ConnectionsExist
  <2>3. HandlerMoves(h)
    BY <1>0, <1>1, <2>1, <2>2 DEF HandlerLoop, HandlerMoves, ConnectionsExist
  <2>4. PipelineTypeOK'
    <3>1. /\ thr' \in [Handlers -> {"none", "top", "poll", "read", "submit",
                                    "wait", "ended"}]
          /\ crashed' \in {"no", "cleanup", "handler"}
      BY <1>0, <2>1
    <3>2. UNCHANGED <<lst, cleanup, conn, owned, left, sent, promise, dispQ, disp,
                      execQ, exec, mainThread>>
      BY <1>1 DEF HandlerLoop
    <3> QED
      BY <1>0, <3>1, <3>2
  <2> QED
    BY <2>3, <2>4
<1>2. CASE HandlerPolls(h)
  <2>1. sent' \in [Handlers -> 0..MaxPerConnection]
    BY <1>0, <1>2, PipelineBoundsAssumption DEF HandlerPolls
  <2>2. HandlerMoves(h)
    BY <1>0, <1>2 DEF HandlerPolls, HandlerMoves
  <2>3. PipelineTypeOK'
    BY <1>0, <1>2, <2>1 DEF HandlerPolls
  <2> QED
    BY <2>2, <2>3
<1>3. CASE HandlerReadFails(h)
  <2>1. HandlerMoves(h)
    BY <1>0, <1>3 DEF HandlerReadFails, HandlerMoves
  <2>2. PipelineTypeOK'
    BY <1>0, <1>3 DEF HandlerReadFails
  <2> QED
    BY <2>1, <2>2
<1>4. CASE HandlerReads(h)
  <2>1. PICK n \in 1..MaxStatements : left' = [left EXCEPT ![h] = n]
    BY <1>4 DEF HandlerReads
  <2>2. left' \in [Handlers -> 0..MaxStatements]
    BY <1>0, <2>1, PipelineBoundsAssumption
  <2>3. left'[h] > 0 /\ \A g \in Handlers \ {h} : left'[g] = left[g]
    BY <1>0, <2>1, PipelineBoundsAssumption
  <2>4. HandlerMoves(h)
    BY <1>0, <1>4, <2>3 DEF HandlerReads, HandlerMoves
  <2>5. PipelineTypeOK'
    BY <1>0, <1>4, <2>2 DEF HandlerReads
  <2> QED
    BY <2>4, <2>5
<1>5. CASE HandlerRefuses(h)
  <2>1. HandlerMoves(h)
    BY <1>0, <1>5 DEF HandlerRefuses, HandlerMoves
  <2>2. PipelineTypeOK'
    BY <1>0, <1>5 DEF HandlerRefuses
  <2> QED
    BY <2>1, <2>2
<1>6. CASE HandlerReadsNull(h)
  <2>1. HandlerMoves(h)
    BY <1>0, <1>6 DEF HandlerReadsNull, HandlerMoves, ConnectionsExist
  <2>2. PipelineTypeOK'
    BY <1>0, <1>6 DEF HandlerReadsNull
  <2> QED
    BY <2>1, <2>2
<1>7. CASE HandlerWakes(h)
  <2>1. /\ thr[h] = "wait" /\ promise[h] # "none"
        /\ \/ /\ thr' = [thr EXCEPT ![h] = "ended"]
              /\ conn' = [conn EXCEPT ![h] = "null"]
           \/ /\ left[h] > 0 /\ conn' = conn
              /\ thr' = [thr EXCEPT ![h] = "submit"]
           \/ thr' = [thr EXCEPT ![h] = "top"] /\ conn' = conn
    BY <1>7 DEF HandlerWakes
  <2>2. HandlerMoves(h)
    BY <1>0, <1>7, <2>1 DEF HandlerWakes, HandlerMoves, ConnectionsExist
  <2>3. PipelineTypeOK'
    <3>1. /\ thr' \in [Handlers -> {"none", "top", "poll", "read", "submit",
                                    "wait", "ended"}]
          /\ conn' \in [Handlers -> {"none", "open", "null"}]
      BY <1>0, <2>1
    <3>2. UNCHANGED <<lst, cleanup, owned, left, sent, promise, dispQ, disp,
                      execQ, exec, mainThread, crashed>>
      BY <1>7 DEF HandlerWakes
    <3> QED
      BY <1>0, <3>1, <3>2
  <2> QED
    BY <2>2, <2>3
<1> QED
  BY <1>1, <1>2, <1>3, <1>4, <1>5, <1>6, <1>7

\* A statement goes to the queue of the dispatcher: its handler is waiting for
\* nothing else.
LEMMA HandlerSubmitsInv ==
    ASSUME PipelineInv, NEW h \in Handlers, HandlerSubmits(h)
    PROVE  PipelineInv'
<1>0. PipelineTypeOK /\ ConnectionsExist
  BY DEF PipelineInv
<1>1. CASE ~Alive(h)
  <2>1. /\ thr[h] = "submit" /\ thr' = [thr EXCEPT ![h] = "top"]
        /\ UNCHANGED <<dispQ, left, promise, lst, cleanup, conn, owned, sent,
                       disp, execQ, exec, mainThread, crashed>>
    BY <1>1 DEF HandlerSubmits, listenVars
  <2>2. PipelineTypeOK'
    <3>1. HandlerTypes'
      BY <1>0, <2>1, TypeParts DEF HandlerTypes
    <3>2. ThreadTypes' /\ QueueTypes'
      BY <1>0, <2>1, TypeParts
    <3> QED
      BY <3>1, <3>2, TypeParts
  <2>3. HandlerMoves(h)
    BY <1>0, <2>1 DEF PipelineTypeOK, ConnectionsExist, HandlerMoves
  <2> QED
    BY <2>2, <2>3, HandlerMovesInv
<1>2. CASE Alive(h)
  <2>0. /\ thr[h] = "submit" /\ thr' = [thr EXCEPT ![h] = "wait"]
        /\ dispQ' = Append(dispQ, h)
        /\ promise' = [promise EXCEPT ![h] = "none"]
        /\ left' = [left EXCEPT ![h] = @ - 1]
        /\ UNCHANGED <<lst, cleanup, conn, owned, sent, disp, execQ, exec, mainThread,
                       crashed>>
    BY <1>2 DEF HandlerSubmits, listenVars
  <2>1. dispQ \in Seq(Handlers) /\ execQ \in Seq(Handlers)
    BY <1>0 DEF PipelineTypeOK
  <2>2. PipelineTypeOK'
    <3>1. left[h] \in 1..MaxStatements
      BY <1>0, <2>0, PipelineBoundsAssumption DEF PipelineTypeOK, ConnectionsExist
    <3>2. left' \in [Handlers -> 0..MaxStatements]
      <4>1. left \in [Handlers -> 0..MaxStatements] /\ MaxStatements \in Nat
        BY <1>0, PipelineBoundsAssumption DEF PipelineTypeOK
      <4>2. left[h] - 1 \in 0..MaxStatements
        BY <3>1, <4>1
      <4> QED
        BY <2>0, <4>1, <4>2
    <3>3. dispQ' \in Seq(Handlers)
      BY <2>0, <2>1, AddedToQueue
    <3>4. thr' \in [Handlers -> {"none", "top", "poll", "read", "submit", "wait", "ended"}]
      BY <1>0, <2>0 DEF PipelineTypeOK
    <3>5. promise' \in [Handlers -> Results]
      BY <1>0, <2>0 DEF PipelineTypeOK, Results
    <3>6. HandlerTypes'
      BY <1>0, <2>0, <3>2, <3>4, <3>5, TypeParts DEF HandlerTypes
    <3>7. QueueTypes'
      BY <1>0, <2>0, <3>3, TypeParts DEF QueueTypes
    <3>8. ThreadTypes'
      BY <1>0, <2>0, TypeParts
    <3> QED
      BY <3>6, <3>7, <3>8, TypeParts
  <2>3. /\ Len(dispQ) \in Nat /\ Len(dispQ') = Len(dispQ) + 1
        /\ \A i \in 1..Len(dispQ) : dispQ'[i] = dispQ[i]
        /\ dispQ'[Len(dispQ')] = h
    BY <2>0, <2>1, AddedToQueue
  <2>4. /\ \A i \in 1..Len(dispQ) : dispQ[i] \in Handlers \ {h}
        /\ \A i \in 1..Len(execQ) : execQ[i] \in Handlers \ {h}
        /\ disp # h /\ exec.h # h
    BY <2>0, NoHandlerAssumption DEF PipelineInv, SubmittersWait, Waiting
  <2>5. PlacesDisjoint'
    BY <2>0, <2>3, <2>4 DEF PipelineInv, PlacesDisjoint
  <2>6. SubmittersWait'
    <3>1. h \in Waiting' /\ Waiting \subseteq Waiting'
      BY <1>0, <2>0 DEF PipelineTypeOK, Waiting
    <3>2. \A i \in 1..Len(dispQ) : dispQ'[i] \in Waiting'
      BY <2>3, <3>1 DEF PipelineInv, SubmittersWait
    <3>3. \A i \in 1..Len(dispQ') : dispQ'[i] \in Waiting'
      BY <2>3, <3>1, <3>2
    <3> QED
      BY <2>0, <3>1, <3>3 DEF PipelineInv, SubmittersWait, Working
  <2>7. ConnectionsExist'
    BY <1>0, <2>0 DEF PipelineTypeOK, ConnectionsExist, ExecHolds
  <2> QED
    BY <2>2, <2>5, <2>6, <2>7 DEF PipelineInv
<1> QED
  BY <1>1, <1>2

\* The dispatcher takes the first request of its queue.
LEMMA DispatcherTakesInv ==
    ASSUME PipelineInv, DispatcherTakes
    PROVE  PipelineInv'
<1>0. /\ PipelineTypeOK /\ dispQ \in Seq(Handlers) /\ dispQ # << >>
      /\ disp' = Head(dispQ) /\ dispQ' = Tail(dispQ)
      /\ UNCHANGED <<lst, cleanup, conn, owned, thr, left, sent, promise, execQ,
                     exec, mainThread, crashed>>
  BY DEF PipelineInv, PipelineTypeOK, DispatcherTakes, listenVars, handlerVars
<1>1. /\ Len(dispQ) \in Nat \ {0} /\ disp' = dispQ[1] /\ dispQ[1] \in Handlers
      /\ dispQ' \in Seq(Handlers) /\ Len(dispQ') = Len(dispQ) - 1
      /\ \A i \in 1..Len(dispQ') : dispQ'[i] = dispQ[i + 1]
  BY <1>0, TakenFromQueue
<1>2. PipelineTypeOK'
  BY <1>0, <1>1 DEF PipelineTypeOK
<1>3. PlacesDisjoint'
  BY <1>0, <1>1 DEF PipelineInv, PlacesDisjoint
<1>4. Waiting' = Waiting /\ Working' = Working
  BY <1>0 DEF Waiting, Working
<1>5. SubmittersWait'
  BY <1>0, <1>1, <1>4 DEF PipelineInv, SubmittersWait
<1>6. ConnectionsExist'
  BY <1>0 DEF PipelineInv, ConnectionsExist, ExecHolds
<1> QED
  BY <1>2, <1>3, <1>5, <1>6 DEF PipelineInv

\* It adds the request to the queue of the executor.
LEMMA DispatcherAddsInv ==
    ASSUME PipelineInv, DispatcherAdds
    PROVE  PipelineInv'
<1>0. /\ PipelineTypeOK /\ execQ \in Seq(Handlers) /\ disp \in Handlers
      /\ disp' = NoHandler /\ execQ' = Append(execQ, disp)
      /\ UNCHANGED <<lst, cleanup, conn, owned, thr, left, sent, promise, dispQ,
                     exec, mainThread, crashed>>
  BY DEF PipelineInv, PipelineTypeOK, DispatcherAdds, listenVars, handlerVars
<1>1. /\ Len(execQ) \in Nat /\ execQ' \in Seq(Handlers)
      /\ Len(execQ') = Len(execQ) + 1
      /\ \A i \in 1..Len(execQ) : execQ'[i] = execQ[i]
      /\ execQ'[Len(execQ')] = disp
  BY <1>0, AddedToQueue
<1>2. PipelineTypeOK'
  BY <1>0, <1>1 DEF PipelineTypeOK
<1>3. Waiting' = Waiting /\ Working' = Working /\ Waiting \subseteq Handlers
  BY <1>0 DEF Waiting, Working
<1>4. PlacesDisjoint'
  BY <1>0, <1>1, <1>3, NoHandlerAssumption DEF PipelineInv, PlacesDisjoint, SubmittersWait
<1>5. SubmittersWait'
  BY <1>0, <1>1, <1>3, NoHandlerAssumption DEF PipelineInv, SubmittersWait
<1>6. ConnectionsExist'
  BY <1>0 DEF PipelineInv, ConnectionsExist, ExecHolds
<1> QED
  BY <1>2, <1>4, <1>5, <1>6 DEF PipelineInv

\* Its thread ends.
LEMMA DispatcherEndsInv ==
    ASSUME PipelineInv, DispatcherEnds
    PROVE  PipelineInv'
<1>0. /\ PipelineTypeOK /\ disp' = "ended"
      /\ UNCHANGED <<lst, cleanup, conn, owned, thr, left, sent, promise, dispQ,
                     execQ, exec, mainThread, crashed>>
  BY DEF PipelineInv, DispatcherEnds, listenVars, handlerVars
<1>1. PipelineTypeOK'
  BY <1>0 DEF PipelineTypeOK
<1>2. Waiting' = Waiting /\ Working' = Working /\ Waiting \subseteq Handlers
  BY <1>0 DEF Waiting, Working
<1>3. PlacesDisjoint' /\ SubmittersWait'
  BY <1>0, <1>2, NoHandlerAssumption DEF PipelineInv, PlacesDisjoint, SubmittersWait
<1>4. ConnectionsExist'
  BY <1>0 DEF PipelineInv, ConnectionsExist, ExecHolds
<1> QED
  BY <1>1, <1>3, <1>4 DEF PipelineInv

\* The executor takes a request.  It holds the handler only if the list still
\* has it, and then the connection exists.
LEMMA ExecutorTakesInv ==
    ASSUME PipelineInv, ExecutorTakes
    PROVE  PipelineInv'
<1> DEFINE h == Head(execQ)
<1>0. /\ PipelineTypeOK /\ execQ \in Seq(Handlers) /\ execQ # << >> /\ exec.at = "idle"
      /\ execQ' = Tail(execQ)
      /\ UNCHANGED <<lst, cleanup, conn, owned, thr, left, sent, promise, dispQ,
                     disp, mainThread, crashed>>
  BY DEF PipelineInv, PipelineTypeOK, ExecutorTakes, listenVars, handlerVars
<1>1. /\ Len(execQ) \in Nat \ {0} /\ h = execQ[1] /\ h \in Handlers
      /\ execQ' \in Seq(Handlers) /\ Len(execQ') = Len(execQ) - 1
      /\ \A i \in 1..Len(execQ') : execQ'[i] = execQ[i + 1]
  BY <1>0, TakenFromQueue
<1>2. \/ exec' = [at |-> "run", h |-> h, res |-> "fail"] /\ owned[h] = "held"
      \/ exec' = [at |-> "set", h |-> h, res |-> "fail"]
  BY <1>0 DEF ExecutorTakes, Alive, ExecHolds
<1> HIDE DEF h
<1>3. exec'.h = h /\ exec'.at \in {"run", "set"} /\ exec'.res = "fail"
  BY <1>2
<1>4. PipelineTypeOK'
  <2>1. exec' \in [at: {"idle", "run", "release", "join", "set", "ended"},
                   h: Handlers \cup {NoHandler}, res: Results]
    BY <1>1, <1>2 DEF Results
  <2>2. ThreadTypes' /\ HandlerTypes'
    BY <1>0, TypeParts
  <2>3. QueueTypes'
    <3>1. dispQ' \in Seq(Handlers) /\ disp' \in Handlers \cup {NoHandler, "ended"}
      BY <1>0 DEF PipelineTypeOK
    <3> QED
      BY <1>1, <2>1, <3>1, Zenon DEF QueueTypes
  <2> QED
    BY <2>2, <2>3, TypeParts
<1>5. Waiting' = Waiting /\ Working'
  BY <1>0, <1>3 DEF Waiting, Working
<1>6. h \in Waiting
  BY <1>1 DEF PipelineInv, SubmittersWait
<1>7. PlacesDisjoint'
  BY <1>0, <1>1, <1>3 DEF PipelineInv, PlacesDisjoint
<1>8. SubmittersWait'
  BY <1>0, <1>1, <1>3, <1>5, <1>6 DEF PipelineInv, SubmittersWait
<1>9. ConnectionsExist'
  <2>1. exec'.at = "run" => conn[h] = "open"
    BY <1>1, <1>2, <1>6 DEF PipelineInv, ConnectionsExist, Waiting
  <2> QED
    BY <1>0, <1>3, <2>1 DEF PipelineInv, ConnectionsExist, ExecHolds
<1> QED
  BY <1>4, <1>7, <1>8, <1>9 DEF PipelineInv

\* The request is executed.
LEMMA ExecutorRunsInv ==
    ASSUME PipelineInv, ExecutorRuns
    PROVE  PipelineInv'
<1>1. PICK r \in {"ok", "fail"} : exec' = [exec EXCEPT !.at = "release", !.res = r]
  BY DEF ExecutorRuns
<1>2. /\ PipelineTypeOK /\ exec.at = "run"
      /\ UNCHANGED <<lst, cleanup, conn, owned, thr, left, sent, promise, dispQ,
                     disp, execQ, mainThread, crashed>>
  BY DEF PipelineInv, ExecutorRuns, listenVars, handlerVars, queueVars
<1>3. exec'.h = exec.h /\ exec'.at = "release"
  BY <1>1, <1>2 DEF PipelineTypeOK
<1>4. PipelineTypeOK'
  <2>1. exec' \in [at: {"idle", "run", "release", "join", "set", "ended"},
                   h: Handlers \cup {NoHandler}, res: Results]
    BY <1>1, <1>2 DEF PipelineTypeOK, Results
  <2>2. ThreadTypes' /\ HandlerTypes'
    BY <1>2, TypeParts
  <2>3. QueueTypes'
    BY <1>2, <2>1, TypeParts DEF QueueTypes
  <2> QED
    BY <2>2, <2>3, TypeParts
<1>5. PlacesDisjoint'
  BY <1>2, <1>3 DEF PipelineInv, PlacesDisjoint
<1>6. SubmittersWait'
  BY <1>2, <1>3 DEF PipelineInv, SubmittersWait, Waiting, Working
<1>7. ConnectionsExist'
  BY <1>2, <1>3 DEF PipelineInv, ConnectionsExist, ExecHolds
<1> QED
  BY <1>4, <1>5, <1>6, <1>7 DEF PipelineInv

\* The executor drops its reference; if it was the last one, it destroys the
\* connection.
LEMMA ExecutorReleasesInv ==
    ASSUME PipelineInv, ExecutorReleases
    PROVE  PipelineInv'
<1>0. /\ PipelineTypeOK /\ exec.at = "release" /\ exec.h \in Waiting
      /\ UNCHANGED <<lst, cleanup, owned, thr, left, sent, promise, dispQ, disp,
                     execQ, mainThread, crashed>>
  BY DEF PipelineInv, SubmittersWait, Working, ExecutorReleases, listenVars, handlerVars,
         queueVars
<1>1. \/ /\ exec' = [exec EXCEPT !.at = "join"] /\ owned[exec.h] = "dropped"
         /\ conn' = [conn EXCEPT ![exec.h] = "null"]
      \/ exec' = [exec EXCEPT !.at = "set"] /\ conn' = conn
  BY DEF ExecutorReleases
<1>2. exec'.h = exec.h /\ exec'.at \in {"join", "set"} /\ exec.h \in Handlers
  BY <1>0, <1>1 DEF PipelineTypeOK, Waiting
<1>3. PipelineTypeOK'
  <2>1. /\ exec' \in [at: {"idle", "run", "release", "join", "set", "ended"},
                       h: Handlers \cup {NoHandler}, res: Results]
        /\ conn' \in [Handlers -> {"none", "open", "null"}]
    BY <1>0, <1>1, <1>2 DEF PipelineTypeOK
  <2> QED
    BY <1>0, <2>1 DEF PipelineTypeOK
<1>4. PlacesDisjoint'
  BY <1>0, <1>2 DEF PipelineInv, PlacesDisjoint
<1>5. SubmittersWait'
  BY <1>0, <1>2 DEF PipelineInv, SubmittersWait, Waiting, Working
<1>6. ConnectionsExist'
  BY <1>0, <1>1, <1>2 DEF PipelineInv, PipelineTypeOK, ConnectionsExist, ExecHolds, Waiting
<1> QED
  BY <1>3, <1>4, <1>5, <1>6 DEF PipelineInv

\* The executor sets the result: the one place where the request was is empty.
LEMMA ExecutorSetsResultInv ==
    ASSUME PipelineInv, ExecutorSetsResult
    PROVE  PipelineInv'
<1>0. /\ PipelineTypeOK /\ exec.at \in {"join", "set"} /\ exec.h \in Waiting
      /\ exec' = ExecIdle
      /\ promise' = [promise EXCEPT ![exec.h] = exec.res]
      /\ UNCHANGED <<lst, cleanup, conn, owned, thr, left, sent, dispQ, disp,
                     execQ, mainThread, crashed>>
  BY DEF PipelineInv, SubmittersWait, Working, ExecutorSetsResult, listenVars,
         handlerVars, queueVars
<1>1. exec'.h = NoHandler /\ exec'.at = "idle" /\ exec'.res = "none"
  BY <1>0 DEF ExecIdle
<1>2. PipelineTypeOK'
  <2>1. /\ exec' \in [at: {"idle", "run", "release", "join", "set", "ended"},
                       h: Handlers \cup {NoHandler}, res: Results]
        /\ promise' \in [Handlers -> Results]
    BY <1>0 DEF PipelineTypeOK, ExecIdle, Results
  <2> QED
    BY <1>0, <2>1 DEF PipelineTypeOK
<1>3. Waiting \ {exec.h} \subseteq Waiting' /\ Waiting \subseteq Handlers
  BY <1>0 DEF PipelineTypeOK, Waiting
<1>4. PlacesDisjoint'
  BY <1>0, <1>1, <1>3, NoHandlerAssumption DEF PipelineInv, PlacesDisjoint, SubmittersWait
<1>5. SubmittersWait'
  BY <1>0, <1>1, <1>3 DEF PipelineInv, PlacesDisjoint, SubmittersWait, Working
<1>6. ConnectionsExist'
  BY <1>0, <1>1 DEF PipelineInv, ConnectionsExist, ExecHolds
<1> QED
  BY <1>2, <1>4, <1>5, <1>6 DEF PipelineInv

\* Its thread ends.
LEMMA ExecutorEndsInv ==
    ASSUME PipelineInv, ExecutorEnds
    PROVE  PipelineInv'
<1>0. /\ PipelineTypeOK /\ exec.at = "idle" /\ exec' = [exec EXCEPT !.at = "ended"]
      /\ UNCHANGED <<lst, cleanup, conn, owned, thr, left, sent, promise, dispQ,
                     disp, execQ, mainThread, crashed>>
  BY DEF PipelineInv, ExecutorEnds, listenVars, handlerVars, queueVars
<1>1. exec'.h = exec.h /\ exec'.at = "ended"
  BY <1>0 DEF PipelineTypeOK
<1>2. PipelineTypeOK'
  <2>1. exec' \in [at: {"idle", "run", "release", "join", "set", "ended"},
                   h: Handlers \cup {NoHandler}, res: Results]
    BY <1>0 DEF PipelineTypeOK
  <2>2. ThreadTypes' /\ HandlerTypes'
    BY <1>0, TypeParts
  <2>3. QueueTypes'
    BY <1>0, <2>1, TypeParts DEF QueueTypes
  <2> QED
    BY <2>2, <2>3, TypeParts
<1>3. PlacesDisjoint' /\ SubmittersWait'
  BY <1>0, <1>1 DEF PipelineInv, PlacesDisjoint, SubmittersWait, Waiting, Working
<1>4. ConnectionsExist'
  BY <1>0, <1>1 DEF PipelineInv, ConnectionsExist, ExecHolds
<1> QED
  BY <1>2, <1>3, <1>4 DEF PipelineInv

\* The main thread drops a handler, and destroys the connection unless the
\* executor holds it.
LEMMA MainDropsInv ==
    ASSUME PipelineInv, NEW h \in Handlers, MainDrops(h)
    PROVE  PipelineInv'
<1>0. /\ PipelineTypeOK /\ owned' = [owned EXCEPT ![h] = "dropped"]
      /\ UNCHANGED <<lst, cleanup, thr, left, sent, promise, dispQ, disp, execQ,
                     exec, crashed>>
  BY DEF PipelineInv, MainDrops, listenVars, handlerVars, queueVars
<1>1. \/ conn' = conn /\ mainThread' = mainThread
      \/ /\ ~ExecHolds(h) /\ conn' = [conn EXCEPT ![h] = "null"]
         /\ mainThread' = [at |-> "joinHandler", h |-> h]
  BY DEF MainDrops
<1>2. PipelineTypeOK'
  <2>1. conn' \in [Handlers -> {"none", "open", "null"}]
    BY <1>0, <1>1 DEF PipelineTypeOK
  <2>2. mainThread' \in [at: {"serving", "signal", "joinListener", "drop",
                        "joinHandler", "executors", "dispatcher", "stopped"},
                   h: Handlers \cup {NoHandler}]
    BY <1>0, <1>1 DEF PipelineTypeOK
  <2>3. owned' \in [Handlers -> {"no", "held", "dropped"}]
    BY <1>0 DEF PipelineTypeOK
  <2>4. ThreadTypes' /\ QueueTypes'
    BY <1>0, <2>2, TypeParts DEF ThreadTypes
  <2>5. HandlerTypes'
    BY <1>0, <2>1, <2>3, TypeParts DEF HandlerTypes
  <2> QED
    BY <2>4, <2>5, TypeParts
<1>3. PlacesDisjoint' /\ SubmittersWait'
  BY <1>0 DEF PipelineInv, PlacesDisjoint, SubmittersWait, Waiting, Working
<1>4. ConnectionsExist'
  BY <1>0, <1>1 DEF PipelineInv, PipelineTypeOK, ConnectionsExist, ExecHolds
<1> QED
  BY <1>2, <1>3, <1>4 DEF PipelineInv

--------------------------------------------------------------------------------
(***************************************************************************)
(* The theorems.                                                           *)
(***************************************************************************)

\* The IO manager starts in a state of the invariant.
LEMMA PipelineInitInv == PipelineInit => PipelineInv
<1> SUFFICES ASSUME PipelineInit PROVE PipelineInv
  OBVIOUS
<1>1. PipelineTypeOK
  BY PipelineBoundsAssumption DEF PipelineInit, PipelineTypeOK, ExecIdle, Results
<1>2. PlacesDisjoint /\ SubmittersWait /\ ConnectionsExist
  BY NoHandlerAssumption
  DEF PipelineInit, PlacesDisjoint, SubmittersWait, ConnectionsExist, Working, ExecHolds,
      ExecIdle, NoHandler
<1> QED
  BY <1>1, <1>2 DEF PipelineInv

\* Every step of every thread keeps it.
LEMMA PipelineNextInv == PipelineInv /\ [PipelineNext]_pipelineVars => PipelineInv'
<1> SUFFICES ASSUME PipelineInv, [PipelineNext]_pipelineVars PROVE PipelineInv'
  OBVIOUS
<1>1. CASE ListenerStep
  <2>1. CASE ListenerCheck \/ ListenerBlocks
    BY <2>1, OtherThreadsInv
    DEF ListenerCheck, ListenerBlocks, coreVars, handlerVars, queueVars
  <2>2. CASE \E h \in Handlers : ListenerRegister(h)
    BY <2>2, ListenerRegisterInv
  <2> QED
    BY <1>1, <2>1, <2>2 DEF ListenerStep
<1>2. CASE RemoveDeadConnections
  BY <1>2, OtherThreadsInv DEF RemoveDeadConnections, coreVars, handlerVars, queueVars
<1>3. CASE DispatcherStep
  BY <1>3, DispatcherTakesInv, DispatcherAddsInv, DispatcherEndsInv
  DEF DispatcherStep
<1>4. CASE ExecutorStep
  BY <1>4, ExecutorTakesInv, ExecutorRunsInv, ExecutorReleasesInv,
     ExecutorSetsResultInv, ExecutorEndsInv
  DEF ExecutorStep
<1>5. CASE MainStep \/ MainRequestsExit
  <2>1. CASE \E h \in Handlers : MainDrops(h)
    BY <2>1, MainDropsInv
  <2>2. CASE \/ MainRequestsExit \/ MainSignalsListener \/ MainJoinsListener
             \/ MainJoinsHandler \/ MainDropsExecutors \/ MainJoinsExecutor
             \/ MainJoinsDispatcher
    <3>1. UNCHANGED coreVars
      BY <2>2
      DEF MainRequestsExit, MainSignalsListener, MainJoinsListener,
          MainJoinsHandler, MainDropsExecutors, MainJoinsExecutor,
          MainJoinsDispatcher, coreVars, handlerVars, queueVars
    <3> QED
      BY <2>2, <3>1, OtherThreadsInv
  <2> QED
    BY <1>5, <2>1, <2>2 DEF MainStep
<1>6. CASE \E h \in Handlers :
              \/ ListenerAccept(h) \/ HandlerStep(h) \/ HandlerPolls(h)
              \/ HandlerReadFails(h)
  <2> PICK h \in Handlers :
              \/ ListenerAccept(h) \/ HandlerStep(h) \/ HandlerPolls(h)
              \/ HandlerReadFails(h)
    BY <1>6
  <2> QED
    BY ListenerAcceptInv, HandlerThreadInv, HandlerSubmitsInv DEF HandlerStep
<1>7. CASE UNCHANGED pipelineVars
  BY <1>7
  DEF pipelineVars, PipelineInv, PipelineTypeOK, PlacesDisjoint, SubmittersWait, Waiting, Working,
      ConnectionsExist, ExecHolds
<1> QED
  BY <1>1, <1>2, <1>3, <1>4, <1>5, <1>6, <1>7 DEF PipelineNext

\* A connection has at most one request in the dispatcher, the executor and
\* their queues, and its thread waits for it (submitRequest and future.wait of
\* the handlers); the types are those of TypeOK.
THEOREM OneRequestPerConnection ==
    PipelineSpec => [](PipelineTypeOK /\ PlacesDisjoint /\ SubmittersWait)
<1>1. PipelineInv => PipelineTypeOK /\ PlacesDisjoint /\ SubmittersWait
  BY DEF PipelineInv
<1> QED
  BY <1>1, PipelineInitInv, PipelineNextInv, PTL DEF PipelineSpec

\* executeIOManagerRequest runs with a connection that exists and whose thread
\* waits, although three threads destroy connections.
THEOREM ExecutionIsSafe == PipelineSpec => []ExecutionHasConnection
<1>1. PipelineInv => ExecutionHasConnection
  <2> SUFFICES ASSUME PipelineInv, exec.at = "run"
               PROVE  conn[exec.h] = "open" /\ thr[exec.h] = "wait"
    BY DEF ExecutionHasConnection
  <2>1. exec.h \in Handlers /\ thr[exec.h] = "wait"
    BY DEF PipelineInv, SubmittersWait, Waiting, Working
  <2> QED
    BY <2>1 DEF PipelineInv, ConnectionsExist, ExecHolds
<1> QED
  BY <1>1, PipelineInitInv, PipelineNextInv, PTL DEF PipelineSpec
================================================================================
