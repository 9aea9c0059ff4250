------------------------------ MODULE RestExchange ------------------------------
(***************************************************************************)
(* The exchange of requests over one connection of the REST server's pool  *)
(* with the connection handler of the IO manager at its other end, from    *)
(* the dial to the close of the connection.                                *)
(*                                                                         *)
(* REST server: RequestHandler*.go and IOMgrConnection.go.  IO manager:    *)
(* IOManagerRestConnectionHandler, DBEngineRestRequestFactory and the REST *)
(* part of RequestHandler.  One request uses the connection at a time      *)
(* (OneHolder of RestConnPool); nothing is pipelined.                      *)
(*                                                                         *)
(* The two directions of the connection are sequences of frames: a message *)
(* or a chunk.  A frame read where another one is expected is what the     *)
(* code makes of its bytes.                                                *)
(***************************************************************************)
EXTENDS Integers, Sequences

CONSTANTS
    Kinds,           \* the kinds of requests that clients send
    SlowServer,      \* whether an answer may take longer than readDeadline
    ClientMayLeave,  \* whether an HTTP client may disconnect during its answer
    MaxRequests      \* bound: requests sent over the connection

(***************************************************************************)
(* Kinds of requests.  post stands for POST and PATCH.                     *)
(*   noHeader       the Authorization header is missing                    *)
(*   badToken       the IO manager does not authenticate the user          *)
(*   get, delete    a good request                                         *)
(*   getRefused     a bad name, a table that does not exist, ...           *)
(*   getBreaks      reading rows throws after the response has been sent   *)
(*   post           a good request                                         *)
(*   postBadName    an invalid database or table name                      *)
(*   postMalformed  the body is not JSON                                   *)
(*   postPartial    a row is refused after other rows have been inserted   *)
(*   postExact      the body is a multiple of request_payload_buffer_size  *)
(*   postEmpty      there is no body                                       *)
(*   postHuge       the body exceeds max_json_payload_size                 *)
(***************************************************************************)
AllKinds == {"noHeader", "badToken", "get", "getRefused", "getBreaks", "delete",
             "post", "postBadName", "postMalformed", "postPartial", "postExact",
             "postEmpty", "postHuge"}
Posts == {"post", "postBadName", "postMalformed", "postPartial", "postExact",
          "postEmpty", "postHuge"}
Modifications == Posts \cup {"delete"}

ASSUME KindsAssumption == Kinds \subseteq AllKinds
ASSUME ExchangeAssumption ==
    SlowServer \in BOOLEAN /\ ClientMayLeave \in BOOLEAN /\ MaxRequests \in Nat

Id == 1..MaxRequests

VARIABLES
    kind,     \* [Id -> kind of the request with this ID]
    cur,      \* ID of the latest request (trackedNetConn.RequestID - 1)
    rest,     \* where the REST server is with it
    up,       \* Seq(frame): to the IO manager
    down,     \* Seq(frame): to the REST server
    srv,      \* where the thread of the IO manager is
    srvReq,   \* ID of the request it works on
    garbled,  \* whether it took foreign bytes for the body
    gotData,  \* whether it read a chunk of the body
    ans,      \* [Id -> how the REST server answered its client: "refused" by
              \* the IO manager, "failed", "late" (it was not waited for),
              \* "left" (the client did), "success"]
    relayed,  \* [Id -> IDs of the requests whose frames the client was sent]
    stored    \* [Id -> what the request changed in the table]

restVars == <<kind, cur, rest, ans, relayed>>
srvVars == <<srv, srvReq, garbled, gotData, stored>>
vars == <<kind, cur, rest, up, down, srv, srvReq, garbled, gotData, ans, relayed,
          stored>>

UpFrames == [t: {"request", "chunk", "end"}, id: Id]
            \cup [t: {"garbage"}, id: {0}]
DownFrames == [t: {"authenticated", "error", "ok", "json", "jsonEnd"}, id: Id]
Responses == {"authenticated", "error", "ok"}

Frame(type, id) == [t |-> type, id |-> id]

Init ==
    /\ kind = [r \in Id |-> "none"]
    /\ cur = 0
    /\ rest = "pooled"
    /\ up = << >>
    /\ down = << >>
    /\ srv = "read"
    /\ srvReq = 0
    /\ garbled = FALSE
    /\ gotData = FALSE
    /\ ans = [r \in Id |-> "none"]
    /\ relayed = [r \in Id |-> {}]
    /\ stored = [r \in Id |-> "no"]

--------------------------------------------------------------------------------
(***************************************************************************)
(* REST server.                                                            *)
(***************************************************************************)

\* The request is answered and the connection goes back to the pool, or is
\* closed (Conn = nil) and leaves it.
Answer(a, where) ==
    /\ ans' = [ans EXCEPT ![cur] = a]
    /\ rest' = where

\* post, get, delete, patch: up to the first write.
Begin(k) ==
    /\ rest = "pooled"
    /\ cur < MaxRequests
    /\ cur' = cur + 1
    /\ kind' = [kind EXCEPT ![cur + 1] = k]
    /\ IF k = "noHeader"
       THEN ans' = [ans EXCEPT ![cur + 1] = "refused"] /\ rest' = "pooled"
       ELSE ans' = ans /\ rest' = "send"
    /\ UNCHANGED <<up, down, relayed, srvVars>>

\* writeIOMgrRequest.  A POST expects the authentication first.
WriteRequest ==
    /\ rest = "send"
    /\ up' = Append(up, Frame("request", cur))
    /\ rest' = IF kind[cur] \in Posts THEN "first" ELSE "final"
    /\ UNCHANGED <<kind, cur, down, ans, relayed, srvVars>>

\* A write fails because the IO manager has closed its end: Conn = nil.
WriteFails ==
    /\ rest \in {"send", "body", "bodyEnd"}
    /\ srv = "closed"
    /\ Answer("failed", "closed")
    /\ UNCHANGED <<kind, cur, up, down, relayed, srvVars>>

\* Mutant: the ID of the response is not compared.
OwnResponseMutant(f) == f.t \in Responses

\* readMessage and readIOMgrResponse: the expected type and request ID.
OwnResponse(f) == f.t \in Responses /\ f.id = cur

ReadAuthenticated ==
    /\ rest = "first"
    /\ down # << >>
    /\ OwnResponse(Head(down))
    /\ Head(down).t # "error"
    /\ down' = Tail(down)
    /\ rest' = "body"
    /\ relayed' = [relayed EXCEPT ![cur] = @ \cup {Head(down).id}]
    /\ UNCHANGED <<kind, cur, up, ans, srvVars>>

ReadOk ==
    /\ rest = "final"
    /\ down # << >>
    /\ OwnResponse(Head(down))
    /\ Head(down).t # "error"
    /\ down' = Tail(down)
    /\ rest' = "json"
    /\ relayed' = [relayed EXCEPT ![cur] = @ \cup {Head(down).id}]
    /\ UNCHANGED <<kind, cur, up, ans, srvVars>>

\* A response with a message: its text is the answer, the connection is kept.
ReadError ==
    /\ rest \in {"first", "final"}
    /\ down # << >>
    /\ OwnResponse(Head(down))
    /\ Head(down).t = "error"
    /\ down' = Tail(down)
    /\ relayed' = [relayed EXCEPT ![cur] = @ \cup {Head(down).id}]
    /\ Answer("refused", "pooled")
    /\ UNCHANGED <<kind, cur, up, srvVars>>

\* Another request's response or something that is no response: Conn = nil.
ReadForeign ==
    /\ rest \in {"first", "final"}
    /\ down # << >>
    /\ ~OwnResponse(Head(down))
    /\ down' = Tail(down)
    /\ Answer("failed", "closed")
    /\ UNCHANGED <<kind, cur, up, relayed, srvVars>>

\* writeJSONPayload: a chunk of the body.
WriteChunk ==
    /\ rest = "body"
    /\ kind[cur] # "postEmpty"
    /\ up' = Append(up, Frame("chunk", cur))
    /\ rest' = "bodyEnd"
    /\ UNCHANGED <<kind, cur, down, ans, relayed, srvVars>>

\* Mutant: the loop ends with an error for every body.
WriteEndMutant ==
    /\ rest = "bodyEnd"
    /\ kind[cur] # "postHuge"
    /\ Answer("failed", "pooled")
    /\ UNCHANGED <<kind, cur, up, down, relayed, srvVars>>

\* ErrUnexpectedEOF: the last buffer was filled in part, the body is ended.
WriteEnd ==
    /\ rest = "bodyEnd"
    /\ kind[cur] \notin {"postExact", "postHuge"}
    /\ up' = Append(up, Frame("end", cur))
    /\ rest' = "final"
    /\ UNCHANGED <<kind, cur, down, ans, relayed, srvVars>>

\* EOF: no byte was read into the last buffer.  It is returned as an error;
\* the body is not ended and the connection is kept.
BodyEof ==
    /\ \/ rest = "bodyEnd" /\ kind[cur] = "postExact"
       \/ rest = "body" /\ kind[cur] = "postEmpty"
    /\ Answer("failed", "pooled")
    /\ UNCHANGED <<kind, cur, up, down, relayed, srvVars>>

BodyTooLarge ==
    /\ rest = "bodyEnd"
    /\ kind[cur] = "postHuge"
    /\ Answer("failed", "closed")
    /\ UNCHANGED <<kind, cur, up, down, relayed, srvVars>>

\* readChunkedJSON
ReadJson ==
    /\ rest = "json"
    /\ down # << >>
    /\ Head(down).t = "json"
    /\ down' = Tail(down)
    /\ relayed' = [relayed EXCEPT ![cur] = @ \cup {Head(down).id}]
    /\ UNCHANGED <<kind, cur, rest, up, ans, srvVars>>

ReadJsonEnd ==
    /\ rest = "json"
    /\ down # << >>
    /\ Head(down).t = "jsonEnd"
    /\ down' = Tail(down)
    /\ Answer("success", "pooled")
    /\ UNCHANGED <<kind, cur, up, relayed, srvVars>>

\* writeHTTPChunk fails, while chunks are relayed or with the last of the
\* data after the end: the rest of the answer stays in the connection.
ClientGone ==
    /\ ClientMayLeave
    /\ rest = "json"
    /\ down # << >>
    /\ Head(down).t \in {"json", "jsonEnd"}
    /\ down' = Tail(down)
    /\ Answer("left", "pooled")
    /\ UNCHANGED <<kind, cur, up, relayed, srvVars>>

\* The IO manager waits for bytes that will not come.
ServerIsIdle ==
    \/ srv \in {"read", "body"} /\ up = << >>
    \/ srv = "read" /\ up # << >> /\ Head(up).t # "request"

\* Mutant: only the reads of the payload have a deadline.
ReadTimeoutMutant ==
    /\ rest = "json"
    /\ down = << >>
    /\ srv # "closed"
    /\ SlowServer \/ ServerIsIdle
    /\ Answer(IF ServerIsIdle THEN "failed" ELSE "late", "closed")
    /\ UNCHANGED <<kind, cur, up, down, relayed, srvVars>>

\* readDeadline expires: Conn = nil.  A server that waits for input itself
\* never answers; one that works may be too slow.
ReadTimeout ==
    /\ rest \in {"first", "final", "json"}
    /\ down = << >>
    /\ srv # "closed"
    /\ SlowServer \/ ServerIsIdle
    /\ Answer(IF ServerIsIdle THEN "failed" ELSE "late", "closed")
    /\ UNCHANGED <<kind, cur, up, down, relayed, srvVars>>

\* Any other read error, such as EOF, keeps the connection.
ReadEof ==
    /\ rest \in {"first", "final", "json"}
    /\ down = << >>
    /\ srv = "closed"
    /\ Answer("failed", "pooled")
    /\ UNCHANGED <<kind, cur, up, down, relayed, srvVars>>

\* CloseAllConnections at the end of the REST server.
CloseConnection ==
    /\ rest = "pooled"
    /\ rest' = "closed"
    /\ UNCHANGED <<kind, cur, up, down, ans, relayed, srvVars>>

--------------------------------------------------------------------------------
(***************************************************************************)
(* IO manager.  What it writes after the REST server has closed is lost.   *)
(***************************************************************************)

Send(frames) == down' = IF rest = "closed" THEN down ELSE down \o frames

\* The thread reads a request and authenticates its user.  A POST is told so.
SrvRead ==
    /\ srv = "read"
    /\ up # << >>
    /\ Head(up).t = "request"
    /\ up' = Tail(up)
    /\ srvReq' = Head(up).id
    /\ garbled' = FALSE
    /\ gotData' = FALSE
    /\ LET r == Head(up).id IN
       IF kind[r] = "badToken"
       THEN srv' = "read" /\ Send(<<Frame("error", r)>>)
       ELSE /\ srv' = "create"
            /\ Send(IF kind[r] \in Posts THEN <<Frame("authenticated", r)>>
                    ELSE << >>)
    /\ UNCHANGED <<restVars, stored>>

\* Something that is no request: closeConnection.  (A chunk of 13 bytes looks
\* like a request at first; the thread then waits for more.  So this step
\* need not be taken.)
SrvMisreads ==
    /\ srv = "read"
    /\ up # << >>
    /\ Head(up).t # "request"
    /\ srv' = "closed"
    /\ UNCHANGED <<restVars, up, down, srvReq, garbled, gotData, stored>>

\* The REST server has closed and there is nothing left to read.
SrvDisconnected ==
    /\ srv = "read"
    /\ up = << >>
    /\ rest = "closed"
    /\ srv' = "closed"
    /\ UNCHANGED <<restVars, up, down, srvReq, garbled, gotData, stored>>

\* createRestRequest: the names are checked before the body is read.
SrvCreate ==
    /\ srv = "create"
    /\ IF kind[srvReq] = "postBadName"
       THEN srv' = "read" /\ Send(<<Frame("error", srvReq)>>)
       ELSE /\ srv' = IF kind[srvReq] \in Posts THEN "body" ELSE "execute"
            /\ UNCHANGED down
    /\ UNCHANGED <<restVars, up, srvReq, garbled, gotData, stored>>

\* parseJsonPayload, with what it has read as the body; of a body that is too
\* long it has read more than its own limit.
BodyIsGood ==
    ~garbled /\ gotData /\ kind[srvReq] \notin {"postMalformed", "postHuge"}

ParseBody ==
    IF BodyIsGood
    THEN srv' = "execute" /\ UNCHANGED down
    ELSE srv' = "read" /\ Send(<<Frame("error", srvReq)>>)

SrvReadChunk ==
    /\ srv = "body"
    /\ up # << >>
    /\ Head(up).t = "chunk"
    /\ up' = Tail(up)
    /\ gotData' = TRUE
    /\ UNCHANGED <<restVars, down, srv, srvReq, garbled, stored>>

SrvReadEnd ==
    /\ srv = "body"
    /\ up # << >>
    /\ Head(up).t = "end"
    /\ up' = Tail(up)
    /\ ParseBody
    /\ UNCHANGED <<restVars, srvReq, garbled, gotData, stored>>

\* The bytes of the next request are taken for chunks of this body ...
SrvSwallows ==
    /\ srv = "body"
    /\ up # << >>
    /\ Head(up).t = "request"
    /\ up' = Tail(up)
    /\ garbled' = TRUE
    /\ UNCHANGED <<restVars, down, srv, srvReq, gotData, stored>>

\* ... in which a zero byte, or an invalid length, ends the body.
SrvSwallowsEnd ==
    /\ srv = "body"
    /\ up # << >>
    /\ Head(up).t = "request"
    /\ up' = <<Frame("garbage", 0)>> \o Tail(up)
    /\ garbled' = TRUE
    /\ srv' = "read"
    /\ Send(<<Frame("error", srvReq)>>)
    /\ UNCHANGED <<restVars, srvReq, gotData, stored>>

\* The connection ends within the body: the loop just stops reading.
SrvBodyCut ==
    /\ srv = "body"
    /\ up = << >>
    /\ rest = "closed"
    /\ ParseBody
    /\ UNCHANGED <<restVars, up, srvReq, garbled, gotData, stored>>

\* Mutant: a row that is refused is skipped.
SrvExecuteMutant ==
    /\ srv = "execute"
    /\ LET k == kind[srvReq] IN
       /\ stored' = [stored EXCEPT
                        ![srvReq] = IF k = "postPartial" THEN "part"
                                    ELSE IF k \in Modifications THEN "all"
                                    ELSE "no"]
       /\ IF k = "getRefused"
          THEN srv' = "read" /\ Send(<<Frame("error", srvReq)>>)
          ELSE srv' = "stream" /\ Send(<<Frame("ok", srvReq)>>)
    /\ UNCHANGED <<restVars, up, srvReq, garbled, gotData>>

\* executeRequest in the request executor, up to and with the response.  The
\* table is changed before it, the rows of a GET are read after it.
SrvExecute ==
    /\ srv = "execute"
    /\ LET k == kind[srvReq] IN
       /\ stored' = [stored EXCEPT
                        ![srvReq] = IF k = "postPartial" THEN "part"
                                    ELSE IF k \in Modifications THEN "all"
                                    ELSE "no"]
       /\ IF k \in {"getRefused", "postPartial"}
          THEN srv' = "read" /\ Send(<<Frame("error", srvReq)>>)
          ELSE srv' = "stream" /\ Send(<<Frame("ok", srvReq)>>)
    /\ UNCHANGED <<restVars, up, srvReq, garbled, gotData>>

\* The JSON payload.  An exception while rows are read destroys the chunked
\* stream, which ends it, and executeRequest then sends an error response.
SrvStream ==
    /\ srv = "stream"
    /\ srv' = "read"
    /\ Send(<<Frame("json", srvReq), Frame("jsonEnd", srvReq)>>
            \o (IF kind[srvReq] = "getBreaks" THEN <<Frame("error", srvReq)>>
                ELSE << >>))
    /\ UNCHANGED <<restVars, up, srvReq, garbled, gotData, stored>>

--------------------------------------------------------------------------------
RestStep ==
    \/ WriteRequest \/ WriteFails \/ ReadAuthenticated \/ ReadOk \/ ReadError
    \/ ReadForeign \/ WriteChunk \/ WriteEnd \/ BodyEof \/ BodyTooLarge
    \/ ReadJson \/ ReadJsonEnd \/ ClientGone \/ ReadTimeout \/ ReadEof

SrvStep ==
    \/ SrvRead \/ SrvDisconnected \/ SrvCreate \/ SrvReadChunk \/ SrvReadEnd
    \/ SrvSwallows \/ SrvSwallowsEnd \/ SrvBodyCut \/ SrvExecute \/ SrvStream

Next ==
    \/ \E k \in Kinds : Begin(k)
    \/ RestStep
    \/ CloseConnection
    \/ SrvStep
    \/ SrvMisreads

(***************************************************************************)
(* The goroutine of a request and the thread of the connection run; reads  *)
(* of the REST server from the IO manager have a deadline.  Clients need   *)
(* not send requests, but one that does is assumed to finish its upload    *)
(* and to take its answer: the read of the HTTP body and the writes have   *)
(* no deadline.                                                            *)
(***************************************************************************)
Spec == Init /\ [][Next]_vars

FairSpec == Spec /\ WF_vars(RestStep) /\ WF_vars(SrvStep)

--------------------------------------------------------------------------------
\* The state of the connection keeps its types; a request is answered once
\* the connection is pooled or closed.
TypeOK ==
    /\ kind \in [Id -> AllKinds \cup {"none"}]
    /\ cur \in 0..MaxRequests
    /\ rest \in {"pooled", "send", "first", "body", "bodyEnd", "final", "json",
                 "closed"}
    /\ \A i \in 1..Len(up) : up[i] \in UpFrames
    /\ \A i \in 1..Len(down) : down[i] \in DownFrames
    /\ srv \in {"read", "create", "body", "execute", "stream", "closed"}
    /\ srvReq \in 0..MaxRequests
    /\ garbled \in BOOLEAN /\ gotData \in BOOLEAN
    /\ ans \in [Id -> {"none", "refused", "failed", "late", "left", "success"}]
    /\ relayed \in [Id -> SUBSET Id]
    /\ stored \in [Id -> {"no", "part", "all"}]
    /\ \A r \in 1..cur : r < cur \/ rest \in {"pooled", "closed"}
                            => ans[r] # "none"

\* Whatever is left in the connection by earlier requests, a client is only
\* sent what the IO manager answered to its own request.
AnswerIsOwn == \A r \in Id : relayed[r] \subseteq {r}

\* A POST, PATCH or DELETE that is answered with success has made its change
\* and all of it.
SuccessMeansStored ==
    \A r \in Id :
        ans[r] = "success" /\ kind[r] \in Modifications => stored[r] = "all"

\* What leaves something in a connection that is kept: a body that is not
\* ended or not read, a response after the payload, a payload not relayed.
Spoils(r) ==
    \/ kind[r] \in {"postExact", "postEmpty", "postBadName", "getBreaks"}
    \/ ans[r] = "left"

\* A request that was answered with an error does not change the table later,
\* unless its answer was not waited for, or something has spoiled the connection:
\* what is left in it is read instead of the answer, and a body that was sent
\* without its end is executed when the connection is closed.
NoLateExecution ==
    [][\A r \in Id : stored'[r] # stored[r] =>
          ans[r] \in {"none", "late"} \/ \E s \in 1..r : Spoils(s)]_vars

\* Every request is answered, whatever the IO manager makes of its bytes, if its
\* client finishes the upload: reads from the IO manager have a deadline, the read
\* of the HTTP body has none.
EveryRequestAnswered == \A r \in Id : cur = r ~> ans[r] # "none"
================================================================================
