------------------------------ MODULE SqlSession ------------------------------
(***************************************************************************)
(* One SQL session from the connection of siocli to its end: the client    *)
(* (authenticate, executeCommandOnServer), the connection worker process   *)
(* that relays messages (ConnWorkerConnectionHandler) and the thread of    *)
(* the IO manager that executes statements (IOManagerSqlConnectionHandler).*)
(*                                                                         *)
(* The sockets are sequences of frames: a message, the data of a row, or   *)
(* the zero length that ends a row set.  The client makes a new buffering  *)
(* input stream for every response, the worker keeps one for the session.  *)
(* A client that connects again gets a new worker and a new handler, so    *)
(* that one session shows all there is.                                    *)
(***************************************************************************)
EXTENDS Integers, Sequences

CONSTANTS
    Commands,     \* what the user may type: sequences of kinds of statements
    MaxCommands   \* bound: commands sent in the session

(***************************************************************************)
(* Kinds of statements.                                                    *)
(*   done     executed, with a response and no rows                        *)
(*   rows     a SELECT or SHOW with one row                                *)
(*   error    refused while it is executed                                 *)
(*   breaks   a SELECT with an exception other than DatabaseError after    *)
(*            its row: a second response follows the data of the row       *)
(*   bad      refused by DBEngineSqlRequestFactory                         *)
(*   syntax   a text that SqlParser refuses, the whole command             *)
(* A command of comments alone has no statements.                          *)
(***************************************************************************)
Kinds == {"done", "rows", "error", "breaks", "bad", "syntax"}

ASSUME SessionAssumption ==
    /\ \A c \in Commands : c = <<"syntax">> \/ c \in Seq(Kinds \ {"syntax"})
    /\ MaxCommands \in Nat

VARIABLES
    tls,          \* whether the client uses TLS (params.m_encryption)
    stopOnError,  \* params.m_exitOnError, or a single command
    cli,          \* pc, responseId and responseCount of the client
    cmd,          \* the statements of the latest command
    sent,         \* requestId: commands sent
    buf,          \* frames in the client's input stream
    shown,        \* what was printed for the command: one record per response
    up,           \* frames from the client to the worker
    down,         \* frames from the worker to the client
    wrk,          \* pc, responseId and responseCount of the worker
    req,          \* frames from the worker to the IO manager
    rsp,          \* frames from the IO manager to the worker
    hnd,          \* pc of the handler, its statements and the next of them
    broke         \* history: a second response was sent into a row set

client == <<cli, cmd, sent, buf, shown>>
config == <<tls, stopOnError>>
vars == <<config, client, up, down, wrk, req, rsp, hnd, broke>>

-----------------------------------------------------------------------------
(* Frames. *)

Begin == [kind |-> "begin"]
Signature == [kind |-> "signature"]
Command(c) == [kind |-> "command", stmts |-> c]
Answer(ok) == [kind |-> "answer", ok |-> ok]
\* A response to statement number of, with the ID and count written into it.
Response(of, id, count, result) ==
    [kind |-> "response", of |-> of, id |-> id, count |-> count, result |-> result]
Row == [kind |-> "row"]
HalfRow == [kind |-> "half"]
EndOfRows == [kind |-> "end"]
Rest == [kind |-> "rest"]   \* the tail of a message whose head was misread

\* executeRequest: what the execution of a statement sends.
Output(kind, i, n) ==
    CASE kind = "rows"   -> <<Response(i, i - 1, n, "rows"), Row, EndOfRows>>
      [] kind = "breaks" -> <<Response(i, i - 1, n, "rows"), Row,
                              Response(i, i - 1, n, "error")>>
      [] OTHER           -> <<Response(i, i - 1, n, kind)>>

\* sendErrorReponse: the response ID is left 0, whatever statement is refused.
ErrorResponse(i) == <<Response(i, 0, 1, "error")>>

Init ==
    /\ tls \in BOOLEAN /\ stopOnError \in BOOLEAN
    /\ cli = [pc |-> "connect", id |-> 0, count |-> 0]
    /\ cmd = << >> /\ sent = 0 /\ buf = << >> /\ shown = << >>
    /\ up = << >> /\ down = << >> /\ req = << >> /\ rsp = << >>
    /\ wrk = [pc |-> "begin", id |-> 0, count |-> 0]
    /\ hnd = [pc |-> "begin", cmd |-> << >>, i |-> 0]
    /\ broke = FALSE

-----------------------------------------------------------------------------
(* The client. *)

\* Waiting for something from the worker.
Reading == {"begin", "auth", "response", "rows"}
Gone == cli.pc = "closed"

ClientBegins ==
    /\ cli.pc = "connect"
    /\ cli' = [cli EXCEPT !.pc = "begin"]
    /\ up' = Append(up, Begin)
    /\ UNCHANGED <<config, cmd, sent, buf, shown, down, wrk, req, rsp, hnd, broke>>

\* A read of the input stream: one TLS record, or what the socket holds.
ClientFills ==
    /\ cli.pc \in Reading /\ buf = << >> /\ down # << >>
    /\ \E n \in (IF tls THEN {1} ELSE 1..Len(down)) :
          /\ buf' = SubSeq(down, 1, n)
          /\ down' = SubSeq(down, n + 1, Len(down))
    /\ UNCHANGED <<config, cli, cmd, sent, shown, up, wrk, req, rsp, hnd, broke>>

\* The answers of the authentication; the signature follows the first of them.
ClientAuthenticates ==
    /\ cli.pc \in {"begin", "auth"} /\ buf # << >>
    /\ buf' = Tail(buf)
    /\ LET ok == Head(buf).kind = "answer" /\ Head(buf).ok
       IN  /\ cli' = [cli EXCEPT !.pc = IF ~ok THEN "closed"
                                        ELSE IF @ = "begin" THEN "auth" ELSE "idle"]
           /\ up' = IF ok /\ cli.pc = "begin" THEN Append(up, Signature) ELSE up
    /\ UNCHANGED <<config, cmd, sent, shown, down, wrk, req, rsp, hnd, broke>>

ClientSends ==
    /\ cli.pc = "idle" /\ sent < MaxCommands
    /\ \E c \in Commands :
          /\ cmd' = c
          /\ up' = Append(up, Command(c))
    /\ sent' = sent + 1
    /\ cli' = [pc |-> "response", id |-> 0, count |-> 0]
    /\ shown' = << >> /\ buf' = << >>
    /\ UNCHANGED <<config, down, wrk, req, rsp, hnd, broke>>

\* An exception: the client closes its connection.
ClientThrows ==
    /\ cli' = [cli EXCEPT !.pc = "closed"]
    /\ UNCHANGED <<buf, shown>>

\* The end of an iteration: the stream goes, with what it had read ahead.
ClientNext(count) ==
    /\ cli' = [pc |-> IF cli.id + 1 < count THEN "response" ELSE "idle",
               id |-> cli.id + 1, count |-> count]
    /\ buf' = << >>

\* The response ID is not compared.
ExpectedMutant(r) == r.kind = "response"

\* The request ID is the one the worker has put in, that of the command.
Expected(r) == r.kind = "response" /\ r.id = cli.id

ClientResponse ==
    /\ cli.pc = "response" /\ buf # << >>
    /\ LET r == Head(buf)
           count == IF cli.id = 0 THEN r.count ELSE cli.count
       IN  IF ~Expected(r)
           THEN ClientThrows
           ELSE /\ shown' = Append(shown, [of |-> r.of, result |-> r.result, rows |-> 0])
                /\ CASE r.result = "rows" ->
                            /\ cli' = [cli EXCEPT !.pc = "rows", !.count = count]
                            /\ buf' = Tail(buf)
                     [] r.result = "error" /\ stopOnError ->
                            /\ cli' = [cli EXCEPT !.pc = "closed"]
                            /\ UNCHANGED buf
                     [] OTHER -> ClientNext(count)
    /\ UNCHANGED <<config, cmd, sent, up, down, wrk, req, rsp, hnd, broke>>

\* The data of rows is decoded as it comes: a message among it is a row, or
\* has a zero where a length is expected.
ClientRow ==
    /\ cli.pc = "rows" /\ buf # << >>
    /\ \/ /\ Head(buf).kind # "end"
          /\ shown' = [shown EXCEPT ![Len(shown)].rows = @ + 1]
          /\ buf' = Tail(buf)
          /\ UNCHANGED cli
       \/ /\ Head(buf).kind \in {"end", "response", "rest"}
          /\ ClientNext(cli.count)
          /\ UNCHANGED shown
    /\ UNCHANGED <<config, cmd, sent, up, down, wrk, req, rsp, hnd, broke>>

\* The worker has closed the connection.
ClientDisconnected ==
    /\ cli.pc \in Reading /\ buf = << >> /\ down = << >> /\ wrk.pc = "ended"
    /\ ClientThrows
    /\ UNCHANGED <<config, cmd, sent, up, down, wrk, req, rsp, hnd, broke>>

\* exit, the end of the input, or the end of the process at any point.
ClientLeaves ==
    /\ ~Gone
    /\ ClientThrows
    /\ UNCHANGED <<config, cmd, sent, up, down, wrk, req, rsp, hnd, broke>>

-----------------------------------------------------------------------------
(* The connection worker.  It reads its two sockets in turns, and waits     *)
(* for the IO manager without looking at the client.                        *)

WorkerEnds == wrk' = [wrk EXCEPT !.pc = "ended"]

\* The requests of the authentication are passed on, each after the answer to
\* the one before; a challenge comes with the first answer.
WorkerAuthenticates ==
    /\ wrk.pc \in {"begin", "auth"} /\ up # << >>
    /\ wrk' = [wrk EXCEPT !.pc = IF @ = "begin" THEN "beginAnswer" ELSE "authAnswer"]
    /\ req' = Append(req, Head(up))
    /\ up' = Tail(up)
    /\ UNCHANGED <<config, client, down, rsp, hnd, broke>>

WorkerAnswers ==
    /\ wrk.pc \in {"beginAnswer", "authAnswer"} /\ rsp # << >>
    /\ wrk' = [wrk EXCEPT !.pc = IF ~Head(rsp).ok THEN "ended"
                                 ELSE IF @ = "beginAnswer" THEN "auth" ELSE "idle"]
    /\ down' = Append(down, Head(rsp))
    /\ rsp' = Tail(rsp)
    /\ UNCHANGED <<config, client, up, req, hnd, broke>>

\* A write that fails throws system_error, which the branch that would connect
\* again does not catch: it ends the worker as the failing read after it does.
WorkerCommand ==
    /\ wrk.pc = "idle" /\ up # << >>
    /\ wrk' = [pc |-> "response", id |-> 0, count |-> 0]
    /\ req' = Append(req, Head(up))
    /\ up' = Tail(up)
    /\ UNCHANGED <<config, client, down, rsp, hnd, broke>>

\* One more response is awaited than announced.
WorkerNextMutant(count) ==
    wrk' = [pc |-> IF wrk.id + 1 <= count THEN "response" ELSE "idle",
            id |-> wrk.id + 1, count |-> count]

WorkerNext(count) ==
    wrk' = [pc |-> IF wrk.id + 1 < count THEN "response" ELSE "idle",
            id |-> wrk.id + 1, count |-> count]

\* A response is written to the client before its count and its errors are
\* looked at; its request ID is replaced by the one of the command.
WorkerResponse ==
    /\ wrk.pc = "response" /\ rsp # << >>
    /\ rsp' = Tail(rsp)
    /\ LET r == Head(rsp)
           count == IF wrk.id = 0 THEN r.count ELSE wrk.count
       IN  IF r.kind # "response"
           THEN WorkerEnds /\ UNCHANGED down
           ELSE /\ down' = Append(down, r)
                /\ IF r.result = "rows"
                   THEN wrk' = [wrk EXCEPT !.pc = "rows", !.count = count]
                   ELSE WorkerNext(count)
    /\ UNCHANGED <<config, client, up, req, hnd, broke>>

\* forwardRowData.  A response among the rows is taken for the length and data
\* of rows; a zero in it ends the row set.
WorkerRow ==
    /\ wrk.pc = "rows" /\ rsp # << >> /\ Head(rsp).kind # "half"
    /\ down' = Append(down, Head(rsp))
    /\ \/ /\ Head(rsp).kind # "end"
          /\ rsp' = Tail(rsp)
          /\ UNCHANGED wrk
       \/ /\ Head(rsp).kind = "end"
          /\ rsp' = Tail(rsp)
          /\ WorkerNext(wrk.count)
       \/ /\ Head(rsp).kind = "response"
          /\ rsp' = <<Rest>> \o Tail(rsp)
          /\ WorkerNext(wrk.count)
    /\ UNCHANGED <<config, client, up, req, hnd, broke>>

\* The IO manager has gone in the middle of a row: an exception, or, if errno
\* is not 0 by chance, no data and no error for ever.
WorkerHalfRow ==
    /\ wrk.pc = "rows" /\ rsp # << >> /\ Head(rsp).kind = "half"
    /\ wrk' \in {[wrk EXCEPT !.pc = "ended"], [wrk EXCEPT !.pc = "spin"]}
    /\ UNCHANGED <<config, client, up, down, req, rsp, hnd, broke>>

\* forwardRowData does not notice that it could not read the length of a row.
WorkerLosesServerMutant ==
    /\ wrk.pc \in {"beginAnswer", "authAnswer", "response"}
    /\ rsp = << >> /\ hnd.pc = "ended"
    /\ WorkerEnds
    /\ UNCHANGED <<config, client, up, down, req, rsp, hnd, broke>>

WorkerLosesServer ==
    /\ wrk.pc \in {"beginAnswer", "authAnswer", "response", "rows"}
    /\ rsp = << >> /\ hnd.pc = "ended"
    /\ WorkerEnds
    /\ UNCHANGED <<config, client, up, down, req, rsp, hnd, broke>>

\* epoll reports a hangup before what is left to read; a write of a response
\* fails.  closeConnection closes both sockets.
WorkerLosesClient ==
    /\ Gone
    /\ \/ wrk.pc \in {"begin", "auth"} /\ up = << >>
       \/ wrk.pc = "idle"
       \/ wrk.pc = "response" /\ rsp # << >>
    /\ WorkerEnds
    /\ UNCHANGED <<config, client, up, down, req, rsp, hnd, broke>>

-----------------------------------------------------------------------------
(* The handler in the IO manager. *)

HandlerAuthenticates ==
    /\ hnd.pc \in {"begin", "auth"} /\ req # << >>
    /\ req' = Tail(req)
    /\ \E ok \in BOOLEAN :
          /\ rsp' = Append(rsp, Answer(ok))
          /\ hnd' = [hnd EXCEPT !.pc = IF ~ok THEN "ended"
                                       ELSE IF @ = "begin" THEN "auth" ELSE "idle"]
    /\ UNCHANGED <<config, client, up, down, wrk, broke>>

\* The text is parsed as a whole before its first statement is executed.
HandlerReads ==
    /\ hnd.pc = "idle" /\ req # << >>
    /\ req' = Tail(req)
    /\ LET c == Head(req).stmts
       IN  IF c = <<"syntax">>
           THEN rsp' = rsp \o ErrorResponse(1) /\ UNCHANGED hnd
           ELSE /\ hnd' = [pc |-> IF c = << >> THEN "idle" ELSE "statement",
                           cmd |-> c, i |-> 1]
                /\ UNCHANGED rsp
    /\ UNCHANGED <<config, client, up, down, wrk, broke>>

HandlerNext ==
    hnd' = [hnd EXCEPT !.pc = IF hnd.i < Len(hnd.cmd) THEN "statement" ELSE "idle",
                       !.i = @ + 1]

\* A statement that fails does not keep the next one from being executed, one
\* that the factory refuses does.
HandlerExecutes ==
    /\ hnd.pc = "statement"
    /\ LET kind == hnd.cmd[hnd.i]
       IN  IF kind = "bad"
           THEN /\ rsp' = rsp \o ErrorResponse(hnd.i)
                /\ hnd' = [hnd EXCEPT !.pc = "idle"]
           ELSE /\ rsp' = rsp \o Output(kind, hnd.i, Len(hnd.cmd))
                /\ HandlerNext
    /\ broke' = (broke \/ hnd.cmd[hnd.i] = "breaks")
    /\ UNCHANGED <<config, client, up, down, wrk, req>>

\* The worker has closed the connection: a hangup, or a write that fails, which
\* makes the result of the statement false.
HandlerLosesWorker ==
    /\ wrk.pc = "ended"
    /\ \/ /\ hnd.pc \in {"begin", "auth"} /\ req = << >>
          /\ hnd' = [hnd EXCEPT !.pc = "ended"]
       \/ /\ hnd.pc = "idle"
          /\ hnd' = [hnd EXCEPT !.pc = "ended"]
       \/ /\ hnd.pc = "statement"
          /\ hnd' = [hnd EXCEPT !.pc = "idle"]
    /\ UNCHANGED <<config, client, up, down, wrk, req, rsp, broke>>

\* The end of the IO manager's process: what it has not yet sent is lost.
ServerDies ==
    /\ hnd.pc # "ended"
    /\ hnd' = [hnd EXCEPT !.pc = "ended"]
    /\ \E n \in 0..Len(rsp) :
          LET kept == SubSeq(rsp, 1, n)
          IN  \/ rsp' = kept
              \/ n > 0 /\ rsp[n].kind = "row" /\ rsp' = [kept EXCEPT ![n] = HalfRow]
    /\ UNCHANGED <<config, client, up, down, wrk, req, broke>>

-----------------------------------------------------------------------------
ClientStep ==
    \/ ClientBegins \/ ClientFills \/ ClientAuthenticates
    \/ ClientResponse \/ ClientRow \/ ClientDisconnected
WorkerStep ==
    \/ WorkerAuthenticates \/ WorkerAnswers \/ WorkerCommand \/ WorkerResponse
    \/ WorkerRow \/ WorkerHalfRow \/ WorkerLosesServer \/ WorkerLosesClient
HandlerStep ==
    HandlerAuthenticates \/ HandlerReads \/ HandlerExecutes \/ HandlerLosesWorker

Next ==
    ClientStep \/ ClientSends \/ ClientLeaves \/ WorkerStep \/ HandlerStep \/ ServerDies

Spec ==
    /\ Init /\ [][Next]_vars
    /\ WF_vars(ClientStep) /\ WF_vars(WorkerStep) /\ WF_vars(HandlerStep)

-----------------------------------------------------------------------------
(* Properties. *)

\* What the client prints as result k of a command is what statement k of that
\* command gave, with all its rows once the row set has ended, although responses
\* may be lost on a plain connection, refused with the ID of the first one, or
\* missing because the IO manager died: the client stops at such a response and
\* never takes one for another.  Only a row set that broke may spoil it.
AnswersMatch ==
    \A k \in DOMAIN shown :
        /\ shown[k].of = k
        /\ ~broke => shown[k].result = IF cmd[k] \in {"bad", "syntax"} THEN "error" ELSE cmd[k]
        /\ ~broke /\ (k < Len(shown) \/ cli.pc = "idle") =>
               shown[k].rows = IF cmd[k] = "rows" THEN 1 ELSE 0

\* The client gets to the end of every command, or to an error that closes the
\* session, also when the IO manager dies, unless: several responses come over
\* a plain connection, where reading one may swallow the next; the command has
\* no statements, to which nothing is answered; a row set breaks; the worker
\* spins on half a row.
CommandAnswered ==
    cli.pc = "response" ~>
        \/ cli.pc \in {"idle", "closed"}
        \/ ~tls /\ Len(cmd) > 1
        \/ cmd = << >>
        \/ broke
        \/ wrk.pc = "spin"

\* A statement is refused by the factory after others and before others: the
\* worker waits for more responses than the handler sends.
RefusedInside == \E i \in 2..(Len(cmd) - 1) : cmd[i] = "bad"

\* When the client has gone, at any point, the worker and the handler with the
\* session end too, unless the worker waits for a response that never comes or
\* spins: it does not watch the client meanwhile.
SessionEnds ==
    Gone ~>
        \/ wrk.pc = "ended" /\ hnd.pc = "ended"
        \/ RefusedInside
        \/ cmd = << >>
        \/ broke
        \/ wrk.pc = "spin"
=============================================================================
