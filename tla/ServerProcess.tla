--------------------------- MODULE ServerProcess ---------------------------
(***************************************************************************)
(* The API process (server.ts) from the first signal to its exit, and the  *)
(* connections of its pool, which requests hold from tenantMiddleware to   *)
(* the end of their response, some of them two (runInTenantTransaction).   *)
(*                                                                         *)
(* Each client has one HTTP connection, which it may use again; a handler  *)
(* may take as long as it likes.  What handlers do is in the modules of    *)
(* the components; a request without a tenant holds no connection for      *)
(* long.                                                                   *)
(***************************************************************************)
EXTENDS Naturals, FiniteSets

CONSTANTS Clients,
          Pool      \* connection_limit

ASSUME PoolIsNumber == Pool \in Nat

VARIABLES http,     \* the connection of each client: it may carry a request
          step,     \* what is done for the client
          outer,    \* clients whose request has the transaction of tenantMiddleware
          inner,    \* clients whose request has one of its own besides
          stage,    \* how far shutdownImpl is
          closing,  \* what Promise.all waits for
          how,      \* how the process has ended: status 0 is "done", 1 the others
          cut       \* history: requests that lost the process or its database

requests == <<http, step, outer, inner>>
process == <<stage, closing, how, cut>>
serverVars == <<requests, process>>

Stores == {"database", "cache", "queue"}

ServerTypeOK ==
    /\ http \in [Clients -> {"closed", "idle", "request"}]
    /\ step \in [Clients -> {"none", "wait", "handle", "nest", "nested", "fail", "commit"}]
    /\ outer \subseteq Clients /\ inner \subseteq Clients
    /\ stage \in {"serving", "draining", "disconnecting", "exited"}
    /\ closing \subseteq Stores /\ cut \subseteq Clients
    /\ how \in {"", "done", "failed", "forced"}

ServerInit ==
    /\ http = [c \in Clients |-> "closed"]
    /\ step = [c \in Clients |-> "none"]
    /\ outer = {} /\ inner = {}
    /\ stage = "serving" /\ closing = {} /\ how = "" /\ cut = {}

Running == stage # "exited"
Free == Cardinality(outer) + Cardinality(inner) < Pool
Goto(c, s) == step' = [step EXCEPT ![c] = s]
Unanswered == {c \in Clients : http[c] = "request"}

-----------------------------------------------------------------------------
(* The server takes connections until httpServer.close.                    *)
Connect(c) ==
    /\ stage = "serving" /\ http[c] = "closed"
    /\ http' = [http EXCEPT ![c] = "idle"]
    /\ UNCHANGED <<step, outer, inner, process>>

(* A request comes on an open connection; with a tenant it wants a         *)
(* transaction.                                                            *)
Request(c) ==
    /\ Running /\ http[c] = "idle" /\ step[c] = "none"
    /\ http' = [http EXCEPT ![c] = "request"]
    /\ \E s \in {"wait", "handle"} : Goto(c, s)
    /\ UNCHANGED <<outer, inner, process>>

Begin(c) ==
    /\ Running /\ step[c] = "wait" /\ Free
    /\ outer' = outer \cup {c}
    /\ Goto(c, "handle")
    /\ UNCHANGED <<http, inner, process>>

(* runInTenantTransaction, as for a row that a worker must see at once.    *)
Nest(c) ==
    /\ Running /\ step[c] = "handle"
    /\ Goto(c, "nest")
    /\ UNCHANGED <<http, outer, inner, process>>

BeginNested(c) ==
    /\ Running /\ step[c] = "nest" /\ Free
    /\ inner' = inner \cup {c}
    /\ Goto(c, "nested")
    /\ UNCHANGED <<http, outer, process>>

EndNested(c) ==
    /\ Running /\ step[c] = "nested"
    /\ inner' = inner \ {c}
    /\ Goto(c, "handle")
    /\ UNCHANGED <<http, outer, process>>

(* No connection in 10 seconds (maxWait): the request fails.               *)
WaitIsOver(c) ==
    /\ Running /\ step[c] \in {"wait", "nest"}
    /\ Goto(c, "fail")
    /\ UNCHANGED <<http, outer, inner, process>>

(* A transaction is ended after 30 seconds, whatever the handler does.     *)
TransactionTimesOut(c) ==
    /\ Running
    /\ \/ /\ c \in inner /\ inner' = inner \ {c} /\ UNCHANGED outer
          /\ Goto(c, "fail")
       \/ /\ c \in outer /\ outer' = outer \ {c} /\ UNCHANGED inner
          /\ \/ UNCHANGED step /\ step[c] # "commit"
             \/ step[c] = "handle" /\ Goto(c, "fail")
             \/ step[c] = "commit" /\ Goto(c, "none")
    /\ UNCHANGED <<http, process>>

(* The response has been sent, of the handler or of errorHandler, or the   *)
(* client has gone: the transaction may end, the connection is kept alive. *)
Answer(c) ==
    /\ Running /\ step[c] \in {"handle", "fail"}
    /\ Goto(c, IF c \in outer THEN "commit" ELSE "none")
    /\ http' = [http EXCEPT ![c] = IF @ = "request" THEN "idle" ELSE @]
    /\ UNCHANGED <<outer, inner, process>>

Commit(c) ==
    /\ Running /\ step[c] = "commit"
    /\ outer' = outer \ {c}
    /\ Goto(c, "none")
    /\ UNCHANGED <<http, inner, process>>

(* A connection is closed by the client, or because it has been idle.  The *)
(* transaction of a request ends with it, although the handler goes on.    *)
Close(c) ==
    /\ Running /\ http[c] # "closed"
    /\ http' = [http EXCEPT ![c] = "closed"]
    /\ outer' \in {outer, IF http[c] = "request" THEN outer \ {c} ELSE outer}
    /\ UNCHANGED <<step, inner, process>>

-----------------------------------------------------------------------------
(* Mutant: a second signal shuts down again; httpServer.close then fails.  *)
SignalAgain ==
    \/ /\ stage = "serving" /\ stage' = "draining"
       /\ http' = [c \in Clients |-> IF http[c] = "idle" THEN "closed" ELSE http[c]]
       /\ UNCHANGED <<step, outer, inner, closing, how, cut>>
    \/ /\ stage = "draining" /\ stage' = "exited" /\ how' = "failed"
       /\ cut' = cut \cup Unanswered
       /\ UNCHANGED <<requests, closing>>

(* SIGTERM, SIGINT, an uncaught exception or an unhandled rejection: the   *)
(* first of them (createGuardedShutdown) stops the server listening and    *)
(* closes idle connections.                                                *)
Signal ==
    /\ stage = "serving" /\ stage' = "draining"
    /\ http' = [c \in Clients |-> IF http[c] = "idle" THEN "closed" ELSE http[c]]
    /\ UNCHANGED <<step, outer, inner, closing, how, cut>>

Exit(x) ==
    /\ stage' = "exited" /\ how' = x
    /\ cut' = cut \cup Unanswered
    /\ UNCHANGED <<requests, closing>>

(* Every connection has been closed: the stores are next.                  *)
HttpClosed ==
    /\ stage = "draining" /\ stage' = "disconnecting"
    /\ \A c \in Clients : http[c] = "closed"
    /\ closing' = Stores
    /\ cut' = cut \cup Unanswered
    /\ UNCHANGED <<requests, how>>

(* prisma.$disconnect                                                      *)
Disconnect ==
    /\ stage = "disconnecting" /\ "database" \in closing
    /\ closing' = closing \ {"database"}
    /\ outer' = {} /\ inner' = {}
    /\ UNCHANGED <<http, step, stage, how, cut>>

DisconnectFails == stage = "disconnecting" /\ "database" \in closing /\ Exit("failed")

(* quietRedisQuit: QUIT is answered or refused ...                         *)
Quit(s) ==
    /\ stage = "disconnecting" /\ s \in closing \ {"database"}
    /\ closing' = closing \ {s}
    /\ UNCHANGED <<requests, stage, how, cut>>

(* ... or given up after 2 seconds, and the connection dropped.            *)
QuitTimesOut(s) == Quit(s)

Finish == stage = "disconnecting" /\ closing = {} /\ Exit("done")

(* SHUTDOWN_TIMEOUT_MS is over.                                            *)
ForceExit == stage \in {"draining", "disconnecting"} /\ Exit("forced")

RequestStep(c) ==
    \/ Begin(c) \/ Nest(c) \/ BeginNested(c) \/ EndNested(c) \/ WaitIsOver(c)
    \/ TransactionTimesOut(c) \/ Answer(c) \/ Commit(c)

ServerNext ==
    \/ \E c \in Clients : Connect(c) \/ Request(c) \/ RequestStep(c) \/ Close(c)
    \/ Signal \/ HttpClosed \/ Disconnect \/ DisconnectFails
    \/ \E s \in Stores : Quit(s) \/ QuitTimesOut(s)
    \/ Finish \/ ForceExit

(* Timers fire, the database answers and promises that have settled are    *)
(* acted on; nothing is assumed of handlers, clients, Redis and the last   *)
(* deadline.                                                               *)
ServerFairness ==
    /\ \A c \in Clients :
         WF_serverVars(WaitIsOver(c)) /\ WF_serverVars(TransactionTimesOut(c) \/ Commit(c))
    /\ \A s \in Stores : WF_serverVars(QuitTimesOut(s))
    /\ WF_serverVars(Disconnect \/ DisconnectFails) /\ WF_serverVars(Finish)

ServerSpec == ServerInit /\ [][ServerNext]_serverVars /\ ServerFairness

-----------------------------------------------------------------------------
(* A shutdown cuts off a request only when its time is over: until then it *)
(* waits for all of them before it takes the database away, whatever       *)
(* signals and exceptions come on top (server.ts:54-72).                   *)
CutOnlyByDeadline == cut # {} => how = "forced"

(* Requests do not wait for ever for a connection that they keep from each *)
(* other by holding one and wanting another (tenant-context.ts:172).       *)
NobodyWaitsForAConnection ==
    \A c \in Clients :
        step[c] \in {"wait", "nest"} ~> step[c] \notin {"wait", "nest"} \/ ~ Running

(* Once the requests are over the process ends without being forced to,    *)
(* also when Redis does not answer (redis-shutdown.ts:14-32).              *)
QuietShutdownEnds == stage = "disconnecting" ~> ~ Running

(* Neither the pool nor the shutdown gets stuck, and none is cut short.    *)
ServerServesAndEnds ==
    /\ [][CutOnlyByDeadline']_serverVars
    /\ NobodyWaitsForAConnection /\ QuietShutdownEnds
=============================================================================
