----------------------------- MODULE ServerLifecycle -----------------------------
(***************************************************************************)
(* The life of the server process: it listens, answers requests or gives   *)
(* up on them, and ends by a signal, by a shutdown request, or because too *)
(* many requests have failed.                                              *)
(*                                                                         *)
(* The loop of Node.js ends the process when nothing is left to wait for:  *)
(* no listening socket, no connection, no query, no timer that is not      *)
(* unref()ed.  Idle connections of the pool and keep-alive connections     *)
(* time out by themselves and are left out.                                *)
(***************************************************************************)
EXTENDS Naturals, FiniteSets

CONSTANTS
    Conns,          \* requests at the same time
    MaxQueries,     \* a bound: most queries that a request sends
    Signals,        \* signals with a handler (exitSoonSignalNames)
    MaxErrors,      \* max_web_errors_until_quit, 0 = keep going
    HardExit        \* whether max_web_errors_hard_exit_code is above 0

ASSUME LifecycleAssumption ==
    /\ MaxQueries \in Nat
    /\ MaxErrors \in Nat
    /\ HardExit \in BOOLEAN

VARIABLES
    proc,           \* the process: "starting", "running" or "exited"
    exitCode,       \* process.exitCode, or what the process has exited with
    listening,      \* webSrv accepts connections
    pool,           \* the database pool: "open", "ending" or "ended"
    armed,          \* signals whose process.once() handler is still there
    closes,         \* setImmediate() callbacks that will close the server
    orders,         \* a history: how often the server was told to shut down
    remain,         \* errors to go until the server quits
    quitTimers,     \* quitNow() timers, which keep the process alive
    hardTimer,      \* the hardExitNow() timer, which does not
    conns           \* handlers in progress

procVars  == <<proc, exitCode, listening, pool, armed, closes, orders>>
errorVars == <<remain, quitTimers, hardTimer>>
lifeVars  == <<procVars, errorVars, conns>>

Ops == {"serve", "shutdown"}

Conn == [pc: {"idle", "checks", "work", "query"},
         op: Ops,
         left: 0..MaxQueries,   \* most queries that it still sends
         slow: BOOLEAN]         \* the timeout has answered

NoConn == [pc |-> "idle", op |-> "serve", left |-> 0, slow |-> FALSE]

(* What the process exits with.  p-fatal ends it when a promise is         *)
(* rejected that nobody waits for.                                         *)
ByPFatal == 1
TooManyErrors == 2
ByHardExit == 5
BySignal == 128

LifeInit ==
    /\ proc = "starting" /\ exitCode = 0
    /\ listening = FALSE /\ pool = "open"
    /\ armed = Signals /\ closes = 0 /\ orders = 0
    /\ remain = MaxErrors /\ quitTimers = 0 /\ hardTimer = FALSE
    /\ conns = [c \in Conns |-> NoConn]

Listen ==
    /\ proc = "starting"
    /\ proc' = "running" /\ listening' = TRUE
    /\ UNCHANGED <<exitCode, pool, armed, closes, orders, errorVars, conns>>

-------------------------------------------------------------------------------
(* Requests.                                                               *)

(* The callback of setImmediate() is run before the loop looks for more    *)
(* requests, which bounds the number of such callbacks.                    *)
Accept(c, op) ==
    /\ listening /\ closes = 0
    /\ conns[c].pc = "idle"
    /\ conns' = [conns EXCEPT ![c] =
          [pc |-> "checks", op |-> op, slow |-> FALSE,
           left |-> IF op = "shutdown" THEN 0 ELSE MaxQueries]]
    /\ UNCHANGED <<procVars, errorVars>>

(* Two seeded bugs: errors are counted below zero, and the counter starts  *)
(* its quit timer with unref().                                            *)
CountErrorOn ==
    /\ remain' = remain - 1
    /\ quitTimers' = IF remain' >= 1 THEN quitTimers ELSE quitTimers + 1

CountErrorUnref ==
    /\ remain' = IF remain = 0 THEN 0 ELSE remain - 1
    /\ UNCHANGED quitTimers

(* countErrorsMaybeQuit(): every error that a handler throws counts, be it *)
(* the fault of the server or of the client, answered already or not.      *)
CountError ==
    IF remain = 0 THEN UNCHANGED <<remain, quitTimers>>
    ELSE /\ remain' = remain - 1
         /\ quitTimers' = IF remain' >= 1 THEN quitTimers ELSE quitTimers + 1

EndHandler(c) == conns' = [conns EXCEPT ![c] = NoConn]

HandlerThrows(c) ==
    /\ EndHandler(c)
    /\ CountError
    /\ UNCHANGED <<procVars, hardTimer>>

(* A pool that has been told to end rejects new queries.                   *)
SendQuery(c) ==
    /\ conns[c].pc = "work" /\ conns[c].left > 0
    /\ \/ /\ pool = "open"
          /\ conns' = [conns EXCEPT ![c].pc = "query", ![c].left = @ - 1]
          /\ UNCHANGED <<procVars, errorVars>>
       \/ /\ pool # "open"
          /\ HandlerThrows(c)

QueryAnswered(c) ==
    /\ conns[c].pc = "query"
    /\ conns' = [conns EXCEPT ![c].pc = "work"]
    /\ UNCHANGED <<procVars, errorVars>>

QueryFails(c) == conns[c].pc = "query" /\ HandlerThrows(c)

Finish(c) ==
    /\ conns[c].pc = "work"
    /\ EndHandler(c)
    /\ IF conns[c].op = "shutdown"
       THEN closes' = closes + 1 /\ orders' = orders + 1
       ELSE UNCHANGED <<closes, orders>>
    /\ UNCHANGED <<proc, exitCode, listening, pool, armed, errorVars>>

(* The client gets an answer after response_timeout_sec.  The handler does *)
(* not notice, and this error is not counted.  Only queries take so long.  *)
TimeoutFallback(c) ==
    /\ conns[c].pc = "query" /\ ~conns[c].slow
    /\ conns' = [conns EXCEPT ![c].slow = TRUE]
    /\ UNCHANGED <<procVars, errorVars>>

-------------------------------------------------------------------------------
(* The ways to end.  After any of them the process is gone, and with it   *)
(* all that it was waiting for.                                            *)
Gone(code) ==
    /\ proc' = "exited" /\ exitCode' = code
    /\ listening' = FALSE /\ pool' = "ended"
    /\ quitTimers' = 0 /\ hardTimer' = FALSE
    /\ conns' = [c \in Conns |-> NoConn]
    /\ UNCHANGED remain

(* A seeded bug: the web server is not closed.                             *)
CloseServerPoolOnly ==
    \/ /\ pool = "open"
       /\ pool' = "ending"
       /\ UNCHANGED <<proc, exitCode, listening, errorVars, conns>>
    \/ /\ pool # "open"
       /\ Gone(ByPFatal)

(* srv.close(): a pool that has been told to end before rejects the        *)
(* promise of another call, which nobody waits for.                        *)
CloseServer ==
    \/ /\ pool = "open"
       /\ pool' = "ending" /\ listening' = FALSE
       /\ UNCHANGED <<proc, exitCode, errorVars, conns>>
    \/ /\ pool # "open"
       /\ Gone(ByPFatal)

(* The first signal of each kind closes the server, another one kills it.  *)
Signal(s) ==
    /\ orders' = orders + 1
    /\ \/ /\ s \in armed
          /\ armed' = armed \ {s}
          /\ CloseServer
          /\ UNCHANGED closes
       \/ /\ s \notin armed
          /\ Gone(BySignal)
          /\ UNCHANGED <<armed, closes>>

(* setImmediate(() => srv.close()) of a shutdown request.                  *)
ScheduledClose ==
    /\ closes > 0
    /\ closes' = closes - 1
    /\ CloseServer
    /\ UNCHANGED <<armed, orders>>

(* A seeded bug: the quit closes the pool along with the web server.       *)
QuitNowClosing ==
    /\ quitTimers > 0
    /\ quitTimers' = quitTimers - 1
    /\ exitCode' = TooManyErrors /\ listening' = FALSE
    /\ pool' = IF pool = "open" THEN "ending" ELSE pool
    /\ hardTimer' = (hardTimer \/ HardExit)
    /\ UNCHANGED <<proc, armed, closes, orders, remain, conns>>

(* Only the web server is closed: handlers may go on using the pool.       *)
QuitNow ==
    /\ quitTimers > 0
    /\ quitTimers' = quitTimers - 1
    /\ exitCode' = TooManyErrors /\ listening' = FALSE
    /\ hardTimer' = (hardTimer \/ HardExit)
    /\ UNCHANGED <<proc, pool, armed, closes, orders, remain, conns>>

HardExitNow ==
    hardTimer /\ Gone(ByHardExit) /\ UNCHANGED <<armed, closes, orders>>

(* pool.end() waits for the queries that are under way.                    *)
PoolEnds ==
    /\ pool = "ending"
    /\ \A c \in Conns : conns[c].pc # "query"
    /\ pool' = "ended"
    /\ UNCHANGED <<proc, exitCode, listening, armed, closes, orders, errorVars,
                   conns>>

LoopEnds ==
    /\ ~listening /\ pool # "ending" /\ closes = 0 /\ quitTimers = 0
    /\ \A c \in Conns : conns[c].pc = "idle"
    /\ Gone(exitCode)
    /\ UNCHANGED <<armed, closes, orders>>
===============================================================================
