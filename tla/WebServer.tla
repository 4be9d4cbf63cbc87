-------------------------------- MODULE WebServer --------------------------------
(***************************************************************************)
(* The server around the handlers: the life of the process, and the ACL    *)
(* checks that each request starts with.  What the handlers say to the     *)
(* database is AnnoServer's; here they only send some number of queries.   *)
(***************************************************************************)
EXTENDS RequestMeta

vars == <<lifeVars, metaVars>>

Init == LifeInit /\ MetaInit

NewRequest(c) ==
    \E op \in Ops, p \in Profiles :
        /\ op = "shutdown" <=> p.urls = {NoTarget}
        /\ Accept(c, op)
        /\ StartChecks(c, p)

CheckRequest(c) ==
    /\ conns[c].pc = "checks"
    /\ CheckTarget(c)
    /\ UNCHANGED lifeVars

ChecksPassed(c) ==
    /\ conns[c].pc = "checks"
    /\ AllGranted(c)
    /\ conns' = [conns EXCEPT ![c].pc = "work"]
    /\ Forget({c})
    /\ UNCHANGED <<procVars, errorVars>>

ChecksFailed(c) ==
    /\ conns[c].pc = "checks"
    /\ SomeFailed(c)
    /\ HandlerThrows(c)
    /\ Forget({c})

Work(c) ==
    /\ SendQuery(c) \/ QueryAnswered(c) \/ QueryFails(c) \/ Finish(c)
    /\ UNCHANGED metaVars

(* What the event loop does with a request that it has accepted.           *)
Serve(c) == CheckRequest(c) \/ ChecksPassed(c) \/ ChecksFailed(c) \/ Work(c)

LateAnswer(c) == TimeoutFallback(c) /\ UNCHANGED metaVars

ForgetIfGone == IF proc' = "exited" THEN Forget(Conns) ELSE UNCHANGED metaVars

Interrupt == (\E s \in Signals : Signal(s)) /\ ForgetIfGone

(* Callbacks of timers, of the pool, and of setImmediate().                *)
Callback ==
    /\ ScheduledClose \/ QuitNow \/ HardExitNow \/ PoolEnds
    /\ ForgetIfGone

NothingLeft == LoopEnds /\ Forget(Conns)

Running ==
    /\ proc = "running"
    /\ \/ \E c \in Conns : NewRequest(c) \/ Serve(c) \/ LateAnswer(c)
       \/ Interrupt \/ Callback \/ NothingLeft
       \/ EditFile /\ UNCHANGED lifeVars

Next == (Listen /\ UNCHANGED metaVars) \/ Running

Spec == Init /\ [][Next]_vars

(* A handler whose query or file has been answered is run, the database    *)
(* answers, and timers fire.  Nobody need send requests or signals, or     *)
(* wait for the timeout.                                                   *)
FairSpec ==
    /\ Spec
    /\ \A c \in Conns : WF_vars(proc = "running" /\ Serve(c))
    /\ WF_vars(proc = "running" /\ Callback)
    /\ WF_vars(proc = "running" /\ NothingLeft)

-------------------------------------------------------------------------------
(* Every variable keeps its type.                                          *)
WebTypeOK ==
    /\ proc \in {"starting", "running", "exited"}
    /\ exitCode \in {0, ByPFatal, TooManyErrors, ByHardExit, BySignal}
    /\ listening \in BOOLEAN /\ pool \in {"open", "ending", "ended"}
    /\ armed \subseteq Signals /\ closes \in Nat /\ orders \in Nat
    /\ remain \in 0..MaxErrors /\ quitTimers \in Nat /\ hardTimer \in BOOLEAN
    /\ conns \in [Conns -> Conn]
    /\ detectors \in DetectorLists /\ whoami \in Detected
    /\ asked \in [Conns -> Profiles \cup {NoProfile}]
    /\ DOMAIN checks = Conns
    /\ \A c \in Conns :
         /\ DOMAIN checks[c] = asked[c].urls
         /\ \A u \in asked[c].urls : checks[c][u] \in Check
    /\ cachedUser \in [Conns -> Detected]

(* The error limit makes the server quit exactly once, however many        *)
(* handlers fail later, while it is waiting or shutting down.              *)
QuitScheduledOnce ==
    /\ quitTimers + (IF exitCode = TooManyErrors THEN 1 ELSE 0) <= 1
    /\ quitTimers > 0 => remain = 0 /\ MaxErrors > 0

(* A server that has failed too often never ends with the exit code of a   *)
(* success, even if an orderly shutdown comes before the delayed quit:     *)
(* that would keep a supervisor from noticing.                             *)
ErrorLimitIsReported ==
    proc = "exited" /\ MaxErrors > 0 /\ remain = 0 => exitCode # 0

(* A request that has been accepted is left without any answer only when   *)
(* the server has been told to shut down twice, or by the hard exit after  *)
(* too many errors.  One signal or shutdown request alone, at whichever    *)
(* time, loses none, nor does it in the middle of the delayed quit: the    *)
(* second close() must be somebody's second order, as it ends the process. *)
LostOnlyIfToldTwice ==
    [][proc' = "exited" /\ (\E c \in Conns : conns[c].pc # "idle" /\ ~conns[c].slow)
       => \/ orders' >= 2
          \/ exitCode' = ByHardExit /\ HardExit /\ MaxErrors > 0 /\ remain = 0]_vars

(* A request gets to its first query only after every one of its targets   *)
(* has been granted to the user whom the first of the identity sources     *)
(* names (staging_server.yaml), transformed and renamed by its alias,      *)
(* although the checks run at the same time and the last one to detect a   *)
(* user decides for those still to come.  Who changes the debug file while *)
(* it is being read may be taken for two users.                            *)
CheckedForNamedUser ==
    [][\A c \in Conns :
        conns[c].pc = "checks" /\ conns'[c].pc = "work" /\ ~NeedsFile(asked[c]) =>
            \A u \in asked[c].urls :
                <<ResolvedUser(FirstNamed(asked[c])), ServiceOf[u]>>
                    \in Permits]_vars

-------------------------------------------------------------------------------
(* A signal ends the process, whatever the requests are doing.             *)
SignalsEndIt == armed # Signals ~> proc = "exited"

(* Too many errors end the process.                                        *)
ErrorLimitEndsIt == MaxErrors > 0 /\ remain = 0 ~> proc = "exited"

(* Every handler comes to an end, and with it the wait of its client.      *)
HandlersEnd == \A c \in Conns : conns[c].pc # "idle" ~> conns[c].pc = "idle"

-------------------------------------------------------------------------------
(* Inductive strengthenings.                                               *)

(* Whether the limit has been reached can be seen from the quit timer, and *)
(* after it has fired, from the exit code.                                 *)
QuitInv ==
    /\ quitTimers = 0 \/ (quitTimers = 1 /\ exitCode # TooManyErrors)
    /\ quitTimers > 0 \/ exitCode = TooManyErrors => remain = 0 /\ MaxErrors > 0
    /\ MaxErrors > 0 /\ remain = 0 => quitTimers > 0 \/ exitCode # 0

(* While it runs, every close() that is to come, and the first that has    *)
(* been, has been ordered; and the hard exit comes after too many errors.  *)
OrdersInv ==
    proc # "exited" =>
        /\ closes + (IF pool = "open" THEN 0 ELSE 1) <= orders
        /\ armed # Signals => orders >= 1
        /\ hardTimer => HardExit /\ MaxErrors > 0 /\ remain = 0

(* While the file of the debug detector is not asked, all checks of a      *)
(* request and their cache agree on the user.                              *)
ChecksInv ==
    \A c \in Conns : ~NeedsFile(asked[c]) =>
        /\ cachedUser[c] \in {NoId, ResolvedUser(FirstNamed(asked[c]))}
        /\ \A u \in asked[c].urls :
             /\ checks[c][u] # "reading"
             /\ checks[c][u] = "granted" =>
                  <<ResolvedUser(FirstNamed(asked[c])), ServiceOf[u]>> \in Permits
===============================================================================
