----------------------------- MODULE WebServer_proofs -----------------------------
(***************************************************************************)
(* Proofs about the server around the handlers, for any number of requests *)
(* and queries, any signals, any error limit, and any configuration of     *)
(* users and services.                                                     *)
(***************************************************************************)
EXTENDS WebServer, WellFoundedInduction, TLAPS

USE DEF Ops, ByPFatal, TooManyErrors, ByHardExit, BySignal

-------------------------------------------------------------------------------
(* The types of the process, the error counter and the connections, and    *)
(* those of the identities and checks.                                     *)
LifeType ==
    /\ proc \in {"starting", "running", "exited"}
    /\ exitCode \in {0, ByPFatal, TooManyErrors, ByHardExit, BySignal}
    /\ listening \in BOOLEAN /\ pool \in {"open", "ending", "ended"}
    /\ armed \subseteq Signals /\ closes \in Nat /\ orders \in Nat
    /\ remain \in 0..MaxErrors /\ quitTimers \in Nat /\ hardTimer \in BOOLEAN
    /\ conns \in [Conns -> Conn]

MetaType ==
    /\ detectors \in DetectorLists /\ whoami \in Detected
    /\ asked \in [Conns -> Profiles \cup {NoProfile}]
    /\ DOMAIN checks = Conns
    /\ \A c \in Conns :
         /\ DOMAIN checks[c] = asked[c].urls
         /\ \A u \in asked[c].urls : checks[c][u] \in Check
    /\ cachedUser \in [Conns -> Detected]

LEMMA TypeOKParts == WebTypeOK <=> LifeType /\ MetaType
BY DEF WebTypeOK, LifeType, MetaType

(* NoConn is a connection.                                                 *)
LEMMA NoConnType == NoConn \in Conn
BY LifecycleAssumption DEF NoConn, Conn

(* Counting an error keeps the counter above zero.                         *)
LEMMA CountErrorType ==
    ASSUME LifeType, CountError
    PROVE  remain' \in 0..MaxErrors /\ quitTimers' \in Nat
<1>1. CASE remain = 0
  BY <1>1 DEF LifeType, CountError
<1>2. CASE remain # 0
  BY <1>2, LifecycleAssumption DEF LifeType, CountError
<1> QED BY <1>1, <1>2

LEMMA GoneType ==
    ASSUME LifeType, NEW code \in {0, ByPFatal, TooManyErrors, ByHardExit, BySignal},
           Gone(code), armed' \subseteq Signals, closes' \in Nat,
           orders' \in Nat
    PROVE  LifeType'
BY NoConnType DEF LifeType, Gone

LEMMA CloseServerType ==
    ASSUME LifeType, CloseServer, armed' \subseteq Signals, closes' \in Nat,
           orders' \in Nat
    PROVE  LifeType'
<1>1. CASE pool = "open" /\ pool' = "ending" /\ listening' = FALSE
           /\ UNCHANGED <<proc, exitCode, errorVars, conns>>
  BY <1>1 DEF LifeType, errorVars
<1>2. CASE Gone(ByPFatal)
  BY <1>2, GoneType
<1> QED BY <1>1, <1>2 DEF CloseServer

LEMMA HandlerThrowsType ==
    ASSUME LifeType, NEW c \in Conns, HandlerThrows(c)
    PROVE  LifeType'
BY CountErrorType, NoConnType
   DEF LifeType, HandlerThrows, EndHandler, procVars

LEMMA AcceptType ==
    ASSUME LifeType, NEW c \in Conns, NEW op \in Ops, Accept(c, op)
    PROVE  LifeType'
<1>1. [pc |-> "checks", op |-> op, slow |-> FALSE,
       left |-> IF op = "shutdown" THEN 0 ELSE MaxQueries] \in Conn
  BY LifecycleAssumption DEF Conn
<1> QED BY <1>1 DEF LifeType, Accept, procVars, errorVars

(* What a handler does at one of its queries or at its end.                *)
LEMMA WorkType ==
    ASSUME LifeType, NEW c \in Conns,
           SendQuery(c) \/ QueryAnswered(c) \/ QueryFails(c) \/ Finish(c)
    PROVE  LifeType'
<1>1. CASE SendQuery(c)
  <2>1. CASE HandlerThrows(c)
    BY <2>1, HandlerThrowsType
  <2>2. CASE /\ conns[c].left > 0
             /\ conns' = [conns EXCEPT ![c].pc = "query", ![c].left = @ - 1]
             /\ UNCHANGED <<procVars, errorVars>>
    <3>1. conns[c] \in Conn
      BY DEF LifeType
    <3>2. conns[c].left - 1 \in 0..MaxQueries
      BY <2>2, <3>1, LifecycleAssumption DEF Conn
    <3>3. conns' \in [Conns -> Conn]
      BY <2>2, <3>2 DEF LifeType, Conn
    <3> QED BY <2>2, <3>3 DEF LifeType, procVars, errorVars
  <2> QED BY <1>1, <2>1, <2>2 DEF SendQuery
<1>2. CASE QueryAnswered(c)
  <2>1. conns' \in [Conns -> Conn]
    BY <1>2 DEF LifeType, QueryAnswered, Conn
  <2> QED BY <1>2, <2>1 DEF LifeType, QueryAnswered, procVars, errorVars
<1>3. CASE QueryFails(c)
  BY <1>3, HandlerThrowsType DEF QueryFails
<1>4. CASE Finish(c)
  BY <1>4, NoConnType DEF LifeType, Finish, EndHandler, errorVars
<1> QED BY <1>1, <1>2, <1>3, <1>4

LEMMA SignalType ==
    ASSUME LifeType, NEW s \in Signals, Signal(s)
    PROVE  LifeType'
<1>1. armed' \subseteq Signals /\ closes' \in Nat /\ orders' \in Nat
  BY DEF LifeType, Signal
<1>2. CASE CloseServer
  BY <1>1, <1>2, CloseServerType
<1>3. CASE Gone(BySignal)
  BY <1>1, <1>3, GoneType
<1> QED BY <1>2, <1>3 DEF Signal

LEMMA CallbackType ==
    ASSUME LifeType, ScheduledClose \/ QuitNow \/ HardExitNow \/ PoolEnds
    PROVE  LifeType'
<1>1. CASE ScheduledClose
  <2>1. armed' \subseteq Signals /\ closes' \in Nat /\ orders' \in Nat
    BY <1>1 DEF LifeType, ScheduledClose
  <2> QED BY <1>1, <2>1, CloseServerType DEF ScheduledClose
<1>2. CASE QuitNow
  <2>1. hardTimer' \in BOOLEAN
    BY <1>2, Zenon DEF QuitNow
  <2>2. quitTimers' \in Nat
    BY <1>2 DEF LifeType, QuitNow
  <2> QED BY <1>2, <2>1, <2>2 DEF LifeType, QuitNow
<1>3. CASE HardExitNow
  <2>1. armed' \subseteq Signals /\ closes' \in Nat /\ orders' \in Nat
    BY <1>3 DEF LifeType, HardExitNow
  <2> QED BY <1>3, <2>1, GoneType DEF HardExitNow
<1>4. CASE PoolEnds
  BY <1>4 DEF LifeType, PoolEnds, errorVars
<1> QED BY <1>1, <1>2, <1>3, <1>4

LEMMA LoopEndsType ==
    ASSUME LifeType, LoopEnds
    PROVE  LifeType'
<1>1. armed' \subseteq Signals /\ closes' \in Nat /\ orders' \in Nat
  BY DEF LifeType, LoopEnds
<1>2. exitCode \in {0, ByPFatal, TooManyErrors, ByHardExit, BySignal}
  BY DEF LifeType
<1>3. Gone(exitCode)
  BY DEF LoopEnds
<1> QED BY <1>1, <1>2, <1>3, GoneType

-------------------------------------------------------------------------------
(* Types of the identities and checks.                                     *)
LEMMA ResolvedUserType ==
    ASSUME NEW i
    PROVE  ResolvedUser(i) \in Detected
BY RequestMetaAssumption DEF ResolvedUser, AliasOrSelf, Detected

LEMMA ForgetType ==
    ASSUME MetaType, NEW C \in SUBSET Conns, Forget(C)
    PROVE  MetaType'
<1>1. detectors' \in DetectorLists /\ whoami' \in Detected
  BY DEF MetaType, Forget
<1>2. asked' \in [Conns -> Profiles \cup {NoProfile}]
  BY DEF MetaType, Forget
<1>3. cachedUser' \in [Conns -> Detected]
  BY DEF MetaType, Forget, Detected
<1>4. ASSUME NEW c \in Conns
      PROVE  /\ DOMAIN checks'[c] = asked'[c].urls
             /\ \A u \in asked'[c].urls : checks'[c][u] \in Check
  <2>1. CASE c \in C
    <3>1. asked'[c] = NoProfile /\ checks'[c] = NoChecks
      BY <2>1 DEF Forget
    <3> QED BY <3>1 DEF NoProfile, NoChecks
  <2>2. CASE c \notin C
    <3>1. asked'[c] = asked[c] /\ checks'[c] = checks[c]
      BY <2>2 DEF Forget
    <3> QED BY <3>1 DEF MetaType
  <2> QED BY <2>1, <2>2
<1>5. DOMAIN checks' = Conns
  BY DEF Forget
<1> QED BY <1>1, <1>2, <1>3, <1>4, <1>5 DEF MetaType

LEMMA StartChecksType ==
    ASSUME MetaType, NEW c \in Conns, NEW p \in Profiles, StartChecks(c, p)
    PROVE  MetaType'
<1>1. detectors' \in DetectorLists /\ whoami' \in Detected
  BY DEF MetaType, StartChecks
<1>2. asked' \in [Conns -> Profiles \cup {NoProfile}] /\ DOMAIN checks' = Conns
  BY DEF MetaType, StartChecks
<1>3. cachedUser' \in [Conns -> Detected]
  BY DEF MetaType, StartChecks, Detected
<1>4. ASSUME NEW d \in Conns
      PROVE  /\ DOMAIN checks'[d] = asked'[d].urls
             /\ \A u \in asked'[d].urls : checks'[d][u] \in Check
  <2>1. CASE d = c
    <3>1. asked'[c] = p /\ checks'[c] = [u \in p.urls |-> "begin"]
      BY DEF MetaType, StartChecks
    <3> QED BY <2>1, <3>1 DEF Check
  <2>2. CASE d # c
    <3>1. asked'[d] = asked[d] /\ checks'[d] = checks[d]
      BY <2>2 DEF MetaType, StartChecks
    <3> QED BY <3>1 DEF MetaType
  <2> QED BY <2>1, <2>2
<1> QED BY <1>1, <1>2, <1>3, <1>4 DEF MetaType

(* What a step of a check may do: it gives one target a result, and puts   *)
(* a user into the cache, or nothing.                                      *)
CheckStep(c, u, result) ==
    /\ checks' = [checks EXCEPT ![c][u] = result]
    /\ \/ UNCHANGED cachedUser
       \/ cachedUser' = [cachedUser EXCEPT ![c] = ResolvedUser(FirstNamed(asked[c]))]
    /\ UNCHANGED <<detectors, whoami, asked>>

LEMMA DetectStep ==
    ASSUME NEW c \in Conns, NEW u, Detect(c, u),
           UNCHANGED <<detectors, whoami, asked>>
    PROVE  \E result \in Check : CheckStep(c, u, result)
BY DEF Detect, Conclude, SetCheck, CheckStep, Check

LEMMA CheckTargetStep ==
    ASSUME NEW c \in Conns, CheckTarget(c)
    PROVE  \E u \in DOMAIN checks[c], result \in Check : CheckStep(c, u, result)
<1>1. PICK u \in DOMAIN checks[c] : BeginCheck(c, u) \/ FileRead(c, u)
  BY DEF CheckTarget
<1>2. UNCHANGED <<detectors, whoami, asked>>
  BY <1>1 DEF BeginCheck, FileRead
<1>3. CASE Detect(c, u)
  BY <1>2, <1>3, DetectStep
<1>4. CASE ~Detect(c, u)
  <2>1. BeginCheck(c, u)
    BY <1>1, <1>4 DEF FileRead
  <2>2. UNCHANGED cachedUser /\ \E result \in Check : SetCheck(c, u, result)
    BY <1>4, <2>1 DEF BeginCheck, Conclude, Check
  <2> QED BY <1>2, <2>2 DEF CheckStep, SetCheck
<1> QED BY <1>3, <1>4

LEMMA CheckType ==
    ASSUME MetaType, NEW c \in Conns, CheckTarget(c)
    PROVE  MetaType'
<1>1. PICK u \in DOMAIN checks[c], result \in Check : CheckStep(c, u, result)
  BY CheckTargetStep
<1>2. cachedUser' \in [Conns -> Detected]
  BY <1>1, ResolvedUserType DEF CheckStep, MetaType
<1>3. DOMAIN checks' = Conns
  BY <1>1 DEF CheckStep, MetaType
<1>4. ASSUME NEW d \in Conns
      PROVE  /\ DOMAIN checks'[d] = asked'[d].urls
             /\ \A v \in asked'[d].urls : checks'[d][v] \in Check
  <2>1. CASE d = c
    <3>1. checks'[c] = [checks[c] EXCEPT ![u] = result]
      BY <1>1 DEF CheckStep, MetaType
    <3> QED BY <1>1, <2>1, <3>1 DEF CheckStep, MetaType
  <2>2. CASE d # c
    BY <1>1, <2>2 DEF CheckStep, MetaType
  <2> QED BY <2>1, <2>2
<1> QED BY <1>1, <1>2, <1>3, <1>4 DEF CheckStep, MetaType

-------------------------------------------------------------------------------
(* The types, for the whole server.                                        *)
LEMMA ForgetIfGoneType ==
    ASSUME MetaType, ForgetIfGone
    PROVE  MetaType'
<1>1. CASE Forget(Conns)
  BY <1>1, ForgetType
<1>2. CASE UNCHANGED metaVars
  BY <1>2 DEF MetaType, metaVars
<1> QED BY <1>1, <1>2 DEF ForgetIfGone

(* The steps of the server, one by one.                                    *)
LEMMA StepCases ==
    ASSUME Next
    PROVE  \/ Listen /\ UNCHANGED metaVars
           \/ /\ proc = "running"
              /\ \/ \E c \in Conns : \/ NewRequest(c) \/ CheckRequest(c)
                                     \/ ChecksPassed(c) \/ ChecksFailed(c)
                                     \/ Work(c) \/ LateAnswer(c)
                 \/ Interrupt \/ Callback \/ NothingLeft
                 \/ EditFile /\ UNCHANGED lifeVars
BY DEF Next, Running, Serve

LEMMA TypeInductive ==
    ASSUME LifeType, MetaType, [Next]_vars
    PROVE  LifeType' /\ MetaType'
<1> SUFFICES ASSUME Next PROVE LifeType' /\ MetaType'
  <2>1. CASE UNCHANGED vars
    <3>1. LifeType'
      BY <2>1 DEF LifeType, vars, lifeVars, procVars, errorVars
    <3>2. MetaType'
      BY <2>1 DEF MetaType, vars, metaVars
    <3> QED BY <3>1, <3>2
  <2> QED BY <2>1
<1>1. CASE Listen /\ UNCHANGED metaVars
  <2>1. LifeType'
    BY <1>1 DEF LifeType, Listen, errorVars
  <2>2. MetaType'
    BY <1>1 DEF MetaType, metaVars
  <2> QED BY <2>1, <2>2
<1>2. ASSUME NEW c \in Conns, NewRequest(c) PROVE LifeType' /\ MetaType'
  <2>1. PICK op \in Ops, p \in Profiles : Accept(c, op) /\ StartChecks(c, p)
    BY <1>2 DEF NewRequest
  <2> QED BY <2>1, AcceptType, StartChecksType
<1>3. ASSUME NEW c \in Conns, CheckRequest(c) PROVE LifeType' /\ MetaType'
  <2>1. MetaType'
    BY <1>3, CheckType DEF CheckRequest
  <2>2. LifeType'
    BY <1>3 DEF CheckRequest, LifeType, lifeVars, procVars, errorVars
  <2> QED BY <2>1, <2>2
<1>4. ASSUME NEW c \in Conns, ChecksPassed(c) PROVE LifeType' /\ MetaType'
  <2>1. conns' \in [Conns -> Conn]
    BY <1>4 DEF ChecksPassed, LifeType, Conn
  <2>2. LifeType'
    BY <1>4, <2>1 DEF ChecksPassed, LifeType, procVars, errorVars
  <2> QED BY <1>4, <2>2, ForgetType DEF ChecksPassed
<1>5. ASSUME NEW c \in Conns, ChecksFailed(c) PROVE LifeType' /\ MetaType'
  BY <1>5, HandlerThrowsType, ForgetType DEF ChecksFailed
<1>6. ASSUME NEW c \in Conns, Work(c) PROVE LifeType' /\ MetaType'
  <2>1. LifeType'
    BY <1>6, WorkType DEF Work
  <2>2. MetaType'
    BY <1>6 DEF Work, MetaType, metaVars
  <2> QED BY <2>1, <2>2
<1>7. ASSUME NEW c \in Conns, LateAnswer(c) PROVE LifeType' /\ MetaType'
  <2>0. conns' = [conns EXCEPT ![c].slow = TRUE] /\ conns \in [Conns -> Conn]
    BY <1>7 DEF LateAnswer, TimeoutFallback, LifeType
  <2>1. conns' \in [Conns -> Conn]
    BY <2>0 DEF Conn
  <2>2. LifeType'
    BY <1>7, <2>1 DEF LateAnswer, TimeoutFallback, LifeType, procVars, errorVars
  <2>3. MetaType'
    BY <1>7 DEF LateAnswer, MetaType, metaVars
  <2> QED BY <2>2, <2>3
<1>8. CASE Interrupt
  BY <1>8, SignalType, ForgetIfGoneType DEF Interrupt
<1>9. CASE Callback
  BY <1>9, CallbackType, ForgetIfGoneType DEF Callback
<1>10. CASE NothingLeft
  BY <1>10, LoopEndsType, ForgetType DEF NothingLeft
<1>11. CASE EditFile /\ UNCHANGED lifeVars
  <2>1. whoami' \in Detected
    BY <1>11, RequestMetaAssumption DEF EditFile
  <2>2. MetaType'
    BY <1>11, <2>1 DEF EditFile, MetaType
  <2>3. LifeType'
    BY <1>11 DEF LifeType, lifeVars, procVars, errorVars
  <2> QED BY <2>2, <2>3
<1> QED
  BY ONLY StepCases, Next, <1>1, <1>2, <1>3, <1>4, <1>5, <1>6, <1>7, <1>8,
          <1>9, <1>10, <1>11

LEMMA TypeInit ==
    ASSUME Init
    PROVE  LifeType /\ MetaType
<1>1. LifeType
  <2>1. remain \in 0..MaxErrors /\ quitTimers \in Nat /\ closes \in Nat /\ orders \in Nat
    BY LifecycleAssumption DEF Init, LifeInit
  <2>2. conns \in [Conns -> Conn]
    BY NoConnType DEF Init, LifeInit
  <2>3. listening \in BOOLEAN /\ hardTimer \in BOOLEAN
    BY Zenon DEF Init, LifeInit
  <2> QED BY <2>1, <2>2, <2>3 DEF Init, LifeInit, LifeType
<1>2. MetaType
  <2>1. NoProfile.urls = {} /\ DOMAIN NoChecks = {}
    BY DEF NoProfile, NoChecks
  <2> QED BY <2>1 DEF Init, MetaInit, MetaType, Detected
<1> QED BY <1>1, <1>2

(* Every variable keeps its type, whatever fails and however it ends: the  *)
(* error counter stays within its range, and every target of a request has *)
(* a check.                                                                *)
THEOREM WebTypeCorrect == Spec => []WebTypeOK
<1>1. Init => WebTypeOK
  BY TypeInit, TypeOKParts
<1>2. WebTypeOK /\ [Next]_vars => WebTypeOK'
  <2> SUFFICES ASSUME WebTypeOK, [Next]_vars PROVE WebTypeOK'
    OBVIOUS
  <2>1. LifeType' /\ MetaType'
    BY TypeInductive, TypeOKParts
  <2> QED BY <2>1 DEF WebTypeOK, LifeType, MetaType
<1> QED BY <1>1, <1>2, PTL DEF Spec

-------------------------------------------------------------------------------
(* The error limit.                                                        *)

(* Only the one that brings the counter to zero starts a quit timer.       *)
LEMMA CountErrorQuit ==
    ASSUME LifeType, QuitInv, CountError, UNCHANGED exitCode
    PROVE  QuitInv'
<1>1. CASE remain = 0
  BY <1>1 DEF CountError, QuitInv
<1>2. CASE remain > 1
  BY <1>2, LifecycleAssumption DEF CountError, QuitInv, LifeType
<1>3. CASE remain = 1
  <2>1. quitTimers = 0 /\ exitCode # TooManyErrors
    BY <1>3 DEF QuitInv, LifeType
  <2>2. remain' = 0 /\ quitTimers' = 1 /\ MaxErrors > 0
    BY <1>3, <2>1, LifecycleAssumption DEF CountError, LifeType
  <2> QED BY <2>1, <2>2 DEF QuitInv
<1> QED BY <1>1, <1>2, <1>3, LifecycleAssumption DEF LifeType

LEMMA UnchangedQuit ==
    ASSUME QuitInv, UNCHANGED <<remain, quitTimers, exitCode>>
    PROVE  QuitInv'
BY DEF QuitInv

(* By force, the process ends with a code of its own.                      *)
LEMMA GoneQuit ==
    ASSUME LifeType, QuitInv, NEW code \in {ByPFatal, ByHardExit, BySignal},
           Gone(code)
    PROVE  QuitInv'
BY DEF QuitInv, Gone

LEMMA CloseServerQuit ==
    ASSUME LifeType, QuitInv, CloseServer
    PROVE  QuitInv'
<1>1. CASE UNCHANGED <<proc, exitCode, errorVars, conns>>
  BY <1>1, UnchangedQuit DEF errorVars
<1>2. CASE Gone(ByPFatal)
  BY <1>2, GoneQuit
<1> QED BY <1>1, <1>2 DEF CloseServer

LEMMA HandlerThrowsQuit ==
    ASSUME LifeType, QuitInv, NEW c \in Conns, HandlerThrows(c)
    PROVE  QuitInv'
BY CountErrorQuit DEF HandlerThrows, procVars

LEMMA WorkQuit ==
    ASSUME LifeType, QuitInv, NEW c \in Conns, Work(c)
    PROVE  QuitInv'
<1>1. CASE HandlerThrows(c)
  BY <1>1, HandlerThrowsQuit
<1>2. CASE ~HandlerThrows(c)
  <2>1. UNCHANGED <<remain, quitTimers, exitCode>>
    BY <1>2 DEF Work, SendQuery, QueryAnswered, QueryFails, Finish,
                procVars, errorVars
  <2> QED BY <2>1, UnchangedQuit
<1> QED BY <1>1, <1>2

LEMMA CallbackQuit ==
    ASSUME LifeType, QuitInv,
           ScheduledClose \/ QuitNow \/ HardExitNow \/ PoolEnds
    PROVE  QuitInv'
<1>1. CASE ScheduledClose
  BY <1>1, CloseServerQuit DEF ScheduledClose
<1>2. CASE QuitNow
  <2>1. quitTimers = 1 /\ remain = 0 /\ MaxErrors > 0
    BY <1>2 DEF QuitNow, QuitInv, LifeType
  <2>2. quitTimers' = 0 /\ exitCode' = TooManyErrors /\ remain' = 0
    BY <1>2, <2>1 DEF QuitNow
  <2> QED BY <2>1, <2>2 DEF QuitInv
<1>3. CASE HardExitNow
  BY <1>3, GoneQuit DEF HardExitNow
<1>4. CASE PoolEnds
  BY <1>4, UnchangedQuit DEF PoolEnds, errorVars
<1> QED BY <1>1, <1>2, <1>3, <1>4

(* A quit timer keeps the process from ending by itself.                   *)
LEMMA LoopEndsQuit ==
    ASSUME LifeType, QuitInv, LoopEnds
    PROVE  QuitInv'
<1>1. quitTimers = 0 /\ quitTimers' = 0 /\ UNCHANGED <<remain, exitCode>>
  BY DEF LoopEnds, Gone
<1> QED BY <1>1 DEF QuitInv

LEMMA QuitInductive ==
    ASSUME LifeType, QuitInv, [Next]_vars
    PROVE  QuitInv'
<1> SUFFICES ASSUME Next PROVE QuitInv'
  BY UnchangedQuit DEF vars, lifeVars, procVars, errorVars
<1>1. CASE Listen /\ UNCHANGED metaVars
  BY <1>1, UnchangedQuit DEF Listen, errorVars
<1>2. ASSUME NEW c \in Conns, NewRequest(c) PROVE QuitInv'
  BY <1>2, UnchangedQuit DEF NewRequest, Accept, procVars, errorVars
<1>3. ASSUME NEW c \in Conns, CheckRequest(c) PROVE QuitInv'
  BY <1>3, UnchangedQuit DEF CheckRequest, lifeVars, procVars, errorVars
<1>4. ASSUME NEW c \in Conns, ChecksPassed(c) PROVE QuitInv'
  BY <1>4, UnchangedQuit DEF ChecksPassed, procVars, errorVars
<1>5. ASSUME NEW c \in Conns, ChecksFailed(c) PROVE QuitInv'
  BY <1>5, HandlerThrowsQuit DEF ChecksFailed
<1>6. ASSUME NEW c \in Conns, Work(c) PROVE QuitInv'
  BY <1>6, WorkQuit
<1>7. ASSUME NEW c \in Conns, LateAnswer(c) PROVE QuitInv'
  BY <1>7, UnchangedQuit DEF LateAnswer, TimeoutFallback, procVars, errorVars
<1>8. CASE Interrupt
  BY <1>8, CloseServerQuit, GoneQuit DEF Interrupt, Signal
<1>9. CASE Callback
  BY <1>9, CallbackQuit DEF Callback
<1>10. CASE NothingLeft
  BY <1>10, LoopEndsQuit DEF NothingLeft
<1>11. CASE EditFile /\ UNCHANGED lifeVars
  BY <1>11, UnchangedQuit DEF lifeVars, procVars, errorVars
<1> QED
  BY ONLY StepCases, Next, <1>1, <1>2, <1>3, <1>4, <1>5, <1>6, <1>7, <1>8,
          <1>9, <1>10, <1>11

(* How a step ends the process: by force, or with nothing left to do.      *)
LEMMA WaysToEnd ==
    ASSUME Next, proc' = "exited"
    PROVE  \/ \E code \in {ByPFatal, ByHardExit, BySignal} : Gone(code)
           \/ LoopEnds
<1>1. CASE Listen /\ UNCHANGED metaVars
  BY <1>1 DEF Listen
<1>2. ASSUME NEW c \in Conns, proc = "running",
             \/ NewRequest(c) \/ CheckRequest(c) \/ ChecksPassed(c)
             \/ ChecksFailed(c) \/ Work(c) \/ LateAnswer(c)
      PROVE  FALSE
  <2>1. UNCHANGED proc
    BY <1>2 DEF NewRequest, Accept, CheckRequest, ChecksPassed, ChecksFailed,
                HandlerThrows, Work, SendQuery, QueryAnswered, QueryFails,
                Finish, LateAnswer, TimeoutFallback, lifeVars, procVars
  <2> QED BY <1>2, <2>1
<1>3. CASE proc = "running" /\ Interrupt
  BY <1>3 DEF Interrupt, Signal, CloseServer
<1>4. CASE proc = "running" /\ Callback
  BY <1>4 DEF Callback, ScheduledClose, CloseServer, QuitNow, HardExitNow, PoolEnds
<1>5. CASE NothingLeft
  BY <1>5 DEF NothingLeft
<1>6. CASE proc = "running" /\ UNCHANGED lifeVars
  BY <1>6 DEF lifeVars, procVars
<1> QED
  BY ONLY StepCases, Next, <1>1, <1>2, <1>3, <1>4, <1>5, <1>6

(* A process that has ended has no timers.                                 *)
NoTimerLeft == proc = "exited" => quitTimers = 0

LEMMA NoTimerLeftInductive ==
    ASSUME NoTimerLeft, [Next]_vars
    PROVE  NoTimerLeft'
<1>1. CASE UNCHANGED vars
  BY <1>1 DEF NoTimerLeft, vars, lifeVars, procVars, errorVars
<1>2. CASE Next /\ proc' = "exited"
  BY <1>2, WaysToEnd DEF NoTimerLeft, Gone, LoopEnds
<1> QED BY <1>1, <1>2 DEF NoTimerLeft

LEMMA QuitInvariant == Spec => [](LifeType /\ MetaType /\ QuitInv /\ NoTimerLeft)
<1>1. Init => LifeType /\ MetaType /\ QuitInv /\ NoTimerLeft
  <2> SUFFICES ASSUME Init PROVE LifeType /\ MetaType /\ QuitInv /\ NoTimerLeft
    OBVIOUS
  <2>1. QuitInv /\ NoTimerLeft
    BY LifecycleAssumption DEF Init, LifeInit, QuitInv, NoTimerLeft
  <2> QED BY <2>1, TypeInit
<1>2. LifeType /\ MetaType /\ QuitInv /\ NoTimerLeft /\ [Next]_vars
      => LifeType' /\ MetaType' /\ QuitInv' /\ NoTimerLeft'
  BY TypeInductive, QuitInductive, NoTimerLeftInductive
<1> QED BY <1>1, <1>2, PTL DEF Spec

(* However many requests fail, and however long after the limit: the quit  *)
(* is scheduled once.                                                      *)
THEOREM QuitIsScheduledOnce == Spec => []QuitScheduledOnce
<1>1. LifeType /\ MetaType /\ QuitInv /\ NoTimerLeft => QuitScheduledOnce
  BY DEF LifeType, QuitInv, QuitScheduledOnce
<1> QED BY <1>1, QuitInvariant, PTL

(* A server that reached its error limit never exits as a success, also    *)
(* when an orderly shutdown comes first.                                   *)
THEOREM ErrorLimitIsAlwaysReported == Spec => []ErrorLimitIsReported
<1>1. LifeType /\ MetaType /\ QuitInv /\ NoTimerLeft => ErrorLimitIsReported
  BY DEF QuitInv, NoTimerLeft, ErrorLimitIsReported
<1> QED BY <1>1, QuitInvariant, PTL

(* While it runs, close() is called at most once for every order, and the  *)
(* hard exit only waits after too many errors.                             *)
Quiet == UNCHANGED <<proc, pool, armed, closes, orders, remain, hardTimer>>

LEMMA QuietOrders ==
    ASSUME OrdersInv, Quiet
    PROVE  OrdersInv'
BY DEF OrdersInv, Quiet

LEMMA GoneOrders ==
    ASSUME NEW code, Gone(code)
    PROVE  OrdersInv'
BY DEF OrdersInv, Gone

LEMMA HandlerThrowsOrders ==
    ASSUME LifeType, OrdersInv, NEW c \in Conns, HandlerThrows(c)
    PROVE  OrdersInv'
<1>1. UNCHANGED <<proc, pool, armed, closes, orders, hardTimer>>
  BY DEF HandlerThrows, procVars
<1>2. remain = 0 => remain' = 0
  BY DEF HandlerThrows, CountError
<1> QED BY <1>1, <1>2 DEF OrdersInv

LEMMA WorkOrders ==
    ASSUME LifeType, OrdersInv, NEW c \in Conns, Work(c)
    PROVE  OrdersInv'
<1>1. CASE HandlerThrows(c)
  BY <1>1, HandlerThrowsOrders
<1>2. CASE Finish(c)
  <2>1. UNCHANGED <<proc, pool, armed, remain, hardTimer>>
    BY <1>2 DEF Finish, errorVars
  <2>2. \/ UNCHANGED <<closes, orders>>
        \/ closes' = closes + 1 /\ orders' = orders + 1
    BY <1>2 DEF Finish
  <2> QED BY <2>1, <2>2 DEF OrdersInv, LifeType
<1>3. CASE ~HandlerThrows(c) /\ ~Finish(c)
  <2>1. Quiet
    BY <1>3 DEF Work, SendQuery, QueryAnswered, QueryFails, procVars, errorVars,
                Quiet
  <2> QED BY <2>1, QuietOrders
<1> QED BY <1>1, <1>2, <1>3

LEMMA SignalOrders ==
    ASSUME LifeType, OrdersInv, proc # "exited", NEW s \in Signals, Signal(s)
    PROVE  OrdersInv'
<1>1. orders' = orders + 1
  BY DEF Signal
<1>2. CASE \E code : Gone(code)
  BY <1>2, GoneOrders
<1>3. CASE /\ pool = "open" /\ pool' = "ending" /\ UNCHANGED closes
           /\ UNCHANGED <<proc, exitCode, errorVars, conns>>
  <2>1. closes' + 1 <= orders' /\ orders' >= 1
    BY <1>1, <1>3 DEF OrdersInv, LifeType
  <2> QED BY <1>3, <2>1 DEF OrdersInv, errorVars
<1> QED BY <1>2, <1>3 DEF Signal, CloseServer

LEMMA CallbackOrders ==
    ASSUME LifeType, QuitInv, OrdersInv, proc # "exited",
           ScheduledClose \/ QuitNow \/ HardExitNow \/ PoolEnds
    PROVE  OrdersInv'
<1>1. CASE \E code : Gone(code)
  BY <1>1, GoneOrders
<1>2. CASE /\ ScheduledClose /\ pool = "open" /\ pool' = "ending"
           /\ UNCHANGED <<proc, exitCode, errorVars, conns>>
  <2>1. closes' + 1 <= orders' /\ UNCHANGED <<armed, orders>>
    BY <1>2 DEF ScheduledClose, OrdersInv, LifeType
  <2> QED BY <1>2, <2>1 DEF OrdersInv, errorVars
<1>3. CASE QuitNow
  <2>1. remain = 0 /\ MaxErrors > 0
    BY <1>3 DEF QuitNow, QuitInv
  <2>2. hardTimer' => HardExit
    BY <1>3 DEF QuitNow, OrdersInv
  <2> QED BY <1>3, <2>1, <2>2 DEF QuitNow, OrdersInv
<1>4. CASE PoolEnds
  BY <1>4 DEF PoolEnds, OrdersInv, errorVars
<1> QED BY <1>1, <1>2, <1>3, <1>4 DEF ScheduledClose, HardExitNow, CloseServer

LEMMA OrdersInductive ==
    ASSUME LifeType, QuitInv, OrdersInv, [Next]_vars
    PROVE  OrdersInv'
<1> SUFFICES ASSUME Next PROVE OrdersInv'
  BY QuietOrders DEF Quiet, vars, lifeVars, procVars, errorVars
<1>1. CASE Listen /\ UNCHANGED metaVars
  BY <1>1 DEF Listen, OrdersInv, errorVars
<1>2. ASSUME NEW c \in Conns, NewRequest(c) PROVE OrdersInv'
  BY <1>2, QuietOrders DEF Quiet, NewRequest, Accept, procVars, errorVars
<1>3. ASSUME NEW c \in Conns, CheckRequest(c) PROVE OrdersInv'
  BY <1>3, QuietOrders DEF Quiet, CheckRequest, lifeVars, procVars, errorVars
<1>4. ASSUME NEW c \in Conns, ChecksPassed(c) PROVE OrdersInv'
  BY <1>4, QuietOrders DEF Quiet, ChecksPassed, procVars, errorVars
<1>5. ASSUME NEW c \in Conns, ChecksFailed(c) PROVE OrdersInv'
  BY <1>5, HandlerThrowsOrders DEF ChecksFailed
<1>6. ASSUME NEW c \in Conns, Work(c) PROVE OrdersInv'
  BY <1>6, WorkOrders
<1>7. ASSUME NEW c \in Conns, LateAnswer(c) PROVE OrdersInv'
  BY <1>7, QuietOrders DEF Quiet, LateAnswer, TimeoutFallback, procVars, errorVars
<1>8. CASE proc = "running" /\ Interrupt
  BY <1>8, SignalOrders DEF Interrupt
<1>9. CASE proc = "running" /\ Callback
  BY <1>9, CallbackOrders DEF Callback
<1>10. CASE NothingLeft
  BY <1>10, GoneOrders DEF NothingLeft, LoopEnds
<1>11. CASE EditFile /\ UNCHANGED lifeVars
  BY <1>11, QuietOrders DEF Quiet, lifeVars, procVars, errorVars
<1> QED
  BY ONLY StepCases, Next, <1>1, <1>2, <1>3, <1>4, <1>5, <1>6, <1>7, <1>8,
          <1>9, <1>10, <1>11

(* What has happened when the process ends before its requests do.         *)
Told == \/ orders' >= 2
        \/ exitCode' = ByHardExit /\ HardExit /\ MaxErrors > 0 /\ remain = 0

LEMMA EndsOnlyIfTold ==
    ASSUME LifeType, OrdersInv, Next, proc' = "exited", ~LoopEnds
    PROVE  Told
<1>1. CASE Listen /\ UNCHANGED metaVars
  BY <1>1 DEF Listen
<1>2. ASSUME NEW c \in Conns, proc = "running",
             \/ NewRequest(c) \/ CheckRequest(c) \/ ChecksPassed(c)
             \/ ChecksFailed(c) \/ Work(c) \/ LateAnswer(c)
      PROVE  FALSE
  <2>1. UNCHANGED proc
    BY <1>2 DEF NewRequest, Accept, CheckRequest, ChecksPassed, ChecksFailed,
                HandlerThrows, Work, SendQuery, QueryAnswered, QueryFails,
                Finish, LateAnswer, TimeoutFallback, lifeVars, procVars
  <2> QED BY <1>2, <2>1
<1>3. ASSUME NEW s \in Signals, proc = "running", Signal(s)
      PROVE  Told
  <2>1. orders' = orders + 1 /\ orders \in Nat
    BY <1>3 DEF Signal, LifeType
  <2>2. s \notin armed \/ pool # "open"
    BY <1>3 DEF Signal, CloseServer
  <2>3. orders >= 1
    <3>1. s \notin armed => orders >= 1
      BY <1>3 DEF OrdersInv
    <3>2. pool # "open" => closes + 1 <= orders /\ closes \in Nat
      BY <1>3 DEF OrdersInv, LifeType
    <3> QED BY <2>1, <2>2, <3>1, <3>2
  <2> QED BY <2>1, <2>3 DEF Told
<1>4. CASE proc = "running" /\ ScheduledClose
  <2>1. pool # "open" /\ closes > 0 /\ orders' = orders
    BY <1>4 DEF ScheduledClose, CloseServer
  <2>2. closes + 1 <= orders /\ closes \in Nat /\ orders \in Nat
    BY <1>4, <2>1 DEF OrdersInv, LifeType
  <2> QED BY <2>1, <2>2 DEF Told
<1>5. CASE proc = "running" /\ HardExitNow
  BY <1>5 DEF HardExitNow, Gone, OrdersInv, Told
<1>6. CASE proc = "running" /\ (QuitNow \/ PoolEnds)
  BY <1>6 DEF QuitNow, PoolEnds
<1>7. CASE proc = "running" /\ UNCHANGED lifeVars
  BY <1>7 DEF lifeVars, procVars
<1>8. ~NothingLeft
  BY DEF NothingLeft
<1> QED
  BY ONLY StepCases, Next, <1>1, <1>2, <1>3, <1>4, <1>5, <1>6, <1>7, <1>8
     DEF Interrupt, Callback

(* Whenever the server is told to shut down, and whatever fails meanwhile: *)
(* it takes a second order, or the hard exit after too many errors, to     *)
(* lose an accepted request that nobody has answered.                      *)
THEOREM RequestsAreLostOnlyIfToldTwice == Spec => LostOnlyIfToldTwice
<1> DEFINE OnlyIfTold ==
      proc' = "exited" /\ (\E c \in Conns : conns[c].pc # "idle" /\ ~conns[c].slow)
        => \/ orders' >= 2
           \/ exitCode' = ByHardExit /\ HardExit /\ MaxErrors > 0 /\ remain = 0
<1>1. Init => OrdersInv
  BY DEF Init, LifeInit, OrdersInv
<1>2. LifeType /\ QuitInv /\ OrdersInv /\ [Next]_vars => OrdersInv'
  BY OrdersInductive
<1>3. ASSUME LifeType, OrdersInv, Next PROVE OnlyIfTold
  <2> SUFFICES ASSUME proc' = "exited", NEW c \in Conns, conns[c].pc # "idle"
               PROVE  Told
    BY DEF Told
  <2>1. ~LoopEnds
    BY DEF LoopEnds
  <2> QED BY <1>3, <2>1, EndsOnlyIfTold
<1>4. LifeType /\ OrdersInv /\ [Next]_vars => [OnlyIfTold]_vars
  BY <1>3
<1> QED BY <1>1, <1>2, <1>4, QuitInvariant, PTL DEF Spec, LostOnlyIfToldTwice

-------------------------------------------------------------------------------
(* The identity of a request.                                              *)

(* There is a first of the places that name somebody.                      *)
LEMMA LeastElement ==
    ASSUME NEW S \in SUBSET Nat, S # {}
    PROVE  \E m \in S : \A k \in S : m <= k
<1>1. IsWellFoundedOn(OpToRel(<, Nat), Nat)
  BY NatLessThanWellFounded
<1>2. PICK x \in S : \A y \in S : ~(<<y, x>> \in OpToRel(<, Nat))
  BY <1>1, WFMin
<1>3. ASSUME NEW a \in Nat, NEW b \in Nat, a < b
      PROVE  <<a, b>> \in OpToRel(<, Nat)
  BY <1>3 DEF OpToRel
<1>4. ASSUME NEW y \in S PROVE ~(y < x)
  BY <1>2, <1>3, Zenon
<1>5. \A y \in S : x <= y
  BY <1>4
<1> QED BY <1>5

LEMMA LeastIsChosen ==
    ASSUME NEW S \in SUBSET Nat, NEW m \in S, \A k \in S : m <= k
    PROVE  (CHOOSE k \in S : \A j \in S : k <= j) = m
<1>1. ASSUME NEW x \in S, \A j \in S : x <= j
      PROVE  x = m
  <2>1. x <= m /\ m <= x /\ x \in Nat /\ m \in Nat
    BY <1>1
  <2> QED BY <2>1
<1> QED BY <1>1, Zenon

LEMMA FirstOfNaming ==
    ASSUME MetaType, NEW p, Naming(p) # {}
    PROVE  /\ Naming(p) \subseteq Nat
           /\ \E m \in Naming(p) : \A j \in Naming(p) : m <= j
<1>1. Naming(p) \subseteq Nat
  <2>1. Len(detectors) \in Nat
    BY RequestMetaAssumption DEF MetaType
  <2> QED BY <2>1 DEF Naming
<1> QED BY <1>1, LeastElement

(* An edit of the file changes only what the file says, ...                *)
LEMMA NamingIsStable ==
    ASSUME NEW p, UNCHANGED detectors
    PROVE  /\ FilesAt' = FilesAt
           /\ \A k : k \notin FilesAt => (k \in Naming(p)' <=> k \in Naming(p))
<1>1. FilesAt' = FilesAt
  BY DEF FilesAt
<1>2. ASSUME NEW k, k \notin FilesAt
      PROVE  k \in Naming(p)' <=> k \in Naming(p)
  <2>1. ASSUME k \in 1..Len(detectors)
        PROVE  Answer(detectors[k], p)' = Answer(detectors[k], p)
    <3>1. detectors[k] # "static_from_file"
      BY <1>2, <2>1 DEF FilesAt
    <3> QED BY <3>1 DEF Answer
  <2> QED BY <2>1 DEF Naming
<1> QED BY <1>1, <1>2

(* ... and not the first source that names somebody, unless it is asked.   *)
LEMMA EditKeepsFirstNamed ==
    ASSUME MetaType, MetaType', NEW p, UNCHANGED detectors, ~NeedsFile(p)
    PROVE  FirstNamed(p)' = FirstNamed(p) /\ ~NeedsFile(p)'
<1>1. FilesAt' = FilesAt
  BY NamingIsStable
<1>2. \A k : k \notin FilesAt => (k \in Naming(p)' <=> k \in Naming(p))
  BY NamingIsStable
<1>3. \A f \in FilesAt : \E k \in Naming(p) \ FilesAt : ~(f < k)
  BY DEF NeedsFile
<1>4. ~NeedsFile(p)'
  <2>1. \A f \in FilesAt' : \E k \in Naming(p)' \ FilesAt' : ~(f < k)
    BY <1>1, <1>2, <1>3
  <2> QED BY <2>1 DEF NeedsFile
<1>5. FirstNamed(p)' = FirstNamed(p)
  <2>1. CASE Naming(p) = {}
    <3>1. FilesAt = {}
      BY <1>3, <2>1
    <3>2. Naming(p)' = {}
      BY <1>2, <2>1, <3>1
    <3> QED BY <2>1, <3>2 DEF FirstNamed
  <2>2. CASE Naming(p) # {}
    <3>1. PICK m \in Naming(p) : \A j \in Naming(p) : m <= j
      BY <2>2, FirstOfNaming
    <3>2. /\ Naming(p) \subseteq 1..Len(detectors)
          /\ Naming(p)' \subseteq 1..Len(detectors)
          /\ FilesAt \subseteq 1..Len(detectors)
          /\ Len(detectors) \in Nat
      BY RequestMetaAssumption DEF Naming, FilesAt, MetaType
    <3>3. ASSUME NEW f \in FilesAt PROVE m < f
      <4>1. PICK k \in Naming(p) \ FilesAt : ~(f < k)
        BY <1>3
      <4>2. k # f /\ m <= k /\ k \in Nat /\ f \in Nat /\ m \in Nat
        BY <3>1, <3>2, <4>1
      <4> QED BY <4>1, <4>2
    <3>4. m \notin FilesAt /\ m \in Naming(p)'
      <4>1. m \notin FilesAt
        BY <3>2, <3>3
      <4> QED BY <1>2, <4>1
    <3>5. ASSUME NEW j \in Naming(p)' PROVE m <= j
      <4>1. m \in Nat /\ j \in Nat
        BY <3>2
      <4>2. CASE j \in FilesAt
        BY <3>3, <4>1, <4>2
      <4>3. CASE j \notin FilesAt
        BY <1>2, <3>1, <4>3
      <4> QED BY <4>2, <4>3
    <3>6. FirstNamed(p) = Answer(detectors[m], p)
      <4>1. Naming(p) \subseteq Nat
        BY <3>2
      <4>2. (CHOOSE k \in Naming(p) : \A j \in Naming(p) : k <= j) = m
        BY <3>1, <4>1, LeastIsChosen
      <4> QED BY <2>2, <4>2, Zenon DEF FirstNamed
    <3>7. FirstNamed(p)' = Answer(detectors[m], p)'
      <4>1. Naming(p)' \subseteq Nat
        BY <3>2
      <4>2. (CHOOSE k \in Naming(p)' : \A j \in Naming(p)' : k <= j) = m
        BY <3>4, <3>5, <4>1, LeastIsChosen
      <4>3. Naming(p)' # {}
        BY <3>4
      <4> QED BY <4>2, <4>3, Zenon DEF FirstNamed
    <3>8. Answer(detectors[m], p)' = Answer(detectors[m], p)
      <4>1. detectors[m] # "static_from_file"
        BY <3>2, <3>4 DEF FilesAt
      <4> QED BY <4>1 DEF Answer
    <3> QED BY <3>6, <3>7, <3>8
  <2> QED BY <2>1, <2>2
<1> QED BY <1>4, <1>5

(* What ChecksInv says of one request.                                     *)
ChecksOK(c) == ~NeedsFile(asked[c]) =>
    /\ cachedUser[c] \in {NoId, ResolvedUser(FirstNamed(asked[c]))}
    /\ \A u \in asked[c].urls :
         /\ checks[c][u] # "reading"
         /\ checks[c][u] = "granted" =>
              <<ResolvedUser(FirstNamed(asked[c])), ServiceOf[u]>> \in Permits

LEMMA ChecksInvParts == ChecksInv <=> \A c \in Conns : ChecksOK(c)
BY DEF ChecksInv, ChecksOK

(* The user does not depend on what others may write into the file.        *)
LEMMA UserIsStable ==
    ASSUME MetaType, MetaType', NEW p, UNCHANGED detectors
    PROVE  /\ NeedsFile(p)' <=> NeedsFile(p)
           /\ ~NeedsFile(p) =>
                ResolvedUser(FirstNamed(p))' = ResolvedUser(FirstNamed(p))
<1>1. FilesAt' = FilesAt
  BY NamingIsStable
<1>2. \A k : k \notin FilesAt => (k \in Naming(p)' <=> k \in Naming(p))
  BY NamingIsStable
<1>3. NeedsFile(p)' <=> NeedsFile(p)
  <2>1. Naming(p)' \ FilesAt' = Naming(p) \ FilesAt
    BY <1>1, <1>2
  <2> QED BY <1>1, <2>1 DEF NeedsFile
<1>4. ~NeedsFile(p) => FirstNamed(p)' = FirstNamed(p)
  BY EditKeepsFirstNamed
<1> QED BY <1>3, <1>4 DEF ResolvedUser, TransformFails, AliasOrSelf

LEMMA UnchangedChecks ==
    ASSUME MetaType, MetaType', NEW c \in Conns, ChecksOK(c),
           UNCHANGED <<detectors, asked[c], checks[c], cachedUser[c]>>
    PROVE  ChecksOK(c)'
<1>1. PICK p : p = asked[c]
  OBVIOUS
<1>2. p = asked[c]'
  BY <1>1
<1>3. /\ NeedsFile(p)' <=> NeedsFile(p)
      /\ ~NeedsFile(p) =>
           ResolvedUser(FirstNamed(p))' = ResolvedUser(FirstNamed(p))
  BY UserIsStable
<1> QED BY <1>1, <1>2, <1>3 DEF ChecksOK, ServiceOf

LEMMA CheckKeepsUser ==
    ASSUME MetaType, MetaType', NEW c \in Conns, ChecksOK(c), CheckTarget(c)
    PROVE  ChecksOK(c)'
<1>1. PICK u \in DOMAIN checks[c] : BeginCheck(c, u) \/ FileRead(c, u)
  BY DEF CheckTarget
<1>2. UNCHANGED <<detectors, whoami, asked>>
  BY <1>1 DEF BeginCheck, FileRead
<1>3. PICK p : p = asked[c]
  OBVIOUS
<1>4. p = asked[c]' /\ u \in p.urls
  BY <1>2, <1>3 DEF MetaType
<1>5. CASE NeedsFile(p)
  BY <1>2, <1>3, <1>4, <1>5, UserIsStable DEF ChecksOK
<1>6. CASE ~NeedsFile(p)
  <2> DEFINE user == ResolvedUser(FirstNamed(p))
  <2>1. /\ cachedUser[c] \in {NoId, user}
        /\ \A v \in p.urls :
             /\ checks[c][v] # "reading"
             /\ checks[c][v] = "granted" => <<user, ServiceOf[v]>> \in Permits
    BY <1>3, <1>6 DEF ChecksOK
  <2>2. BeginCheck(c, u)
    BY <1>1, <1>4, <2>1 DEF FileRead
  <2>3. /\ cachedUser' = cachedUser \/ cachedUser' = [cachedUser EXCEPT ![c] = user]
        /\ \/ SetCheck(c, u, "denied") \/ SetCheck(c, u, "failed")
           \/ SetCheck(c, u, "granted") /\ <<user, ServiceOf[u]>> \in Permits
    BY <1>3, <1>6, <2>1, <2>2 DEF BeginCheck, Detect, Conclude
  <2>4. cachedUser'[c] \in {NoId, user}
    BY <2>1, <2>3 DEF MetaType
  <2>5. PICK result \in {"denied", "failed", "granted"} :
          /\ SetCheck(c, u, result)
          /\ result = "granted" => <<user, ServiceOf[u]>> \in Permits
    BY <2>3
  <2>6. \A v \in p.urls :
          /\ checks'[c][v] # "reading"
          /\ checks'[c][v] = "granted" => <<user, ServiceOf[v]>> \in Permits
    <3>1. checks'[c] = [checks[c] EXCEPT ![u] = result]
      BY <2>5 DEF SetCheck, MetaType
    <3>2. DOMAIN checks[c] = p.urls
      BY <1>3 DEF MetaType
    <3> QED BY <2>1, <2>5, <3>1, <3>2
  <2>7. ResolvedUser(FirstNamed(p))' = user
    BY <1>2, <1>6, UserIsStable
  <2> QED BY <1>4, <2>4, <2>6, <2>7 DEF ChecksOK, ServiceOf
<1> QED BY <1>5, <1>6

(* A request that has just begun or ended has no user and no result.       *)
LEMMA FreshChecks ==
    ASSUME NEW c \in Conns, cachedUser'[c] = NoId,
           \A u \in asked'[c].urls : checks'[c][u] = "begin"
    PROVE  ChecksOK(c)'
BY DEF ChecksOK

LEMMA ForgetKeepsUser ==
    ASSUME MetaType, MetaType', ChecksInv, NEW C \in SUBSET Conns, Forget(C)
    PROVE  ChecksInv'
<1>1. ASSUME NEW c \in Conns PROVE ChecksOK(c)'
  <2>1. CASE c \in C
    <3>1. asked'[c].urls = {} /\ cachedUser'[c] = NoId
      BY <2>1 DEF Forget, NoProfile
    <3> QED BY <3>1, FreshChecks
  <2>2. CASE c \notin C
    <3>1. UNCHANGED <<detectors, asked[c], checks[c], cachedUser[c]>>
      BY <2>2 DEF Forget
    <3> QED BY <3>1, UnchangedChecks, ChecksInvParts
  <2> QED BY <2>1, <2>2
<1> QED BY <1>1 DEF ChecksInv, ChecksOK

LEMMA ChecksInductive ==
    ASSUME MetaType, MetaType', ChecksInv, [Next]_vars
    PROVE  ChecksInv'
<1>0. ASSUME UNCHANGED <<detectors, asked, checks, cachedUser>> PROVE ChecksInv'
  <2>1. ASSUME NEW c \in Conns PROVE ChecksOK(c)'
    BY <1>0, UnchangedChecks, ChecksInvParts
  <2> QED BY <2>1 DEF ChecksInv, ChecksOK
<1> SUFFICES ASSUME Next PROVE ChecksInv'
  BY <1>0 DEF vars, metaVars
<1>1. CASE UNCHANGED metaVars
  BY <1>0, <1>1 DEF metaVars
<1>2. ASSUME NEW c \in Conns, NewRequest(c) PROVE ChecksInv'
  <2>1. PICK p \in Profiles : StartChecks(c, p)
    BY <1>2 DEF NewRequest
  <2>2. ASSUME NEW d \in Conns PROVE ChecksOK(d)'
    <3>1. CASE d = c
      <4>1. /\ asked'[c] = p /\ cachedUser'[c] = NoId
            /\ checks'[c] = [u \in p.urls |-> "begin"]
        BY <2>1 DEF StartChecks, MetaType
      <4> QED BY <3>1, <4>1, FreshChecks
    <3>2. CASE d # c
      <4>1. UNCHANGED <<detectors, asked[d], checks[d], cachedUser[d]>>
        BY <2>1, <3>2 DEF StartChecks, MetaType
      <4> QED BY <4>1, UnchangedChecks, ChecksInvParts
    <3> QED BY <3>1, <3>2
  <2> QED BY <2>2 DEF ChecksInv, ChecksOK
<1>3. ASSUME NEW c \in Conns, CheckRequest(c) PROVE ChecksInv'
  <2>1. PICK u \in DOMAIN checks[c], result \in Check : CheckStep(c, u, result)
    BY <1>3, CheckTargetStep DEF CheckRequest
  <2>2. ASSUME NEW d \in Conns PROVE ChecksOK(d)'
    <3>1. CASE d = c
      BY <1>3, <3>1, CheckKeepsUser, ChecksInvParts DEF CheckRequest
    <3>2. CASE d # c
      <4>1. UNCHANGED <<detectors, asked[d], checks[d], cachedUser[d]>>
        BY <2>1, <3>2 DEF CheckStep, MetaType
      <4> QED BY <4>1, UnchangedChecks, ChecksInvParts
    <3> QED BY <3>1, <3>2
  <2> QED BY <2>2 DEF ChecksInv, ChecksOK
<1>4. ASSUME NEW C \in SUBSET Conns, Forget(C) PROVE ChecksInv'
  BY <1>4, ForgetKeepsUser
<1>5. ASSUME NEW c \in Conns, ChecksPassed(c) \/ ChecksFailed(c) PROVE ChecksInv'
  BY <1>4, <1>5 DEF ChecksPassed, ChecksFailed
<1>6. ASSUME NEW c \in Conns, Work(c) \/ LateAnswer(c) PROVE ChecksInv'
  BY <1>1, <1>6 DEF Work, LateAnswer
<1>7. CASE Interrupt \/ Callback \/ NothingLeft
  BY <1>1, <1>4, <1>7 DEF Interrupt, Callback, NothingLeft, ForgetIfGone
<1>8. CASE EditFile
  BY <1>0, <1>8 DEF EditFile
<1> QED
  BY ONLY StepCases, Next, <1>1, <1>2, <1>3, <1>5, <1>6, <1>7, <1>8

(* Only by passing its checks does a request get to its work.              *)
LEMMA WorkAfterChecks ==
    ASSUME LifeType, Next, NEW c \in Conns,
           conns[c].pc = "checks", conns'[c].pc = "work"
    PROVE  ChecksPassed(c)
<1>1. ~(conns' = conns) /\ ~(conns' = [d \in Conns |-> NoConn])
  BY DEF NoConn
<1>2. \A d \in Conns : ~(d = c /\ EndHandler(d)) /\ (d # c => ~EndHandler(d))
  BY DEF EndHandler, NoConn, LifeType
<1>3. ~(Listen /\ UNCHANGED metaVars)
  BY <1>1 DEF Listen
<1>4. ASSUME NEW d \in Conns, NewRequest(d) PROVE FALSE
  <2>1. PICK op \in Ops : Accept(d, op)
    BY <1>4 DEF NewRequest
  <2>2. d # c
    BY <2>1 DEF Accept
  <2> QED BY <2>1, <2>2 DEF Accept, LifeType
<1>5. ASSUME NEW d \in Conns, CheckRequest(d) PROVE FALSE
  BY <1>1, <1>5 DEF CheckRequest, lifeVars
<1>6. ASSUME NEW d \in Conns, ChecksPassed(d) PROVE ChecksPassed(c)
  <2>1. CASE d # c
    BY <1>6, <2>1 DEF ChecksPassed, LifeType
  <2> QED BY <1>6, <2>1
<1>7. ASSUME NEW d \in Conns, ChecksFailed(d) PROVE FALSE
  BY <1>2, <1>7 DEF ChecksFailed, HandlerThrows
<1>8. ASSUME NEW d \in Conns, Work(d) PROVE FALSE
  <2>1. ~EndHandler(d)
    BY <1>2
  <2>2. ~HandlerThrows(d)
    BY <2>1 DEF HandlerThrows
  <2>3. d # c
    BY <1>8, <2>1, <2>2 DEF Work, SendQuery, QueryAnswered, QueryFails, Finish
  <2>4. CASE SendQuery(d)
    BY <2>2, <2>3, <2>4 DEF SendQuery, LifeType
  <2>5. CASE QueryAnswered(d)
    BY <2>3, <2>5 DEF QueryAnswered, LifeType
  <2> QED BY <1>8, <2>1, <2>2, <2>4, <2>5 DEF Work, QueryFails, Finish
<1>9. ASSUME NEW d \in Conns, LateAnswer(d) PROVE FALSE
  <2>1. d # c
    BY <1>9 DEF LateAnswer, TimeoutFallback
  <2> QED BY <1>9, <2>1 DEF LateAnswer, TimeoutFallback, LifeType
<1>10. ~CloseServer /\ \A code : ~Gone(code)
  BY <1>1 DEF CloseServer, Gone
<1>11. ~Interrupt
  BY <1>10 DEF Interrupt, Signal
<1>12. ~Callback
  BY <1>1, <1>10 DEF Callback, ScheduledClose, QuitNow, HardExitNow, PoolEnds
<1>13. ~NothingLeft /\ ~(EditFile /\ UNCHANGED lifeVars)
  BY <1>1, <1>10 DEF NothingLeft, LoopEnds, lifeVars
<1> QED
  BY ONLY StepCases, Next, <1>3, <1>4, <1>5, <1>6, <1>7, <1>8, <1>9, <1>11,
          <1>12, <1>13

(* No request gets past its checks under another user than the one that    *)
(* the first of its identity sources names.                                *)
THEOREM ChecksAreForNamedUser == Spec => CheckedForNamedUser
<1>1. Init => LifeType /\ MetaType /\ ChecksInv
  <2> SUFFICES ASSUME Init PROVE LifeType /\ MetaType /\ ChecksInv
    OBVIOUS
  <2>1. ASSUME NEW c \in Conns PROVE ChecksOK(c)
    <3>1. asked[c].urls = {} /\ cachedUser[c] = NoId
      BY DEF Init, MetaInit, NoProfile
    <3> QED BY <3>1 DEF ChecksOK
  <2> QED BY <2>1, TypeInit, ChecksInvParts
<1>2. LifeType /\ MetaType /\ ChecksInv /\ [Next]_vars
      => LifeType' /\ MetaType' /\ ChecksInv'
  BY TypeInductive, ChecksInductive
<1> DEFINE Checked ==
      \A c \in Conns :
        conns[c].pc = "checks" /\ conns'[c].pc = "work" /\ ~NeedsFile(asked[c]) =>
            \A u \in asked[c].urls :
                <<ResolvedUser(FirstNamed(asked[c])), ServiceOf[u]>> \in Permits
<1>3. ASSUME LifeType, MetaType, ChecksInv, Next PROVE Checked
  <2> SUFFICES ASSUME NEW c \in Conns, conns[c].pc = "checks",
                      conns'[c].pc = "work", ~NeedsFile(asked[c]),
                      NEW u \in asked[c].urls
               PROVE  <<ResolvedUser(FirstNamed(asked[c])), ServiceOf[u]>> \in Permits
    OBVIOUS
  <2>1. ChecksPassed(c)
    BY <1>3, WorkAfterChecks
  <2>2. checks[c][u] = "granted"
    BY <1>3, <2>1 DEF ChecksPassed, AllGranted, MetaType
  <2> QED BY <1>3, <2>2 DEF ChecksInv
<1>4. LifeType /\ MetaType /\ ChecksInv /\ [Next]_vars => [Checked]_vars
  BY <1>3
<1> QED BY <1>1, <1>2, <1>4, PTL DEF Spec, CheckedForNamedUser
===============================================================================
