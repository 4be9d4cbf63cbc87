# A model of anno-server-22

This directory holds TLA+ modules that model the annotation server in `src/`
of the repository, TLC configurations that check them on small instances, and
proofs that TLAPS checks for every size. Paths below are relative to the
repository; `anno/` is short for `src/hnd/anno/`.

## 1. The system

The server stores Web Annotations in Postgres. An annotation has a base ID (a
random UUID) and versions 1, 2, 3, …; a version's data never changes, but it
may get *stamps* (`_ubhd:unapproved`, `dc:dateAccepted`, `as:deleted`,
`dc:identifier`, `_ubhd:doiAssign`), which decide who may see it.

| Component | State it keeps | Operations | What makes it correct |
|---|---|---|---|
| Annotation tables (`util/pg/dbinit_structure.gen.mjs`, `src/dbAdapter/pg/`) | `anno_data`, `anno_stamps`, `anno_links` | single statements; no transactions anywhere | keys, column widths |
| POST (`anno/postNewAnno/`) | a request's local variables | check, look up the replaced version, compare, insert data, then stamps, then links | contiguous numbers, no lost update, privileges cover what was stored, a held version is held |
| PATCH (`anno/patchAnno/`) | a request's local variables | side effects before the stamp, the stamp, side effects after it | approval is complete, only approval discloses, a repeated PATCH finishes what the first has left undone, a DOI request is honoured |
| GET (`anno/idGet/`) | a request's local variables | exact version, redirect to the latest, list of versions | the public reads what is approved and not retracted; a list agrees with what its links lead to |
| Searches and feeds (`anno/searchBy/`, `src/hnd/rss/`) | a request's local variables | one large query, privilege checks before it and, for each target found, after it | nothing visible is missed, nothing is shown to a role that may not see it, a full feed for approvers leaves out the youngest |
| ACL (`src/acl/`) | chains, read at start-up; a cache per request | `whyDeny`, sub-chains, tendencies and decisions | the first decision counts; deny unless told otherwise |
| Identity (`src/acl/detectUserIdentity.mjs`, `src/acl/idp/`) | detectors, transformations and aliases, read at start-up; a debug file | detect, transform, resolve | the first source that names a user decides, for all checks of a request |
| Users and services (`src/cfg/lusrmgr/`, `src/cfg/servicesAdapter.mjs`) | dictionaries, read at start-up | look-ups by name, by URL prefix, by host alias | a target belongs to one service |
| Life cycle (`src/server.mjs`, `src/runServer.mjs`, `src/listenAddrPlumbing.mjs`, `src/hnd/fallbackErrorHandler.mjs`, `src/hnd/shutdownHandler.mjs`, `src/timeoutFallbackResponse.mjs`) | listening socket, database pool, error counter, timers, signal handlers | start, accept, time out, count errors, shut down, quit | the process ends once it is told to, says how, and leaves no request without an answer unless it is told to shut down twice |
| Submission parsing, configuration files, formats, version identifiers, sessions, import scripts, plugins | none | | |

The components interact by plain calls within one Node.js process. Requests
influence each other through the tables, and through the process: the error
counter and the end of the server are common to all. The checks of one request
run concurrently and share its cache. What is hard about the code follows from
that:

* **Interleaving.** Every `await` of a query lets other requests run. A POST
  that revises sends five statements or more, an approving PATCH five.
* **No transactions.** A failing query, a crash or a shutdown between two
  inserts leaves what has been inserted.
* **Read, then write.** The latest version number, the replaced version and
  its stamps are read long before the insert that relies on them; the only
  thing that settles a race is the primary key of `anno_data`.
* **Late stamps.** A version exists, and can be read and approved, before its
  POST holds it.
* **Two-query look-ups**, the second of which is limited to two rows; lists
  whose working copy is looked up after them.
* **Many ends.** A signal, a shutdown request, the error limit, a rejected
  promise and an empty event loop end the process, in any order, while
  handlers wait for queries and clients have got a timeout answer already.
* **A shared cache.** The checks of all targets of a request start at once, and
  each of them may be the one that stores who the user is.

`PROJECT.json` lists every hazard at its line, with the properties aimed at it.

## 2. The modules

| Module | Models | State and actions |
|---|---|---|
| `AnnoDb` | the tables and the SQL statements | `annoData`, `annoStamps`, `annoLinks` are the tables; each operator is one statement. `heldLate` and the `edited` field are history: they record facts for the properties and no action reads them to decide something. `time` is `time_created`. |
| `AnnoRequest` | requests in flight, responses, privilege checks | `reqs[r].pc` names the query that the handler awaits next, the other fields are its local variables: `titles`, `limit` and `oldest` are what a search asks for, `found` what it has found. |
| `ExactLookup` | `lookupExactVersion()`, which GET, PATCH and POST share | `LookupDetails`, `LookupRefused`; `LookupServes` is a conjunct of the three continuations |
| `GetAnno` | GET and HEAD of one annotation | `ReceiveGet`, `RedirToLatestVersion`, `ServeExactVersion` |
| `PostAnno` | `postNewAnno()` with `checkVersionModifications()` | `ReceivePost`, `FindLatestForRevision`, `ReviseChecked`, `InsertAnnoData`, `InsertStamps`, `InsertLinks` |
| `PatchAnno` | `patchAnno()` and `addStamp()` | `ReceivePatch`, `StampChecked`, `PrepareAdd`, `AddStamp`, `CleanupAfterAdd` |
| `SearchAnnos` | the list of versions, searches by target and by stamp, both feeds | `ReceiveListVersions`, `ReceiveTargetSearch`, `ReceiveStampSearch`, `ReceiveFeedRequest`, `RunSearch`, `NameWorkingCopy`. `Found(q)` is the query: `MeetsCriterion`, `IsVisible` for the role, then `LatestOnly`; `OrderedSearch(q)` are the results it may have when it is sorted by time and cut to its limit (`Formatted`, `RowsLimit`); `SearchVerdict` are the checks of them. |
| `AnnoServer` | the composition of all of them, faults and crashes, all properties | `Receive`, `Handle`, `QueryFails`, `Crash` |
| `VersionLog` | what storage promises its authors, as an abstract specification | `Create`, `Revise` |
| `MCAnnoServer` | constants for TLC | |
| `AclChains` | one access check, `whyDeny()` and the chains it runs | `stack` are the open calls of `aclSubChain()`, the first entry is `whyDeny()` itself; `tendencies` and `decision` are `chainCtx.state`. `BeginRule`, `BeginItem`, `SkipRule`, `Decide`, `ApplyRule`, `EnterSubChain`, `SkipSubChain`, `LeaveChain`, …, `Conclude`; `InvalidCondition` and `BadSubChain` throw. |
| `AclPolicy` | what a configuration means, as a reference definition | no state of its own |
| `MCAclChains` | rules and configurations for TLC | |
| `Services` | which service a target URL belongs to: prefixes, their order, aliases of host names | no state; `FindServiceByTargetUrl` |
| `ServerLifecycle` | the process | `proc`, `exitCode`, `listening`, `pool`, `armed` (signal handlers that are still there), `closes` (calls of `close()` put off by `setImmediate`), `remain` (errors left until the limit), `quitTimers`, `hardTimer`; `orders`, which no action reads, counts the signals and the shutdown requests so far; `conns[c]` is one request, of which only the number of its queries matters here. `Listen`, `Accept`, `SendQuery`, `QueryAnswered`, `QueryFails`, `Finish`, `TimeoutFallback`, `Signal`, `ScheduledClose`, `QuitNow`, `HardExitNow`, `PoolEnds`, `LoopEnds` |
| `RequestMeta` | user and service of each target, and the checks of all of them | `checks[c]` are the checks of a request, one per target, `cachedUser[c]` the user in its cache, `detectors` the configured sources, `whoami` the debug file. `BeginCheck`, `FileRead`, `EditFile` |
| `WebServer` | the composition of the two: a request is accepted, checked, served | `NewRequest`, `CheckRequest`, `ChecksPassed`, `ChecksFailed`, `Work`, `LateAnswer`, `Interrupt`, `Callback`, `NothingLeft` |
| `MCWebServer` | sources, services and hosts of the example configuration for TLC | |
| `AnnoServer_proofs`, `AnnoLog_proofs`, `AnnoStamps_proofs`, `AnnoHold_proofs`, `SearchAnnos_proofs`, `AclChains_proofs`, `AclPolicy_proofs`, `WebServer_proofs` | proofs, see section 4 | |

There are three state machines, since they share nothing that would let them
disagree. `AnnoServer` is what handlers say to the database, and takes the
results of access checks from the table `Grants`. `AclChains` is one such
check. `WebServer` is the process around the handlers and the metadata that
the checks get: there the handlers send some number of queries, no matter
which, and the verdict of the chains is the table `Permits`.

An action runs from one awaited query to the next, with everything in between:
Node.js runs no other handler there. Awaited calls that are no queries (ACL
checks, identity detection) depend on the request and on the configuration
only, which does not change after start-up, so that they need no step of their
own in `AnnoServer`. In `WebServer` they have steps, one per check, because one
source of identities does read a file for each request, and the file may
change meanwhile.

**Data.** A submission is a function from the properties it may have to a few
values, or `Absent`. `edited` records in which properties it differs from the
version it claims to replace. A target is a value of `SubjectLinks` or
`ReplyLinks`. A privilege is a tuple, and `Grants[u]` is what the ACL chains
allow to `u`; where the code checks a privilege once for each target URL, the
model checks it once, which assumes that the targets of an instance belong to
the same service. `Trusted` are the users whose posts get no
`approvalRequiredBy`.

**Details that are easily missed** and that the model keeps: the column alias
`user` in the query for the latest versions is `CURRENT_USER` in Postgres
(`Own`); the stamps query ends in `LIMIT 2` (`StampsLimit2`); PATCH detects the
user without details, so that the `own` privileges never apply
(`StampPrivilege`); a revising POST looks up without any role and may read
unapproved versions; an unknown version answers 500 instead of 404 to those
who may not look up targets; a duplicate stamp in a PATCH still runs the
cleanup. Searches apply `latestVersionOnly` after the visibility filter, so that
they list the latest *visible* version. They find targets by the links that have
been inserted. The checks of what was found take the targets from the
annotation, or, where only its title was asked for, from those links again: a
search for titles fails with 500 on a result whose first link has not been
inserted yet. A search has a limit if the client sets one, and in the RSS format
always (50, `fmtAnnosAsRssFeed.mjs:75`, the constant `MaxFeedItems`); with a
limit, the newest come first, except in the feed for approvers. `time` is
whatever the clock of the server says when a POST is about to insert (`Times`),
in no relation to the order of the inserts; at equal times the random base IDs
decide, and the model leaves it open.

**The process.** `process.once()` means that the second signal of a kind kills.
The shutdown request answers first and closes in a `setImmediate`. `close()`
stops listening and ends the pool at once, so that a request in flight fails
with its next query, although `privileges.md:109-112` says that the server shuts
down after all current requests are served. A second `close()` has its
`pool.end()` rejected, which `p-fatal` makes the end of the process. Every
error that a handler throws counts, the wilful 4xx ones too, and so does the
error of a handler whose client has got its timeout answer long before. The
quit after too many errors sets an exit code and closes the sockets but never
ends the pool; the unref'ed hard exit timer is what ends a process that still
waits for something. A handler that timed out stays in `conns` with `slow` set.

**Identities.** Detectors are sorted by their names (`learnDetectors.mjs:14`),
so that the cookie source of `debug.yaml`, which its comment says is tried
before the headers, comes after them in the example configuration. A list may hold
`guest_access_only`, which hands back a function, taken for a session of the
guest (`DummyGuestSession`). An ID that a transformation leaves empty is an
error. The aliases of hosts merge into one dictionary
(`EffectiveAliases`), and a prefix that is configured twice keeps its place but
changes its service (`IdByPrefix`).

**Access checks.** A rule is a record of what `learn.mjs` makes of it.
A criterion is a function of the metadata (slots such as user, service, role)
to met, unmet or *invalid*: `memberOfAclGroup` with a single template that
renders to an empty string yields that string, which is refused as no boolean.
A sub-chain's name is a function of the metadata as well, evaluated for all
names before the first sub-chain runs. Side effects write into the metadata
object of the caller, except in a repeated rule, whose items each get a copy:
`scope` is the object the current rule sees, `meta` the one of its chain. A
check has no concurrent actors, so its model is deterministic: what varies is
the configuration. `Grants` of the request modules is the table of such checks'
results.

`Crash` also stands for a shutdown, as `close()` ends the database pool
without waiting for the handlers. `QueryFails` stands for every query that is
not executed. A query that is executed but whose answer gets lost is not an
action of its own: for the tables it is the query followed by the failure of
the next one, or by a response that differs in nothing but its code.

Operators introduced as "a seeded bug" are not part of the model. Each one is a
variant of the definition after it with a plausible mistake; TLC finds the
property it is paired with in `PROJECT.json` violated when it is put in that
definition's place, which shows that the property can fail.

## 3. What the runs check

The runs of the server use `MCAnnoServer` with the roles of the example configuration
(`docs/cfg/ubhd-ex01`): two authors, a moderator, a DOI bot and a public.

| Run | Question | Properties |
|---|---|---|
| `Posting` | Do racing, failing and dying POSTs keep each annotation's log in order? (faults) | `TypeOK`, `VersionsContiguous`, `NoLostUpdate`, `ImplementsVersionLog` |
| `Submissions` | Is every stored version covered by its poster's privileges, for odd drafts, replies and target changes? | `VersionsAreAuthorized` |
| `Approval` | Is approval complete, and the only way to disclose a version, to look-ups and to searches? Does 201 mean that everything is stored? Does what was found stay to be found? Does a PATCH finish what one that died has left? (faults) | `SunsetComplete`, `SearchesShowApproved`, `DisclosedOnlyByApproval`, `CreatedIsComplete`, `FoundStaysFound`, `AcceptanceIsFinal` |
| `Reading` | Do readers in each role get what they should, by look-ups, searches, feeds and lists, and nothing else? | `HeldOncePosted`, `AcceptedIsDisclosed`, `FirstComeFirstServed`, `SearchMissesNothing`, `PublicReadsAreApproved`, `SearchesShowReadable`, `SearchFailsOnlyDuringPost`, `ListNamesWorkingCopy`, `ListAgreesWithLookup` |
| `Doi` | Does every request come to an end, and every DOI request to a DOI? (liveness) | `EveryRequestAnswered`, `DoiRequestHonoured` |
| `WebServer` | Does the process end when it should, once, with an exit code that tells why, and are requests checked as the user whom they come from? (safety and liveness) | `WebTypeOK`, `QuitScheduledOnce`, `ErrorLimitIsReported`, `LostOnlyIfToldTwice`, `CheckedForNamedUser`, `SignalsEndIt`, `ErrorLimitEndsIt`, `HandlersEnd` |
| `Acl` | Does every check end, with the verdict that the rules mean, allowing only what a rule allows? | `AclTypeOK`, `AllowedByARule`, `VerdictIsPolicy`, `EveryCheckEnds` |

Five more runs show where the code and its documentation disagree; TLC finds
each property violated:

| Run | What happens |
|---|---|
| `HeldUntilApproved` | The public reads a new annotation after its data and before its stamp have been inserted. "New annotations are held until approved" does not hold in that moment, and if the process dies there, never will. |
| `Retracted` | A version is accepted, gets a DOI and is retracted; the look-up reads two of the three stamps, misses `as:deleted` and serves it. |
| `ReviseOwn` | An author who has no `revise_any` replaces another one's version with a draft signed by the reviser: the server compares the reviser's identities with the submitted creator, not with that of the replaced version, and asks for `revise_own`. |
| `OwnStamp` | An author with `stamp_own_add_as_deleted` is refused when she retracts her own annotation. |
| `Stop` | `read` tends to allow, a rule decides `stop`, and the check is denied by the fallback tendency: deciding has deleted the matching one. |

Some properties carry an exception that the code makes necessary:
`SunsetComplete` and `AcceptedIsDisclosed` except versions that were held too
late (`heldLate`: an approval, or a later version, came before their own
unapproved stamp), `PublicReadsAreApproved` and `HeldOncePosted` the moment
before a POST holds its version (`AboutToHold`), and `CreatedIsComplete` a
version that was approved in that moment. `HeldOncePosted`,
`AcceptedIsDisclosed` and `PublicReadsAreApproved` are claims about a server
without faults, because a crash at the wrong moment really breaks them.
What searches and feeds miss, show by title, or fail on, they may while a POST
is inserting what belongs to the version (`BeingPosted`): a search
knows the links that are there so far, and no more.
`CheckedForNamedUser` leaves out requests that ask the debug file
(`NeedsFile`): who edits it while a request is being checked may be taken for
two users at once.

Three properties say less than one might wish, and the hazards that they leave
open are marked in `PROJECT.json`. `CreatedIsComplete` speaks of answers: a
version that a failing POST leaves without its stamp or links stays as it is,
and only the error tells its client. `AcceptedIsDisclosed` and `SunsetComplete`
show that a late hold is the *only* way to an accepted version that stays hidden,
or an undecided one that is left behind, not that there is none. And
`DoiRequestHonoured` ends where a crash between two statements begins.
`AcceptanceIsFinal` is the one about such a crash that the code does take care
of: the duplicate stamp that a repeated PATCH meets does not keep it from the
cleanup.

`FirstComeFirstServed` is what the feed for approvers can promise in spite of its
limit: of the annotations that wait for a decision it may leave out those that
are no older than all that it announces. What an annotation waits with is its
latest undecided version. A client may ask for fewer items still, and gets the
oldest of them.

`LostOnlyIfToldTwice` follows a request from its acceptance to the end of the
process. One signal, at whichever time, leaves the process waiting for its
handlers, and so does the delayed quit by itself; a second `close()` ends it at
once, but then somebody must have ordered it, be it by a signal, a shutdown
request, or one of each. Only the hard exit waits for nobody. A timeout is an
answer, so that a handler that goes on after it (`slow`) loses nothing.

`ListAgreesWithLookup` compares a list with each answer that the look-up may give
on any two of the version's stamps.

`VerdictIsPolicy` compares the step-by-step evaluation with `AclPolicy`,
which unrolls the chains into the list of all rules that would apply if none
decided, takes conditions from the table in the documentation, and reads the
verdict off that list: the first matching decision, else the last matching
tendency, else the last fallback tendency, else deny. `stop` means the fallback
tendency there, as in the code; `StopDelegates` is the documented reading.
The unrolling is a recursive function: `UnrollRef(cs)[n][open][ref]` is what a
reference does while `n` more chains may be opened and those in `open` are,
a function of the rules that applied so far and of the metadata after them
(`Sofar`). `n` starts as the number of chains of the configuration, which
suffices because no chain runs within itself.

**Bounds.** `Acl` takes twelve rules, each a kind found in the example
configuration or a corner of it (the four condition shapes, named and fallback
effects, `stop`, side effects, repeats, optional, missing, empty and circular
references, no condition at all), and checks every choice of three of them in
two chains, for two privileges, with and without a user. Three rules are enough
for any two effects to meet in either order with a sub-chain between them. For
the server: two requests at a time, because each hazard is a race of two
handlers (a finished request makes room for the next, so that any number of
them come one after the other); one base ID, because no statement touches two
of them; two version numbers where a predecessor and a successor are enough,
three in `Posting`, so that a revision of a revision and the end of the column
are reached. `Retracted`, `ReviseOwn` and `OwnStamp` need one request at a time
only. Request slots are interchangeable, hence the symmetry, which the
liveness run does without. `Reading` has two targets, one of which the public
may not read, two versions, every kind of search and list, and a moderator who
decides; its constraint `OneReader` allows one reading request at a time, which
loses nothing, since reads change nothing that another one could see. The feed
for approvers shows one item there, and the run has two annotations to put into
it, of one version each and about the same page, with the times 1 and 2 given in
either order (`ClockTicks`); while there are two, only that feed is read
(`TwoAnnosInFeed`), as all that other requests do is about one annotation. Base
IDs are interchangeable. In the other runs the clock stands still and no search
has a limit.

For `WebServer`: two requests, since errors, timeouts and ends of one meet the
queries of the other; `MaxQueries = 1` query per handler, which is enough for a
handler to be before, in and after a query when the pool ends, and a handler
may be finished without one; a limit of two errors, so that one does not reach
it and a third one comes after it; the hard exit on; two signals, each with
its repetition. `FileIds` holds a valid name and one that its transformation
refuses. The two lists of sources and four kinds of requests contain each
source, a source that names nobody, an alias, a transformed and a refused ID,
a guest, two targets of one service, two of different ones, one below an alias
of the host, one of no service, and none at all. No request comes in between
`setImmediate` and its callback; a timeout comes only while a query is awaited,
the only thing that can take seconds.

**Fairness.** `FairSpec` demands weak fairness of each handler: the event loop
resumes every handler whose query was answered, and without faults the pool
answers every query. Requests are never assumed to arrive. Neither is any
fairness between handlers: a handler waits for its own queries only.

A check of `AclChains` waits for nothing, so `FairSpec` asks only for its next
step. `Acl` and `Stop` turn the deadlock check off, because a check ends; that
it ends with an outcome is `EveryCheckEnds`. `WebServer` turns it off because
the process ends; that it does is `SignalsEndIt` and `ErrorLimitEndsIt`. No
other run turns it off.

The `FairSpec` of `WebServer` asks for each handler to go on, for timers and
deferred calls (`Callback`) to run, and for the loop to notice that nothing is
left (`NothingLeft`), all of it only while the process is running: that is what
the event loop does as long as the database answers or fails. It does not ask
for requests, signals or timeouts. `HandlersEnd` and the two ends rely on a
database that answers every query in the end; one that never does keeps the
process waiting, unless the hard exit or another signal cuts that short.

## 4. What is proved

For arbitrary constants, and with faults and crashes if `Faulty`:

| Theorem | Module |
|---|---|
| `TypeCorrect`: `Spec => []TypeOK` | `AnnoServer_proofs` |
| `NumbersHaveNoGaps`: `Spec => []VersionsContiguous` | `AnnoLog_proofs` |
| `NoUpdateIsLost`: `Spec => []NoLostUpdate` | `AnnoLog_proofs` |
| `TablesImplementVersionLog`: `Spec => ImplementsVersionLog` | `AnnoLog_proofs` |
| `SunsetIsComplete`: `Spec => []SunsetComplete` | `AnnoStamps_proofs` |
| `OnlyApprovalDiscloses`: `Spec => DisclosedOnlyByApproval` | `AnnoStamps_proofs` |
| `SearchesOnlyShowApproved`: `Spec => []SearchesShowApproved` | `AnnoHold_proofs` |
| `CreatedMeansComplete`: `Spec => CreatedIsComplete` | `AnnoHold_proofs` |
| `AcceptancesAreFinal`: `Spec => AcceptanceIsFinal` | `AnnoHold_proofs` |
| `PostedIsHeld`: `Spec => []HeldOncePosted`, if `~Faulty` | `AnnoHold_proofs` |
| `AcceptedGetsDisclosed`: `Spec => []AcceptedIsDisclosed`, if `~Faulty` | `AnnoHold_proofs` |
| `PublicReadsOnlyApproved`: `Spec => PublicReadsAreApproved`, if `~Faulty` and nobody deals with DOIs | `AnnoHold_proofs` |
| `RetractionsAreSeen`: `Spec => RetractedIsGone`, if nobody deals with DOIs | `AnnoHold_proofs` |
| `VersionsStayAuthorized`: `Spec => []VersionsAreAuthorized` | `AnnoLog_proofs` |
| `OwnVersionsArePosters`: `Spec => []ReviseOwnMeansOwn`, if `NobodySignsAnew` | `AnnoLog_proofs` |
| `PublicFindsStay`: `Spec => FoundStaysFound`, if `OnlyPostsHold` | `SearchAnnos_proofs` |
| `SearchIsComplete`: `Spec => []SearchMissesNothing`, if `~Faulty`, `OnlyPostsHold` and `OnlyPostsRequestDois` | `SearchAnnos_proofs` |
| `FeedServesInOrder`: `Spec => FirstComeFirstServed`, likewise | `SearchAnnos_proofs` |
| `ResultsAreReadable`: `Spec => SearchesShowReadable`, likewise | `SearchAnnos_proofs` |
| `SearchesFailOnlyDuringPost`: `Spec => SearchFailsOnlyDuringPost`, likewise | `SearchAnnos_proofs` |
| `ListsNameWorkingCopy`: `Spec => ListNamesWorkingCopy`, if `~Faulty` | `SearchAnnos_proofs` |
| `ListsAgreeWithLookups`: `Spec => ListAgreesWithLookup`, if `DiscoverersMayLookUp` and `NoDoiBot` | `SearchAnnos_proofs` |
| `AclTypeCorrect`: `Spec => []AclTypeOK` | `AclChains_proofs` |
| `OnlyRulesAllow`: `Spec => []AllowedByARule` | `AclChains_proofs` |
| `VerdictsFollowPolicy`: `Spec => []VerdictIsPolicy` | `AclPolicy_proofs` |
| `WebTypeCorrect`: `Spec => []WebTypeOK` | `WebServer_proofs` |
| `QuitIsScheduledOnce`: `Spec => []QuitScheduledOnce` | `WebServer_proofs` |
| `ErrorLimitIsAlwaysReported`: `Spec => []ErrorLimitIsReported` | `WebServer_proofs` |
| `RequestsAreLostOnlyIfToldTwice`: `Spec => LostOnlyIfToldTwice` | `WebServer_proofs` |
| `ChecksAreForNamedUser`: `Spec => CheckedForNamedUser` | `WebServer_proofs` |

The assumptions on the constants stand in the modules that declare them, and
TLC evaluates them in the runs:

* for the server, `MaxVersNumAssumption` (the column holds at least the number
  1), `FieldsAssumption` (`creator` and `body` are properties),
  `TrafficAssumption` (users, drafts, links, stamp types and criteria of
  searches are of the right kind) and `FaultyAssumption`;
* for access checks, `ChainsAssumption`: configurations consist of valid rules
  in finitely many chains;
* for the process, `LifecycleAssumption`, `ServicesAssumption` and
  `RequestMetaAssumption`: the bounds are numbers, every service has prefixes,
  lists of sources are sequences of them, and empty and missing IDs are no IDs.

Theorems about a server without faults (`~Faulty`) are about properties that a
crash between two inserts breaks: the row is there, and the stamp or the links
never come. The other hypotheses are about the configuration, and each marks a
place where the claim fails without it:

* `NoDoiBot`: no DOI is requested or assigned. With a DOI, a version can have
  three stamps, of which the look-up sees two, which is the run `Retracted`; it
  may then serve what the list hides.
* `OnlyPostsHold`: no user is granted to add `_ubhd:unapproved` by PATCH, as is
  so in `docs/cfg/ubhd-ex01`. Whoever could, would hide an accepted version,
  and could take from a POST the stamp that it is about to insert.
* `OnlyPostsRequestDois`: where a POST requests a DOI for a revision of a
  version that has one (`AutoDoi`), no user is granted to add `_ubhd:doiAssign`
  by PATCH. The example configuration grants it to publishers
  (`acl_chains/default_perms.yaml:54`). A publisher who is quick enough makes
  the insert of that stamp fail as a duplicate; the POST then ends with an error
  before its links, and searches never find the version.
* `DiscoverersMayLookUp`: who may search may look up targets, as in
  `main.yaml:17-20` of the example configuration. A list checks the one
  privilege, a look-up the other.
* `NobodySignsAnew`: no user has `revise_own_creator`. The example configuration
  grants it (`acl_chains/default_perms.yaml:12`), which is the run `ReviseOwn`.

The instances of the passing runs meet the hypotheses of the theorems about
their properties; `Retracted` and `ReviseOwn` do not, and TLC finds what is then
violated.

Only the type invariant of `AclChains` is inductive by itself; `AllowedByARule`
needs `Justified`, that a decision to allow and each tendency to allow come
from an applicable rule while the check is still going on. The inductive
invariants of the server stand at the end of `AnnoServer`:

* `TypeInv` adds `RequestOK`: what a handler's local variables are at each of
  its queries, and that a version it has found or inserted is stored. Without
  it nothing is known of the arguments of an insert.
* `LogInv` adds `ReplacementOK`: a draft on its way agrees with the version it
  says it replaces in all that its author did not edit, and once it waits for
  its insert under number *n*, version *n* - 1 is stored. A race is settled
  in `InsertAnnoData`: the row goes in only if its number is still free, and as
  the numbers are contiguous its predecessor is the latest version. The same
  argument gives the refinement, step by step: a successful insert is `Create`
  or `Revise`, everything else leaves the log alone.
* `ApprovalInv` adds `SunsetOK` (between the sunset and the insert of
  `dc:dateAccepted` no undecided earlier version turns up but late ones),
  `CleanupOK` (the cleanup runs only when the acceptance is stored) and
  `StampsOK` (only stored versions have stamps).
* `HoldInv` is why what is posted is held. `LinksOK`: a version with links has
  been held, or its author is trusted, since links are inserted last.
  `PostsApart`: no two requests insert for the same version, since the row is
  inserted but once. `PostingOK`: what a POST in progress has inserted, and what
  it still has to. A failing query breaks the chain after the row, not the
  chain's order, so that the first two theorems hold with faults; the
  fault-free ones need in addition that a request between two inserts is moved
  by its own next insert only (`UnfailingSteps`).
* `SearchInv` is why what was found stays found. `SubjectsFirst` and
  `RowsHaveSubjects`: each version has a subject, and its link goes in before
  all others. `LatestExists`: among any stored versions there is a latest one of
  each annotation, so that a version that `LatestOnly` drops is represented by
  a later one. `StampingOK`: a POST that is inserting stamps still has all of
  its links to insert, so that no version that can be found gets held.
* `PostsSucceed` is why a POST without faults gets to its end:
  `StampsAreFree`, the stamps it is about to insert are not there yet, and
  `LinksComplete`, a version has all its links or its POST is still at work. With
  it the completeness of searches is a matter of `Found` alone, and that of the
  feed for approvers one of `OrderedSearch` besides: what is cut off comes
  behind all that is left.
* `VersionsAreAuthorized` needs that a revision that is looking up what it
  replaces has been allowed to revise at all (`Asked`), and that once it waits
  for its insert under number *n* it is allowed against version
  *n* - 1 (`ReadyOK`). Rows never change, so that this stays true until the
  insert, and the insert succeeds only if *n* - 1 still is the latest.

Three invariants stand at the end of `WebServer`. `QuitInv` says where the fact
that the limit was reached is kept: in a pending quit timer, then in the exit
code. `OrdersInv` says where the orders to shut down are kept: while the process
is running, each `close()` that is to come, and the one that has ended the
pool, was ordered (`orders` is at least their number), a signal handler that is
gone was an order as well, and the hard exit timer is set only after too many
errors. A `close()` that finds the pool ended is then the second order at least.
Without it nothing would relate the pool to what the process was told.
`ChecksInv` says that all checks of
a request and its cache agree on the user as long as the debug file has not
been asked: whichever check fills the cache, it fills it with the same user.

`VersionsContiguous` says that the numbers below a stored one are stored,
which is what "no gaps" means and needs no induction over numbers.

`PolicyInv`, in `AclPolicy_proofs`, relates the stack of a check to the
unrolled list of its rules. What an open call has left to do is a function of
the entries and the metadata so far: `Rest` of its rules, of the items of the
current rule, of the sub-chains of the current item (`Resume`). The check is
`OnTheWay` if these functions, one after another from the innermost call to the
bottom of the stack, lead from the entries that have applied to the list
`Unrolled` (`Leads`, `Ahead`), and if the tendencies are what these entries said
last. Each action takes one piece off what is left and adds it to what there
is, with the list unchanged. Once a rule decides, the list so far with its entry
is the beginning of the whole one (`Stopped`), and nothing after the first end
counts. The functions that unroll are recursive; that each of them follows its
own definition is proved once (`Recurs`), with an induction over numbers that
rests on the well-foundedness of `<`. That the number of chains is a bound deep
enough is a fact about the stack: its calls are in different chains of the
configuration, which are finitely many.

Only model-checked: liveness (`EveryRequestAnswered`, `DoiRequestHonoured`,
`EveryCheckEnds`, `SignalsEndIt`, `ErrorLimitEndsIt`, `HandlersEnd`), which is
out of the prover's reach. Every other property of a passing run is a theorem.

## 5. What is not modelled

* Previews, debug options, output formats, headers, HTML redirects, sessions:
  they format what the modelled parts have decided.
* Parsing of submissions and URLs; malformed `dc:isVersionOf` /
  `dc:replaces` pairs, which are refused before any query.
* Version identifiers: the models name a version by its base and number, and
  say nothing of the strings.
* Stamp types that the server only stores, and retractions that take effect in
  the future (`when`).
* The columns of search results, the preview of privileges in
  them, the comparison of feed keys, RSS.
* The parsing of ACL rules and other configuration files, which happens before
  the first request. What each regular expression of a transformation does to an
  ID is a constant; so are the conflicts of services and
  `create_across_services`.
* Idle connections of the pool and keep-alive connections, which time out by
  themselves.
* Import scripts, which print SQL for an empty database beside the server, and
  plugins, whose code is not in the repository.

## 6. Plan

Done, in this order: tables, requests, look-up, POST, PATCH, GET, their
composition with faults, the abstract log, the proofs about them, ACL chains
with their reference definition and proofs; lists of versions, searches and
feeds; services, identity detection and the metadata of checks; the life cycle
of the process and its composition with the checks; the proofs that posted
versions are held, accepted ones disclosed and all of them authorized, and the
safety of the process; the order and the limit of feeds; the proofs about
searches, feeds and lists, about retractions and repeated approvals, and that verdicts follow the policy.

Left:

1. Retractions with an effective date, as a clock that reads and searches
   compare stamps with.
2. `VersionIdentifiers`: which strings name which version, and the parsing of
   submissions on top of it.
