# Specifications of go-control-plane

TLA+ models of the xDS control plane in this repository: the caches that hold
configuration for Envoy proxies, and the gRPC stream loops that bring it to
them, and of the matcher that ships with it. TLC checks the models on small
instances; TLAPS proves, for all instances, the invariants of both caches, most of
those of both servers, and that both servers implement the abstract service.

All source paths below are relative to `src/pkg/`.

## 1. Inventory

### Components

| Component | Source | State | Operations |
|---|---|---|---|
| Stream state, delta computation | `server/stream/v3/stream.go`, `cache/v3/delta.go` | per type: wildcard flag, subscribed names, versions last sent, `first` | subscribe, unsubscribe, `createDeltaResponse`, `SetResourceVersions` |
| Snapshot cache | `cache/v3/simple.go`, `status.go`, `order.go`, `snapshot.go` | a snapshot per node; open SOTW and delta watches per node; `cache.mu` | `SetSnapshot`, `ClearSnapshot`, `CreateWatch`, `CreateDeltaWatch`, their cancel functions, the heartbeat ticker |
| SOTW server | `server/sotw/v3/*.go` | per stream: nonce, a responder per type (cancel function, nonce, channel), known resource names, last response per type | `process`, `processADS`, `send`, `shutdown`, the receiving goroutine |
| Delta server | `server/delta/v3/*.go` | per stream: per type a cancel function and a stream state; one channel for all types | `processDelta`, `subscribe`, `unsubscribe`, `watches.Cancel` |
| Linear cache | `cache/v3/linear.go` | one collection, a version, a version per resource, a hash per resource; watches per name, for all names and delta watches; `cache.mu` | `UpdateResource(s)`, `DeleteResource`, `SetResources`, `CreateWatch`, `CreateDeltaWatch`, cancel functions |
| SOTW client | `client/sotw/v3/client.go` | last response received and last acknowledged | `InitConnect`, `Fetch`, `Ack`, `Nack` |
| Responses | `cache/v3/cache.go` | - | marshalling, TTL and heartbeat form |
| Mux cache | `cache/v3/mux.go` | none | delegation by type |
| Consistency of snapshots | `cache/v3/snapshot.go`, `resource.go` | none | `Consistent`, resource references |
| xDS matcher | `../xdsmatcher/pkg/matcher` | a compiled match tree; the data it is asked about grow | `Create`, `Match` |
| REST server, gateway | `server/rest/v3`, `server/v3` | none | `Fetch`, HTTP dispatch |

### How they interact

A client sends a request on its stream. The stream's loop gives it to the cache
as a watch together with a channel. The cache answers at once, if the client is
behind, or keeps the watch open until `SetSnapshot`, a heartbeat or a change of
the collection answers it. An answered watch is gone: the loop sends the
response to the client, and the client's acknowledgement, a request like any
other, opens the next watch. A request that arrives while a watch is open
supersedes it: the loop calls the watch's cancel function and creates another.

The caches are shared by all streams and protected by one mutex. `SetSnapshot`,
the heartbeat and `notifyAll` hold it while they send one response after the
other, so the streams receive, and try to cancel and create watches, in the
middle of an update.

### What is hard

* A watch is answered once, and nothing else reminds a stream of an update: any
  path that drops a watch or a response without the client's knowing leaves it
  without updates for good.
* The loops of a stream read the cache, release the lock, and act: a response
  may be in the channel when the request it answers has been superseded, and a
  delta response may be computed from a state that another response in the
  channel is about to change.
* The caches send on bounded channels with the mutex held.
* `SetSnapshot` may fail half-way, and the caller retries.
* A stream shuts down while the cache is sending to it.
* Order: ADS requires types in a fixed order, through a channel that several
  types share, and holds back requests that do not name all resources: whether a
  client ever gets an answer then depends on what it does next.
* A match is decided on data of which more is still to come.

`PROJECT.json` lists these as hazards, each at its line.

## 2. Modules

```
StreamState                pure definitions
  Consistency              pure definitions: references, Consistent
  SnapshotCache            the cache, and the contract of its callers
    SotwServer             SOTW streams and clients on the cache (uses Consistency)
    DeltaServer            delta streams and clients on the cache
  LinearCache              the other cache, with reduced streams
DiscoveryService           what clients are promised; SotwServer and DeltaServer implement it
Matcher                    match trees
StreamStateProofs, SnapshotCacheProofs, LinearCacheProofs
SotwServerProofs           extends SnapshotCacheProofs; begins with Consistency
  SotwServiceProofs        the refinement of DiscoveryService
    SotwConvergenceProofs  clients end up with the last snapshot
DeltaServerProofs          extends SnapshotCacheProofs
  DeltaConvergenceProofs   extends StreamStateProofs too; convergence and the refinement
MCSnapshotCache, MCSotwServer, MCDeltaServer, MCLinearCache, MCMatcher
```

**Data.** A resource is the hash of its marshalled form, which is what the code
compares, so one map from names to hashes stands for a resource map and for its
version map. Marshalling does not fail in the models. Type URLs are the names
of `types.ResponseType`; the empty version string and the empty nonce are
`NoVersion` and 0.

**StreamState** is `stream.StreamState`, `subscribe`, `unsubscribe` and
`createDeltaResponse`. `ShouldRespond` is the condition under which
`respondDelta` sends.

**Consistency** is `Snapshot.Consistent` and `GetAllResourceReferences`. The
content of a resource is a function of its hash: of a cluster whether it uses EDS
and its service name, of a listener its filter chains with their connection
managers, of a scoped route the route it names.

**SnapshotCache** has one variable per field of `snapshotCache` (`snapshots`,
`status`, `watches`, `deltaWatches`, the two counters), the contents of the
channels, and `holder`, `todo` and `deltaTodo` for `cache.mu`: `SetSnapshot` and
`HeartbeatTick` take the lock and compute what they will answer;
`RespondWatch`, `RespondDeltaWatch`, `SendHeartbeat` are one iteration of the
loops of `respondSOTWWatches`, `respondDeltaWatches`, `sendHeartbeats` each, and
the last iteration releases the lock. What a loop will answer can be computed at
its start because the lock keeps the snapshot and the watches as they are;
that nothing disturbs it is `LockDiscipline`. `AbortSetSnapshot` is the context
that is done, `LoseHeartbeat` the heartbeat's. Other operations send at most one
response and are one step. `CallerStep` is any caller that keeps the contract of
the channels: on a channel made for the call, or on a shared one that neither
has nor awaits a response of the type. `CacheSpec` is the cache with such
callers. `KeepsContract` says the same of a system that contains the cache: all
its steps leave the cache alone or are steps of `CacheSpec`.

**SotwServer** composes the cache with streams and clients. `pc` follows the
loop: `process`, `ads` (the select of `processADS`), `drain`
(`processAllExcept`), `create` (the superseded watch is cancelled, the next one
not yet created), `closing`, `closed`. `RecvRequest` takes a request up to its
first call into the cache; `SupersedeWatch` is the second call. With the
`Ordered` constant `EnterADS` hands the first request to the goroutine that
sends it again (`resent`). `CloseRequests` closes `reqCh`; `CloseWatch` and
`CloseMux` are the iterations of `watches.close` in any order. Clients
acknowledge, reject, ask for more names, leave and connect again; for a type
with names they keep what a response does not mention. With `Following` they
behave as Envoy does on an aggregated stream: as soon as the clusters they hold
refer to other endpoints they ask for those (`Follow`), before they look at the
next response. `Ask` is `InitConnect`, which acknowledges what was received last,
even if it was rejected.

**DeltaServer** likewise: `select`, `drain` (`processAll`), `cancel`, `create`.
Clients subscribe, unsubscribe, take and give up the wildcard, and reconnect with
the versions they hold. A client returns to a name it gave up once a response
has left the name out.

**LinearCache** has the cache's fields, `sending` and `deltaSending` for
`cache.mu`, and SOTW streams reduced to what they do with the cache, each on a
channel with room for one response: a send to a full channel waits, with the
lock held. A client's request that is still on the way is replaced by its next
one. A stream may end (`Leave`, `Shutdown`) at any time, in the middle of a change
too, and its client may come back (`Return`). The delta channels are not
bounded (`DeltaServer` shows how many responses a delta stream can have in
its channel).

**DiscoveryService** is the promise without streams, watches, channels and
nonces. The management server publishes snapshots; an answer is made from the
snapshot that is current and is about the names of its scope; answers are under
way for a while and may get lost. A client that takes an answer then holds, of
the names it wants and the answer tells about, exactly what the answer's snapshot
has, and never takes an answer from an older snapshot than the last. A delta
answer, which on the wire is only a difference, has the same effect; if the
client has refused an earlier one, it may hold a mixture. The refinement mapping
(`Service == INSTANCE DiscoveryService WITH ...` in both server modules) takes as
answers the responses in channels and on the wire, heartbeats excepted, and as
view of a delta answer the resources its difference leads to.

**Matcher** creates a tree from a configuration, unless the code refuses it, lets
the data of inputs arrive, and evaluates the tree at any time. A regular
expression is the set of values it accepts. `Meaning` is the reference: what a
configuration yields once all values are known, without order of evaluation and
without a third truth value.

Responses carry `at`, `pushed` and `scope` (the number of the snapshot, whether
`SetSnapshot` sent it, and the names it is about) for the properties and the
refinement; these, `interrupted` and the counters `sets`, `beats`, `rejects`,
`changes`, `leaves` are history and bounds. No guard of the code's depends on
them.

## 3. Runs

Passing runs:

| Run | Shows |
|---|---|
| `SnapshotCache` | Arbitrary callers with SOTW requests and delta stream states of any kind, ADS mode, heartbeats, failing `SetSnapshot`, `ClearSnapshot`: no watch waits for a version the cache already has (`NoMissedUpdate`, `NoMissedDelta`); per channel and type at most one response is awaited or buffered (`AnsweredOnce`); the lock holder's view stays valid (`LockDiscipline`). |
| `SotwUnordered` | `process`: as long as a request is unanswered, a watch or an answer exists (`NeverSilent`); the channel of the current watch holds no answer to a superseded request (`FreshAnswers`); a stream at rest has brought its client up to date (`QuietMeansConverged`); `process` keeps the callers' contract (`KeepsContract`) and the system implements `DiscoveryService` (`ImplementsService`). |
| `SotwOrdered` | `processADS` on a cache in ADS mode, snapshots that `Consistent` accepts, clients that follow references: `NeverSilent`, the order of types on the wire (`OrderedOnTheWire`), `KeepsContract`, and progress: although the cache drops requests it holds back, clients come to hold the last snapshot (`EventuallyConverged`). A check of numbers only instead of `Consistent` breaks it. |
| `SotwReconnect` | Two streams of one node, one shutting down while its client is on the other, failing `SetSnapshot`: no watch outlives its stream or gets out of reach of its cancel function (`NoLeakedWatch`), connected clients come to hold the last snapshot (`EventuallyConverged`), and the change of stream takes no client back to an older one (`ImplementsService`). |
| `DeltaConverge` | Adding, changing and removing resources, failing `SetSnapshot`, a rejection, a reconnect: `QuietMeansConverged`, `NoLeakedWatch`, and the differences add up to the snapshots they were computed from (`ImplementsService`). |
| `DeltaSubscriptions` | Changing subscriptions, back and forth, and the wildcard: the recorded versions are what the client holds (`StateIsLastSent`); two responses per type is the most the channel ever has (`ChannelNeverFull`), which is what `newWatches` provides for; `processDelta` keeps the callers' contract (`KeepsContract`); clients come to hold the last snapshot (`EventuallyConverged`). |
| `LinearSotw` | Streams on one name or on all, one of which may end and come back: a change never waits for a stream that waits for the cache (`NeverLockedOut`), a client whose watch is open holds what it watches as it is now (`NoMissedUpdate`), and once the collection rests clients come to hold it (`EventuallyConverged`). |
| `LinearWatches` | A stream that asks for any names, then for others, new ones included, and that may end during a change, next to delta watches of any stream state: by the versions, every open watch waits for a change to come (`WatchesAwaitChanges`; the client need not hold what it watches, see below), it is of the last request, and none is left of a stream that ended (`NoStrayWatch`); `NoMissedDelta`; the version vector and version map describe the resources (`VersionsCurrent`). |
| `Matcher` | Lists, exact match maps, conjunctions, disjunctions and nested matchers over one input that arrives in parts and one that arrives whole, and inputs that fail: a result that does not ask for more data is what the documentation says the configuration means, whatever arrives later (`FinalResult`); with all data there is a result (`Conclusive`); `Match`'s own check for an invariant violation never fires (`TypeOK`). |

Runs in which TLC finds a state that contradicts what the repository says:

| Run | Shows |
|---|---|
| `SotwShutdownOrder` | `watches.close` closes the shared channel of an ordered stream before it cancels the watches on it; `SetSnapshot` would send on the closed channel. |
| `DeltaRace` | A response sent between `processAll` and `watch.Cancel` leads to two responses from one state; with a removal between them, the client keeps a resource that is gone. |
| `LinearLockedOut` | A stream on three names is answered twice before it opens its next watch; the second send blocks with `cache.mu` held while the stream waits for `cache.mu`. |

Other constants show further disagreements, which have no run of their own:

* `SotwUnordered` with `BeatsMayStop = TRUE` violates `NeverSilent`: the
  heartbeat's context is cancelled during a tick, `sendHeartbeats` logs the error
  and deletes the watch all the same (`cache/v3/simple.go:211-217`), and the type
  stays silent.
* `SotwUnordered` with `Interruptible = TRUE` violates
  `QuietMeansConverged`: a heartbeat between a failed `SetSnapshot` and its retry
  hands out the new version without bodies, and the retry, which
  `cache/v3/simple_test.go:359-361` relies on, sends nothing.
* `LinearSotw` with `MayChangeNames = TRUE` violates `NoMissedUpdate` and
  `EventuallyConverged`: a name a client asks for in addition, and that has not
  changed since the version it has, is not sent (`cache/v3/linear.go:335`).
* `LinearSotw` with one stream that always asks for a and b
  (`Interest = {{a, b}}`) violates `NoMissedUpdate`, although the comment at
  `cache/v3/linear.go:345` says of the watches that "versions are up to date". A
  change of b at version 1 answers the watch and takes it off the list for b only.
  Before the client's acknowledgement is handled, a and b change at version 2,
  and the watch is answered for a alone. The next request carries version 2, by
  which b counts as up to date: its second change is never sent. On a stream of
  `process` the acknowledgement of the first answer is ignored as stale when the
  second was sent before it came.
* `SotwOrdered` with `MaxSets = 3` violates `EventuallyConverged`: endpoints go by
  the name a, then b, then a again. The names of an answered request count as
  known to the client (`server/sotw/v3/xds.go:119-124`), also those it has let go
  of, so the third request is not answered unless the version changed.
* A client that takes two cluster responses before it asks for endpoints again
  may wait for ever in ADS mode: the request for the first is held back and its
  watch dropped (`cache/v3/simple.go:480-487`). In the model `Follow` comes before
  the next response, as in Envoy.
* `DeltaServer` without `dropped`: a name given up and asked for again before the
  next response is not sent, since its version is kept
  (`server/delta/v3/server.go:282`, `cache/v3/delta.go:63-64`).
* `Consistent` checks endpoints and routes only; its comment
  (`cache/v3/snapshot.go:76`) and `docs/cache.md` also speak of scoped routes
  being listed in listeners.
* `adsClient.InitConnect` acknowledges the response received last even if it was
  rejected (`client/sotw/v3/client.go:90,120`).
* `cache/v3/mux.go:25-29` says that without a cache for the type it responds "with
  an empty closed channel"; it sends nil on the open one, which `processAll` and
  `processAllExcept` dereference.
* A nested matcher in `on_no_match` is returned unevaluated
  (`../xdsmatcher/pkg/matcher/matcher.go:58-63`), although `types.go` calls the
  result final and the configuration's documentation has such trees evaluated;
  and a nested matcher that finds nothing does not fall back to the `on_no_match`
  around it (`matcher.go:38-43`), although the documentation takes "the most
  specific" one. `Meaning` follows the documentation in both points. The
  configurations of the `Matcher` run have no matcher in `on_no_match`, and none
  without an `on_no_match` inside one that has it (`OnNoMatches` of `MCMatcher`):
  with these `FinalResult` is violated.
* A predicate that holds of part of a value decides at once: with an anchored
  regular expression, or an exact match map on an input that arrives in parts,
  the rest of the value may contradict it. The predicates on such an input in the
  run are closed under growth.
* In `SotwOrdered` `CloseRequests` may come while `resent` still holds the first
  request: `reqCh` is closed while a goroutine is about to send on it
  (`server/sotw/v3/xds.go:99`, `server.go:152`). No property speaks of it.

The passing runs are those in which the circumstances of these findings do not
occur: heartbeats that are not cancelled and no failing `SetSnapshot`
(`SotwUnordered`), snapshots of the same resources (`DeltaSubscriptions`) or
fixed subscriptions (`DeltaConverge`), one name or all (`LinearSotw`). Their
properties are the same definitions.

What the properties excuse, because the code means it or leaves it to others:

* `SetSnapshot` returned an error for the node (`interrupted`): the caller is
  expected to retry.
* The client rejected a response: the names of a rejected response count as
  known, and nothing is sent until the next version.
* In ADS mode a request is not answered unless it names all resources, and its
  watch is dropped (`simple.go:60-62`, `480-481`). `NeverSilent` excuses such a
  request; `EventuallyConverged` of `SotwOrdered` does not.
* `ClearSnapshot` drops the watches of live streams; the convergence runs do not
  call it.
* Delta clients do not return to a name they gave up before a response has left
  it out, see above.
* Clients of the linear cache that stay away.

### Bounds

One node (the caches treat nodes independently; the proofs are for any set), one
or two types, which is what ordering and a shared channel need, two names (one in
`SnapshotCache`, where every request and stream state is enumerated; three in
`LinearLockedOut`, the smallest number that shows it with fixed requests), two or three hashes and
snapshots, two calls of `SetSnapshot`, one tick, one rejection, two streams where
a reconnect matters. `SotwUnordered` has one type, since the types of `process`
share nothing but the nonce counter, and in return three calls of `SetSnapshot`
and two ticks, with a TTL in one of the snapshots. Two updates are enough for
an update to overtake the answer to an earlier one; the channels never hold
more than two responses of a type. `MaxWatches` is 99 in the composed runs: the
other bounds exhaust them first. `SotwServer`'s nonces and `LinearCache`'s
versions grow with the bounded number of updates.

`SotwReconnect` has no rejection: with a reconnect the state space is out of
reach, so a rejection followed by a reconnect is not exercised. `Matcher` has two
inputs, three values of which one grows into another, and 227 configurations up
to two levels of matchers and of predicates: enough for an early stop at every
kind of node to be followed by data that could contradict it. Inputs that fail do
so from the start.

`CHECK_DEADLOCK FALSE`: the system may stop, once the bounds are used up or all
streams are closed. Names and hashes are interchangeable in `LinearWatches`,
where the collection is empty initially (symmetry; not used for liveness). Its
names are all subsets of two, so that a client may ask for one it has never asked
for. Its `VIEW` leaves out what clients hold and what responses carry besides their
version: no guard and no other variable depends on it, and of the run's invariants
only `TypeOK` speaks of it, whose theorem is `LinearTypeCorrect`.

### Fairness

Weak fairness of: the steps of a stream's goroutines (Go schedules runnable
goroutines), the next send of whoever holds `cache.mu`, and clients that ask for
the types they are configured with, follow references and acknowledge what they
receive. There is no fairness for setting snapshots, heartbeats, asking for more
names, changing subscriptions, rejecting, failing, leaving or coming back.
`select` is not assumed to be fair between its cases; no property needs it.

## 4. Proofs

The theorems hold for all constants that satisfy the assumptions of the modules
(the flags are Boolean, the bounds natural numbers, the snapshots records of the
right type, the channels those of the streams, `NoRequest` no request): any number of nodes, streams,
types, names, snapshots and calls. Assumptions beyond these stand in the theorem
as `ASSUME` and are named below. Every invariant a theorem rests on was first
checked by TLC on the instances of the runs.

### The caches

`SnapshotCacheProofs`:

* `CacheTypeCorrect`, `LockDisciplineHolds`: the inductive invariant `TypeInv`
  is `CacheTypeOK /\ LockDiscipline`. Type correctness alone is not inductive:
  that `SetSnapshot` finds a snapshot for the watch it answers rests on the lock
  keeping it there.
* `NoUpdateIsMissed`, `NoDeltaIsMissed`: inductive relative to `TypeInv`. A
  watch is opened only when it is up to date; `SetSnapshot` puts every other
  watch of its node into `todo`; an answered watch is no longer open; an abort
  marks the node.
* `WatchesAnsweredOnce`: from the callers' contract and the removal of a watch
  in the step that answers it.
* `ContractSuffices`: every system that satisfies `KeepsContract` has these
  invariants. Both servers satisfy it, see below.

`LinearCacheProofs`:

* `LinearTypeCorrect`, `VersionsStayCurrent`, `NoLinearDeltaIsMissed`: from
  `ContentInv`, which joins the types, the versions and the delta watches. None of
  the three is inductive alone: a delta response has hashes because the version
  map is that of the resources, and `notifyAll`, which looks only at the names
  that changed, reports everything because the watches had nothing to report
  before.
* `LinearWatchesAwaitChanges`: from `SeenInv`. The client of an open watch has a
  version not before the last change of each name it is open for, and the
  responses still in its channel are not older, so taking them does not set it
  back. This compares versions, for any names and changes of names; it does not say
  that the client holds anything.
* `NoLinearWatchStrays`: from `StrayInv`. What a stream awaits is within reach of
  the cancel function it holds, also while a change is half-way through its
  answers.
* `SingleNamesNeverLockedOut` assumes `SingleNames`: streams ask for one name or
  for all, and keep to it. By `SingleInv` the channel of an open watch is empty
  then, so a send with `cache.mu` held finds room. Without the assumption it is
  false; that is the run `LinearLockedOut`.
* `ClientsHoldWhatTheyWatch`, under `SingleNames` too: a client with an open watch
  holds what the watch is on as the collection has it now. `HeldInv` says that
  clients, and the responses in their channels, are `Current` at their versions: of
  the names asked for they have what has not changed since. An answer is
  current because it reports all the client asked for (`SingleInv`,
  `ReportedIsAsked`), a change because its version is later than any other. With
  `SeenInv` nothing watched has changed since the client's version. Without
  `SingleNames` it is false (section 3).

### Definitions

`StreamStateProofs`: `DeltaResponseComplete` (a client that applies the response
to what the state says it holds has exactly what it is subscribed to) and
`DeltaResponseSettles` (once recorded, the response is not repeated).

`SotwServerProofs`, first section: `ConsistentIsClosed`. `Consistent` compares the number of
references with the number of resources and checks one inclusion; for finitely
many names it accepts exactly the snapshots in which references and resources
are the same names.

### The SOTW server

`SotwServerProofs`, for streams in both modes:

* `ServerInv` is inductive: the types, the lock's discipline, and who owns what.
  Every open watch is its stream's, under the cancel function in the type's
  responder (`WatchInv`); cancel functions are of watches opened before, and no
  two responders hold the same (`ResponderInv`); a response in a channel answers
  the request accepted last, and a drained shared channel has none of the type in
  hand (`BufferInv`). It yields `ServerTypeCorrect`, `NoWatchIsLeaked` and
  `AnswersAreFresh`.
* `StreamsKeepContract`: each step of `process` and `processADS` that creates a
  watch does so on a channel without a response or watch of the type, by
  `WatchInv` and `BufferInv`. With `ContractSuffices` this is `ServedCacheIsSound`.
* `NoStreamIsSilent` assumes `~BeatsMayStop` and `~Clearing`: a heartbeat whose
  context is done and `ClearSnapshot` both drop open watches without an answer
  (section 3). `SilentInv` says that an unanswered request is pending as a watch or
  as a response, or may be held back in ADS mode.
* `ResponsesAreOrdered`: `OrderInv` follows what one `SetSnapshot` made from the
  watches it has yet to answer through the shared channel to the wire; steps of
  the stream take from one queue and append to the next.

`SotwServiceProofs`: `SotwStreamsImplementService`, that the streams implement
`DiscoveryService`, for both modes and without any assumption on the flags.
`ServiceInv`, checked inductive, adds to `ServerInv` what the refinement needs:

* `ConnInv`, `OpenedOK`: a client uses one stream of its own, which runs; a stream
  that was not opened yet has nothing under way, so connecting begins afresh.
* `PlaceOK`: a response lies in the channel of its type and of its stream, so the
  loop that takes it out sends it to the client the request came from.
* `NamesOK`: everything under way on a type, from the requests on the wire and the
  one in the loop's hands over the responder to the responses on the wire
  (`Asked`), is for all resources, or all for named ones, as the client wants it.
  A response for all therefore never reaches a client that asks for names, whose
  resources it would be applied to in the wrong way.
* `AgeOK`: of one type, what the client has accepted, the responses on the wire in
  their order, and those in the channel in theirs are made from snapshots that
  are not older one than the other, nor newer than the last one set. This is why
  no client goes back; it is carried through sending, superseding, draining and
  taking by the lemmas `AgedSent`, `AgedFewer`, `AgedMade`, `AgedTaken`.
* `HoldingInv`: a client with names holds no other resources.

`SetSnapshot` is `Publish`, `ClearSnapshot` is `Withdraw`; `RespondWatch`, and
opening a watch when it answers at once, are `Answer`, which may give up the answers
a superseded watch left in its channel; `Ack` is `Take` (`UpdatedAfter`: what the
client holds then is what the answer brings it to), but of a heartbeat nothing is
seen; `Nack` is `Refuse`; `AskMore` and `Follow` are `ChangeInterest`; sending is
no change, because the answer on the wire is the one that was in the channel; all
other steps are `Lose`, of some answers or of none.

`SotwConvergenceProofs`: `QuietStreamsHaveConverged`, that a stream at rest has brought
its client up to date. Being at rest says only that nothing is under way; that
nothing is owed either needs to know what every request and response before has
left behind. `ConvergedInv`, checked by TLC, adds to `ServiceInv`:

* `Sync`, for every stream that was opened and every type, relates what the client
  knows, the responder, the names known, the last response, the requests not yet
  handled, the responses on the wire and the open watches. Names only grow along
  this line (`Nested`, `Growing`). The last request tells what the client knows
  (`LastTells`); the last response on the wire is the one recorded (`LastSent`),
  and once there is none the client has it or has rejected it (`Received`). When
  neither is under way the responder waits at the client's version for the
  client's names (`Settled`). An open watch has no news: its version has none of
  the names it asks for beyond those known to be received (`NoNews`). A stale
  request, for an older response, changes none of it, since a newer request of the
  type must follow it.
* `Genuine`: a response carries what its version has of the names it answers.
* `Holding`: a client has accepted what it received last, or has rejected it, and
  holds all of it where it asked for all. A client keeps its version when it
  reconnects, where the known names start from nothing again.
* `Blank`: a stream of a node without a snapshot has sent nothing.
* `PlainInv`: no heartbeat and no ordered ADS.

At rest, `SilentInv` says that the answered client has an open watch, `Settled` that
this watch is for its version and names, `ServedCacheIsSound` that the version is
the snapshot's, and `Received` with `NoNews` that the client has the resources.

The assumptions are:

* `VersionsNameContents`: a version stands for one content, and the empty version
  for none. The cache compares versions, never contents, so that a new content
  under the client's version is not sent (`cache/v3/simple.go:423-439`).
* `~Heartbeating`: a heartbeat after a failed `SetSnapshot` makes the property false
  (section 3); without failing `SetSnapshot` heartbeats are model-checked.
* `~Clearing`: `ClearSnapshot` drops open watches, and the next snapshot finds none.
* `~Following`: clients that let go of a name and ask for it again are not answered
  (section 3).
* `~Ordered`: ordered ADS sends the first request once more from a goroutine, which
  may overtake later requests and ask for fewer names than they do.

Failing `SetSnapshot`, rejections, reconnects, any number of streams, and a cache in
ADS mode are within the theorem, although the property itself says nothing in ADS
mode.

### The delta server

`DeltaServerProofs`, with subscriptions that change in any way: `DeltaTypeCorrect`,
`DeltaStreamsKeepContract`, `ServedDeltaCacheIsSound`, `NoDeltaWatchIsLeaked` and
`DeltaChannelNeverFull`. The invariant `ServerInv` corresponds to the one above; its
`BufferInv` is the argument for the size of the channel. A channel has at most two
responses of a type, at most one if a watch is open or the channel has been
drained, and none if both. `processAll` before `Cancel` is what the last case
needs; a response between them is the second one.

`DeltaConvergenceProofs`, for fixed subscriptions (`Changes = {}`):

* The requests, watches and responses of a type on a stream are one token. It is
  not there yet (`Unasked`), on its way to the server (`Requested`), in the loop
  (`Handled`), in the cache (`Watched`), in the channel (`Buffered`) or on its
  way to the client (`Sent`). `TokenInv` says that it is in one place, and what
  is true there: up to `Watched` the stream's state has the client's
  subscription and versions; from `Buffered` on, the response takes the client
  to the snapshot it was made from (`Leads`), which from `Sent` on is what the
  stream has recorded. `StreamInv` ties clients to their streams, `HoldingInv`
  keeps clients to their subscription; together with `ServerInv` they are
  inductive. `DeltaResponseComplete` is what makes a response lead there.
* `StateIsWhatClientHolds` reads this off the place where a stream at rest has its
  token.
* `StreamsAtRestHaveConverged` adds that the open watch has nothing to report
  (`ServedDeltaCacheIsSound`). It assumes `~Clearing` too, as `ClearSnapshot`
  discards open watches, and with them the only token.

With changing subscriptions there may be several requests of a type under way, and
`DeltaRace` shows that convergence is false then, if a resource is removed
meanwhile.

The same module has `DeltaStreamsImplementService`, for fixed subscriptions, with
`ClearSnapshot`, failing `SetSnapshot`, rejections and reconnects. `SetSnapshot` is
`Publish`, `ClearSnapshot` is `Withdraw`; `RespondDeltaWatch`, and `OpenWatch` when
it answers at once, are `Answer`; `Ack` is `Take`, `Nack` is `Refuse`; closing a
channel, ending a stream and all other steps are `Lose`, of some answers or of
none. That `Ack` is `Take` is the step that needs `TokenInv`: the client ends up
with what the snapshot of the response has, although the response is a
difference, and does not go back, because `Leads` says so of the response at
the head of its stream.

### Only model-checked

* All liveness (`EventuallyConverged`): fairness and `ENABLED` are beyond the prover.
* `Matcher`: it is recursive, and what a recursive definition computes for every
  input is beyond the prover too.
* `QuietMeansConverged` of `SotwServer` with heartbeats, in `SotwUnordered`, whose
  `SetSnapshot` does not fail.
* `StateIsLastSent` of `DeltaServer` with changing subscriptions.

## 5. Not modelled

* `MuxCache`, the REST server and the gateway keep no state and delegate.
* The SOTW client's `Fetch` without `Ack` or `Nack` before the connection breaks,
  its mutex and its error codes.
* Failures to marshal a resource (`ConstructVersionMap` and `updateVersionMap`
  stop half-way), requests for a type the linear cache does not serve, the nil
  response of a mux cache without a cache for the type.
* More types than `types.ResponseType` has, which can overfill the channel of
  an ordered ADS stream.
* User callbacks, except that they may refuse a request; logging; status
  getters, which only read.
* Generated protobuf code, test programs, examples.

## 6. Plan

Done, in this order: `StreamState` and `SnapshotCache` with their runs and
proofs; `SotwServer` in both modes; `DeltaServer`; `LinearCache`; `Consistency`
and clients that follow references; `DiscoveryService` and the refinements;
streams that end on the linear cache; `Matcher`.

Proved, in this order: the invariants of the two caches; types, ownership and the
contract of both servers; silence and order of the SOTW server; convergence of
the delta server; the refinements of both servers; convergence of the SOTW server.

To come:

1. Proofs: `QuietStreamsHaveConverged` with heartbeats, if `SetSnapshot` does not
   fail; `StateIsLastSent` with changing subscriptions.
2. `MuxCache` over a snapshot cache and a linear cache, with the nil response.
3. `Fetch` and the REST server, with `SkipFetchError`.
