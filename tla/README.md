# A TLA+ verification of sing-box

This directory specifies parts of sing-box in TLA+, checks them with TLC on
small instances and proves theorems about them with TLAPS.  Two parts of the
program are here: the resolving core, that is how DNS queries share exchanges,
connections and caches and how fake IP addresses and cached answers survive
failures and restarts; and the outbounds that change while the program runs,
that is how provider updates replace nodes under the groups that use them, and how
a group chooses among its members.  These are the places where the most goroutines,
callbacks and retries meet on shared state.

- [The system](#the-system)
- [The modules](#the-modules)
- [What is checked](#what-is-checked)
- [A disagreement with the code](#a-disagreement-with-the-code)
- [What is proved](#what-is-proved)
- [Not modelled](#not-modelled)

## The system

sing-box accepts connections on *inbounds*, decides by *rules* where they go
and sends them out through *outbounds*; `box.go` creates and starts the parts in
stages.  `PROJECT.json` lists every part under `components`, with the hazards
found in it under `hazards`.

| part | where | here |
|------|-------|------|
| DNS client: cache, sharing of queries, refresh | `dns/client.go` | `DNSClient` |
| exchange strategies, search lists, groups of servers, local server | `dns/transport/exchange_strategy.go`, `group.go`, `local/` | `SequentialExchange`, `NameSearch`, `ParallelExchange`, `GroupTransport`, composed in `ServerGroup` |
| query multiplexer and its reuse probe | `dns/transport/multiplexer.go` | `QueryMultiplexer`, `ReuseProbe` |
| connection pool | `dns/transport/conn_pool.go` | `AbstractConnPool`, `SharedConnPool`, `OrderedConnPool` |
| fake IP addresses | `dns/transport/fakeip/` | `FakeIP` |
| cache file | `experimental/cachefile/` | `FakeIP`, `DNSCacheFile` |
| providers, outbound manager, lifecycle of nodes, selector | `adapter/provider/`, `adapter/outbound/`, `adapter/lifecycle*.go`, `protocol/group/selector.go` | `ProviderUpdate` |
| URL test and fallback groups | `protocol/group/urltest.go` | `URLTestGroup` |
| DNS router and its rules, other transports and managers | `dns/`, `adapter/` | no |
| router, rule sets, connection and network manager | `route/` | no |
| proxy and VPN protocols, stream transports, TLS | `protocol/`, `transport/`, `common/` | no |
| APIs, daemon, mobile libraries, services, commands | `experimental/`, `daemon/`, `service/`, `cmd/` | no |

A query passes through the modelled parts in this order:

    DNSClient ── one exchange per question, network environment and timeout
       │                                       └── DNSCacheFile (persistent answers)
    ServerGroup ── GroupTransport over the local server:
       │           ParallelExchange (scopes), NameSearch over SequentialExchange
       │
    QueryMultiplexer ── IDs on a shared connection;  ReuseProbe: may it be shared?
       │
    AbstractConnPool  ◄── implemented by ── SharedConnPool

`FakeIP` answers queries without a server.  It uses the same write-behind buffer
of the cache file as `DNSCacheFile`.  `OrderedConnPool` is the other mode of the
pool.  `ProviderUpdate` and `URLTestGroup` concern the outbounds through which all
this, and every connection, is sent.

## The modules

An action is one critical section of a lock, one atomic operation, or one step of
a goroutine between two of those; a callback that runs at the end of such a step
belongs to it.  Contexts end, connections break, processes die and transactions
fail whenever the code allows it.  Variables that only record history (who was
told what, which save was the last) are marked as such.  A definition whose
comment begins with `mutant:` is a deliberate mistake, used to see that a
property would notice it; nothing in a specification refers to it.

**SharedConnPool** is the pool in mode `ConnPoolSingle`.  `phase`, `all`,
`shared`, `claimed`, `users`, `waiters` and `connecting` are the fields of each
`connPoolState`, `state` and `closed` those of the pool; `dpc` follows the
`connectSingle` goroutines and `pc` the callers in `acquireShared`.  `Acquire*`,
`Wait*` and `Collect*` are the parts of `acquireShared` and `collectShared`
between locks, `DialReturn`, `Install` and `CloseDone` those of `connectSingle`.
`CancelState` and `SweepState` are the two halves of `closeState`, which runs
outside the lock.  A connect and the connection it dials share an identity.

**AbstractConnPool** is what the multiplexer may rely on: one current connection,
a first user that is told it created the connection, a count of users, and no
return of a connection once it was replaced.

**QueryMultiplexer** runs on `AbstractConnPool` through `INSTANCE`, so the two
halves of the design meet at a checked interface.  `queries` is the map from IDs
to pending queries; `armed` and `finishing` are the `context.AfterFunc` callbacks
that race the read loop (`rpc`, `rmsg`) and the sender (`pc`, `local`) for a
query.  `wire` holds requests whose answer may still arrive, late or twice.

**ReuseProbe** is the state machine `reuseState`, with its epochs, probes and
failure counter.  Loads outside the lock are steps of their own.

**SequentialExchange** is `ExchangeSequential`: for each exchanger the loop that
calls it and the callback it reports through, with the flags by which they agree
who goes on.  **NameSearch** extends it to `ExchangeNames`.
**ParallelExchange** is `ExchangeParallel`; **GroupTransport** is the server
group, with its channel and collector.  **ServerGroup** composes the four: it
extends `NameSearch` and instantiates the other two.  `stage` is the local
server among the group's members, which asks the scopes of systemd-resolved in
parallel, refreshes the server set once when they all fail, or searches names in
order; its callback is a send into the group's channel, and the end of the group's
context is the end of the context below.

**OrderedConnPool** is the pool in mode `ConnPoolOrdered`.  `pc` follows each caller
through `acquireOrdered`, `acquireSlot` and `dialAndInstall`, and then through
`Release` or `Invalidate`; `idle` is the list of the current state; `slots` and
`waiters` are the weighted semaphore, first come first served, which hands a slot
to a waiter that may be giving up at the same time.  `home` says which state's `all`
holds a connection, `doomed` which ones `closeState` or a third party has taken and
is about to close.

**DNSClient** is `beginExchange`, `finishExchange` and what calls them, for one
question on one transport.  `cache` and `cacheLock` are maps keyed by the network
environment (0: unknown), which `ChangeEnvironment` sets at any time.  `op[q]` is
the position of a query and its local variables.  Entries carry the environment
in which their exchange began, which the code does not store.

**FakeIP** is the store, one address family, over the buffers `pending` and
`writing` and the database.  An address carries its position since the last
reset of the range, which the code does not store.  **DNSCacheFile** is the DNS
cache with the flush loop, its timer and signal, and a reader.

**ProviderUpdate** is `UpdateNodes` of several providers at the same time, step by
step: the plan (`Begin`, with its errors for cycles and missing detours), the
creation and start of each node, `Replace` and `Remove` of the outbound manager under
its mutation lock, the `LifecycleGroup` that owns running nodes, and the
callback by which a selector rebuilds its members (`cache`, `members`) and selection.
A node is a record of its tag, its configuration and the update that created it, so
that a new instance differs from the one it replaces.  The user may select at any time, the
cache file may fail to store the choice, a node may fail to start, and the box
may be shut down at any time.

**URLTestGroup** is the group with its checks, one at a time under `checking`:
which members are tested, what `Select` chooses in either mode (a fold over
the list, with the 16-bit sum of delay and tolerance), and how the choice is stored
under `updateAccess` if the member is still there.
`pending`, `running` and `scheduler` are the scheduler that coalesces the checks
after provider updates.

## What is checked

Every run finishes within minutes.  All except `reuse_probe` and `urltest_group` have
`CHECK_DEADLOCK FALSE`: the program may well come to rest when all queries are
answered, or when a bound is used up.

| run | bounds | shows |
|-----|--------|-------|
| `shared_pool` | 2 callers, 2 connects, 2 states | `NoLeak`, `CountsExact`, `NothingStuck`, `CloseIdleSparesUsers`, and that the pool implements `AbstractConnPool` |
| `ordered_pool` | 2 callers, 2 connections, 1 slot, 1 Reset | `OneUser`, `SlotsExact`, `NoLeak`, `AcquireEnds` |
| `multiplexer_safety` | 2 queries, 2 connections, 2 IDs, 1 operation of the owner | `OneOwner`, `AnswersMatch`, `UsersAccounted` |
| `multiplexer_live` | 2 queries, 1 connection, 1 ID | `EveryQueryAnswered` |
| `reuse_probe` | 2 queries, 2 probes, 2 deaths, 1 reset, limit 2 | `SupportedIsProven`, `FailuresHandled`, `ProbingEnds` |
| `server_group` | 3 members, 2 scopes, 4 names of which the question's own is the second | `NeverBlocked`, `FailureIsUnanimous`, `BestEffort`, `BestNameWins`, `Answered` |
| `dns_client` | 2 queries, environments 0, 1, 2 | `OwnEnvironment`, `LocksExact`, `EveryQueryEnds` |
| `fakeip_store` | 4 domains on 3 addresses, 6 positions, 2 crashes, 1 failed transaction | `NoMappingAhead`, `DiskConsistent`, `AnswerLeadsBack`, `ReservedFirst` |
| `fakeip_late_query` | 3 domains, 4 positions, 1 crash | `NoMappingAhead` is violated, see below |
| `dns_cache_file` | 2 keys, 3 saves, 2 removals, 2 failed transactions | `LastSaveWins`, `LoadIsCurrent`, `DeletesOnlyMatching`, `EventuallyFlushed` |
| `provider_update` | 2 providers with 2 and 1 nodes, 2 configurations, 2 updates each | `LiveIsPublished`, `GroupSettles`, `SelectionSticks`, `OnlyChangedRestart`, `ShutdownCompletes` |
| `urltest_group` | 3 outbounds, 2 member lists, 2 networks, delays 1 to 3, tolerance 1, 2 updates | `SelectedIsMember`, `SelectionRule`, `UpdateIsChecked` |

What each property says is written above its definition.  `NothingStuck` stands in
for liveness in the shared pool, whose run uses symmetry: in a state where no
goroutine has a step left nobody waits, and after `Close` nothing is open.

**The bounds.**  Two callers are one that dials and one that waits; two states
are one retired by `Reset` and its successor; two connects are a connection and
the one that replaces it.  That is enough for every pairing the locks
of the pool admit, and its theorems hold for any number.  Two IDs in the
multiplexer wrap around after two registrations, a single ID makes registration
fail.  Three environments let a query
start in one, wait in another and store in a third; the two safety properties
are proved for any number of queries, the liveness property is only checked with
two, so a waiter that is woken and finds a third query in its way is not covered.
Three addresses for four domains exhaust the range, and six positions go
around it twice; `Reserve` is 2 instead of 1024 so that a reservation runs out.
Two callers and one slot are a dial and a waiter; a grant can meet the end of its
context and a Reset, and the safety properties are proved for any number.  In
`provider_update` one provider's nodes may be each other's detours, so an
update can add, drop or reverse a dependency or make a cycle, while the other
provider changes the same selector; two updates are one that publishes and one that replaces.
Each of the two networks of `urltest_group` has at least two members, and
delays 1, 2 and 3 with tolerance 1 lie within it and beyond it; the 16-bit
overflow of their sum is outside `SelectionRule`, which says so.
Three saves on two keys give one key a newer message while an older one is
being written; a failed flush then meets both, twice.  Four names leave
one before and two after the question's own.

Two results depend on more than the size of the instance:

- *IDs that come round.*  The multiplexer identifies a query by its 16-bit ID
  alone, and `register` only skips IDs that are in the map.  A goroutine or an
  answer that is late by 2^16 registrations may therefore meet a query that is not
  its own.  The model does the same, with far fewer IDs, and records it in
  `aliased`.  None of the multiplexer's properties holds once this has happened,
  and each of them says so; the safety run does not go on from such a state
  (`CONSTRAINT NotAliased`), which loses nothing because `aliased` stays true.
- *Failed transactions.*  `NoMappingAhead` and `ReservedFirst` hold with one failed
  transaction and fail with two: the first loses the file and with it the metadata,
  a flush then writes mappings without metadata, and at the next start
  `FakeIPReset` fails, an error that `Store.Start` ignores.  `DiskConsistent` and
  `AnswerLeadsBack` hold with two as well.

**Symmetry** is used in `shared_pool` and `multiplexer_safety`,
whose identities are interchangeable, and in no run with a liveness property.

**Fairness** is weak fairness of goroutines that can run, which is what the Go
scheduler gives, plus:

- a dial returns (`OrderedConnPool`): dialers have a timeout.  Users may keep
  their connections for ever;
- a query's context ends (`QueryMultiplexer`): `dns/client.go` sets a deadline on
  each exchange;
- scopes and the servers of the system call back (`ServerGroup`): they have
  timeouts.  The other members of the group may be silent, and contexts need not end;
- the transport answers or fails (`DNSClient`), for the same reason.  Contexts
  need not end there;
- whoever holds the flush lock lets go of it (`DNSCacheFile`): transactions end;
- creating, starting and closing a node ends (`ProviderUpdate`), and so does a test of a
  member (`URLTestGroup`), which has a timeout;
- a check that waits for the mutex of the checks gets it in the end although others
  come and go (`URLTestGroup`, strong fairness of `ProviderCheck`): a Go mutex hands
  itself to the waiter that has starved for a millisecond.

The owner of a component is never assumed to act, nor the network to deliver.

## A disagreement with the code

`fakeip_late_query`: `Store.Close` saves the exact position in the range, so that
nothing of the reserved block is lost, but leaves `reservedCount` as it is.  If
`Create` runs after it, it uses addresses beyond the saved position without saving a
new one.  The final flush persists these mappings, and after the next start their
addresses are given to other domains.  `dns/transport/fakeip/store_cache_test.go:73`
says "a persisted mapping must not be reassigned to another domain".

No new query gets that far, not even one from the Clash API, which is closed later than
the DNS transports: `dns-router` is started after `dns-transport` (`box.go:632-633`), so it closes
before it, and `prepareExchange` (`dns/router.go:1125`) then answers "dns router closed".
What can is an exchange that is already past `prepareExchange`.  It has its own copy of the rules,
nobody waits for it, and the manager still finds the fake IP server by its tag.  One that is suspended until
an evaluate rule has its answer (`dns/router.go:669`) and is then routed to fake IP calls
`Create` whenever that answer, or the error of a closed transport, arrives.  `LateQueries`
stands for such exchanges, and the window is as long as they wait.  Without them
(`fakeip_store`) the property holds, with the premise on failures above.

## What is proved

TLAPS checks these for every value of the constants that satisfies the named
assumptions.

| module | theorem | says |
|--------|---------|------|
| `SharedConnPoolProofs` | `TypeCorrect`, `PoolNeverLeaks`, `PoolIsSingle`, `CreatorIsUnique`, `CountersAreExact` | the invariants of the pool |
| | `HandoutIsFresh`, `CloseIdleIsSafe` | what a step may never do |
| | `PoolImplementsAbstract` | the pool implements `AbstractConnPool` |
| `OrderedConnPoolProofs` | `OrderedOneUser`, `OrderedSlotsExact`, `OrderedNeverLeaks` | the invariants of the ordered pool |
| `QueryMultiplexerTokens`, `QueryMultiplexerProofs` | `CalledBackOnce`, `AnswersAreOwn`, `UsersAreExact` | one callback for each query, with its own answer, and the count of users |
| `ServerGroupProofs` | `SequentialIsCorrect`, `NamesTriedInOrder` | exchangers run once and in order, one callback with the right result |
| | `BestNameAlwaysWins`, `BestNameInGroup` | the answer of a search list, alone and below a group that may cancel it |
| | `ScopesDoTheirBest` | the answer of the scopes, in both rounds |
| | `ChannelHasRoom`, `FailureHidesNothing` | the channel and the verdict of the group |
| `DNSProofs` | `AnswersStayInTheirEnvironment`, `LocksAreExact` | the cache and the locks of `DNSClient` |
| | `SharingIsProven`, `FailuresAreHandled` | the state and the failure counter of `ReuseProbe` |
| | `NewestIsFound`, `LookupIsCurrent`, `BufferCountExact` | `DNSCacheFile`: the newest message is found, a lookup is current, the count of the buffer |
| | `DeletesAreExact` | what a deletion may never remove |
| `FakeIPProofs` | `DatabaseAgrees`, `AnswersLeadBack` | both directions of the mapping agree, in the file and through the buffers |
| | `NoEarlyReuse`, `ReservationFirst` | no address comes round before its turn |
| `ProviderUpdateProofs` | `LookupsRun`, `MembersConverge`, `ChoiceIsKept` | manager, lifecycle and selector agree |
| | `RestartsAreDue` | what an update may never close |

*The pool.*  Assumptions: finite sets of callers and connects; `None` is neither a
connect nor a state.  `CountsExact` is not inductive: to see that `removeConn` may
set `sharedUsers` to zero one must know that the connection it removes is the one
the holders counted in this state have.  The invariant `Inv` adds where every
connect belongs (`DialInv`), which state is live (`StateInv`), that the claim
agrees with the number of creators (`ClaimInv`), and what a waiting caller
remembers (`CallerInv`).  Counting is by cardinality, with the lemmas at the
beginning of the module; the steps of callers come next, then those of connects and of
the pool.

*The refinement.*  `QueryMultiplexer` runs on `AbstractConnPool`, so this theorem
is what carries its results over to the pool of the code.  `past` is mapped to the
connections installed and no longer current, so a connect shows when it is
installed and `closeState` as `CloseLate`.  `Inv` is not enough: a connection whose
connect failed would be tracked without being installed.  `Sound` excludes that, and
is kept because `installShared` tracks only what `Dial` returned without error.
There is one lemma for each kind of step (`HandOutMaps`, `RemoveMaps`, `InstallMaps`,
`SwapMaps`, `SweepMaps`, ...), and `NextMaps` puts them together.  The theorem is
about safety: `AbstractConnPool` has no fairness.

*The ordered pool.*  Assumptions: finitely many callers; `None` is no connection.
Nothing is assumed of the number of connections, slots and Resets.  None of the three
invariants is inductive.  The slots taken can only be counted if
the queue of the semaphore holds exactly the callers at `wait`, each once
(`WaitInv`): else a release could grant a slot to somebody who has left.  That two
callers never share a connection needs that a dialled one is new, hence neither in
anyone's hands nor idle (`HandsInv`, `IdleInv`).  `NoLeak` needs that only retired
states are cancelled (`RetiredInv`): a Reset then leaves behind connections that
`closeState` has still to take.  There is one lemma for each conjunct of `Inv`, with one step
for each action, on top of lemmas about removing from and appending to
sequences of distinct entries.

*Sequential exchange.*  Assumptions: at least one exchanger; for search lists,
only a success is accepted.  `TriedInOrder` does not say who may start the next
exchanger.  The invariant `SeqInv` names one exchanger, the last one started:
those before it are over, those after it untouched, its flags
`returned` and `continued` say exactly which of its two goroutines is still to
come, and `delivered` is determined by it (`Front`, `Delivery`).  `NameInv` adds
that the name error kept is the right one of those met so far.

*The client.*  Assumptions: 0 is an environment and `None` neither one nor a
query.  `OwnEnvironment` and `LocksExact` become inductive with the types and the
fact that a query between `newCacheKey` and its release has a key (`HasKey`).
The main lemma, `LocksKept`, covers all steps that leave `cacheLock` alone.

*The multiplexer.*  Assumptions: at least one ID, and values for "no connection" and
"no query" that are neither.  The proof follows *tokens*: a call that is
under way, an entry of the map, a finishing callback or a read loop that has taken an
entry, that is, whoever is going to call a query back.  One lemma for each action says
which token it leaves alone, makes, hands on or uses up (`QueryMultiplexerTokens`, which also
has the lemmas about owners and IDs; the count of users and the theorems are in `QueryMultiplexerProofs`).  `OneOwner` and
`UsersAccounted` then follow from a few general lemmas about handing on (`OwnersHandOn`,
`HoldFrees`, ...).  They are not inductive: that a timer, a failed write or the read
loop takes the entry of its own query rests on `IdInv`, by which whoever remembers an ID
finds its own query under it or nothing.  `register` would break that with an ID
that somebody still remembers, which is what `aliased` records; so the invariant is
`~aliased => Core`.  A retry makes a second token unless the first call is over
(`RetryInv`), and a new connection has no users because every connection that a token
knows has been current (`KnownConns`).

*The probe.*  Assumption: the limit is positive and the deaths can be counted.
`SupportedIsProven` needs that the epoch a probe has read is the number of Resets
before it began (`EpochInv`).

*The group.*  Assumptions: finitely many members, the local server among them; outcomes
and members have different names; at least one scope and one name.  The invariant has one part
for each protocol, over its own variables: `GInv` for the group (the channel holds
different members that have sent, the collector has counted the others), `PInv` for the
scopes (a callback is owed exactly until the last scope has reported), `NameInv` for the
names.  Lemmas about each protocol alone say what its steps keep.  What joins them is
`StageInv`: before the local server is asked everything below it is untouched, and it has
sent an error only when nobody below it has answered.  `FailureHidesNothing` is this, together
with the statement that the group's verdict is unanimous.

*The DNS cache file.*  Assumption: finitely many keys, for the count.  A message is in the
buffer, in the hands of a flush or in the file, and `View` finds the newest of
the three.  `LastSaveWins` becomes inductive with two facts: only a flush that
has the lock keeps messages in `writing` (`WritingInv`), and between the two steps of
`ClearDNSCache` whatever is not meant to go is in the buffer (`ClearInv`).
`LoadIsCurrent` needs the same of the lookup between its looks (`ReaderInv`).

*Fake IP addresses.*  Assumptions: at least one address, a positive `Reserve`, and `None` is no
domain.  Nothing is assumed of the number of domains, crashes and failed transactions.  What a lookup
finds is the buffer over what is being written over the file.  `Struct` says that
each of these three layers is a mapping whose two directions agree, and that no layer gives
a domain of a lower one a second address (`Layers`); which
goroutine may be where (`Flow`), and that the domain `Create` works for has no address
yet while the owner it has found has no other one (`Held`); without `Held` a domain
could be queued twice.  A flush writes the addresses in an arbitrary order: `PutFirstIs`
is the loop invariant of `writePending`, which speaks of the addresses already written
and the others, and `WrittenIs` its end, the same for every order.
`AnswersLeadBack` adds the tombstones (`TombInv`): whoever loses an
address is marked in the buffer that gives it away, until a failed flush drops the mark.
The other two theorems are about positions, `PositionInv`.  With at most one failure
(`PosInv`) no mapping is ahead of the store or of the position saved in its
layer, and the newest saved position covers what is promised.  That is only kept by a failure
because before the first one more holds (`SoundInv`): every saved position is ahead
of the store, and there are no mappings without a saved position.  Both are without late queries,
as the counterexample above shows they must be.

*Provider updates.*  Assumptions: the tags of the providers are disjoint, detours are within
a provider, and `None` is no node, tag, configuration or provider.  What a
provider knows of its nodes is local to it: `Local(p)` says what it
has in its hands (`CurInv`), that the recorded configuration is the one published
(`NodeInv`), and that its list has what was published of the tags already visited
(`ListInv`).  A step of one provider is `Quiet` for the others because tags are
disjoint and the mutation lock admits one `Replace` or `Remove` at a time
(`LockInv`).  The selector reads a provider's list only in that provider's callback,
hence its members are right for every provider that is not between publication and
callback (`CacheInv`); when all are idle they are right.

*Loops.*  `writePending` and the reservation are recursive functions over an initial
segment of the numbers.  What they compute for every input is proved by induction: `Induct` takes
the set of the numbers at which the statement holds, so that it needs no operator as a parameter, and
`Recursion` gives the equations of such a function.

Each inductive invariant was first checked with TLC.

*Only model-checked:*

- all liveness properties (`EveryQueryAnswered`, `EveryQueryEnds`, `Answered`,
  `AcquireEnds`, `ProbingEnds`, `EventuallyFlushed`, `ShutdownCompletes`, `UpdateIsChecked`),
  since fairness is out of the prover's reach, and `NothingStuck`, which speaks of
  what is enabled;
- `SelectedIsMember` and `SelectionRule`: `Select` is written with folds, about which the
  library has no facts to cite.

Every other property of a passing run is a theorem.  `NoMappingAhead` and `ReservedFirst` are so
under the condition in which the run checks them, no late queries and at most one
failed transaction; beyond it they do not hold.

## Not modelled

In the modelled parts these are left out:

- `DNSClient`: what messages contain beyond what a property tells apart, TTL
  arithmetic, round robin, and the pairing of A and AAAA lookups;
- `QueryMultiplexer`: messages without a question and transports that fail before
  they dial;
- `FakeIP`: a second address family and a changed range;
- `DNSCacheFile`: the rejected-response cache, which uses the same buffer;
- `ServerGroup`: how scopes are matched to names, and the construction of the list of
  names;
- `ProviderUpdate`: endpoints, which `UpdateNodes` treats like outbounds; the manager's
  default outbound; health checks; and a selector's direct outbounds together with its
  configured default (`protocol/group/selector.go:302-308`).  `Selector.Start` sees no nodes
  yet: it looks for the default among the direct outbounds, and fails if it is not there.  A selector
  that has only providers, as here, can thus have no default other than the placeholder `Compatible`, and
  `GroupSettles` is about one that has none;
- `URLTestGroup`: nested groups, the age of test results, which is left open, and the
  ticker with its idle timeout: another check may begin at any time.

Some steps are coarser than the code, where no property could see the difference:
`SetKeepIdleConnections` stores its flag and closes the idle connection in one step
(`QueryMultiplexer`); `replaceOutbounds` makes its stores in one step, as all writers
hold `updateAccess`, although a reader may come between them, and `Select` reads the history of all members at
once (`URLTestGroup`).

Of the other parts, wire formats, cryptography, packet processing and system
interfaces have no state that a model of this kind could add to: rules and parsers are pure
functions of large inputs, protocols and transports are conversions of streams, and
the remaining managers repeat the outbound manager without updates.  They are
most of the program by size.  `PROJECT.json` gives the reason for each.

These orders of events are possible and nothing here excludes them, as the code
promises nothing about them: a slow background refresh stores its answer over a
newer one or after `ClearCache`; an exchange that began in an unknown environment
is stored under the one known at its end; a connection death of the old network is
counted after `Reset`; without a flush interval, a failed flush of a full buffer
waits for the next save.

Three hazards have no property: a failed `FakeIPReset` at the start after the file was
lost (`dns/transport/fakeip/store.go:88`), described under the bounds above; a
connection that is dialled before a selection and registered for interruption after
it (`protocol/group/selector.go:216`), as interruption is not modelled; and a `Touch`
after `Close` of a URL test group (`protocol/group/urltest.go:421`), as the
ticker is not.
