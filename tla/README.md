# TLA+ verification of mcp-unifi-rs

mcp-unifi-rs serves an MCP tool surface for UniFi Network and UniFi Protect
controllers and can run beside it a collector that archives hourly traffic in
InfluxDB. This directory models the parts whose correctness depends on
interleaving, failure and time, checks them with TLC on small instances and
proves the main results with TLAPS for all parameters.

## Inventory

| Part | State | Operations | Interacts with | What is hard | What makes it correct |
|---|---|---|---|---|---|
| Collector worker (`unifi-server/src/collector.rs`) | `status.json`, `pending.json`, the in-memory status, the state lock | start, schedule, collect, stage, publish, record, sleep | controller (reports), sink, clock, file system, cancellation | crashes between two durable writes, cycle timeout and cancellation at an await, replay, expiry while stopped, clock steps | a visible hour is complete; the status claims only what the sink shows; gaps are counted once; nothing starves |
| InfluxDB sink (`collector/sink.rs`) | points in a bucket | write batch, write selector | worker | lost answers, requests that take effect after their sender left | idempotent records, selector last |
| Traffic collection (`unifi-api/src/collection.rs`, `legacy/collection.rs`, `legacy/traffic.rs`) | none | read three sources | session | partial sources | a partial report is never marked collected |
| Legacy cookie session (`unifi-api/src/legacy.rs`) | `SessionState` behind a tokio mutex, cookie jar | ensure, login, send, capture token, refresh | controller; tool calls, collector | expiry under concurrent calls, dropped futures, shared failures | a mutation is sent once, a live session is kept, no login storms, the console family is right |
| Call path (`unifi-server/src/server.rs`, `portable.rs`, `unifi-mcp/src/handler.rs`) | concurrency slots, semaphore permits, two deadlines | arrive, authenticate, admit, answer, time out | all tools | two clocks, calls that outlive their HTTP request | every call ends, bounds hold, an acknowledged write is reported |
| Record-updating tools (`tools.rs`, `mutation.rs`) | none of their own; the controller's record | preview, read, write, read back, judge | controller, other editors | stale readings, dropped fields, late writes | the verdict is what happened, lost edits are warned of |
| Other write tools (`tools.rs`, `tools/network_configuration.rs`, `tools/legacy_configuration.rs`) | the controller's resources | create, delete, reorder, act, verify | controller | partial batches, lost answers, throttling, replies that name something else, answers too large | one mutation, what was done is what is reported, no field of an answer is lost |
| Read tools, paging (`tools.rs`, `tools/*.rs`) | cursors in the caller's hands | list, filter, select, page | controller | pages that shift or contradict themselves, ceilings, names that are unique only in the part that was read | a walk that mentions no gap is complete; a name selects only what is unique |
| Protect events and subscription (`legacy.rs`, `protect/subscription.rs`) | none | page backwards, read a socket until a limit | controller | groups of equal times, budgets used up within a message | each event once, nothing left out in silence |
| Registry (`registry.rs`) | constant | list, look up | both runtimes | a tool on the wrong surface, a write declared a read | the table and the handlers agree |
| Ingress authentication (`unifi-server/src/auth.rs`, `portable.rs`) | JWKS cache, refresh mutex | verify, look up, refresh | gateway | withdrawn keys, slow fetches, refresh storms, dropped requests | who is let in is trusted, fetches are spaced |
| Site resolution (`handler.rs`) | a `OnceCell` | look up, scan | controller | pages, edits during the scan, dropped initialisers | the site is right or the call fails |
| Configuration, TLS pinning, models, errors | constant after start | | | | |

Everything that is hard to test is listed with its line in `PROJECT.json`
under `hazards`, with the properties that would notice it.

## Modules

`TrafficArchive` is the abstract promise of the collector, `Collector` the
worker with its sink. `LegacySession` is the cookie session. `ToolCalls` is the
call path, extended by `RecordUpdates` and by `ResourceWrites`, the tools that
run on it. `Endpoints` has the requests of the three clients, `AnswerLayout`
the layout of large answers, `Pages` the rules of the pages; `ResourceWrites`
uses the first two, `ReadTools` the first, `Pages` and `Registry`. `Ingress` is
the way in and `SiteResolution` composes it with the resolution of the site.
`MC...` modules give the constants of small instances, and a module `XProofs`
holds the theorems about `X` (`SiteResolutionProofs` also those about
`Ingress`). `InductionLemmas` has what the proofs need of natural numbers and
finite orders.

### Collector

| TLA+ | code |
|---|---|
| `mem`, `disk`, `pending` | `Worker.status`, `status.json`, `pending.json` |
| `todo`, `part`, `pc` | the candidates left in `cycle`, the next request of `publish_pending`, the place in `run`/`cycle` |
| `stored`, `selected`, `late` | the bucket; requests the worker no longer waits for |
| `Start` | `Worker::new` |
| `NothingPending`, `WriteAcknowledged`, `WriteFails`, `Record`, `Remove` | `publish_pending` |
| `Schedule`, `Collect`, `CollectRefused`, `SaveCollected`, `Pause` | `cycle` |
| `CycleTimeout`, `Finish`, `Wake`, `Cancel` | `run` |
| `Crash`, `LateEffect`, `Tick`, `StepBack` | the environment |

A step ends at an await or at a durable write, because that is where the
worker can be dropped or the process can die. `atomic_write` may report a
failure with the old or with the new file in place. A publication is the pair
of hour and content, because its revision is the digest of the snapshot and its
points have deterministic identities. `records`, `updated_ms`, `lag_ms` and
`sink_available` only report and are left out.

### LegacySession

`kind`, `csrf`, `authenticated`, `generation` and `backoff` are
`SessionState`; `holder` is the mutex while it is held across a login;
`cookie` is the jar of the HTTP client. A call goes through `EnsureSession`,
`Prepare` (reads kind and token under the mutex), `Dispatch` (sends, with the
cookie the jar holds by then), `Respond` (the controller), `Receive` and, when
the session was gone, `RefreshSession`. `Drop` is the tool deadline: the future
and with it the mutex guard go away, a login under way may have happened all
the same. The back-off window is a flag that lapses.

### ToolCalls and RecordUpdates

Over HTTP a request passes `TimeoutLayer`, `ConcurrencyLimitLayer`,
authentication and the body limit, and then `call_tool`, which takes a permit
without waiting and applies its own timeout of the same length. The layer's
clock (`age`) starts with the request, the handler's (`spent`) with the tool.
The HTTP side of a call also ends when its client closes the connection
(`HangUp`), at any time before the answer. After a 408 or a hang-up the slot is
free, and the MCP library may drop the call or let it run on with its permit
(`GiveUp`); both are modelled. Over stdio only the handler's bounds exist, and a
client that hangs up ends the server.

The four updating tools share one course (validate, read, preview or write,
read back, judge) and differ in three respects, which the records
`WlansUpdate`, `PortForwardsUpdate`, `FirewallPoliciesUpdate` and
`ProtectDevicesSettingsUpdate` name. A record has two fields; the controller
may keep, drop or rewrite each field of a write and touch others, may apply a
write after its sender has gone, and somebody else may edit the record.
`Deadline` and `CallerLeaves` say what the end of a call, by a timeout or by its
caller, does to the tool.

### Endpoints, AnswerLayout and ResourceWrites

`Endpoints` has an operator for every operation of the integration, legacy and
Protect clients: its method, what it is about, what it insists on in the
answer (nothing, JSON, a name, a list) and whether the client sends it again
when it is throttled. `ResourceWrites` has a record for every tool that
creates, replaces, deletes, reorders or acts: the reads before the write, the
write, the read-back, how the verdict is reached, and the layout of the answer.
The actions `Validate`, `Plan`, `ReadDone`, `ReadFails`, `Send`, `Throttled`,
`WriteAcknowledged`, `WriteFails`, `WriteUndecodable`, `Readback` and
`ReadbackFails` interpret the record; the five `...Voucher...` actions are the
loop over a created batch. A write touches one or two items, each with its own
fate on the controller.

How the verdict is reached differs from tool to tool, and `judge` and `goal`
state for each what its code compares and what `verified: true` can therefore
promise. Most tools compare all that was asked (`Matching`, `Listed`,
`Reported`) or look for an absence (`Gone`, `GoneByName`). Some only look for a
presence and promise no more: an adopted device under its id (`Present`), an
uploaded asset, a created stream, and a created voucher under its id and code
(`Exists`). `guests.authorize` compares the authorization it reads back with
the grant in the controller's reply. The controller may state any grant, so
`Judge` and `Goal` are about `granted[c]`, whether or not that is what was asked.

`AnswerLayout` moves fields from the structured part
of an answer to its content until it fits.

### Pages, Registry and ReadTools

`ReadTools` has a record for every reading tool: its course of requests, how
the rows are ordered and cut, and what filters and selectors it has. A walk
repeats the call with the continuation of the last answer. `Pages` holds the
rules on which a page is accepted and the next offset computed, for each kind
of paging the code has (checked pages, vouchers, catalogs, scans, the system
log, Protect events). `Registry` is the table of `registry.rs`, section by
section, with the surface and the read-only hint of each tool. `HasClient` is
what the `unreachable!` of `handler.rs` assume. `RegistryIsHonest` holds the
table against the requests of the reading tools; the clients that the writing
tools use are not compared with it.

### Ingress and SiteResolution

| TLA+ | code |
|---|---|
| `cached`, `attempt` | `CacheState` |
| `holder`, `queue` | the refresh mutex and its waiters |
| `Arrive` | `require_gateway`/`authenticate`, `require_direct_client`, stdio |
| `FirstLookup`, `SecondLookup`, `KeysSent`, `Store`, `FetchFails` | `key` and `fetch_keys` |
| `Verify` | `verify_with_time` once the key is there |
| `cell`, `scanner`, `waiters` | the `OnceCell`, its permit and its waiters |
| `Call`, `TakePermit`, `TakeSite` | `call_tool`, `get_or_try_init` |
| `ReadPage`, `PageFails` | the scan in `site_id` |
| `Abandon`, `DropCall` | a request dropped by its deadline or its client |
| `Rotate`, `Tick`, `Edit` | the gateway's keys, the clock, the controller's sites |

A token is its key id, whether signature and claims are good, and its two
times. `token` is forgotten when the request is let in or turned away, and
requests that have ended are told apart only where a property asks how.

## Runs

| run | shows | bounds |
|---|---|---|
| `collector` | status claims, gap counts, error reporting and settlement of the staged report, and the refinement of `TrafficArchive`, with crashes, cancellations, timeouts, sink and disk failures | clock of 9 ticks at 2 per hour with delay 1: four hours pass through a window of two, so hours enter, are corrected, expire, and are missed by a stopped worker |
| `collector_faults` | selector completeness and checkpoints with two batches, a request that takes effect late, a clock step back and a restart with another destination | three hours |
| `collector_live` | the round robin starves no hour | three hours, one interval per cycle |
| `collector_reconfigured` | finding: a longer history counts gaps twice | window of one or two hours |
| `session` | mutation sent once, dead sessions renewed, live ones kept, no login in back-off, right console, every call returns | two callers, two logins, two expiries: enough for a rejection that is stale when it arrives and for a second expiry during the renewal |
| `session_token` | finding: a late answer replaces the token of a newer session | two callers, two logins |
| `updates` | acknowledged writes are reported, verdicts exact, denials true, whenever callers hang up | two calls at once, three ticks of deadline of which two are reserve, at most one tick on the way in |
| `updates_live` | every call ends with its permit returned, busy only behind a detached call, lost edits disclosed | two calls, one slot and one permit, two ticks of deadline of which one is reserve, at most one tick on the way in, one foreign edit |
| `updates_ingress` | finding: a slow way in defeats the reserve | one call |
| `writes` | for each of 51 operations of the writing tools: one mutation, acknowledged writes reported, verdicts grounded, denials true, answers whole | one call, two items, a batch of two vouchers, one foreign edit; four ticks of deadline of which two are reserve, so that a deadline falls into every wait |
| `reads` | for every reading tool: walks complete and ending, events once, selection by unique names only, streams whole, the registry honest | three rows and one that is added or removed, three names or times of which some are ids too, limits 1 to 3 against caps, scan pages and ceilings of 2: every limit is below, at and above its cap, and a scan needs two pages or hits its ceiling |
| `ingress` | admitted callers trusted, key fetches spaced, known keys served, the right site, every request ends | two requests, two keys of which one appears or disappears, three ticks with a lifetime of two: a set of keys is fetched, expires and is fetched again; three sites on pages of two with a ceiling of two. Behind the gateway the catalog is fixed, over the other transports it is any catalog and edited once |

The runs of the tools stop when the calls are done, so deadlock is not checked
for them (each member of `Calls` is one request, and a walk ends).

`ImplementsArchive` is checked for a sink that settles a request before its
sender stops waiting (`MaxLate = 0`). Without that, a delayed selector of an
older reading of an hour can replace a newer one; `SelectorIsComplete`
still holds and is checked, and proved, with such delays. `GapsAreExact` is
claimed for one `history_hours` and a clock that does not step back.

Every property has a mutant: an operator beside the definition it replaces,
named for the bug, under which the property fails.

## Fairness

* `collector_live`: the runtime schedules the worker, timers fire and the clock
  advances (weak fairness of the worker's own steps). A controller read, the
  pause and each sink request succeed eventually when they are tried again and
  again (strong fairness): each has a timeout of seconds inside a cycle of
  thirty minutes. A source that stays incomplete is allowed for ever, which is
  the case the round robin is for. The premise that the worker is eventually
  left running is part of the property.
* `session`: a login ends (each request has a timeout), and the mutex is
  fair to its waiters, as tokio's is.
* `updates_live`: only time passing, deadlines and the runtime. The
  controller and the key server may stay silent for ever, and no caller has to
  come or to hang up.
* `reads`: a walk goes on, that is, the caller turns the page and each request
  is answered or fails by its timeout.
* `ingress`: a request that can go on does. Fetches and pages end by their
  timeouts, and tokio's mutex and semaphore serve their waiters in order.
  Nothing is assumed of arrivals, drops, the gateway, the catalog or the clock.

## Proofs

A theorem here holds for every value of the constants that satisfies the named
assumption of its module: any number of callers, keys, hours, batches or pages,
and any deadline. Each component has an inductive invariant, stated beside its
properties as a conjunction of named parts and checked by TLC before it was
proved, and a proof module with one lemma per action.

### The collector: `CollectorProofs`

* `TypeCorrect`. The work is in `Schedule` and `Record`: `Window` consists of
  whole hours, saturating subtraction stays in the naturals, and cardinalities
  of subsets of the finite set of hours are naturals.
* `SelectorComplete`, with late and lost requests. The property is not
  inductive: a late selector could complete anything. `ControlInv` (where the
  worker is determines whether a report is staged) and `PublicationInv` (the
  batches before `part` are stored, and a selector is on its way only behind
  all of them) are added. Records are never removed, so `AllStored` is stable.
* `PublishedAtOwnDestination` from `BindingInv` (`status.json` is there before
  anything is staged, with the binding of the worker that staged it),
  `StuckIsReported` from `StuckInv`, `CheckpointsBacked` from `CheckpointInv`.
  They need no assumption on the sink but that a request takes effect as sent
  or not at all.
* `StagedReportsSettled`, `CollectorImplementsArchive` and
  `CompleteHoursBacked` have the hypothesis `[](late = {})`: the sink settles a
  request before its sender stops waiting. Without it they are false, because a
  delayed selector can replace a newer one. `NothingLateAlways` shows that
  `MaxLate = 0` implies the hypothesis; the runs use that. The refinement is
  shown action by action: with `SettledInv`, `RecordedInv`, `SpanInv` and the
  control invariant every action is a step of `TrafficArchive` or leaves its
  variables alone.
* `GapsExact` also assumes `SteadyStep`: no clock step back and one
  `history_hours`. Finding 1 shows that a change of the history breaks it.
  `WindowInv` (the hours of a status are consecutive, begin no later than the
  window, and nothing newer has been published) and `ShownInv` (an hour the
  sink shows is called complete) turn the count into a cardinality of disjoint
  parts: what was counted, what leaves the map, and what never entered it while
  the worker was stopped.

### The session: `LegacySessionProofs`

`SessionTypeCorrect`, `MutationsNeverResent`, `DeadSessionsRenewed`,
`BackoffRespected` and the action property `LiveSessionsKept` follow from one
invariant, `SessionInv`. Its core is `RejectionInv`: a call whose generation is
still the current one asked with the cookie the jar still holds, so a rejection
that passes the generation check is about the session in the jar. `RenewalInv`
says what a call knows of its session while the controller ends none.

### Ingress and site: `SiteResolutionProofs`

`AdmissionIsTrusted`, `FetchesSpaced` and `KnownKeysServed` are action
properties that follow from `IngressInv`: `FetchInv` relates what a fetch
brought to what was published since it began, `CacheInv` carries that over to
the cache, with the time by which a cached key may outlive its withdrawal.
`SitesAreRight` follows from `ScanInv`: a scan that goes on over an intact
catalog has passed only rows that are not the configured site. The ingress
lemmas are about its actions alone; `SiteResolutionProofs` lifts them to the
composition and also proves `ResolutionTypeCorrect`.

### Call path and tools: `ToolCallsProofs`, `RecordUpdatesProofs`, `ResourceWritesProofs`

* The lemmas of `ToolCallsProofs` show that the call path keeps `ShellInv`
  whatever the tools do; both tool modules use them, since a tool's steps are
  steps of the path or leave it alone.
* `UpdatesTypeCorrect`, `BoundsKept`, `BusyBehindDetached`. For the last: when
  the handler finds no permit left while the new call has a slot, the other
  holders of permits cannot all have slots, because the two bounds are equal;
  the one without a slot is a call whose caller was told 408 or has hung up.
* `AcknowledgedReported`, in both tool modules: `MaxIngress < Reserve => (Spec
  => []AcknowledgedIsReported)`. `ReportInv` joins three facts: the two clocks
  of a call differ by at most the way in (`ClocksInv`), a read-back ends at
  least the reserve before the handler's deadline (`BudgetInv`), and an
  acknowledged call is reading back or has answered, unless its caller has
  hung up (`AckedInv`). The hypothesis is the one that the run of finding 3 gives up.
* `ReportsTrue` and `OverwritesDisclosed` from `TruthInv`: as long as nobody
  disturbs a call, the record is what was read until the write lands and
  `Outcome` after that (`RecordInv`), and a body on its way holds the requested
  values and for the rest what was read (`WireInv`).
* `WritesTypeCorrect`, `WritesReported` and `VerdictsGrounded` are proved for
  every set of tools that `ResourceWritesAssumption` admits: all requests but
  the write are plain reads and the write is not sent again (`WritesOnce`), the
  verdict on a reading fits the tool's goal (`JudgesByGoal`), and a batch gets a
  verdict from every reading (`JudgesBatches`). That a comparison with the grant
  of the reply fits the goal of that grant, for every grant, is the lemma
  `JudgeFits`. TLC evaluates
  the assumption on each tool of the code. So the loop, the deadlines and the
  replies are dealt with once, and a tool adds only a check of its record.
  `BatchInv` is the loop invariant of the vouchers: those before `pos` are
  different ones and as they should be.
* `AnswersWhole` is proved for every order of fields and all sizes. The layout
  is a loop, written as a recursive function; `WholeInv` is what it keeps: the
  structured part and the content split the fields, and while the size is above
  the target everything tried so far has moved. That the loop computes what its
  equation says is `NaturalInduction` of `InductionLemmas`.

### Reading: `ReadToolsProofs`, `InductionLemmas`

The theorems hold for every collection, names and times, limits, caps, ceilings
and number of edits, under `ReadToolsAssumption` (numbers and finite sets),
`EndAssumption` (`End` is no offset) and `CourseAssumption`: a course reads the
collection once, in a way that fits how its answer is made, before it compares
it with another source or picks from it. TLC evaluates the last one on each
tool of the code (`ReadingTools`), so the walks are proved once for all of them
and a tool adds a check of its record.

* `ReadTypesHold`: `TypeOK` and `NewInv` (nothing has happened before the first
  call).
* `StreamsWhole` from `StreamInv`: what was kept is a prefix of what was taken
  off the socket, within the budgets, and a message that was left out has set
  the flag.
* `EventsReturnedOnce` from `EventInv`: what was returned lies above the cursor
  and is complete there, what was read lies between the next cursor and this
  one. Edits are allowed throughout. The heart is `FinishShape`: a page that
  ends inside a group of equal times gives up the whole group, and the next
  cursor is that time.
* `SelectionsUnique` from `SelectInv`, with `SourceInv` and `WholeInv`: a call
  over pages that can be trusted holds the rows from `Base` on in the order of
  the controller, and it holds all of them unless `cut` says otherwise.
* `WalksComplete` from `WalkInv`, on top of the same two. Pages and sections:
  the rows returned so far are the first `Base` rows of the collection. Lists
  the server sorts and cuts: every call sorts anew, possibly from another order
  of the same rows, so the calls must agree. Sorting is stated by rank
  (`Arranged`); `Ranking` and `Enumeration` show that each rank is taken exactly
  once, and that an order without ties has one result. With ties the lists must
  have come in one order (`OrderHeld`, a premise of the property). Therefore
  `WindowRows = WindowGoal` in each call, and the walk spells out
  `WindowGoal` page by page.
* `RegistryHonest`, for `Tools \subseteq ReadingTools`: `ListedInv` (a walk is of
  a tool listed for the server's surface), and then each tool's course is held
  against its entry of the registry.
* `WalksMoveOn`, the safety half of `WalkEnds`, from `MoveInv`: against any
  replies, a continuation lies further on than the page it came from, and a
  loop inside a call takes rows or messages off the controller in every turn.
  With `WalkEnds` checked on small instances this is the argument that walks
  end on large ones: what is left is that a controller has finitely many rows.
  TLC finds `WalkMovesOn` true on the instance of `reads`, and violated under the
  mutant of `WalkEnds` (a page without rows taken before the end).

### What proving changed

* The guards of the `CASE` in `Fate` (`RecordUpdates`) overlapped, which leaves
  the value open; they are an `IF` now.
* The bound of `pos` in the type invariant of `ResourceWrites` held only for
  batches of at most four.
* Where a call is when it has ended (`at = "end"` only with `stage = "done"`) is
  part of the invariant, because what a call waits for is not defined there.
* In `ReadTools` a row that had been removed could come back, which the
  properties were not meant for and the invariants did not survive. `gone`
  keeps the removed ids now, and only ids that never were can be added.
* Sorting and filtering are stated by rank, which the provers can reason about.

### Only model-checked

Liveness (`NoHourStarves`, `EveryCallReturns`, `EveryCallEnds`, `WalkEnds`,
`EveryRequestEnds`): fairness and ENABLED are out of the prover's reach. Every
other property of a passing run has its theorem. Induction over data goes
through the least-number principle in the form for sets (`LeastNatural`), since
the induction theorems of the library take an operator that none of the
provers can instantiate.

## Findings

1. `history_hours` is not part of the collector's binding. A restart with a
   longer history re-inserts hours that were already counted in
   `expired_gaps`, and they are counted again (`collector_reconfigured`).
2. `capture_csrf` stores the token of any answer; an answer of an earlier
   session that arrives after a new login replaces the new session's token
   until the next answer (`session_token`).
3. The HTTP request timeout starts before queueing and authentication, the
   tools' reserve of 500 ms is measured from the tool's start. When the way in
   takes longer than the reserve, the caller of an acknowledged write gets a
   bare 408 during the read-back (`updates_ingress`).

These observations have no run. A key fetch that is dropped with its request
(by the deadline, or because the client hangs up) does not set
`last_attempt`, although auth.rs says "Every attempt arms the cooldown"; the
model follows the code, and `FetchesAreSpaced` speaks of fetches that came to
their end. `paged_gather` and `device_inventory` take an empty page before
the promised total for the end of the list and do not say so. And
`verified: true` is weaker than it may sound for two tools: `vouchers.create`
compares ids and codes and not the limits, which is what docs/tool-surface.md
says of it, and `guests.authorize` compares the read-back with the grant of the
reply, which nothing compares with the limits asked for.

## Plan

Every component that changes state has its module, every property of a passing
run that is not a liveness property its theorem. When the code changes, a tool
that is added needs its record in `ResourceWrites` or `ReadTools`, its entry in
`Registry`, and a line in the proof of `ToolsHonest`; the other proofs do not
mention single tools. Worth adding next: a controller that edits sorted lists
during a walk (the model leaves them alone), and a property for the empty page
that `paged_gather` takes for the end, once the code says what it promises.

## Not modelled

Wording and formatting, JSON schemas, the field checks of request bodies (a
body is valid or not), line protocol encoding, the sums of the traffic totals,
configuration parsing, TLS pinning, the byte limits of responses, cryptography
and token parsing, the framing of stdio lines: they keep no state that the
properties could relate.
