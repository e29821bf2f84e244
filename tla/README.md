# traffic-reporter in TLA+

This directory models the production main line of traffic-reporter: how a change of the
road data of the Police Broadcasting Service (PBS) travels from the monitor on the Windows
host to a Cloudflare Worker, is enqueued, processed at least once, and told (or not) to
the subscribers, how road events of TDX get onto the same queue, and how cron runs and
webhook calls share the blobs that decide who is told and what is published. It holds TLA+
modules, the configurations TLC checks them with, and proofs that TLAPS checks.
`PROJECT.json` lists the runs, the mapping of every definition to source lines, the
hazards, the findings and the theorems.

## The system

Paths are relative to the repository: `src/` is the Worker, `pbs-relay/` the Windows side.

| Component | State it keeps | Operations | Talks to |
|---|---|---|---|
| LocalMonitor (`pbs-relay/src/localMonitor.js`, `localPrototype.js`, `localState.js`, `localDebugPush.js`) | `relevant-state.json`: per event its fingerprint and `missingCount` | fetch, compare, write state, dispatch NEW/UPDATED/CLEARED | PBS (HTTP), push client |
| Monitor lock (`localRuntime.js`, task installer) | `local-monitor.lock`: pid and mtime | acquire, heartbeat, release | Task Scheduler, file system |
| Push client (`debugPushClient.js`) | none | two attempts with a five-second timeout | Worker ingress |
| Ingress (`src/pbs/debugPush.js`, `handlePbsDebugPush`) | L1 map per isolate, KV idempotency record, cleared marker, Observatory entry | accept, answer duplicate, enqueue, complete a CLEARED | KV, queue |
| Queue consumer (`handlePbsAiQueueBatch`, `processQueuedPbsEvent`) | the same KV records | skip completed, drop stale, decide, retry, give up, complete | queue, AI path |
| AI decision path (`runAiDecisionPath`, `aiDecisionEngine.js`, `aiDecisionCache.js`, `incidentMemory.js`, `positionCooldown.js`) | decision cache, incident memory blob, position cooldown blob | select memory, decide, suppress repeats, cooldown | Workers AI, KV, broadcast |
| Broadcast (`aiApprovedPbsBroadcast.js`, `incidentSuppression.js`, `notified.js`) | suppression blob, notified-state blob per channel | gates, suppression, push per target, mark notified | LINE, Telegram, KV |
| TDX pipeline (`traffic/pipeline.js`, `dedupe.js`, `tdxQueueIngress.js`) | dedupe blob and baseline key | fetch, classify, commit, prune, enqueue | TDX, KV, queue |
| Legacy broadcast (`broadcastPipeline.js`, `congestionCluster.js`) | suppression, notified, pending blobs | cluster, suppress, push loop | KV, LINE |
| Subscriptions (`subscriptions.js`, `line/webhook.js`) | one KV blob | enable, disable, migrate the old format | LINE, KV, cron |
| Shared feed (`sharedFeed.js`, `sharedFeedHandler.js`) | one KV blob of finished reports | publish, retain, cap, read | KV, consumers, cron |
| CCTV collage, health snapshot, pipeline trace | KV blobs | publish, read | KV |
| Cron (`scheduled.js`, `index.js`) | schedule keys | run all of the above every ten minutes | all |

What makes it hard. All durable state is in one Workers KV namespace without
compare-and-swap: every update is a get, some awaits, and a put of a whole value, and
handlers and consumers run concurrently. The queue delivers at least once, out of order,
with a limited number of retries and no dead letter queue. Both sides of the HTTP push may
stop at any point; the client gives up on an answer that the handler still produces. The
monitor writes its state before it pushes, so whatever is lost on the way is not sent again.
The lock file is a protocol of separate file-system calls.

What makes each component correct:

* monitor: what it announces is exactly how its state file changes; a clear needs evidence;
  it converges to what upstream says;
* lock: one monitor at a time, which keeps its file, and no dead monitor blocks for ever;
* transport: a change that was accepted is settled; a duplicate answer has work behind it; a
  message is decided once; nothing old is processed after a clear;
* broadcast: a mark is never false; a content is repeated to a target, or a change held back
  from it, only after a fault or a race; of two reports of one accident one is told;
* AI path: a cached decision fits the memory it is used with; a place is told once an hour and
  silenced only for a push it got; the memory keeps what was seen and what was told;
* TDX dedupe: a failed source never looks like a resolved event and a blip is no news;
  nothing is recorded without being enqueued, unless its one attempt failed; the state comes
  to agree with TDX;
* subscriptions: a target is switched as it was last told, unless the write failed or somebody
  wrote over it;
* shared feed: a finished report stays published for its retention, with an image of its own
  content.

## Modules

| Module | What it is |
|---|---|
| `PbsTransport` | push client, ingress, queue and consumer of one or several changes |
| `MCPbsTransport` | small instances for TLC |
| `PbsTransport_proofs` | `TypeCorrect`, `AckedAlwaysSettled`, `DuplicateAlwaysBacked`, `MessagesDecidedOnce`, `NoneProcessedAfterClear`, `AcceptedStaysCarried`, `EffortRunsOut`, `DecisionsCostFaults` |
| `ChangeFeed` | abstract: what the monitor promises a listener; `FeedInStep` |
| `LocalMonitor` | rounds of the monitor, refining `ChangeFeed` |
| `MCLocalMonitor` | small instances for TLC |
| `LocalMonitor_proofs` | `MonitorTypeCorrect`, `MonitorImplementsFeed`, `ChangesFit`, `ClearedOnEvidence` |
| `MonitorLock` | acquire, heartbeat and release of the lock file, call by call |
| `MCMonitorLock` | small instances for TLC |
| `MonitorLock_proofs` | `LockTypeCorrect`, `MutualExclusion`, `LockKept`, `RefusalEnds` |
| `AiDecision` | decision cache, incident memory and position cooldown under concurrent consumers |
| `MCAiDecision` | small instances for TLC |
| `AiDecision_proofs` | `TypeCorrect`, `AnswersFit`, `SilenceHasReason`, `ToldWasPushed`, `SightingsAreKept`, `RepeatsAreCaused` |
| `ApprovedBroadcast` | consumers that tell an approved change: suppression, marks, both channels; the cron run that prunes them |
| `MCApprovedBroadcast` | small instances for TLC |
| `ApprovedBroadcast_proofs` | `TypeCorrect`, `MarksAreTrue`, `RepeatsHaveACause`, `SkippedAreUpToDate`, `MarksKeepInStep`, `DuplicatesAreSuppressed` |
| `TdxDedupe` | cron runs that turn TDX payloads into queue messages |
| `MCTdxDedupe` | a small instance for TLC |
| `TdxDedupe_proofs` | `TypeCorrect`, `NoRepeatWithoutCause`, `NoneLostSilently` |
| `Subscriptions` | the switches: webhook calls and the migration of the cron run |
| `SharedFeed` | the published feed: consumers and cron runs |
| `CronTick` | composes both: sessions that switch, migrate, publish |
| `MCCronTick` | a small instance for TLC |
| `CronTick_proofs` | `TypeCorrect`, `AnswersAreKept`, `FeedIsKept`, `ImagesAreOwn` |

### PbsTransport

A request is a push and an attempt; the queue message it sends carries the same name.
`handler[r]` is where the HTTP handler of request r is between two awaits, `consumer[r]`
where the consumer of its message is. `l1`, `record`, `clearedAt` and `observatory` are the
L1 map of each isolate, the KV idempotency record, the KV cleared marker and the Observatory
entry. One action stands for the code between two awaits. Faults are explicit and counted:
a KV read that fails or returns an older, absent value; a best-effort KV write that does not
take effect; `queue.send` that fails; a lost request; a handler or a consumer that dies; a
redelivery. The AI decision and the broadcast are one step, `Business`, with three outcomes:
a terminal decision, a failed AI call, an exception. `decided` and `settled` are history.

Time is in minutes; requests (at most two times five seconds) end within one. The 48-hour
lifetime of KV records is longer than any behaviour checked.

### LocalMonitor and ChangeFeed

A payload says of every event a content (what the fingerprint covers), that it is cleared,
or nothing. A round is fetch, record, dispatch. Read, comparison and write of the state file
are one step, because the file has one writer and is replaced by a rename. The changes of a
round are a set; NEW go before UPDATED before CLEARED. `heard[e]` is what the changes the
Worker received say of e, whether or not it answered in time. A failed push, a round whose
log cannot be written and a crash lose changes; `gap` remembers for which events.

`ChangeFeed` is the promise without polling, files, counts or processes: announcements go
through an outbox, are delivered once or lost, never repeated; outside the outbox and the
gaps the listener is in step. The first, quiet baseline is a gap of its own. `LocalMonitor`
implements it with the state file as what is announced: the run `monitorFeed` checks this on
two events, `MonitorImplementsFeed` proves it.

### MonitorLock

The lock path names a file that has a creator, maybe a pid, and an mtime. Exclusive open,
write of the pid, read, stat, unlink and utimes are steps of their own. A handle keeps
writing to the file it created even when the path names another. A pid that is looked up is
running when its process lives or another program has taken it.

### ApprovedBroadcast

Every message has a consumer of its own, and consumers interleave at each await. An accident
reads the suppression blob (`base`), and writes it whole before anything is pushed; then LINE
and Telegram run in parallel, each reading its blob of marks (`copy`), pushing to its pending
targets one by one, and writing the whole copy back with its own marks. `notified[c]` is the
blob of channel c. The array of suppression records is a set of numbered ones (`no`): records are
only appended and never change places, so that `Array.find` takes the one of the lowest number. Which LINE targets are subscribed is chosen anew at every read, from
`Subscriptions`; none at all also stands for `LINE_NOTIFY_ENABLED` off, as in
`wrangler.jsonc`. `Muted` is `suppressLineNotify` for TDX events. All accidents are on one
road and direction: other roads have records of their own that never meet. The clock passes
only where it is read, at the start of an accident's delivery: nothing else compares times.

`told`, `lastTold`, `repeats`, `withheld` are history: what the targets really heard. A pair
of event and target is in doubt (`doubts`) once its mark may be wrong for a reason the code
cannot see: an answer lost, a write failed, a consumer dead between push and write, a blob
written over by a rival or a cron run, a mark pruned, two deliveries of one event at once. `blurred` says
the same of the suppression blob. The properties then say that nothing goes wrong without such a
cause.

Every cron run calls `runLineBroadcast` with no events, and what it then does to the blobs is here
as well: it reads LINE's marks and the suppression blob, stores the latter without the records that
have expired, and stores the marks it read at first without those of events the dedupe has just
retired (`Prunable`: those of TDX, any of them, since `TdxDedupe` decides which). A read or a write
that fails leaves everything as it was. A cron run counts as one fault, which bounds their number.

### AiDecision

A run is one delivery of one report, from the read of the incident memory to the write of the
position cooldown, cut at every await; a retried message is another run. `memory`, `cache` and
`cooldown` are what is in KV; `memoryCopy[r]` and `cooldownCopy[r]` are what run r has read and
will write back whole. Records keep their place in the array (`no`), because
`findPositionCooldownMatch` takes the first near one; of the candidates of the memory only the
newest `MaxCandidates` are shown to the AI, and only the very first is ever updated. The answer
of the AI is any that `validateAiDecisionResponse` lets through; a cached one is used as it is.
The broadcast under it is one step that reaches somebody or nobody. Every read and write may
fail, and a consumer may die, between any two awaits. A failed read is an empty blob, which the
run then writes back.

Left out, and why it makes no difference here: the blobs are those of one road and direction,
since records of other groups pass through untouched; coordinates and the primary source are
written and never compared; candidates that the service area or the low-risk rule excludes end
before anything is read; the cache's 48 hours are beyond the bound; write-on-change never skips,
because every record carries a new time. Time is in half hours, and the clock stands still while
a run is at work, which takes a minute or two. The publication that follows the broadcast is
`SharedFeed`.

`family`, `written`, `memoryGone`, `cooldownGone`, `unseen`, `unnoted` are history: which
incident a sighting went into, and what each run cannot have read. `LowNeverRepeats` and
`RepeatsHaveACause` differ in the impact they speak of; the first is a quotation.

### Subscriptions, SharedFeed and CronTick

A session is a webhook call, a consumer at the end of its broadcast, or a cron run; the last
goes through the migration and then the feed, as `runScheduledTdxSync` does. `subs` and `feed`
are the blobs, `subsCopy[s]` and `feedCopy[s]` what a session has read of them. A switch may be
of the old format, a bare `true`, which every read normalises and a cron run writes back. A
webhook call answers whatever became of its put. `NextFeed` is the whole of
`buildSharedFeedEvents`: own product with its image or the one carried over, retained entries,
newest first, cap; nothing is written when nothing changes. Two sessions overlap when one reads
before the other writes.

`said` is what each target was told last, `latest` the product stored last for each event;
`unsure` and `shaky` are the targets and events that a failed call, an overlap or the cap has
hit. The properties hold outside those. `latest` keeps the moment of the first storing of a
content, so a report that is published again unchanged after its retention, which the feed
stamps anew, is outside `FeedKept`. The feed's key exists from the start, since the very first
cron run writes it; `enabledAt` and the status commands are left out, as nothing of this depends
on them.

### TdxDedupe

A cron run is fetch, read of the dedupe state with classification, commit, and one send per
event that passes the gates; the very first run seeds the state and then the baseline key, in
two puts. Runs do not overlap. `payload` and `healthy` are what the fetch brought, `seen` and
`absence` the fingerprint and the age of `missingSince` in the blob. A source may fail, a
read may fail, a put may fail with or without effect, a send may fail, a run may be cut short
anywhere. TDX changes at will; since only a fetch looks at it, it changes between runs. How
the fingerprint is made, and what the geography and road policy gates say of a content
(`Excluded`), is data. A corrupt blob, read as an empty one, is left out: nothing writes one.

`known`, `missed`, `cause`, `untold` are history: the content last enqueued, how long healthy
payloads have lacked an event, which events may rightly be announced again, and whose present
content was not enqueued. A gap in the runs (a night, an outage) counts as absence once a
healthy payload has lacked the event, as it does in the code.

## Runs

| Run | Instance | What it shows |
|---|---|---|
| `transportDuplicates` | the same change twice, two isolates, one redelivery, failed KV call or lost request | a duplicate answer has work behind it; a message is decided once, unless another one of its key got past both layers |
| `transportOrder` | a change and its clear, two attempts each, one redelivery, failed send, lost handler or lost consumer; fair | types; a message is acknowledged only when its key is settled; nothing older is processed after the clear; accepted stays on the queue until it is settled, and is settled in the end; each decision of a message beyond its first costs a fault |
| `sendFails` | the first enqueue fails | **violation** of `DuplicateAckIsBacked`, see findings |
| `monitorLock` | two scheduled incarnations, one manual start, five ticks | one monitor, which keeps its lock; a dead one does not block for ever |
| `monitorLockRace` | the same with overlapping starts | **violation** of `AtMostOneMonitor`, see findings |
| `monitorFeed` | two events, one of two contents, unbounded edits, failures and crashes; fair | refinement of the feed; changes fit; a clear has evidence; convergence |
| `broadcast` | two messages out of three reports, two LINE targets and Telegram, one fault of any kind or one cron run | marks are true and in step; repeated and withheld contents have a cause; duplicates are suppressed |
| `suppressedUntold` | two reports of one accident, one consumer dies | **violation** of `SuppressedWasTold`, see findings |
| `tdxDedupe` | two sources with an event each, of which one may change to a content that the gates drop, and back; unbounded failures; fair | repeats have a cause, nothing is lost silently, the state converges |
| `aiDecision` | two reports of one accident, three runs, two at once, any answers, one fault | answers fit their question; told twice, or silenced, only with a cause; the memory is kept, and what it says of a notification is true of that very incident |
| `cooldownForgets` | reports at three kilometres, one run at a time, no fault | **violation** of `LowNeverRepeats`, see findings |
| `cronTick` | three sessions, two at once, two targets, three events in a feed for two, one fault | targets are switched as told; finished reports are kept, with images of their own |

Bounds. `MaxFaults` counts faults, `MaxTime` ticks; `MaxDeliveries`, `MaxAttempts` and
`MaxQueueRetries` are the code's own limits (attempts 2; deliveries and retries scaled down
by one so that retry, give-up and drop all happen within small runs). Two isolates show a
request that misses the L1 map of another; two pushes of one key are the smallest case of a
duplicate with a message of its own. The two transport runs divide the kinds of fault between
them: those that make duplicates, and those that lose a message or its handler. In
`transportOrder` time has one tick only, because its two keys differ and neither the L1 map nor
the stale window plays a part between them. The monitor's run has no bound on behaviours: its state space is finite. Of its two
events one has a single content; two would only repeat what the other one does. In the lock's
run the threshold is the smallest that leaves room for two rounds and a sleep. In the
broadcast's run two messages are the smallest race, and each may be redelivered once; the
reports are one event with two contents and one other event near it; the two LINE targets are
subscribed together or not at all, so that one of them can fail and the other not; a window of
one tick and two instants have a record alive and a record expired. The cron run's own window, six
times as long in the code, is as long as the consumers' here, so that a record can expire for both.
The run of `TdxDedupe` has
no bound on behaviours either: two events in two sources let one fail while the other answers,
a grace period of two ticks with pauses of one or two has a run before, at and after its end.
In `aiDecision` three runs are the smallest number that lets two overlap and a third come after
them; the two reports lie at one place, so that every push meets every note, and are exchanged by
the symmetry; the window of one tick, the records' lifetimes of two and three instants have a
note within the window, past it and gone. `cooldownForgets` needs a third place and nothing else
going on. In `cronTick` a feed for two meets its cap with the third session, and a retention and
an image lifetime of one tick have both run out at the last of three instants.

Fairness. In `PbsTransport` handlers and consumers that run go on and the platform delivers
what it holds; nothing forces the monitor to push or the clock to pass. In `LocalMonitor`
the process loops, the watchdog trigger restarts it each minute, and neither a crash nor a
failing fetch or disk prevents the same step for ever (strong fairness of starting a round,
fetching and recording); upstream is not fair at all. In `TdxDedupe` cron starts runs for
ever, and no source, KV operation or platform fails for ever (strong fairness of a fetch from
all sources, and of the commit and the baseline mark after it); TDX is not fair. Safety runs
need no fairness. `ApprovedBroadcast` and `AiDecision` state safety only: the LINE push has no
timeout, so the code justifies no fairness of it, nor of a run that waits for it. A session of
`CronTick` writes once, whatever it finds, and has nothing to converge to.

Runs say `CHECK_DEADLOCK FALSE` where the bounds end the behaviour; the monitor's and
the dedupe's runs have no such end and check deadlock.

Every property of a passing run has a mutant in `PROJECT.json`: a definition replaced by
what a plausible bug would make of it, which the same run then refutes.

## Findings

* `sendFails`: the handler writes the PROCESSING record before `queue.send`. When the send
  fails, the client's retry 100 ms later is answered *duplicate*, the monitor's state file
  is already written, and the change is never enqueued; the comment in the code counts on a
  retry after sixty seconds.
* `monitorLockRace`: a lock file without its pid counts as dead and is unlinked by path, so
  two starts at one moment both succeed.
* `suppressedUntold`: the sighting of an accident is stored before any push. A consumer that
  dies in between is redelivered, meets its own record and returns as suppressed, although
  nobody was notified; the message is then completed.
* `cooldownForgets`: the cooldown keeps one note per place and moves it. After a push at LOW at
  kilometre 10.8 and one at HIGH at 10.0, allowed as a rise, there is one note, at 10.0; a report
  at LOW at 11.5 is out of its reach and is pushed, though within reach and within the hour of
  the first push. The comment in the code says that such a report is blocked whatever the AI says.

## Proofs

`PbsTransport_proofs`. `TypeCorrect` is inductive after tying the delivery counter to the
message and the consumer's place. `AckedAlwaysSettled` rests on an invariant that carries the
settling of a key from the consumer's outcome and the COMPLETED record to the acknowledgement:
a COMPLETED record of a key that is not CLEARED means the key is settled,
so a delivery that is skipped as handled is settled too. `DuplicateAlwaysBacked` assumes
`NoLostEnqueue` (no failed send, no dying handler: the complement of finding `sendFails`)
and rests on: an L1 entry or a KV record exists only if a request of that key is past its
acceptance. `MessagesDecidedOnce` assumes besides that records are read and written and no consumer
dies (`NoLostWork`); redeliveries, lost requests, failed AI calls and retries are not bounded. A
message without a rival of its key has not been decided until it leaves `business`, and carries the
decision to the COMPLETED record, over which only a rival can write. The run checks the same property
with one redelivery, failed KV read or write, or lost request (no dying consumer: after its decision
the next delivery decides again); of two faults, a COMPLETED record that is not written and a
redelivery break it. `DecisionsCostFaults` says by how much, without any assumption and with rivals:
a message is decided at most once more often than there were faults. A consumer that has decided
goes on to the COMPLETED record and the acknowledgement and never to a retry (`PaidInv`), and from
there only its death or a redelivery leads back to `business`, and each of those is a fault.

`NoneProcessedAfterClear` assumes that markers are read and written (`MarkersHold`) and allows all
other faults. The property compares times of generation and acceptance, and the monitor's clock
would not make it hold by itself; the invariant (`ClearInv`) is that a push under way is of the
present tick, and so the clear that is accepted last writes the latest marker there is.

`AcceptedStaysCarried` assumes nothing. What has to be carried along is how the deliveries of a
message stay below `MaxQueueRetries` plus the faults so far (`InReserve`): only a fault makes a
delivery that the code's own count does not end. `EffortRunsOut` gives the measure that makes
deliveries and consumers stop: together they are what `AcceptedIsSettled` says without fairness.

`MonitorLock_proofs`. Under `Orderly` (one start at a time, rounds within `MaxRound`) the
invariant says that a process that holds the lock, up to its own unlink, has its pid in the
file and has touched it at most `Interval + 2 * MaxRound` ago, which is within the
staleness threshold; so whoever starts up finds it running and fresh, and never reaches the
unlink. It holds for any number of processes, crashes and reused pids. `LockTypeCorrect` and
`RefusalEnds` need no such condition.

`LocalMonitor_proofs`. The changes under way are one per event, carry the event as the file
has it, and fit the Worker's belief outside the gaps; outside outbox and gaps belief and
file agree. From this every step maps to a step of `ChangeFeed` or a stutter. The evidence
theorem bounds `missingCount` by the payloads really fetched without the event.
`MonitorTypeCorrect` says besides that a change under way is one the dispatcher knows.

`ApprovedBroadcast_proofs`. The invariant says what outside of doubt every delivery knows of
its event: the targets it reached were told last its own content; of the others its copy of
the marks says what they were told last; and the blob says so too of every target that no
delivery has just reached. Marks alone are not inductive, because a delivery writes back a
copy that was read long before. Together with `Truth` (blobs, copies and marks to come stand
for pushes) this gives all four theorems, for any number of messages, targets and faults.
A cron run takes part (`CronTruth`): its copy stands for pushes too, and each mark it writes is the
one that was there or in doubt.

`DuplicatesAreSuppressed` is about the other blob. What a consumer finds there depends on records
that have been moved, refreshed or dropped by others since, so the invariant (`Recalled`) speaks of
the blob: while it is not blurred, every report that was let through is either witnessed
by a record of its kilometre, seen at that time or later (`Witnessed`), or nobody will look for it
within its window any more (`Outlived`), because the clock, and with it every consumer that has not
read yet, is beyond it. A consumer that finds no record near enough is then outside the window of
every report let through before. It holds for any kilometres, windows, consumers and cron runs.

`TdxDedupe_proofs`. That a repeat has a cause is carried through the state: what the blob or
the payload says otherwise than what was last enqueued has a cause (`Causes`), and an entry
is dropped only by a clock that never ran ahead of what healthy payloads have shown, or that
missed a sighting which could not be recorded (`Clocks`). It holds for any sources, events,
grace period and pauses. `Converges` is model-checked only.

`AiDecision_proofs`. The inductive invariant is `TypeOK` with `Shape` (what a run holds at each
place of its way), `MemoriesAreSound` (whatever blob or copy, a notification in it is the start
of a pushed run whose sighting went into that very incident), `MemoriesAreWhole` (outside `unseen` a blob, and outside what a run cannot
have read its copy, holds every sighting), `CooldownsAreSound` (every note is at the
place and the moment of a push, and one at HIGH has a push at HIGH behind it),
`SilencedWithReason`, `CacheFits` and `AnswerFitsQuestion`. Copies are in every conjunct, since a run writes back what it read long
before. `RepeatsAreCaused` has a condition of its own, `Clustered`: the reach of the cooldown is
transitive among the places of the reports. Without it a note may be moved out of the reach of a
push it stood for, and the theorem is false, as `cooldownForgets` shows; with it the first near
note is always as good as any other.

`CronTick_proofs`. For the switches (`SwitchInv`): outside of doubt a target has at most one
command under way; stored, it is what the blob says; without one the blob says what was answered
last; and the copy of a session agrees with the blob except on targets switched since it read.
For the feed (`FeedInv`): every entry of the blob agrees with the product stored last for its
event, every fresh product has its entry, and the same holds of each copy outside what its
session has not read; the cap and the writers that go over unread entries are what `shaky`
records. `ImagesAreOwn` has no exception: the invariant is that entries and products of all
copies have images of their own content.

Assumptions are those named in the modules (`KeysAssumption`, `BoundsAssumption`,
`ProcAssumption`, `TimeAssumption`, `ContentAssumption`, `ClearAfterAssumption`,
`ApprovalAssumption`, `BroadcastBounds`, `DedupeAssumption`, `ContentOfAssumption`,
`ReportAssumption`, `TimesAssumption`, `RankAssumption`, `CronBounds`, `NoProductAssumption`),
which TLC evaluates in the runs of their modules. Every invariant and action property of the passing runs is
proved. Liveness (`AcceptedIsSettled`, `Converges` of the monitor and of the dedupe) is
model-checked only: fairness and ENABLED are outside the prover's reach.

## Not modelled, and why

Text, geometry and message layout are pure functions over data the properties do not tell
apart. Log retention, health pages, traces and views are diagnostics. The relay HTTP server is a
proxy outside the production path, and the polling of PBS by the Worker is switched off. The
legacy broadcast gets no events in production, since every event goes through the AI path: its
push loop, pending targets, congestion clusters and the escalation mode of incident suppression
are dormant. What its cron run still writes is the migration of the subscriptions, which is
modelled in `CronTick`, and the expiry of suppression records and the pruning of marks, in
`ApprovedBroadcast`. The camera collage before the first push is out: its failure never blocks a push, and what it leaves
behind, an image or none, is an input of `SharedFeed`. The token of TDX is a cache that a failed
fetch passes by, and its usage ledger is a counter for display. Authentication and payload
validation answer before any state is touched. Generated road and camera tables are data.

## Plan

1. `PbsTransport` with proofs: done. 2. `MonitorLock` with proofs: done. 3. `ChangeFeed` and
`LocalMonitor` with proofs: done. 4. `ApprovedBroadcast` with proofs, cron run included: done.
5. `TdxDedupe` with proofs: done. 6. `AiDecision` with proofs: done. 7. `Subscriptions`,
`SharedFeed` and `CronTick` with proofs: done; the legacy push loop is dormant and left.
8. Left: collage budget, token cache. 9. Left: composition of `LocalMonitor` and `TdxDedupe` with
the ingress, for events that return, or toggle back, within the lifetime of their idempotency
record. 10. Left to prove: for `suppressedUntold` the positive side, that an event named as already
notified was let through by a consumer that lived, or died before its pushes; for `Converges`,
the measures that bound how many healthy rounds it takes, as `EffortRunsOut` does for the queue.
