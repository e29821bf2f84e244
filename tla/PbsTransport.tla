----------------------------- MODULE PbsTransport -----------------------------
(***************************************************************************)
(* How one PBS change travels from the Windows monitor to the point where  *)
(* business processing has settled it:                                     *)
(*                                                                         *)
(*   sendDebugPush (two attempts)  ->  handlePbsDebugPush (HTTP ingress,   *)
(*   L1 memory + L2 KV idempotency record)  ->  PBS_AI_QUEUE  ->           *)
(*   handlePbsAiQueueBatch / processQueuedPbsEvent (queue consumer).       *)
(*                                                                         *)
(* A handler is cut at every await, so handlers, the client's timeout and  *)
(* the consumers interleave there.  The AI decision and the broadcast are  *)
(* one step with a chosen outcome; the broadcast has a module of its own.  *)
(*                                                                         *)
(* A failed KV read stands also for one that returns an absent, older      *)
(* value: KV is eventually consistent and has no compare-and-swap.         *)
(*                                                                         *)
(* Not modelled here: authentication and payload validation (they answer   *)
(* before any state is touched), and the 48h expiry of KV records (MaxTime *)
(* stays far below it).                                                    *)
(***************************************************************************)
EXTENDS Integers, FiniteSets

CONSTANTS
    Push,             \* the changes the monitor pushes during a behaviour
    Key,              \* idempotency keys: hash of source, eventId, lifecycle, fingerprint
    Event,            \* (source, eventId) pairs
    KeyOf,            \* KeyOf[p]: the key of push p
    EventOf,          \* EventOf[k]: the event key k is about
    ClearedKeys,      \* the keys whose lifecycle is CLEARED
    Isolate,          \* Worker isolates, each with its own L1 map
    L1Window,         \* IDEMPOTENCY_MEMORY_WINDOW_MS, in ticks of one minute
    ProcessingStale,  \* PROCESSING_STALE_MS, in ticks
    MaxAttempts,      \* DEFAULT_DEBUG_PUSH_MAX_ATTEMPTS
    MaxQueueRetries,  \* MAX_QUEUE_RETRIES
    MaxDeliveries,    \* deliveries the platform makes: max_retries + 1
    Faults,           \* the kinds of fault that may happen
    MaxFaults,        \* bound: how many faults happen in a behaviour
    MaxTime           \* bound: the last tick

FaultKind == {"kvRead", "kvWrite", "send", "netLoss", "ingressCrash",
              "consumerCrash", "redeliver"}

Attempt == 1 .. MaxAttempts
Request == Push \X Attempt    \* one HTTP request, and the queue message it sends

ASSUME KeysAssumption ==
    /\ KeyOf \in [Push -> Key]
    /\ EventOf \in [Key -> Event]
    /\ ClearedKeys \subseteq Key

ASSUME BoundsAssumption ==
    /\ L1Window \in Nat /\ ProcessingStale \in Nat
    /\ MaxAttempts \in Nat \ {0}
    /\ MaxQueueRetries \in Nat \ {0}
    /\ MaxDeliveries \in Nat \ {0}
    /\ Faults \subseteq FaultKind
    /\ MaxFaults \in Nat /\ MaxTime \in Nat

VARIABLES
    now,         \* minutes since the start
    faults,      \* faults that have happened
    client,      \* client[p]: where sendDebugPush is with push p
    attempt,     \* attempt[p]: the attempt it is on
    generatedAt, \* generatedAt[p]: the monitor round that produced p
    l1,          \* l1[i][k]: recentIdempotencyKeys of isolate i
    record,      \* record[k]: the KV idempotency record of k
    clearedAt,   \* clearedAt[e]: the KV cleared marker of e
    handler,     \* handler[r]: where the HTTP handler of request r is
    message,     \* message[r]: the queue message request r sent
    deliveries,  \* deliveries[r]: message.attempts
    consumer,    \* consumer[r]: where the consumer of r's message is
    outcome,     \* outcome[r]: what the consumer is about to record
    observatory, \* observatory[r]: the Observatory entry keyed by r's accept time
    decided,     \* history: how often business processing decided r's message
    settled      \* history: keys with a decision or an authored terminal state

clientVars   == <<client, attempt, generatedAt>>
ingressVars  == <<l1, handler>>
kvVars       == <<record, clearedAt, observatory>>
queueVars    == <<message, deliveries, consumer, outcome>>
historyVars  == <<decided, settled>>
vars == <<now, faults, clientVars, ingressVars, kvVars, queueVars, historyVars>>

-----------------------------------------------------------------------------
(* State *)

Never == -1    \* no timestamp: an absent map entry, an absent marker

ClientState   == {"idle", "waiting", "backoff", "accepted", "duplicate", "failed"}
HandlerState  == {"none", "sent", "get", "put", "observe", "send",
                  "complete", "mark", "done"}
MessageState  == {"none", "queued", "running", "acked", "dropped"}
ConsumerState == {"idle", "get", "marker", "business", "observe", "failed",
                  "complete", "ack"}
Outcome       == {"none", "decided", "stale", "call_failed", "processing_failed"}
RecordType    == [status : {"none", "processing", "completed"}, at : Nat]

NoRecord == [status |-> "none", at |-> 0]

PushKey(r)   == KeyOf[r[1]]
PushEvent(r) == EventOf[PushKey(r)]
IsCleared(k) == k \in ClearedKeys

ClientTypeOK ==
    /\ client \in [Push -> ClientState]
    /\ attempt \in [Push -> 0 .. MaxAttempts]
    /\ generatedAt \in [Push -> Int]

IngressTypeOK ==
    /\ l1 \in [Isolate -> [Key -> Int]]
    /\ handler \in [Request -> HandlerState]

KVTypeOK ==
    /\ record \in [Key -> RecordType]
    /\ clearedAt \in [Event -> Int]
    /\ observatory \in [Request -> Outcome \cup {"started"}]

QueueTypeOK ==
    /\ message \in [Request -> MessageState]
    /\ deliveries \in [Request -> 0 .. MaxDeliveries]
    /\ consumer \in [Request -> ConsumerState]
    /\ outcome \in [Request -> Outcome]

HistoryTypeOK ==
    /\ decided \in [Request -> Nat]
    /\ settled \in SUBSET Key

TypeOK ==
    /\ now \in Nat /\ faults \in Nat
    /\ ClientTypeOK /\ IngressTypeOK /\ KVTypeOK /\ QueueTypeOK /\ HistoryTypeOK

Init ==
    /\ now = 0 /\ faults = 0
    /\ client = [p \in Push |-> "idle"]
    /\ attempt = [p \in Push |-> 0]
    /\ generatedAt = [p \in Push |-> Never]
    /\ l1 = [i \in Isolate |-> [k \in Key |-> Never]]
    /\ record = [k \in Key |-> NoRecord]
    /\ clearedAt = [e \in Event |-> Never]
    /\ handler = [r \in Request |-> "none"]
    /\ message = [r \in Request |-> "none"]
    /\ deliveries = [r \in Request |-> 0]
    /\ consumer = [r \in Request |-> "idle"]
    /\ outcome = [r \in Request |-> "none"]
    /\ observatory = [r \in Request |-> "none"]
    /\ decided = [r \in Request |-> 0]
    /\ settled = {}

\* A fault of kind f happens in this step.
Fault(f) ==
    /\ f \in Faults
    /\ faults < MaxFaults
    /\ faults' = faults + 1

\* A best-effort KV put: its writer goes on whether or not it takes effect.
PutRecord(k, rec) ==
    \/ record' = [record EXCEPT ![k] = rec] /\ UNCHANGED faults
    \/ Fault("kvWrite") /\ UNCHANGED record

PutObservatory(r, entry) ==
    \/ observatory' = [observatory EXCEPT ![r] = entry] /\ UNCHANGED faults
    \/ Fault("kvWrite") /\ UNCHANGED observatory

\* The times of a completed record are never read.
Processing(t) == [status |-> "processing", at |-> t]
Completed     == [status |-> "completed", at |-> 0]

-----------------------------------------------------------------------------
(* The monitor's client: sendDebugPush *)

SessionOpen(p) == client[p] \in {"waiting", "backoff"}
InFlight(r)    == handler[r] \notin {"none", "done"}
Quiet ==
    /\ \A p \in Push : ~SessionOpen(p)
    /\ \A r \in Request : ~InFlight(r)

\* dispatchDebugChanges awaits one push at a time, and two changes of one event
\* come from two monitor rounds.
StartPush(p) ==
    /\ client[p] = "idle"
    /\ \A q \in Push : ~SessionOpen(q)
    /\ \A q \in Push : EventOf[KeyOf[q]] = EventOf[KeyOf[p]] => generatedAt[q] < now
    /\ client' = [client EXCEPT ![p] = "waiting"]
    /\ attempt' = [attempt EXCEPT ![p] = 1]
    /\ generatedAt' = [generatedAt EXCEPT ![p] = now]
    /\ handler' = [handler EXCEPT ![<<p, 1>>] = "sent"]
    /\ UNCHANGED <<now, faults, l1, kvVars, queueVars, historyVars>>

\* The second attempt, 100 ms later, with the same payload.
RetryPush(p) ==
    /\ client[p] = "backoff"
    /\ client' = [client EXCEPT ![p] = "waiting"]
    /\ attempt' = [attempt EXCEPT ![p] = @ + 1]
    /\ handler' = [handler EXCEPT ![<<p, attempt[p] + 1>>] = "sent"]
    /\ UNCHANGED <<now, faults, generatedAt, l1, kvVars, queueVars,
                   historyVars>>

\* Mutant: one attempt too many.
BackoffAnyway(p) == IF attempt[p] <= MaxAttempts THEN "backoff" ELSE "failed"

AfterFailure(p) == IF attempt[p] < MaxAttempts THEN "backoff" ELSE "failed"

\* The client's timeout (or a broken connection) does not stop the handler.
ClientTimeout(p) ==
    /\ client[p] = "waiting"
    /\ client' = [client EXCEPT ![p] = AfterFailure(p)]
    /\ UNCHANGED <<now, faults, attempt, generatedAt, ingressVars, kvVars, queueVars,
                   historyVars>>

\* Handler r answers; the client sees it if it still waits on that attempt.
Respond(r, answer) ==
    LET p == r[1]
        awaited == client[p] = "waiting" /\ attempt[p] = r[2]
    IN  /\ handler' = [handler EXCEPT ![r] = "done"]
        /\ client' = IF ~awaited THEN client
                     ELSE [client EXCEPT ![p] = IF answer = "error" THEN AfterFailure(p)
                                                ELSE answer]
        /\ UNCHANGED <<attempt, generatedAt>>

-----------------------------------------------------------------------------
(* The HTTP ingress: handlePbsDebugPush *)

\* A request that never reaches the Worker.
LoseRequest(r) ==
    /\ handler[r] = "sent"
    /\ Fault("netLoss")
    /\ handler' = [handler EXCEPT ![r] = "done"]
    /\ UNCHANGED <<now, clientVars, l1, kvVars, queueVars, historyVars>>

\* checkAndRecordMemory: an entry is refreshed by every look, a hit included.
RememberedIn(i, k) == l1[i][k] # Never /\ now - l1[i][k] <= L1Window

Receive(r, i) ==
    /\ handler[r] = "sent"
    /\ l1' = [l1 EXCEPT ![i][PushKey(r)] = now]
    /\ IF RememberedIn(i, PushKey(r))
       THEN Respond(r, "duplicate")
       ELSE /\ handler' = [handler EXCEPT ![r] = "get"]
            /\ UNCHANGED clientVars
    /\ UNCHANGED <<now, faults, kvVars, queueVars, historyVars>>

\* A PROCESSING record this old is taken for a lost attempt.
StaleProcessing(k) ==
    /\ record[k].status = "processing"
    /\ now - record[k].at >= ProcessingStale

\* kv.get of the record: absent or stale is accepted, a failed read too.
ReadRecord(r) ==
    LET k == PushKey(r)
    IN  /\ handler[r] = "get"
        /\ \/ /\ record[k].status = "none" \/ StaleProcessing(k)
              /\ handler' = [handler EXCEPT ![r] = "put"]
              /\ UNCHANGED <<faults, clientVars>>
           \/ /\ record[k].status # "none" /\ ~StaleProcessing(k)
              /\ Respond(r, "duplicate")
              /\ UNCHANGED faults
           \/ /\ Fault("kvRead")
              /\ handler' = [handler EXCEPT ![r] = "put"]
              /\ UNCHANGED clientVars
        /\ UNCHANGED <<now, l1, kvVars, queueVars, historyVars>>

\* Mutant: the CLEARED branch is taken for every lifecycle.
AlwaysCompleteAtOnce(r) == "complete"

\* What follows acceptance: only a change that is not CLEARED is enqueued.
AfterMark(r) == IF IsCleared(PushKey(r)) THEN "complete" ELSE "observe"

MarkProcessing(r) ==
    /\ handler[r] = "put"
    /\ PutRecord(PushKey(r), Processing(now))
    /\ handler' = [handler EXCEPT ![r] = AfterMark(r)]
    /\ UNCHANGED <<now, clientVars, l1, clearedAt, observatory, queueVars,
                   historyVars>>

ObserveStarted(r) ==
    /\ handler[r] = "observe"
    /\ PutObservatory(r, "started")
    /\ handler' = [handler EXCEPT ![r] = "send"]
    /\ UNCHANGED <<now, clientVars, l1, record, clearedAt, queueVars,
                   historyVars>>

\* queue.send: accepted only once enqueued, 503 when the enqueue fails.
SendToQueue(r) ==
    /\ handler[r] = "send"
    /\ \/ /\ message' = [message EXCEPT ![r] = "queued"]
          /\ Respond(r, "accepted")
          /\ UNCHANGED faults
       \/ /\ Fault("send")
          /\ Respond(r, "error")
          /\ UNCHANGED message
    /\ UNCHANGED <<now, l1, kvVars, deliveries, consumer, outcome,
                   historyVars>>

\* A CLEARED push has nothing to enqueue: its record is completed at once ...
CompleteCleared(r) ==
    /\ handler[r] = "complete"
    /\ PutRecord(PushKey(r), Completed)
    /\ handler' = [handler EXCEPT ![r] = "mark"]
    /\ UNCHANGED <<now, clientVars, l1, clearedAt, observatory, queueVars,
                   historyVars>>

\* ... and recordPbsEventCleared leaves the marker the consumers look for.
RecordCleared(r) ==
    /\ handler[r] = "mark"
    /\ \/ /\ clearedAt' = [clearedAt EXCEPT ![PushEvent(r)] = generatedAt[r[1]]]
          /\ UNCHANGED faults
       \/ Fault("kvWrite") /\ UNCHANGED clearedAt
    /\ Respond(r, "accepted")
    /\ UNCHANGED <<now, l1, record, observatory, queueVars, historyVars>>

\* The invocation dies between two awaits.
IngressCrash(r) ==
    /\ InFlight(r) /\ handler[r] # "sent"
    /\ Fault("ingressCrash")
    /\ handler' = [handler EXCEPT ![r] = "done"]
    /\ UNCHANGED <<now, clientVars, l1, kvVars, queueVars, historyVars>>

\* An idle isolate is recycled: its L1 map is gone, KV stays.
RecycleIsolate(i) ==
    /\ Quiet
    /\ \E k \in Key : l1[i][k] # Never
    /\ l1' = [l1 EXCEPT ![i] = [k \in Key |-> Never]]
    /\ UNCHANGED <<now, faults, clientVars, handler, kvVars, queueVars,
                   historyVars>>

-----------------------------------------------------------------------------
(* The queue (external, as wrangler.jsonc configures it) *)

Deliver(r) ==
    /\ message[r] = "queued"
    /\ message' = [message EXCEPT ![r] = "running"]
    /\ deliveries' = [deliveries EXCEPT ![r] = @ + 1]
    /\ consumer' = [consumer EXCEPT ![r] = "get"]
    /\ UNCHANGED <<now, faults, clientVars, ingressVars, kvVars, outcome, historyVars>>

\* message.retry(), or a lost invocation: once more while the platform's
\* retries last, then gone (no dead letter queue is configured).
Requeue(r) ==
    /\ message' = [message EXCEPT ![r] = IF deliveries[r] < MaxDeliveries THEN "queued"
                                         ELSE "dropped"]
    /\ consumer' = [consumer EXCEPT ![r] = "idle"]
    /\ outcome' = [outcome EXCEPT ![r] = "none"]
    /\ UNCHANGED deliveries

\* At-least-once: an acknowledged message may come again.
Redeliver(r) ==
    /\ message[r] = "acked" /\ deliveries[r] < MaxDeliveries
    /\ Fault("redeliver")
    /\ message' = [message EXCEPT ![r] = "queued"]
    /\ UNCHANGED <<now, clientVars, ingressVars, kvVars, deliveries, consumer, outcome,
                   historyVars>>

ConsumerCrash(r) ==
    /\ message[r] = "running"
    /\ Fault("consumerCrash")
    /\ Requeue(r)
    /\ UNCHANGED <<now, clientVars, ingressVars, kvVars, historyVars>>

-----------------------------------------------------------------------------
(* The consumer: processQueuedPbsEvent under handlePbsAiQueueBatch *)

At(r, place) == message[r] = "running" /\ consumer[r] = place
Goto(r, place) == consumer' = [consumer EXCEPT ![r] = place]

\* Mutants: any record at all is taken for finished work; none ever is.
HandledOrStarted(k) == record[k].status # "none"
NeverHandled(k) == FALSE

Handled(k) == record[k].status = "completed"

\* A completed record ends the delivery; a failed read goes on (fail open).
CheckCompleted(r) ==
    /\ At(r, "get")
    /\ \/ Handled(PushKey(r)) /\ Goto(r, "ack") /\ UNCHANGED faults
       \/ ~Handled(PushKey(r)) /\ Goto(r, "marker") /\ UNCHANGED faults
       \/ Fault("kvRead") /\ Goto(r, "marker")
    /\ UNCHANGED <<now, clientVars, ingressVars, kvVars, message, deliveries, outcome,
                   historyVars>>

\* Mutant: the comparison the other way round.
ClearedBeforehand(r) == clearedAt[PushEvent(r)] < generatedAt[r[1]]

\* The event has been cleared strictly after this message was generated.
StaleAfterCleared(r) == clearedAt[PushEvent(r)] > generatedAt[r[1]]

CheckCleared(r) ==
    /\ At(r, "marker")
    /\ \/ /\ StaleAfterCleared(r)
          /\ Goto(r, "observe")
          /\ outcome' = [outcome EXCEPT ![r] = "stale"]
          /\ settled' = settled \cup {PushKey(r)}
          /\ UNCHANGED faults
       \/ /\ ~StaleAfterCleared(r)
          /\ Goto(r, "business")
          /\ UNCHANGED <<outcome, settled, faults>>
       \/ /\ Fault("kvRead")
          /\ Goto(r, "business")
          /\ UNCHANGED <<outcome, settled>>
    /\ UNCHANGED <<now, clientVars, ingressVars, kvVars, message, deliveries, decided>>

\* Candidate, AI decision and broadcast: a terminal outcome, a failed AI call,
\* or an exception.
Business(r) ==
    /\ At(r, "business")
    /\ \/ /\ outcome' = [outcome EXCEPT ![r] = "decided"]
          /\ decided' = [decided EXCEPT ![r] = @ + 1]
          /\ settled' = settled \cup {PushKey(r)}
          /\ Goto(r, "observe")
       \/ /\ outcome' = [outcome EXCEPT ![r] = "call_failed"]
          /\ Goto(r, "observe")
          /\ UNCHANGED historyVars
       \/ /\ Goto(r, "failed")
          /\ UNCHANGED <<outcome, historyVars>>
    /\ UNCHANGED <<now, faults, clientVars, ingressVars, kvVars, message, deliveries>>

\* Mutant: every delivery ends in a retry.
AlwaysRetried(r) == "failed"

\* Only a failed AI call is left to the queue's retry.
AfterOutcome(r) == IF outcome[r] = "call_failed" THEN "failed" ELSE "complete"

\* The Observatory write that follows each outcome.
ObserveOutcome(r) ==
    /\ At(r, "observe")
    /\ PutObservatory(r, outcome[r])
    /\ Goto(r, AfterOutcome(r))
    /\ UNCHANGED <<now, clientVars, ingressVars, record, clearedAt, message, deliveries,
                   outcome, historyVars>>

\* Mutant: one attempt too late for the platform.
RetriesOverrun(n) == n > MaxDeliveries

\* Checked one delivery before the platform itself would stop.
RetriesExhausted(n) == n >= MaxQueueRetries

RetryMessage(r) ==
    /\ At(r, "failed")
    /\ ~RetriesExhausted(deliveries[r])
    /\ Requeue(r)
    /\ UNCHANGED <<now, faults, clientVars, ingressVars, kvVars, historyVars>>

\* The last allowed attempt failed: PROCESSING_FAILED is authored here.
GiveUp(r) ==
    /\ At(r, "failed")
    /\ RetriesExhausted(deliveries[r])
    /\ outcome' = [outcome EXCEPT ![r] = "processing_failed"]
    /\ settled' = settled \cup {PushKey(r)}
    /\ Goto(r, "observe")
    /\ UNCHANGED <<now, faults, clientVars, ingressVars, kvVars, message, deliveries,
                   decided>>

\* markProcessingComplete.
MarkComplete(r) ==
    /\ At(r, "complete")
    /\ PutRecord(PushKey(r), Completed)
    /\ Goto(r, "ack")
    /\ UNCHANGED <<now, clientVars, ingressVars, clearedAt, observatory, message,
                   deliveries, outcome, historyVars>>

Ack(r) ==
    /\ At(r, "ack")
    /\ message' = [message EXCEPT ![r] = "acked"]
    /\ consumer' = [consumer EXCEPT ![r] = "idle"]
    /\ outcome' = [outcome EXCEPT ![r] = "none"]
    /\ UNCHANGED <<now, faults, clientVars, ingressVars, kvVars, deliveries, historyVars>>

-----------------------------------------------------------------------------
(* The specification *)

\* A request (two attempts of five seconds) ends within the minute it began;
\* a consumer may be at work for many.
Tick ==
    /\ now < MaxTime
    /\ Quiet
    /\ now' = now + 1
    /\ UNCHANGED <<faults, clientVars, ingressVars, kvVars, queueVars, historyVars>>

ClientStep(p) == StartPush(p) \/ RetryPush(p) \/ ClientTimeout(p)

IngressStep(r) ==
    \/ \E i \in Isolate : Receive(r, i)
    \/ ReadRecord(r) \/ MarkProcessing(r) \/ ObserveStarted(r) \/ SendToQueue(r)
    \/ CompleteCleared(r) \/ RecordCleared(r)

ConsumerStep(r) ==
    \/ CheckCompleted(r) \/ CheckCleared(r) \/ Business(r) \/ ObserveOutcome(r)
    \/ RetryMessage(r) \/ GiveUp(r) \/ MarkComplete(r) \/ Ack(r)

FaultStep(r) == LoseRequest(r) \/ IngressCrash(r) \/ ConsumerCrash(r) \/ Redeliver(r)

Next ==
    \/ Tick
    \/ \E p \in Push : ClientStep(p)
    \/ \E i \in Isolate : RecycleIsolate(i)
    \/ \E r \in Request :
          IngressStep(r) \/ Deliver(r) \/ ConsumerStep(r) \/ FaultStep(r)

Spec == Init /\ [][Next]_vars

\* A running handler or consumer goes on, and the platform delivers what it
\* holds.  Nothing makes the monitor push or the clock pass.
Fairness ==
    \A r \in Request :
        WF_vars(IngressStep(r)) /\ WF_vars(Deliver(r)) /\ WF_vars(ConsumerStep(r))

FairSpec == Spec /\ Fairness

-----------------------------------------------------------------------------
(* Properties *)

\* The queue never lets go of a change silently: a message is acknowledged only
\* when its key has a decision or an authored terminal state (STALE_AFTER_CLEARED,
\* PROCESSING_FAILED), whatever crashed, failed or came twice before.
AckedIsSettled ==
    \A r \in Request : message[r] = "acked" => PushKey(r) \in settled

\* Somebody has put key k on the queue or is about to.
Backed(k) ==
    \E r \in Request :
        /\ PushKey(r) = k
        /\ handler[r] \in {"get", "put", "observe", "send"} \/ message[r] # "none"

\* A duplicate answer makes the monitor forget the change for good, so behind it
\* there must be a request of the same key that is, or will be, on the queue.
DuplicateAckIsBacked ==
    \A p \in Push :
        client[p] = "duplicate" /\ ~IsCleared(KeyOf[p]) => Backed(KeyOf[p])

\* The CLEARED push p has been accepted and no handler of it is left.  (When its
\* first attempt dies after the L1 entry and before the marker, the second one is
\* answered duplicate, and there is no marker.)
ClearedFor(p, e) ==
    /\ IsCleared(KeyOf[p]) /\ EventOf[KeyOf[p]] = e
    /\ client[p] = "accepted"
    /\ \A a \in Attempt : ~InFlight(<<p, a>>)

\* Once the monitor has been told that a clear was accepted, no delivery of an
\* older change of that event enters business processing any more.
NoBusinessAfterClear ==
    [][\A r \in Request :
          consumer[r] # "business" /\ consumer'[r] = "business" =>
              ~ \E p \in Push : ClearedFor(p, PushEvent(r))
                                /\ generatedAt[p] > generatedAt[r[1]]]_vars

\* The message of r shares its key with another one on the queue, or about to be.
Rivalled(r) ==
    \E q \in Request \ {r} :
        PushKey(q) = PushKey(r) /\ (handler[q] \in {"observe", "send"} \/ message[q] # "none")

\* A redelivered or retried message whose earlier attempt completed adds no
\* second AI decision (BUSINESS_OUTCOME_MODEL = EFFECTIVELY_ONCE), except when a
\* second request of the same key got past both idempotency layers: KV has no
\* compare-and-swap, so that request can put PROCESSING over COMPLETED.  (Two
\* faults of one message, a COMPLETED record that is not written or not read and
\* then a redelivery, do it too; no layer can see that.)
DecidedOnce ==
    \A r \in Request : decided[r] > 1 => Rivalled(r)

\* A consumer that dies after its decision is followed by another one, and so may a
\* redelivery be; but each decision of a message beyond its first costs such a fault.
\* No order of deliveries, retries and client attempts alone decides a message twice.
DecisionsArePaid == \A r \in Request : decided[r] <= faults + 1

\* Until it is settled, a change the monitor was told is accepted stays on the
\* queue: the code authors the end of a message (RetriesExhausted) before the
\* platform drops it, unless faults use up the deliveries kept in reserve.
AcceptedIsCarried ==
    \A p \in Push :
        client[p] = "accepted" /\ ~IsCleared(KeyOf[p]) =>
            \/ KeyOf[p] \in settled
            \/ \E r \in Request : /\ PushKey(r) = KeyOf[p]
                                  /\ message[r] \in {"queued", "running"}
            \/ faults > MaxDeliveries - MaxQueueRetries

\* A change the monitor was told is accepted is eventually settled, through
\* failed AI calls, exceptions and a lost consumer.
AcceptedIsSettled ==
    \A p \in Push :
        client[p] = "accepted" /\ ~IsCleared(KeyOf[p]) ~> KeyOf[p] \in settled

=============================================================================
