------------------------- MODULE PbsTransport_proofs -------------------------
(***************************************************************************)
(* Theorems about PbsTransport for every number of pushes, keys, isolates, *)
(* attempts, retries and faults.                                           *)
(***************************************************************************)
EXTENDS PbsTransport, TLAPS

(* Type correctness.  TypeOK is not inductive: the counters stay in range  *)
(* because of where the client and the message are.                        *)

QueuedHasRoom == \A r \in Request : message[r] = "queued" => deliveries[r] < MaxDeliveries

BackoffHasRoom == \A p \in Push : client[p] = "backoff" => attempt[p] < MaxAttempts

TypeInv == TypeOK /\ QueuedHasRoom /\ BackoffHasRoom

\* A request is made once, attempt after attempt, and sends one message.
IdleBeforeAttempts == \A p \in Push : client[p] = "idle" => attempt[p] = 0

NotYetRequested == \A r \in Request : r[2] > attempt[r[1]] => handler[r] = "none"

NotYetSent ==
    \A r \in Request : handler[r] # "done" => message[r] = "none" /\ deliveries[r] = 0

RequestInv == IdleBeforeAttempts /\ NotYetRequested /\ NotYetSent

LEMMA RequestParts ==
    ASSUME NEW r \in Request
    PROVE  /\ r[1] \in Push /\ r[2] \in Attempt
           /\ PushKey(r) \in Key /\ PushEvent(r) \in Event
BY KeysAssumption DEF Request, PushKey, PushEvent

LEMMA TypeInvInit == Init => TypeInv
BY BoundsAssumption DEF Init, TypeInv, TypeOK, ClientTypeOK, IngressTypeOK, KVTypeOK,
   QueueTypeOK, HistoryTypeOK, QueuedHasRoom, BackoffHasRoom, ClientState, HandlerState,
   MessageState, ConsumerState, Outcome, RecordType, NoRecord, Never

(* A group of variables that a step leaves alone keeps its type.           *)

LEMMA ClientFrame ==
    ASSUME ClientTypeOK, BackoffHasRoom, UNCHANGED clientVars
    PROVE  ClientTypeOK' /\ BackoffHasRoom'
BY DEF ClientTypeOK, BackoffHasRoom, clientVars

LEMMA IngressFrame == ASSUME IngressTypeOK, UNCHANGED ingressVars PROVE IngressTypeOK'
BY DEF IngressTypeOK, ingressVars

LEMMA KVFrame == ASSUME KVTypeOK, UNCHANGED kvVars PROVE KVTypeOK'
BY DEF KVTypeOK, kvVars

LEMMA QueueFrame ==
    ASSUME QueueTypeOK, QueuedHasRoom, UNCHANGED queueVars
    PROVE  QueueTypeOK' /\ QueuedHasRoom'
BY DEF QueueTypeOK, QueuedHasRoom, queueVars

LEMMA HistoryFrame == ASSUME HistoryTypeOK, UNCHANGED historyVars PROVE HistoryTypeOK'
BY DEF HistoryTypeOK, historyVars

LEMMA TypeInvClient ==
    ASSUME TypeInv, NEW p \in Push, ClientStep(p)
    PROVE  TypeInv'
<1>0. ClientTypeOK /\ BackoffHasRoom /\ now \in Nat /\ MaxAttempts \in Nat \ {0}
  BY BoundsAssumption DEF TypeInv, TypeOK
<1>1. ClientTypeOK'
  <2> USE <1>0 DEF ClientTypeOK, ClientState
  <2>1. CASE StartPush(p)
    BY <2>1 DEF StartPush
  <2>2. CASE RetryPush(p)
    BY <2>2 DEF RetryPush, BackoffHasRoom
  <2>3. CASE ClientTimeout(p)
    BY <2>3 DEF ClientTimeout, AfterFailure
  <2> QED
    BY <2>1, <2>2, <2>3 DEF ClientStep
<1>2. BackoffHasRoom'
  <2> USE <1>0 DEF ClientTypeOK, ClientState, BackoffHasRoom
  <2>1. CASE StartPush(p)
    BY <2>1 DEF StartPush
  <2>2. CASE RetryPush(p)
    BY <2>2 DEF RetryPush
  <2>3. CASE ClientTimeout(p)
    BY <2>3 DEF ClientTimeout, AfterFailure
  <2> QED
    BY <2>1, <2>2, <2>3 DEF ClientStep
<1>3. IngressTypeOK'
  <2> USE DEF TypeInv, TypeOK, IngressTypeOK, HandlerState, ingressVars
  <2>1. CASE StartPush(p)
    BY <2>1 DEF StartPush
  <2>2. CASE RetryPush(p)
    BY <2>2 DEF RetryPush
  <2>3. CASE ClientTimeout(p)
    BY <2>3 DEF ClientTimeout
  <2> QED
    BY <2>1, <2>2, <2>3 DEF ClientStep
<1>4. UNCHANGED <<now, faults, kvVars, queueVars, historyVars>>
  BY DEF ClientStep, StartPush, RetryPush, ClientTimeout
<1> QED
  BY <1>1, <1>2, <1>3, <1>4, KVFrame, QueueFrame, HistoryFrame DEF TypeInv, TypeOK

(* What the helpers of the handlers do to the types.                       *)

LEMMA RespondTypes ==
    ASSUME TypeInv, NEW r \in Request, NEW answer \in {"accepted", "duplicate", "error"},
           Respond(r, answer)
    PROVE  ClientTypeOK' /\ BackoffHasRoom' /\ handler' \in [Request -> HandlerState]
<1>1. r[1] \in Push
  BY RequestParts
<1>2. ClientTypeOK /\ BackoffHasRoom /\ handler \in [Request -> HandlerState]
  BY DEF TypeInv, TypeOK, IngressTypeOK
<1>3. MaxAttempts \in Nat
  BY BoundsAssumption
<1>4. AfterFailure(r[1]) \in {"backoff", "failed"}
  BY DEF AfterFailure
<1>5. AfterFailure(r[1]) = "backoff" => attempt[r[1]] < MaxAttempts
  BY DEF AfterFailure
<1>6. handler' \in [Request -> HandlerState]
  BY <1>2 DEF Respond, HandlerState
<1>7. ClientTypeOK'
  BY <1>1, <1>2, <1>4 DEF Respond, ClientTypeOK, ClientState
<1>8. BackoffHasRoom'
  BY <1>1, <1>2, <1>4, <1>5 DEF Respond, ClientTypeOK, BackoffHasRoom
<1> QED
  BY <1>6, <1>7, <1>8

LEMMA FaultTypes == ASSUME faults \in Nat, NEW f, Fault(f) PROVE faults' \in Nat
BY DEF Fault

LEMMA PutRecordTypes ==
    ASSUME TypeInv, NEW k \in Key, NEW rec \in RecordType, PutRecord(k, rec)
    PROVE  record' \in [Key -> RecordType] /\ faults' \in Nat
BY FaultTypes DEF PutRecord, TypeInv, TypeOK, KVTypeOK

LEMMA PutObservatoryTypes ==
    ASSUME TypeInv, NEW r \in Request, NEW entry \in Outcome \cup {"started"},
           PutObservatory(r, entry)
    PROVE  observatory' \in [Request -> Outcome \cup {"started"}] /\ faults' \in Nat
BY FaultTypes DEF PutObservatory, TypeInv, TypeOK, KVTypeOK

LEMMA RequeueTypes ==
    ASSUME TypeInv, NEW r \in Request, Requeue(r)
    PROVE  QueueTypeOK' /\ QueuedHasRoom'
<1>1. QueueTypeOK /\ QueuedHasRoom
  BY DEF TypeInv, TypeOK
<1>2. QueueTypeOK'
  BY <1>1 DEF Requeue, QueueTypeOK, MessageState, ConsumerState, Outcome
<1>3. QueuedHasRoom'
  BY <1>1 DEF Requeue, QueueTypeOK, QueuedHasRoom
<1> QED
  BY <1>2, <1>3

LEMMA TypeInvIngress ==
    ASSUME TypeInv, RequestInv, NEW r \in Request, IngressStep(r)
    PROVE  TypeInv'
<1> USE DEF TypeInv, TypeOK
<1>1. CASE \E i \in Isolate : Receive(r, i)
  <2> PICK i \in Isolate : Receive(r, i)
    BY <1>1
  <2>1. l1' \in [Isolate -> [Key -> Int]]
    BY RequestParts DEF Receive, IngressTypeOK
  <2>2. ClientTypeOK' /\ BackoffHasRoom' /\ handler' \in [Request -> HandlerState]
    <3>1. CASE RememberedIn(i, PushKey(r))
      BY <3>1, RespondTypes DEF Receive
    <3>2. CASE ~RememberedIn(i, PushKey(r))
      BY <3>2, ClientFrame DEF Receive, IngressTypeOK, HandlerState
    <3> QED
      BY <3>1, <3>2
  <2>3. UNCHANGED <<now, faults, kvVars, queueVars, historyVars>>
    BY DEF Receive
  <2> QED
    BY <2>1, <2>2, <2>3, KVFrame, QueueFrame, HistoryFrame DEF IngressTypeOK
<1>2. CASE ReadRecord(r)
  <2>1. ClientTypeOK' /\ BackoffHasRoom' /\ handler' \in [Request -> HandlerState]
    BY <1>2, RespondTypes, ClientFrame DEF ReadRecord, IngressTypeOK, HandlerState
  <2>2. faults' \in Nat
    BY <1>2, FaultTypes DEF ReadRecord
  <2>3. UNCHANGED <<now, l1, kvVars, queueVars, historyVars>>
    BY <1>2 DEF ReadRecord
  <2> QED
    BY <2>1, <2>2, <2>3, KVFrame, QueueFrame, HistoryFrame DEF IngressTypeOK
<1>3. CASE MarkProcessing(r)
  <2>1. Processing(now) \in RecordType
    BY DEF Processing, RecordType
  <2>2. record' \in [Key -> RecordType] /\ faults' \in Nat
    BY <1>3, <2>1, RequestParts, PutRecordTypes DEF MarkProcessing
  <2>3. handler' \in [Request -> HandlerState]
    BY <1>3 DEF MarkProcessing, AfterMark, IngressTypeOK, HandlerState
  <2>4. UNCHANGED <<now, clientVars, l1, clearedAt, observatory, queueVars, historyVars>>
    BY <1>3 DEF MarkProcessing
  <2> QED
    BY <2>2, <2>3, <2>4, ClientFrame, QueueFrame, HistoryFrame DEF IngressTypeOK, KVTypeOK
<1>4. CASE ObserveStarted(r)
  <2>1. observatory' \in [Request -> Outcome \cup {"started"}] /\ faults' \in Nat
    BY <1>4, PutObservatoryTypes DEF ObserveStarted
  <2>2. handler' \in [Request -> HandlerState]
    BY <1>4 DEF ObserveStarted, IngressTypeOK, HandlerState
  <2>3. UNCHANGED <<now, clientVars, l1, record, clearedAt, queueVars, historyVars>>
    BY <1>4 DEF ObserveStarted
  <2> QED
    BY <2>1, <2>2, <2>3, ClientFrame, QueueFrame, HistoryFrame DEF IngressTypeOK, KVTypeOK
<1>5. CASE SendToQueue(r)
  <2>1. ClientTypeOK' /\ BackoffHasRoom' /\ handler' \in [Request -> HandlerState]
    BY <1>5, RespondTypes DEF SendToQueue
  <2>2. faults' \in Nat
    BY <1>5, FaultTypes DEF SendToQueue
  <2>3. UNCHANGED <<now, l1, kvVars, deliveries, consumer, outcome, historyVars>>
    BY <1>5 DEF SendToQueue
  <2>4. QueueTypeOK'
    BY <1>5, <2>3 DEF SendToQueue, QueueTypeOK, MessageState
  <2>5. QueuedHasRoom'
    <3>1. deliveries[r] = 0 /\ 0 < MaxDeliveries
      BY <1>5, BoundsAssumption DEF SendToQueue, RequestInv, NotYetSent
    <3> QED
      BY <1>5, <2>3, <3>1 DEF SendToQueue, QueueTypeOK, QueuedHasRoom
  <2> QED
    BY <2>1, <2>2, <2>3, <2>4, <2>5, KVFrame, HistoryFrame DEF IngressTypeOK
<1>6. CASE CompleteCleared(r)
  <2>1. Completed \in RecordType
    BY DEF Completed, RecordType
  <2>2. record' \in [Key -> RecordType] /\ faults' \in Nat
    BY <1>6, <2>1, RequestParts, PutRecordTypes DEF CompleteCleared
  <2>3. handler' \in [Request -> HandlerState]
    BY <1>6 DEF CompleteCleared, IngressTypeOK, HandlerState
  <2>4. UNCHANGED <<now, clientVars, l1, clearedAt, observatory, queueVars, historyVars>>
    BY <1>6 DEF CompleteCleared
  <2> QED
    BY <2>2, <2>3, <2>4, ClientFrame, QueueFrame, HistoryFrame DEF IngressTypeOK, KVTypeOK
<1>7. CASE RecordCleared(r)
  <2>1. ClientTypeOK' /\ BackoffHasRoom' /\ handler' \in [Request -> HandlerState]
    BY <1>7, RespondTypes DEF RecordCleared
  <2>2. clearedAt' \in [Event -> Int] /\ faults' \in Nat
    BY <1>7, RequestParts, FaultTypes DEF RecordCleared, KVTypeOK, ClientTypeOK
  <2>3. UNCHANGED <<now, l1, record, observatory, queueVars, historyVars>>
    BY <1>7 DEF RecordCleared
  <2> QED
    BY <2>1, <2>2, <2>3, QueueFrame, HistoryFrame DEF IngressTypeOK, KVTypeOK
<1> QED
  BY <1>1, <1>2, <1>3, <1>4, <1>5, <1>6, <1>7 DEF IngressStep

LEMMA TypeInvConsumer ==
    ASSUME TypeInv, NEW r \in Request, ConsumerStep(r)
    PROVE  TypeInv'
<1> USE DEF TypeInv, TypeOK
<1>1. CASE CheckCompleted(r)
  <2>1. QueueTypeOK' /\ QueuedHasRoom'
    BY <1>1 DEF CheckCompleted, At, Goto, QueueTypeOK, QueuedHasRoom, ConsumerState
  <2>2. faults' \in Nat
    BY <1>1, FaultTypes DEF CheckCompleted
  <2>3. UNCHANGED <<now, clientVars, ingressVars, kvVars, historyVars>>
    BY <1>1 DEF CheckCompleted
  <2> QED
    BY <2>1, <2>2, <2>3, ClientFrame, IngressFrame, KVFrame, HistoryFrame
<1>2. CASE CheckCleared(r)
  <2>1. QueueTypeOK' /\ QueuedHasRoom'
    BY <1>2 DEF CheckCleared, At, Goto, QueueTypeOK, QueuedHasRoom, ConsumerState, Outcome
  <2>2. faults' \in Nat
    BY <1>2, FaultTypes DEF CheckCleared
  <2>3. HistoryTypeOK'
    BY <1>2, RequestParts DEF CheckCleared, HistoryTypeOK
  <2>4. UNCHANGED <<now, clientVars, ingressVars, kvVars>>
    BY <1>2 DEF CheckCleared
  <2> QED
    BY <2>1, <2>2, <2>3, <2>4, ClientFrame, IngressFrame, KVFrame
<1>3. CASE Business(r)
  <2>1. QueueTypeOK' /\ QueuedHasRoom'
    BY <1>3 DEF Business, At, Goto, QueueTypeOK, QueuedHasRoom, ConsumerState, Outcome,
       historyVars
  <2>2. HistoryTypeOK'
    BY <1>3, RequestParts DEF Business, HistoryTypeOK, historyVars
  <2>3. UNCHANGED <<now, faults, clientVars, ingressVars, kvVars>>
    BY <1>3 DEF Business
  <2> QED
    BY <2>1, <2>2, <2>3, ClientFrame, IngressFrame, KVFrame
<1>4. CASE ObserveOutcome(r)
  <2>1. observatory' \in [Request -> Outcome \cup {"started"}] /\ faults' \in Nat
    BY <1>4, PutObservatoryTypes DEF ObserveOutcome, QueueTypeOK
  <2>2. QueueTypeOK' /\ QueuedHasRoom'
    BY <1>4 DEF ObserveOutcome, AfterOutcome, Goto, QueueTypeOK, QueuedHasRoom, ConsumerState
  <2>3. UNCHANGED <<now, clientVars, ingressVars, record, clearedAt, historyVars>>
    BY <1>4 DEF ObserveOutcome
  <2> QED
    BY <2>1, <2>2, <2>3, ClientFrame, IngressFrame, HistoryFrame DEF KVTypeOK
<1>5. CASE RetryMessage(r)
  <2>1. QueueTypeOK' /\ QueuedHasRoom'
    BY <1>5, RequeueTypes DEF RetryMessage
  <2>2. UNCHANGED <<now, faults, clientVars, ingressVars, kvVars, historyVars>>
    BY <1>5 DEF RetryMessage
  <2> QED
    BY <2>1, <2>2, ClientFrame, IngressFrame, KVFrame, HistoryFrame
<1>6. CASE GiveUp(r)
  <2>1. QueueTypeOK' /\ QueuedHasRoom'
    BY <1>6 DEF GiveUp, At, Goto, QueueTypeOK, QueuedHasRoom, ConsumerState, Outcome
  <2>2. HistoryTypeOK'
    BY <1>6, RequestParts DEF GiveUp, HistoryTypeOK
  <2>3. UNCHANGED <<now, faults, clientVars, ingressVars, kvVars>>
    BY <1>6 DEF GiveUp
  <2> QED
    BY <2>1, <2>2, <2>3, ClientFrame, IngressFrame, KVFrame
<1>7. CASE MarkComplete(r)
  <2>1. Completed \in RecordType
    BY DEF Completed, RecordType
  <2>2. record' \in [Key -> RecordType] /\ faults' \in Nat
    BY <1>7, <2>1, RequestParts, PutRecordTypes DEF MarkComplete
  <2>3. QueueTypeOK' /\ QueuedHasRoom'
    BY <1>7 DEF MarkComplete, Goto, QueueTypeOK, QueuedHasRoom, ConsumerState
  <2>4. UNCHANGED <<now, clientVars, ingressVars, clearedAt, observatory, historyVars>>
    BY <1>7 DEF MarkComplete
  <2> QED
    BY <2>2, <2>3, <2>4, ClientFrame, IngressFrame, HistoryFrame DEF KVTypeOK
<1>8. CASE Ack(r)
  <2>1. QueueTypeOK' /\ QueuedHasRoom'
    BY <1>8 DEF Ack, QueueTypeOK, QueuedHasRoom, MessageState, ConsumerState, Outcome
  <2>2. UNCHANGED <<now, faults, clientVars, ingressVars, kvVars, historyVars>>
    BY <1>8 DEF Ack
  <2> QED
    BY <2>1, <2>2, ClientFrame, IngressFrame, KVFrame, HistoryFrame
<1> QED
  BY <1>1, <1>2, <1>3, <1>4, <1>5, <1>6, <1>7, <1>8 DEF ConsumerStep

LEMMA TypeInvPlatform ==
    ASSUME TypeInv, NEW r \in Request, Deliver(r) \/ FaultStep(r)
    PROVE  TypeInv'
<1> USE DEF TypeInv, TypeOK
<1>1. CASE Deliver(r)
  <2>1. QueueTypeOK' /\ QueuedHasRoom'
    <3>1. deliveries[r] + 1 \in 0 .. MaxDeliveries
      BY <1>1, BoundsAssumption DEF Deliver, QueuedHasRoom, QueueTypeOK
    <3> QED
      BY <1>1, <3>1 DEF Deliver, QueueTypeOK, QueuedHasRoom, MessageState, ConsumerState
  <2>2. UNCHANGED <<now, faults, clientVars, ingressVars, kvVars, historyVars>>
    BY <1>1 DEF Deliver
  <2> QED
    BY <2>1, <2>2, ClientFrame, IngressFrame, KVFrame, HistoryFrame
<1>2. CASE LoseRequest(r) \/ IngressCrash(r)
  <2>1. IngressTypeOK' /\ faults' \in Nat
    BY <1>2, FaultTypes DEF LoseRequest, IngressCrash, IngressTypeOK, HandlerState
  <2>2. UNCHANGED <<now, clientVars, kvVars, queueVars, historyVars>>
    BY <1>2 DEF LoseRequest, IngressCrash
  <2> QED
    BY <2>1, <2>2, ClientFrame, KVFrame, QueueFrame, HistoryFrame
<1>3. CASE ConsumerCrash(r)
  <2>1. QueueTypeOK' /\ QueuedHasRoom' /\ faults' \in Nat
    BY <1>3, RequeueTypes, FaultTypes DEF ConsumerCrash
  <2>2. UNCHANGED <<now, clientVars, ingressVars, kvVars, historyVars>>
    BY <1>3 DEF ConsumerCrash
  <2> QED
    BY <2>1, <2>2, ClientFrame, IngressFrame, KVFrame, HistoryFrame
<1>4. CASE Redeliver(r)
  <2>1. QueueTypeOK' /\ QueuedHasRoom' /\ faults' \in Nat
    BY <1>4, FaultTypes DEF Redeliver, QueueTypeOK, QueuedHasRoom, MessageState
  <2>2. UNCHANGED <<now, clientVars, ingressVars, kvVars, historyVars>>
    BY <1>4 DEF Redeliver
  <2> QED
    BY <2>1, <2>2, ClientFrame, IngressFrame, KVFrame, HistoryFrame
<1> QED
  BY <1>1, <1>2, <1>3, <1>4 DEF FaultStep

LEMMA TypeInvRest ==
    ASSUME TypeInv, Tick \/ (\E i \in Isolate : RecycleIsolate(i)) \/ UNCHANGED vars
    PROVE  TypeInv'
<1> USE DEF TypeInv, TypeOK
<1>1. CASE Tick
  BY <1>1, ClientFrame, IngressFrame, KVFrame, QueueFrame, HistoryFrame DEF Tick
<1>2. CASE \E i \in Isolate : RecycleIsolate(i)
  <2>1. IngressTypeOK'
    BY <1>2 DEF RecycleIsolate, IngressTypeOK, Never
  <2> QED
    BY <1>2, <2>1, ClientFrame, KVFrame, QueueFrame, HistoryFrame DEF RecycleIsolate
<1>3. CASE UNCHANGED vars
  BY <1>3, ClientFrame, IngressFrame, KVFrame, QueueFrame, HistoryFrame DEF vars
<1> QED
  BY <1>1, <1>2, <1>3

(* A handler moves from a state that is neither "none" nor "done"; only    *)
(* SendToQueue makes a message, and ends its handler.                      *)

LEMMA IngressMoves ==
    ASSUME TypeInv, NEW r \in Request, IngressStep(r)
    PROVE  /\ handler[r] \notin {"none", "done"}
           /\ \E h \in HandlerState : handler' = [handler EXCEPT ![r] = h]
           /\ attempt' = attempt
           /\ \A p \in Push : client'[p] = "idle" => client[p] = "idle"
           /\ UNCHANGED <<message, deliveries>> \/ SendToQueue(r)
<1>1. client \in [Push -> ClientState] /\ r[1] \in Push
  BY RequestParts DEF TypeInv, TypeOK, ClientTypeOK
<1>2. ASSUME NEW answer \in {"accepted", "duplicate", "error"}, Respond(r, answer)
      PROVE  /\ \E h \in HandlerState : handler' = [handler EXCEPT ![r] = h]
             /\ attempt' = attempt
             /\ \A p \in Push : client'[p] = "idle" => client[p] = "idle"
  BY <1>1, <1>2 DEF Respond, AfterFailure, HandlerState
<1>3. CASE \E i \in Isolate : Receive(r, i)
  BY <1>2, <1>3 DEF Receive, clientVars, queueVars, HandlerState
<1>4. CASE ReadRecord(r)
  BY <1>2, <1>4 DEF ReadRecord, clientVars, queueVars, HandlerState
<1>5. CASE MarkProcessing(r)
  BY <1>5 DEF MarkProcessing, AfterMark, clientVars, queueVars, HandlerState
<1>6. CASE ObserveStarted(r)
  BY <1>6 DEF ObserveStarted, clientVars, queueVars, HandlerState
<1>7. CASE SendToQueue(r)
  BY <1>2, <1>7 DEF SendToQueue
<1>8. CASE CompleteCleared(r)
  BY <1>8 DEF CompleteCleared, clientVars, queueVars, HandlerState
<1>9. CASE RecordCleared(r)
  BY <1>2, <1>9 DEF RecordCleared, queueVars
<1> QED
  BY <1>3, <1>4, <1>5, <1>6, <1>7, <1>8, <1>9 DEF IngressStep

(* A message that is handled exists already, and still exists afterwards.  *)

LEMMA QueueMoves ==
    ASSUME TypeInv, NEW r \in Request,
           Deliver(r) \/ ConsumerStep(r) \/ ConsumerCrash(r) \/ Redeliver(r)
    PROVE  /\ message[r] # "none"
           /\ \E m \in MessageState \ {"none"} : message' = [message EXCEPT ![r] = m]
           /\ \A q \in Request \ {r} : deliveries'[q] = deliveries[q]
           /\ UNCHANGED <<clientVars, ingressVars>>
<1> USE DEF TypeInv, TypeOK, QueueTypeOK, At, Goto, MessageState
<1>1. CASE Deliver(r)
  BY <1>1 DEF Deliver
<1>2. CASE ConsumerStep(r)
  <2>1. ASSUME At(r, "failed"), Requeue(r)
        PROVE  /\ message[r] # "none"
               /\ \E m \in MessageState \ {"none"} : message' = [message EXCEPT ![r] = m]
               /\ deliveries' = deliveries
    BY <2>1 DEF Requeue
  <2>2. message[r] = "running"
    BY <1>2 DEF ConsumerStep, CheckCompleted, CheckCleared, Business, ObserveOutcome,
       RetryMessage, GiveUp, MarkComplete, Ack
  <2>3. UNCHANGED <<clientVars, ingressVars, deliveries>>
    BY <1>2, <2>1 DEF ConsumerStep, CheckCompleted, CheckCleared, Business, ObserveOutcome,
       RetryMessage, GiveUp, MarkComplete, Ack
  <2>4. \E m \in MessageState \ {"none"} : message' = [message EXCEPT ![r] = m]
    BY <1>2, <2>1, <2>2 DEF ConsumerStep, CheckCompleted, CheckCleared, Business,
       ObserveOutcome, RetryMessage, GiveUp, MarkComplete, Ack
  <2> QED
    BY <2>2, <2>3, <2>4
<1>3. CASE ConsumerCrash(r)
  BY <1>3 DEF ConsumerCrash, Requeue
<1>4. CASE Redeliver(r)
  BY <1>4 DEF Redeliver
<1> QED
  BY <1>1, <1>2, <1>3, <1>4

LEMMA RequestInvStep ==
    ASSUME TypeInv, RequestInv, [Next]_vars
    PROVE  RequestInv'
<1> USE DEF RequestInv, IdleBeforeAttempts, NotYetRequested, NotYetSent
<1>0. /\ client \in [Push -> ClientState] /\ attempt \in [Push -> 0 .. MaxAttempts]
      /\ handler \in [Request -> HandlerState] /\ message \in [Request -> MessageState]
      /\ deliveries \in [Request -> 0 .. MaxDeliveries]
  BY DEF TypeInv, TypeOK, ClientTypeOK, IngressTypeOK, QueueTypeOK
<1>1. ASSUME NEW p \in Push, ClientStep(p)
      PROVE  RequestInv'
  <2>1. CASE StartPush(p)
    BY <1>0, <2>1, BoundsAssumption DEF StartPush, queueVars, Request, Attempt
  <2>2. CASE RetryPush(p)
    BY <1>0, <2>2 DEF RetryPush, queueVars, Request, Attempt
  <2>3. CASE ClientTimeout(p)
    BY <1>0, <2>3 DEF ClientTimeout, AfterFailure, ingressVars, queueVars
  <2> QED
    BY <1>1, <2>1, <2>2, <2>3 DEF ClientStep
<1>2. ASSUME NEW r \in Request, IngressStep(r)
      PROVE  RequestInv'
  <2>1. CASE UNCHANGED <<message, deliveries>>
    BY <1>0, <1>2, <2>1, IngressMoves
  <2>2. CASE SendToQueue(r)
    BY <1>0, <1>2, <2>2, IngressMoves DEF SendToQueue, Respond
  <2> QED
    BY <1>2, <2>1, <2>2, IngressMoves
<1>3. ASSUME NEW r \in Request,
             Deliver(r) \/ ConsumerStep(r) \/ ConsumerCrash(r) \/ Redeliver(r)
      PROVE  RequestInv'
  BY <1>0, <1>3, QueueMoves DEF clientVars, ingressVars
<1>4. ASSUME NEW r \in Request, LoseRequest(r) \/ IngressCrash(r)
      PROVE  RequestInv'
  BY <1>0, <1>4 DEF LoseRequest, IngressCrash, InFlight, clientVars, queueVars
<1>5. CASE Tick \/ (\E i \in Isolate : RecycleIsolate(i)) \/ UNCHANGED vars
  BY <1>5 DEF Tick, RecycleIsolate, vars, clientVars, ingressVars, queueVars
<1> QED
  BY <1>1, <1>2, <1>3, <1>4, <1>5 DEF Next, FaultStep

LEMMA TypeInvStep ==
    ASSUME TypeInv, RequestInv, [Next]_vars
    PROVE  TypeInv'
BY TypeInvClient, TypeInvIngress, TypeInvConsumer, TypeInvPlatform, TypeInvRest DEF Next

LEMMA RequestInvInit == Init => RequestInv
BY DEF Init, RequestInv, IdleBeforeAttempts, NotYetRequested, NotYetSent

\* Every reachable state is well-typed, whatever fails: counters stay within the
\* platform's and the client's limits.
THEOREM TypeCorrect == Spec => []TypeOK
<1>1. Init => TypeInv /\ RequestInv
  BY TypeInvInit, RequestInvInit
<1>2. TypeInv /\ RequestInv /\ [Next]_vars => (TypeInv /\ RequestInv)'
  BY TypeInvStep, RequestInvStep
<1>3. TypeInv => TypeOK
  BY DEF TypeInv
<1> QED
  BY <1>1, <1>2, <1>3, PTL DEF Spec

(* What is acknowledged is settled.  The acknowledgement is the end of a   *)
(* chain: it follows from a completed record or from the consumer's own    *)
(* terminal branch, and a record of a change that is not CLEARED is only   *)
(* completed by a consumer that has settled it.                            *)

CompletedIsSettled ==
    \A k \in Key : record[k].status = "completed" /\ ~IsCleared(k) => k \in settled

ClearedLane == \A r \in Request : handler[r] \in {"complete", "mark"} => IsCleared(PushKey(r))

QueueLane ==
    \A r \in Request :
        handler[r] \in {"observe", "send"} \/ message[r] # "none" => ~IsCleared(PushKey(r))

TerminalIsSettled ==
    \A r \in Request :
        \/ consumer[r] \in {"complete", "ack"}
        \/ consumer[r] = "observe" /\ outcome[r] # "call_failed"
        => PushKey(r) \in settled

SettleInv ==
    /\ CompletedIsSettled /\ ClearedLane /\ QueueLane /\ TerminalIsSettled
    /\ AckedIsSettled

LEMMA SettleInvInit == Init => SettleInv
BY RequestParts DEF Init, SettleInv, CompletedIsSettled, ClearedLane, QueueLane,
   TerminalIsSettled, AckedIsSettled, NoRecord

LEMMA PutRecordStatus ==
    ASSUME TypeInv, NEW k \in Key, NEW rec, PutRecord(k, rec), NEW j \in Key
    PROVE  record'[j] = record[j] \/ (j = k /\ record'[j] = rec)
BY DEF PutRecord, TypeInv, TypeOK, KVTypeOK

(* An ingress step: only RecordCleared's lane writes a completed record.   *)

LEMMA SettleInvIngress ==
    ASSUME TypeInv, RequestInv, SettleInv, NEW r \in Request, IngressStep(r)
    PROVE  SettleInv'
<1>0. /\ handler \in [Request -> HandlerState] /\ message \in [Request -> MessageState]
      /\ record \in [Key -> RecordType]
  BY DEF TypeInv, TypeOK, IngressTypeOK, QueueTypeOK, KVTypeOK
<1>1. UNCHANGED <<consumer, outcome, settled>>
  BY DEF IngressStep, Receive, ReadRecord, MarkProcessing, ObserveStarted, SendToQueue,
     CompleteCleared, RecordCleared, queueVars, historyVars
<1>2. CompletedIsSettled'
  <2>1. CASE MarkProcessing(r)
    <3> SUFFICES ASSUME NEW k \in Key, record'[k].status = "completed", ~IsCleared(k)
                 PROVE  k \in settled
      BY <1>1 DEF CompletedIsSettled, IsCleared
    <3>1. record'[k] = record[k]
      BY <2>1, PutRecordStatus, RequestParts DEF MarkProcessing, Processing
    <3> QED
      BY <3>1 DEF SettleInv, CompletedIsSettled
  <2>2. CASE CompleteCleared(r)
    <3> SUFFICES ASSUME NEW k \in Key, record'[k].status = "completed", ~IsCleared(k)
                 PROVE  k \in settled
      BY <1>1 DEF CompletedIsSettled, IsCleared
    <3>1. IsCleared(PushKey(r))
      BY <2>2 DEF CompleteCleared, SettleInv, ClearedLane
    <3>2. record'[k] = record[k]
      BY <2>2, <3>1, PutRecordStatus, RequestParts DEF CompleteCleared
    <3> QED
      BY <3>2 DEF SettleInv, CompletedIsSettled
  <2>3. CASE ~MarkProcessing(r) /\ ~CompleteCleared(r)
    <3>1. record' = record
      BY <2>3 DEF IngressStep, Receive, ReadRecord, ObserveStarted, SendToQueue,
         RecordCleared, kvVars
    <3> QED
      BY <1>1, <3>1 DEF SettleInv, CompletedIsSettled, IsCleared
  <2> QED
    BY <2>1, <2>2, <2>3
<1>3. ClearedLane' /\ QueueLane' /\ AckedIsSettled'
  <2>1. CASE SendToQueue(r)
    BY <1>0, <1>1, <2>1 DEF SendToQueue, Respond, SettleInv, ClearedLane, QueueLane,
       AckedIsSettled, PushKey, IsCleared
  <2>2. CASE ~SendToQueue(r)
    <3>1. message' = message
      BY <2>2, IngressMoves
    <3>2. \A q \in Request \ {r} : handler'[q] = handler[q]
      BY <1>0, IngressMoves
    <3>3. /\ handler'[r] \in {"complete", "mark"} => IsCleared(PushKey(r))
          /\ handler'[r] \in {"observe", "send"} => ~IsCleared(PushKey(r))
      BY <1>0, <2>2 DEF IngressStep, Receive, ReadRecord, MarkProcessing, AfterMark,
         ObserveStarted, CompleteCleared, RecordCleared, Respond, SettleInv, ClearedLane,
         QueueLane
    <3> QED
      BY <1>1, <3>1, <3>2, <3>3 DEF SettleInv, ClearedLane, QueueLane, AckedIsSettled,
         PushKey, IsCleared
  <2> QED
    BY <2>1, <2>2
<1>4. TerminalIsSettled'
  BY <1>1 DEF SettleInv, TerminalIsSettled, PushKey
<1> QED
  BY <1>2, <1>3, <1>4 DEF SettleInv

(* A consumer step: it settles its key before it turns terminal.           *)

LEMMA SettleInvConsumer ==
    ASSUME TypeInv, SettleInv, NEW r \in Request, ConsumerStep(r)
    PROVE  SettleInv'
<1>0. /\ message \in [Request -> MessageState] /\ record \in [Key -> RecordType]
      /\ consumer \in [Request -> ConsumerState] /\ outcome \in [Request -> Outcome]
  BY DEF TypeInv, TypeOK, QueueTypeOK, KVTypeOK
<1>1. UNCHANGED handler /\ settled \subseteq settled'
  BY DEF ConsumerStep, CheckCompleted, CheckCleared, Business, ObserveOutcome, RetryMessage,
     GiveUp, MarkComplete, Ack, ingressVars, historyVars
<1>2. message[r] # "none" /\ message[r] = "running" /\ ~IsCleared(PushKey(r))
  BY DEF ConsumerStep, At, CheckCompleted, CheckCleared, Business, ObserveOutcome,
     RetryMessage, GiveUp, MarkComplete, Ack, SettleInv, QueueLane
<1>3. \A q \in Request \ {r} :
         message'[q] = message[q] /\ consumer'[q] = consumer[q] /\ outcome'[q] = outcome[q]
  BY <1>0 DEF ConsumerStep, Goto, CheckCompleted, CheckCleared, Business, ObserveOutcome,
     RetryMessage, Requeue, GiveUp, MarkComplete, Ack
<1>4. CompletedIsSettled'
  <2>1. CASE MarkComplete(r)
    <3> SUFFICES ASSUME NEW k \in Key, record'[k].status = "completed", ~IsCleared(k)
                 PROVE  k \in settled
      BY <1>1 DEF CompletedIsSettled, IsCleared
    <3>1. PushKey(r) \in settled
      BY <2>1 DEF MarkComplete, At, SettleInv, TerminalIsSettled
    <3>2. k = PushKey(r) \/ record'[k] = record[k]
      BY <2>1, PutRecordStatus, RequestParts DEF MarkComplete
    <3> QED
      BY <3>1, <3>2 DEF SettleInv, CompletedIsSettled
  <2>2. CASE ~MarkComplete(r)
    <3>1. record' = record
      BY <2>2 DEF ConsumerStep, CheckCompleted, CheckCleared, Business, ObserveOutcome,
         RetryMessage, GiveUp, Ack, kvVars
    <3> QED
      BY <1>1, <3>1 DEF SettleInv, CompletedIsSettled, IsCleared
  <2> QED
    BY <2>1, <2>2
<1>5. ClearedLane' /\ QueueLane'
  BY <1>1, <1>2, <1>3 DEF SettleInv, ClearedLane, QueueLane, PushKey, IsCleared
<1>6. consumer'[r] \in {"complete", "ack"}
      \/ (consumer'[r] = "observe" /\ outcome'[r] # "call_failed")
      => PushKey(r) \in settled'
  <2>1. CASE CheckCompleted(r)
    BY <1>0, <1>1, <1>2, <2>1, RequestParts DEF CheckCompleted, At, Goto, Handled, SettleInv,
       CompletedIsSettled
  <2>2. CASE CheckCleared(r) \/ Business(r) \/ GiveUp(r)
    BY <1>0, <2>2 DEF CheckCleared, Business, GiveUp, Goto
  <2>3. CASE ObserveOutcome(r) \/ MarkComplete(r)
    BY <1>0, <1>1, <2>3 DEF ObserveOutcome, AfterOutcome, MarkComplete, At, Goto, SettleInv,
       TerminalIsSettled
  <2>4. CASE RetryMessage(r) \/ Ack(r)
    BY <1>0, <2>4 DEF RetryMessage, Requeue, Ack
  <2> QED
    BY <2>1, <2>2, <2>3, <2>4 DEF ConsumerStep
<1>7. message'[r] = "acked" => PushKey(r) \in settled'
  <2>1. CASE Ack(r)
    BY <1>1, <2>1 DEF Ack, At, SettleInv, TerminalIsSettled
  <2>2. CASE RetryMessage(r)
    BY <1>0, <2>2 DEF RetryMessage, Requeue
  <2>3. CASE ~Ack(r) /\ ~RetryMessage(r)
    BY <1>2, <2>3 DEF ConsumerStep, CheckCompleted, CheckCleared, Business, ObserveOutcome,
       GiveUp, MarkComplete
  <2> QED
    BY <2>1, <2>2, <2>3
<1>8. TerminalIsSettled' /\ AckedIsSettled'
  BY <1>1, <1>3, <1>6, <1>7 DEF SettleInv, TerminalIsSettled, AckedIsSettled, PushKey
<1> QED
  BY <1>4, <1>5, <1>8 DEF SettleInv

(* Steps of the client, the platform and the clock do not settle anything. *)

LEMMA SettleInvRest ==
    ASSUME TypeInv, RequestInv, SettleInv, [Next]_vars,
           ~ \E r \in Request : IngressStep(r) \/ ConsumerStep(r)
    PROVE  SettleInv'
<1>0. /\ handler \in [Request -> HandlerState] /\ message \in [Request -> MessageState]
      /\ consumer \in [Request -> ConsumerState] /\ outcome \in [Request -> Outcome]
  BY DEF TypeInv, TypeOK, IngressTypeOK, QueueTypeOK
<1> USE DEF SettleInv, CompletedIsSettled, ClearedLane, QueueLane, TerminalIsSettled,
            AckedIsSettled, PushKey, IsCleared, kvVars, historyVars
<1>1. ASSUME NEW p \in Push, ClientStep(p)
      PROVE  SettleInv'
  <2>1. \A r \in Request : handler'[r] = handler[r] \/ handler'[r] = "sent"
    BY <1>0, <1>1 DEF ClientStep, StartPush, RetryPush, ClientTimeout, ingressVars
  <2>2. UNCHANGED <<kvVars, queueVars, historyVars>>
    BY <1>1 DEF ClientStep, StartPush, RetryPush, ClientTimeout
  <2> QED
    BY <2>1, <2>2 DEF queueVars
<1>2. ASSUME NEW r \in Request, Deliver(r)
      PROVE  SettleInv'
  BY <1>0, <1>2 DEF Deliver, ingressVars
<1>3. ASSUME NEW r \in Request, FaultStep(r)
      PROVE  SettleInv'
  <2>1. CASE LoseRequest(r) \/ IngressCrash(r)
    BY <1>0, <2>1 DEF LoseRequest, IngressCrash, queueVars
  <2>2. CASE ConsumerCrash(r)
    BY <1>0, <2>2 DEF ConsumerCrash, Requeue, ingressVars
  <2>3. CASE Redeliver(r)
    BY <1>0, <2>3 DEF Redeliver, ingressVars
  <2> QED
    BY <1>3, <2>1, <2>2, <2>3 DEF FaultStep
<1>4. CASE Tick \/ (\E i \in Isolate : RecycleIsolate(i)) \/ UNCHANGED vars
  BY <1>4 DEF Tick, RecycleIsolate, vars, ingressVars, queueVars
<1> QED
  BY <1>1, <1>2, <1>3, <1>4 DEF Next

LEMMA InvStep ==
    ASSUME TypeInv, RequestInv, SettleInv, [Next]_vars
    PROVE  (TypeInv /\ RequestInv /\ SettleInv)'
BY TypeInvStep, RequestInvStep, SettleInvIngress, SettleInvConsumer, SettleInvRest

\* The queue lets go of no change silently, for any number of pushes, retries and
\* faults: an acknowledged message has a decision or an authored terminal state.
THEOREM AckedAlwaysSettled == Spec => []AckedIsSettled
<1>1. Init => TypeInv /\ RequestInv /\ SettleInv
  BY TypeInvInit, RequestInvInit, SettleInvInit
<1>2. TypeInv /\ RequestInv /\ SettleInv /\ [Next]_vars
      => (TypeInv /\ RequestInv /\ SettleInv)'
  BY InvStep
<1>3. SettleInv => AckedIsSettled
  BY DEF SettleInv
<1> QED
  BY <1>1, <1>2, <1>3, PTL DEF Spec

(* Behind every duplicate answer there is a request that is on the queue   *)
(* or on its way, provided no enqueue fails and no handler dies half-way.  *)
(* A record and a memory entry may only speak for such a request, and such *)
(* a request stays one.                                                    *)

NoLostEnqueue == "send" \notin Faults /\ "ingressCrash" \notin Faults

Started(k) ==
    \E r \in Request :
        PushKey(r) = k /\ (handler[r] \in {"observe", "send"} \/ message[r] # "none")

RecordIsBacked == \A k \in Key : record[k].status # "none" /\ ~IsCleared(k) => Started(k)

MemoryIsBacked ==
    \A i \in Isolate, k \in Key : l1[i][k] # Never /\ ~IsCleared(k) => Backed(k)

BackingInv == RecordIsBacked /\ MemoryIsBacked /\ DuplicateAckIsBacked

LEMMA BackingInvInit == Init => BackingInv
BY KeysAssumption DEF Init, BackingInv, RecordIsBacked, MemoryIsBacked,
   DuplicateAckIsBacked, NoRecord

LEMMA StartedIsBacked == ASSUME NEW k \in Key, Started(k) PROVE Backed(k)
BY DEF Started, Backed

(* What a step leaves of request q when it is not an ingress step of q.    *)

LEMMA OthersKeep ==
    ASSUME TypeInv, RequestInv, NoLostEnqueue, [Next]_vars,
           NEW q \in Request, ~IngressStep(q)
    PROVE  /\ handler[q] \notin {"none", "sent"} => handler'[q] = handler[q]
           /\ message[q] # "none" => message'[q] # "none"
<1>0. /\ handler \in [Request -> HandlerState] /\ message \in [Request -> MessageState]
      /\ attempt \in [Push -> 0 .. MaxAttempts]
  BY DEF TypeInv, TypeOK, ClientTypeOK, IngressTypeOK, QueueTypeOK
<1>1. ASSUME NEW p \in Push, ClientStep(p)
      PROVE  /\ handler[q] \notin {"none", "sent"} => handler'[q] = handler[q]
             /\ message'[q] = message[q]
  <2>1. CASE StartPush(p)
    BY <1>0, <2>1 DEF StartPush, RequestInv, IdleBeforeAttempts, NotYetRequested, queueVars
  <2>2. CASE RetryPush(p)
    BY <1>0, <2>2 DEF RetryPush, RequestInv, NotYetRequested, queueVars
  <2>3. CASE ClientTimeout(p)
    BY <2>3 DEF ClientTimeout, ingressVars, queueVars
  <2> QED
    BY <1>1, <2>1, <2>2, <2>3 DEF ClientStep
<1>2. ASSUME NEW r \in Request, IngressStep(r)
      PROVE  handler'[q] = handler[q] /\ message'[q] = message[q]
  <2>1. r # q
    BY <1>2
  <2>2. CASE SendToQueue(r)
    BY <1>0, <2>1, <2>2 DEF SendToQueue, Respond
  <2>3. CASE UNCHANGED message
    BY <1>0, <1>2, <2>1, <2>3, IngressMoves
  <2> QED
    BY <1>2, <2>2, <2>3, IngressMoves
<1>3. ASSUME NEW r \in Request,
             Deliver(r) \/ ConsumerStep(r) \/ ConsumerCrash(r) \/ Redeliver(r)
      PROVE  handler'[q] = handler[q] /\ (message[q] # "none" => message'[q] # "none")
  BY <1>0, <1>3, QueueMoves DEF ingressVars
<1>4. ASSUME NEW r \in Request, LoseRequest(r) \/ IngressCrash(r)
      PROVE  /\ handler[q] \notin {"none", "sent"} => handler'[q] = handler[q]
             /\ message'[q] = message[q]
  BY <1>0, <1>4 DEF LoseRequest, IngressCrash, Fault, NoLostEnqueue, queueVars
<1>5. CASE Tick \/ (\E i \in Isolate : RecycleIsolate(i)) \/ UNCHANGED vars
  BY <1>5 DEF Tick, RecycleIsolate, vars, ingressVars, queueVars
<1> QED
  BY <1>1, <1>2, <1>3, <1>4, <1>5 DEF Next, FaultStep

LEMMA StartedRequestStays ==
    ASSUME TypeInv, RequestInv, NoLostEnqueue, [Next]_vars,
           NEW q \in Request, handler[q] \in {"observe", "send"} \/ message[q] # "none"
    PROVE  handler'[q] \in {"observe", "send"} \/ message'[q] # "none"
<1>0. handler \in [Request -> HandlerState] /\ message \in [Request -> MessageState]
  BY DEF TypeInv, TypeOK, IngressTypeOK, QueueTypeOK
<1>1. CASE IngressStep(q)
  <2>1. handler[q] \in {"observe", "send"}
    BY <1>1, IngressMoves DEF RequestInv, NotYetSent
  <2> QED
    BY <1>0, <1>1, <2>1 DEF IngressStep, Receive, ReadRecord, MarkProcessing,
       ObserveStarted, SendToQueue, CompleteCleared, RecordCleared, Fault, NoLostEnqueue
<1>2. CASE ~IngressStep(q)
  BY <1>2, OthersKeep
<1> QED
  BY <1>1, <1>2

LEMMA StartedStable ==
    ASSUME TypeInv, RequestInv, NoLostEnqueue, [Next]_vars, NEW k \in Key, Started(k)
    PROVE  Started(k)'
<1>1. PICK q \in Request :
         PushKey(q) = k /\ (handler[q] \in {"observe", "send"} \/ message[q] # "none")
  BY DEF Started
<1>2. handler'[q] \in {"observe", "send"} \/ message'[q] # "none"
  BY <1>1, StartedRequestStays
<1> QED
  BY <1>1, <1>2 DEF Started, PushKey

LEMMA BackedStable ==
    ASSUME TypeInv, RequestInv, NoLostEnqueue, RecordIsBacked, [Next]_vars,
           NEW k \in Key, ~IsCleared(k), Backed(k)
    PROVE  Backed(k)'
<1>0. handler \in [Request -> HandlerState] /\ message \in [Request -> MessageState]
  BY DEF TypeInv, TypeOK, IngressTypeOK, QueueTypeOK
<1>1. CASE Started(k)
  BY <1>1, StartedStable DEF Started, Backed
<1>2. CASE ~Started(k)
  <2>1. PICK q \in Request : PushKey(q) = k /\ handler[q] \in {"get", "put"}
    BY <1>2 DEF Backed, Started
  <2>2. record[k].status = "none"
    BY <1>2 DEF RecordIsBacked
  <2>3. handler'[q] \in {"get", "put", "observe", "send"}
    <3>1. CASE IngressStep(q)
      BY <1>0, <2>1, <2>2, <3>1 DEF IngressStep, Receive, ReadRecord, MarkProcessing,
         AfterMark, ObserveStarted, SendToQueue, CompleteCleared, RecordCleared
    <3>2. CASE ~IngressStep(q)
      BY <2>1, <3>2, OthersKeep
    <3> QED
      BY <3>1, <3>2
  <2> QED
    BY <2>1, <2>3 DEF Backed, PushKey
<1> QED
  BY <1>1, <1>2

LEMMA RecordBackedStep ==
    ASSUME TypeInv, RequestInv, SettleInv, NoLostEnqueue, RecordIsBacked, [Next]_vars
    PROVE  RecordIsBacked'
<1>0. /\ handler \in [Request -> HandlerState] /\ message \in [Request -> MessageState]
      /\ record \in [Key -> RecordType]
  BY DEF TypeInv, TypeOK, IngressTypeOK, KVTypeOK, QueueTypeOK
<1> SUFFICES ASSUME NEW k \in Key, record'[k].status # "none", ~IsCleared(k)
             PROVE  Started(k)'
  BY DEF RecordIsBacked, IsCleared
<1>1. CASE record'[k] = record[k]
  BY <1>1, StartedStable DEF RecordIsBacked
<1>2. CASE record'[k] # record[k]
  <2>1. PICK r \in Request : MarkProcessing(r) \/ CompleteCleared(r) \/ MarkComplete(r)
    BY <1>2 DEF Next, ClientStep, IngressStep, ConsumerStep, FaultStep, StartPush, RetryPush,
       ClientTimeout, Receive, ReadRecord, ObserveStarted, SendToQueue, RecordCleared,
       LoseRequest, IngressCrash, RecycleIsolate, Deliver, Redeliver, ConsumerCrash,
       CheckCompleted, CheckCleared, Business, ObserveOutcome, RetryMessage, GiveUp, Ack,
       Tick, vars, kvVars
  <2>2. k = PushKey(r)
    BY <1>2, <2>1, PutRecordStatus, RequestParts DEF MarkProcessing, CompleteCleared,
       MarkComplete
  <2>3. ~CompleteCleared(r)
    BY <2>2 DEF CompleteCleared, SettleInv, ClearedLane
  <2>4. CASE MarkProcessing(r)
    <3>1. handler'[r] = "observe"
      BY <1>0, <2>2, <2>4 DEF MarkProcessing, AfterMark
    <3> QED
      BY <2>2, <3>1 DEF Started, PushKey
  <2>5. CASE MarkComplete(r)
    <3>1. message'[r] # "none"
      BY <2>5 DEF MarkComplete, At
    <3> QED
      BY <2>2, <3>1 DEF Started, PushKey
  <2> QED
    BY <2>1, <2>3, <2>4, <2>5
<1> QED
  BY <1>1, <1>2

LEMMA MemoryBackedStep ==
    ASSUME TypeInv, RequestInv, NoLostEnqueue, RecordIsBacked, MemoryIsBacked, [Next]_vars
    PROVE  MemoryIsBacked'
<1>0. /\ handler \in [Request -> HandlerState] /\ l1 \in [Isolate -> [Key -> Int]]
  BY DEF TypeInv, TypeOK, IngressTypeOK
<1> SUFFICES ASSUME NEW i \in Isolate, NEW k \in Key, l1'[i][k] # Never, ~IsCleared(k)
             PROVE  Backed(k)'
  BY DEF MemoryIsBacked, IsCleared, Never
<1>1. CASE l1[i][k] # Never
  BY <1>1, BackedStable DEF MemoryIsBacked
<1>2. CASE l1[i][k] = Never
  <2>1. PICK r \in Request, j \in Isolate : Receive(r, j)
    BY <1>0, <1>2 DEF Next, ClientStep, IngressStep, ConsumerStep, FaultStep, StartPush,
       RetryPush, ClientTimeout, ReadRecord, MarkProcessing, ObserveStarted, SendToQueue,
       CompleteCleared, RecordCleared, LoseRequest, IngressCrash, RecycleIsolate, Deliver,
       Redeliver, ConsumerCrash, CheckCompleted, CheckCleared, Business, ObserveOutcome,
       RetryMessage, GiveUp, MarkComplete, Ack, Tick, vars, ingressVars
  <2>2. i = j /\ k = PushKey(r)
    BY <1>0, <1>2, <2>1, RequestParts DEF Receive
  <2>3. handler'[r] = "get"
    BY <1>0, <1>2, <2>1, <2>2 DEF Receive, RememberedIn
  <2> QED
    BY <2>2, <2>3 DEF Backed, PushKey
<1> QED
  BY <1>1, <1>2

LEMMA DuplicateBackedStep ==
    ASSUME TypeInv, RequestInv, NoLostEnqueue, BackingInv, [Next]_vars
    PROVE  DuplicateAckIsBacked'
<1>0. /\ handler \in [Request -> HandlerState] /\ client \in [Push -> ClientState]
      /\ KeyOf \in [Push -> Key]
  BY KeysAssumption DEF TypeInv, TypeOK, ClientTypeOK, IngressTypeOK
<1> SUFFICES ASSUME NEW p \in Push, client'[p] = "duplicate", ~IsCleared(KeyOf[p])
             PROVE  Backed(KeyOf[p])'
  BY DEF DuplicateAckIsBacked, IsCleared
<1>1. CASE Backed(KeyOf[p])
  BY <1>0, <1>1, BackedStable DEF BackingInv
<1>2. CASE ~Backed(KeyOf[p])
  <2>1. client[p] # "duplicate"
    BY <1>2 DEF BackingInv, DuplicateAckIsBacked
  <2>2. ASSUME NEW r \in Request, NEW answer \in {"accepted", "error"}, Respond(r, answer)
        PROVE  FALSE
    BY <1>0, <2>1, <2>2 DEF Respond, AfterFailure
  <2>3. PICK r \in Request : Respond(r, "duplicate") /\ ((\E i \in Isolate : Receive(r, i)) \/ ReadRecord(r))
    BY <1>0, <2>1, <2>2 DEF Next, ClientStep, IngressStep, ConsumerStep, FaultStep,
       StartPush, RetryPush, ClientTimeout, AfterFailure, Receive, ReadRecord, MarkProcessing,
       ObserveStarted, SendToQueue, CompleteCleared, RecordCleared, LoseRequest, IngressCrash,
       RecycleIsolate, Deliver, Redeliver, ConsumerCrash, CheckCompleted, CheckCleared,
       Business, ObserveOutcome, RetryMessage, GiveUp, MarkComplete, Ack, Tick, vars,
       clientVars
  <2>4. p = r[1] /\ PushKey(r) = KeyOf[p]
    BY <1>0, <2>1, <2>3, RequestParts DEF Respond, PushKey
  <2>5. handler'[r] = "done"
    BY <1>0, <2>3 DEF Respond
  <2>6. CASE \E i \in Isolate : Receive(r, i)
    <3> PICK i \in Isolate : Receive(r, i)
      BY <2>6
    <3>1. RememberedIn(i, PushKey(r))
      BY <1>0, <2>5 DEF Receive
    <3> QED
      BY <1>0, <1>2, <2>4, <3>1 DEF RememberedIn, BackingInv, MemoryIsBacked
  <2>7. CASE ReadRecord(r)
    <3>1. record[PushKey(r)].status # "none"
      BY <1>0, <2>5, <2>7 DEF ReadRecord
    <3> QED
      BY <1>0, <1>2, <2>4, <3>1, StartedIsBacked DEF BackingInv, RecordIsBacked
  <2> QED
    BY <2>3, <2>6, <2>7
<1> QED
  BY <1>1, <1>2

\* If no enqueue fails and no handler dies between its awaits, a change that was
\* answered as a duplicate is on the queue or on its way, for any number of
\* pushes, isolates and other faults.
THEOREM DuplicateAlwaysBacked ==
    ASSUME NoLostEnqueue
    PROVE  Spec => []DuplicateAckIsBacked
<1> DEFINE Inv == TypeInv /\ RequestInv /\ SettleInv /\ BackingInv
<1>1. Init => Inv
  BY TypeInvInit, RequestInvInit, SettleInvInit, BackingInvInit
<1>2. Inv /\ [Next]_vars => Inv'
  <2> SUFFICES ASSUME Inv, [Next]_vars
               PROVE  Inv'
    OBVIOUS
  <2>1. RecordIsBacked'
    BY RecordBackedStep DEF BackingInv
  <2>2. MemoryIsBacked'
    BY MemoryBackedStep DEF BackingInv
  <2>3. DuplicateAckIsBacked'
    BY DuplicateBackedStep
  <2> QED
    BY <2>1, <2>2, <2>3, InvStep DEF BackingInv
<1>3. Inv => DuplicateAckIsBacked
  BY DEF BackingInv
<1> QED
  BY <1>1, <1>2, <1>3, PTL DEF Spec

(* A message is decided once when every record is read and written and no  *)
(* consumer dies.  A message that shares its key with no other one carries *)
(* its decision to the COMPLETED record itself, and only a second request  *)
(* of its key, which is then on the queue or about to be, can put          *)
(* PROCESSING over that record.                                            *)

NoLostWork ==
    /\ NoLostEnqueue
    /\ "kvRead" \notin Faults /\ "kvWrite" \notin Faults /\ "consumerCrash" \notin Faults

\* Before its decision a message has none to its name; afterwards its record is
\* completed, or its consumer is on the way there.
Undecided(r) ==
    \/ message[r] = "none"
    \/ message[r] = "running" /\ consumer[r] \in {"marker", "business", "failed"}
    \/ message[r] = "running" /\ consumer[r] = "observe" /\ outcome[r] = "call_failed"

Carried(r) ==
    \/ Handled(PushKey(r))
    \/ message[r] = "running" /\ consumer[r] \in {"observe", "complete"}

Single(r) ==
    /\ decided[r] \in {0, 1}
    /\ Undecided(r) => decided[r] = 0
    /\ decided[r] = 1 => Carried(r)

OnceInv == \A r \in Request : Rivalled(r) \/ Single(r)

LEMMA RivalledStable ==
    ASSUME TypeInv, RequestInv, NoLostEnqueue, [Next]_vars, NEW r \in Request, Rivalled(r)
    PROVE  Rivalled(r)'
<1>1. PICK q \in Request \ {r} :
         PushKey(q) = PushKey(r) /\ (handler[q] \in {"observe", "send"} \/ message[q] # "none")
  BY DEF Rivalled
<1>2. handler'[q] \in {"observe", "send"} \/ message'[q] # "none"
  BY <1>1, StartedRequestStays
<1> QED
  BY <1>1, <1>2 DEF Rivalled, PushKey

(* The record of a message that is on the queue stays completed, unless a  *)
(* rival shows up.                                                         *)

LEMMA HandledStays ==
    ASSUME TypeInv, RequestInv, SettleInv, [Next]_vars, NEW r \in Request,
           message[r] # "none", Handled(PushKey(r)), ~Rivalled(r)'
    PROVE  Handled(PushKey(r))'
<1>0. /\ handler \in [Request -> HandlerState] /\ record \in [Key -> RecordType]
      /\ PushKey(r) \in Key
  BY RequestParts DEF TypeInv, TypeOK, IngressTypeOK, KVTypeOK
<1>1. CASE record'[PushKey(r)] = record[PushKey(r)]
  BY <1>1 DEF Handled, PushKey
<1>2. CASE record'[PushKey(r)] # record[PushKey(r)]
  <2>1. PICK q \in Request : MarkProcessing(q) \/ CompleteCleared(q) \/ MarkComplete(q)
    BY <1>2 DEF Next, ClientStep, IngressStep, ConsumerStep, FaultStep, StartPush, RetryPush,
       ClientTimeout, Receive, ReadRecord, ObserveStarted, SendToQueue, RecordCleared,
       LoseRequest, IngressCrash, RecycleIsolate, Deliver, Redeliver, ConsumerCrash,
       CheckCompleted, CheckCleared, Business, ObserveOutcome, RetryMessage, GiveUp, Ack,
       Tick, vars, kvVars
  <2>2. CASE MarkProcessing(q)
    <3>1. PushKey(q) = PushKey(r)
      BY <1>0, <1>2, <2>2, PutRecordStatus, RequestParts DEF MarkProcessing
    <3>2. q # r
      BY <2>2 DEF MarkProcessing, RequestInv, NotYetSent
    <3>3. handler'[q] = "observe"
      BY <1>0, <2>2, <3>1 DEF MarkProcessing, AfterMark, SettleInv, QueueLane
    <3> QED
      BY <3>1, <3>2, <3>3 DEF Rivalled, PushKey
  <2>3. CASE CompleteCleared(q) \/ MarkComplete(q)
    <3>1. PutRecord(PushKey(q), Completed) /\ PushKey(q) \in Key
      BY <2>3, RequestParts DEF CompleteCleared, MarkComplete
    <3>2. record'[PushKey(r)] = Completed
      BY <1>0, <1>2, <3>1, PutRecordStatus
    <3> QED
      BY <3>2 DEF Handled, Completed, PushKey
  <2> QED
    BY <2>1, <2>2, <2>3
<1> QED
  BY <1>1, <1>2

LEMMA SingleOwnStep ==
    ASSUME TypeInv, RequestInv, SettleInv, NoLostWork, NEW r \in Request, Single(r),
           Handled(PushKey(r)) => Handled(PushKey(r))',
           Deliver(r) \/ ConsumerStep(r) \/ ConsumerCrash(r) \/ Redeliver(r)
    PROVE  Single(r)'
<1>0. /\ message \in [Request -> MessageState] /\ record \in [Key -> RecordType]
      /\ consumer \in [Request -> ConsumerState] /\ outcome \in [Request -> Outcome]
      /\ decided \in [Request -> Nat] /\ PushKey(r) \in Key
  BY RequestParts DEF TypeInv, TypeOK, QueueTypeOK, KVTypeOK, HistoryTypeOK
<1> USE <1>0 DEF Single, Undecided, Carried
<1>1. CASE Deliver(r)
  BY <1>1 DEF Deliver, historyVars
<1>2. CASE CheckCompleted(r)
  BY <1>2 DEF CheckCompleted, At, Goto, Fault, NoLostWork, historyVars
<1>3. CASE CheckCleared(r)
  BY <1>3 DEF CheckCleared, At, Goto
<1>4. CASE Business(r)
  BY <1>4 DEF Business, At, Goto, historyVars
<1>5. CASE ObserveOutcome(r)
  BY <1>5 DEF ObserveOutcome, AfterOutcome, At, Goto, historyVars
<1>6. CASE RetryMessage(r)
  BY <1>6 DEF RetryMessage, Requeue, At, historyVars
<1>7. CASE GiveUp(r)
  BY <1>7 DEF GiveUp, At, Goto
<1>8. CASE MarkComplete(r)
  <2>1. Handled(PushKey(r))'
    BY <1>8 DEF MarkComplete, PutRecord, Fault, NoLostWork, Handled, Completed, PushKey
  <2> QED
    BY <1>8, <2>1 DEF MarkComplete, At, Goto, historyVars
<1>9. CASE Ack(r)
  BY <1>9 DEF Ack, At, historyVars
<1>10. CASE ConsumerCrash(r)
  BY <1>10 DEF ConsumerCrash, Fault, NoLostWork
<1>11. CASE Redeliver(r)
  BY <1>11 DEF Redeliver, historyVars
<1> QED
  BY <1>1, <1>2, <1>3, <1>4, <1>5, <1>6, <1>7, <1>8, <1>9, <1>10, <1>11 DEF ConsumerStep

LEMMA OnceInvStep ==
    ASSUME TypeInv, RequestInv, SettleInv, NoLostWork, OnceInv, [Next]_vars
    PROVE  OnceInv'
<1>0. /\ message \in [Request -> MessageState] /\ consumer \in [Request -> ConsumerState]
      /\ outcome \in [Request -> Outcome] /\ decided \in [Request -> Nat]
  BY DEF TypeInv, TypeOK, QueueTypeOK, HistoryTypeOK
<1> SUFFICES ASSUME NEW r \in Request, ~Rivalled(r)'
             PROVE  Single(r)'
  BY DEF OnceInv
<1>1. Single(r)
  BY RivalledStable DEF OnceInv, NoLostWork
<1>2. message[r] # "none" /\ Handled(PushKey(r)) => Handled(PushKey(r))'
  BY HandledStays
<1>3. CASE Deliver(r) \/ ConsumerStep(r) \/ ConsumerCrash(r) \/ Redeliver(r)
  <2>1. message[r] # "none"
    BY <1>3, QueueMoves
  <2> QED
    BY <1>1, <1>2, <1>3, <2>1, SingleOwnStep
<1>4. CASE UNCHANGED <<message[r], consumer[r], outcome[r], decided[r]>>
  BY <1>1, <1>2, <1>4 DEF Single, Undecided, Carried
<1>5. CASE SendToQueue(r)
  <2>1. decided[r] = 0
    BY <1>1, <1>5 DEF SendToQueue, RequestInv, NotYetSent, Single, Undecided
  <2> QED
    BY <1>0, <1>5, <2>1 DEF SendToQueue, Single, Undecided, Carried, historyVars
<1>6. ASSUME NEW q \in Request \ {r}, Deliver(q) \/ ConsumerStep(q) \/ FaultStep(q) \/ IngressStep(q)
      PROVE  UNCHANGED <<message[r], consumer[r], outcome[r], decided[r]>>
  BY <1>0, <1>6 DEF Deliver, ConsumerStep, CheckCompleted, CheckCleared, Business,
     ObserveOutcome, RetryMessage, Requeue, GiveUp, MarkComplete, Ack, Goto, FaultStep,
     LoseRequest, IngressCrash, ConsumerCrash, Redeliver, IngressStep, Receive, ReadRecord,
     MarkProcessing, ObserveStarted, SendToQueue, CompleteCleared, RecordCleared, queueVars,
     historyVars
<1>7. CASE (IngressStep(r) /\ ~SendToQueue(r)) \/ LoseRequest(r) \/ IngressCrash(r)
  <2>1. UNCHANGED <<message, consumer, outcome, decided>>
    BY <1>7 DEF LoseRequest, IngressCrash, IngressStep, Receive, ReadRecord, MarkProcessing,
       ObserveStarted, CompleteCleared, RecordCleared, queueVars, historyVars
  <2> QED
    BY <1>4, <2>1
<1>8. CASE Tick \/ (\E p \in Push : ClientStep(p)) \/ (\E i \in Isolate : RecycleIsolate(i))
           \/ UNCHANGED vars
  <2>1. UNCHANGED <<message, consumer, outcome, decided>>
    BY <1>8 DEF Tick, ClientStep, StartPush, RetryPush, ClientTimeout, RecycleIsolate, vars,
       queueVars, historyVars
  <2> QED
    BY <1>4, <2>1
<1> QED
  BY <1>3, <1>4, <1>5, <1>6, <1>7, <1>8 DEF Next, FaultStep

\* As long as records are read and written and neither handlers nor consumers are
\* lost, redeliveries, failed AI calls and retries, however many, add no second
\* decision of a message without a rival of its key.
THEOREM MessagesDecidedOnce ==
    ASSUME NoLostWork
    PROVE  Spec => []DecidedOnce
<1> DEFINE Inv == TypeInv /\ RequestInv /\ SettleInv /\ OnceInv
<1>1. Init => Inv
  <2>1. Init => OnceInv
    BY DEF Init, OnceInv, Single, Undecided, Carried
  <2> QED
    BY <2>1, TypeInvInit, RequestInvInit, SettleInvInit
<1>2. Inv /\ [Next]_vars => Inv'
  BY InvStep, OnceInvStep
<1>3. Inv => DecidedOnce
  BY DEF OnceInv, Single, Rivalled, DecidedOnce
<1> QED
  BY <1>1, <1>2, <1>3, PTL DEF Spec

(* A clear that was accepted leaves its marker: pushes of one round are    *)
(* generated at its tick, requests end within it, and so the last clear    *)
(* that is accepted writes the latest time of all.                         *)

\* Markers are written and read (kv.put and kv.get of the cleared marker).
MarkersHold == "kvRead" \notin Faults /\ "kvWrite" \notin Faults

RoundsPassed == \A p \in Push : generatedAt[p] <= now

RoundIsNow ==
    /\ \A p \in Push : SessionOpen(p) => generatedAt[p] = now
    /\ \A r \in Request : InFlight(r) => generatedAt[r[1]] = now

Marked ==
    \A p \in Push :
        client[p] = "accepted" /\ IsCleared(KeyOf[p]) =>
            clearedAt[EventOf[KeyOf[p]]] >= generatedAt[p]

ClearInv == RoundsPassed /\ RoundIsNow /\ Marked

LEMMA ClearInvInit == Init => ClearInv
BY DEF Init, ClearInv, RoundsPassed, RoundIsNow, Marked, SessionOpen, InFlight, Never

\* The client's steps start a session at this tick or go on with one.
LEMMA ClearInvClient ==
    ASSUME TypeInv, RequestInv, ClearInv, NEW p \in Push, ClientStep(p)
    PROVE  ClearInv'
<1>0. /\ client \in [Push -> ClientState] /\ generatedAt \in [Push -> Int]
      /\ attempt \in [Push -> 0 .. MaxAttempts]
      /\ handler \in [Request -> HandlerState] /\ now \in Nat
  BY DEF TypeInv, TypeOK, ClientTypeOK, IngressTypeOK
<1>1. CASE StartPush(p)
  <2>1. /\ client' = [client EXCEPT ![p] = "waiting"]
        /\ generatedAt' = [generatedAt EXCEPT ![p] = now]
        /\ handler' = [handler EXCEPT ![<<p, 1>>] = "sent"]
        /\ UNCHANGED <<now, clearedAt>> /\ client[p] = "idle"
    BY <1>1 DEF StartPush, kvVars
  <2>2. \A r \in Request : r[1] = p => handler[r] = "none"
    BY <1>0, <2>1 DEF RequestInv, IdleBeforeAttempts, NotYetRequested, Request, Attempt
  <2>3. RoundsPassed'
    BY <1>0, <2>1 DEF ClearInv, RoundsPassed
  <2>4. RoundIsNow'
    <3>1. \A q \in Push : SessionOpen(q)' => generatedAt'[q] = now
      BY <1>0, <2>1 DEF ClearInv, RoundIsNow, SessionOpen
    <3>2. ASSUME NEW r \in Request, InFlight(r)' PROVE generatedAt'[r[1]] = now
      <4>1. CASE r[1] = p
        BY <1>0, <2>1, <4>1
      <4>2. CASE r[1] # p
        <5>1. handler'[r] = handler[r] /\ r[1] \in Push
          BY <1>0, <2>1, <4>2, RequestParts
        <5> QED
          BY <1>0, <2>1, <3>2, <4>2, <5>1 DEF ClearInv, RoundIsNow, InFlight
      <4> QED
        BY <4>1, <4>2
    <3> QED
      BY <2>1, <3>1, <3>2 DEF RoundIsNow
  <2>5. Marked'
    BY <1>0, <2>1 DEF ClearInv, Marked, IsCleared
  <2> QED
    BY <2>3, <2>4, <2>5 DEF ClearInv
<1>2. CASE RetryPush(p)
  <2>1. /\ client' = [client EXCEPT ![p] = "waiting"] /\ client[p] = "backoff"
        /\ handler' = [handler EXCEPT ![<<p, attempt[p] + 1>>] = "sent"]
        /\ UNCHANGED <<now, clearedAt, generatedAt>>
    BY <1>2 DEF RetryPush, kvVars
  <2>2. RoundIsNow'
    <3>1. \A q \in Push : SessionOpen(q)' => SessionOpen(q)
      BY <1>0, <2>1 DEF SessionOpen
    <3>2. ASSUME NEW r \in Request, InFlight(r)' PROVE generatedAt[r[1]] = now
      <4>1. CASE r[1] = p
        BY <2>1, <4>1 DEF ClearInv, RoundIsNow, SessionOpen
      <4>2. CASE r[1] # p
        <5>1. handler'[r] = handler[r]
          BY <1>0, <2>1, <4>2
        <5> QED
          BY <3>2, <5>1 DEF ClearInv, RoundIsNow, InFlight
      <4> QED
        BY <4>1, <4>2
    <3> QED
      BY <2>1, <3>1, <3>2 DEF ClearInv, RoundIsNow
  <2>3. RoundsPassed' /\ Marked'
    BY <1>0, <2>1 DEF ClearInv, RoundsPassed, Marked, IsCleared
  <2> QED
    BY <2>2, <2>3 DEF ClearInv
<1>3. CASE ClientTimeout(p)
  <2>1. /\ client' = [client EXCEPT ![p] = AfterFailure(p)] /\ client[p] = "waiting"
        /\ UNCHANGED <<now, clearedAt, generatedAt, handler>>
    BY <1>3 DEF ClientTimeout, kvVars, ingressVars
  <2>2. AfterFailure(p) \in {"backoff", "failed"}
    BY DEF AfterFailure
  <2>3. \A q \in Push : client'[q] = client[q] \/ (q = p /\ client'[q] \in {"backoff", "failed"})
    BY <1>0, <2>1, <2>2
  <2>4. RoundsPassed' /\ RoundIsNow'
    BY <2>1, <2>3 DEF ClearInv, RoundsPassed, RoundIsNow, SessionOpen, InFlight
  <2>5. Marked'
    BY <2>1, <2>3 DEF ClearInv, Marked, IsCleared
  <2> QED
    BY <2>4, <2>5 DEF ClearInv
<1> QED
  BY <1>1, <1>2, <1>3 DEF ClientStep

\* The end of an answer: a session it does not end goes on.
LEMMA RespondEnds ==
    ASSUME TypeInv, NEW r \in Request, NEW answer \in {"accepted", "duplicate", "error"},
           Respond(r, answer)
    PROVE  /\ handler' = [handler EXCEPT ![r] = "done"]
           /\ UNCHANGED generatedAt
           /\ \A p \in Push :
                 \/ client'[p] = client[p]
                 \/ /\ p = r[1] /\ client[p] = "waiting"
                    /\ client'[p] \in {answer, "backoff", "failed"}
                    /\ client'[p] # "error"
<1>1. client \in [Push -> ClientState] /\ r[1] \in Push
  BY RequestParts DEF TypeInv, TypeOK, ClientTypeOK
<1>2. AfterFailure(r[1]) \in {"backoff", "failed"}
  BY DEF AfterFailure
<1> QED
  BY <1>1, <1>2 DEF Respond

\* What an ingress step does to its client: accepted is said by SendToQueue and
\* RecordCleared alone.
LEMMA IngressAnswers ==
    ASSUME TypeInv, NEW r \in Request, IngressStep(r)
    PROVE  /\ UNCHANGED <<now, generatedAt>>
           /\ \A p \in Push : SessionOpen(p)' => SessionOpen(p)
           /\ \A p \in Push :
                 client'[p] = "accepted" =>
                     \/ client[p] = "accepted"
                     \/ p = r[1] /\ (RecordCleared(r) \/
                                     (SendToQueue(r) /\ message'[r] = "queued"))
           /\ clearedAt' = clearedAt \/ RecordCleared(r)
<1>0. message \in [Request -> MessageState]
  BY DEF TypeInv, TypeOK, QueueTypeOK
<1> DEFINE Said(answer) ==
        /\ UNCHANGED generatedAt
        /\ \A p \in Push : SessionOpen(p)' => SessionOpen(p)
        /\ \A p \in Push : client'[p] = "accepted" =>
              client[p] = "accepted" \/ (p = r[1] /\ answer = "accepted")
<1>1. ASSUME NEW answer \in {"accepted", "duplicate", "error"}, Respond(r, answer)
      PROVE  Said(answer)
  BY <1>1, RespondEnds DEF SessionOpen
<1>2. ASSUME UNCHANGED clientVars PROVE Said("none")
  BY <1>2 DEF clientVars, SessionOpen
<1> HIDE DEF Said
<1>3. CASE \E i \in Isolate : Receive(r, i)
  <2>1. Said("duplicate") \/ Said("none")
    BY <1>1, <1>2, <1>3 DEF Receive
  <2> QED
    BY <1>3, <2>1 DEF Said, Receive, kvVars
<1>4. CASE ReadRecord(r)
  <2>1. Said("duplicate") \/ Said("none")
    BY <1>1, <1>2, <1>4 DEF ReadRecord
  <2> QED
    BY <1>4, <2>1 DEF Said, ReadRecord, kvVars
<1>5. CASE MarkProcessing(r) \/ ObserveStarted(r) \/ CompleteCleared(r)
  <2>1. Said("none")
    BY <1>2, <1>5 DEF MarkProcessing, ObserveStarted, CompleteCleared
  <2> QED
    BY <1>5, <2>1 DEF Said, MarkProcessing, ObserveStarted, CompleteCleared
<1>6. CASE SendToQueue(r)
  <2>1. \/ Said("accepted") /\ message' = [message EXCEPT ![r] = "queued"]
        \/ Said("error")
    BY <1>1, <1>6 DEF SendToQueue
  <2> QED
    BY <1>0, <1>6, <2>1 DEF Said, SendToQueue, kvVars
<1>7. CASE RecordCleared(r)
  <2>1. Said("accepted")
    BY <1>1, <1>7 DEF RecordCleared
  <2> QED
    BY <1>7, <2>1 DEF Said, RecordCleared
<1> QED
  BY <1>3, <1>4, <1>5, <1>6, <1>7 DEF IngressStep

LEMMA ClearInvIngress ==
    ASSUME TypeInv, SettleInv, MarkersHold, ClearInv, NEW r \in Request, IngressStep(r)
    PROVE  ClearInv'
<1>0. /\ generatedAt \in [Push -> Int] /\ now \in Nat /\ clearedAt \in [Event -> Int]
      /\ handler \in [Request -> HandlerState]
      /\ \A p \in Push : KeyOf[p] \in Key /\ EventOf[KeyOf[p]] \in Event
  BY KeysAssumption DEF TypeInv, TypeOK, ClientTypeOK, IngressTypeOK, KVTypeOK
<1>1. /\ UNCHANGED <<now, generatedAt>>
      /\ \A p \in Push : SessionOpen(p)' => SessionOpen(p)
      /\ \A p \in Push :
            client'[p] = "accepted" =>
                client[p] = "accepted" \/ (p = r[1] /\ (RecordCleared(r) \/ SendToQueue(r)))
      /\ clearedAt' = clearedAt \/ RecordCleared(r)
  BY IngressAnswers
<1>2. RoundsPassed'
  BY <1>1 DEF ClearInv, RoundsPassed
<1>3. RoundIsNow'
  <2>1. ASSUME NEW q \in Request, InFlight(q)' PROVE InFlight(q)
    BY <1>0, <2>1, IngressMoves DEF InFlight
  <2> QED
    BY <1>1, <2>1 DEF ClearInv, RoundIsNow
<1>4. Marked'
  <2> SUFFICES ASSUME NEW p \in Push, client'[p] = "accepted", IsCleared(KeyOf[p])
               PROVE  clearedAt'[EventOf[KeyOf[p]]] >= generatedAt[p]
    BY <1>1 DEF Marked, IsCleared
  <2>1. CASE RecordCleared(r)
    <3>1. /\ clearedAt' = [clearedAt EXCEPT ![PushEvent(r)] = generatedAt[r[1]]]
          /\ InFlight(r) /\ generatedAt[r[1]] = now /\ r[1] \in Push
      BY <2>1, RequestParts DEF RecordCleared, Fault, MarkersHold, InFlight, ClearInv, RoundIsNow
    <3>2. CASE EventOf[KeyOf[p]] = PushEvent(r)
      <4>1. clearedAt'[EventOf[KeyOf[p]]] = now /\ generatedAt[p] <= now
        BY <1>0, <3>1, <3>2 DEF ClearInv, RoundsPassed
      <4> QED
        BY <1>0, <4>1
    <3>3. CASE EventOf[KeyOf[p]] # PushEvent(r)
      <4>1. p # r[1]
        BY <3>3 DEF PushEvent, PushKey
      <4>2. client[p] = "accepted"
        BY <1>1, <4>1
      <4> QED
        BY <1>0, <3>1, <3>3, <4>2 DEF ClearInv, Marked
    <3> QED
      BY <3>2, <3>3
  <2>2. CASE ~RecordCleared(r)
    <3>1. p = r[1] /\ SendToQueue(r) => FALSE
      BY DEF SendToQueue, SettleInv, QueueLane, PushKey
    <3>2. client[p] = "accepted" /\ clearedAt' = clearedAt
      BY <1>1, <2>2, <3>1
    <3> QED
      BY <3>2 DEF ClearInv, Marked
  <2> QED
    BY <2>1, <2>2
<1> QED
  BY <1>2, <1>3, <1>4 DEF ClearInv

LEMMA ClearInvStep ==
    ASSUME TypeInv, RequestInv, SettleInv, MarkersHold, ClearInv, [Next]_vars
    PROVE  ClearInv'
<1>0. now \in Nat /\ generatedAt \in [Push -> Int] /\ handler \in [Request -> HandlerState]
  BY DEF TypeInv, TypeOK, ClientTypeOK, IngressTypeOK
<1> USE DEF ClearInv, RoundsPassed, RoundIsNow, Marked, IsCleared, SessionOpen, InFlight
<1>1. ASSUME NEW r \in Request,
             Deliver(r) \/ ConsumerStep(r) \/ ConsumerCrash(r) \/ Redeliver(r)
      PROVE  ClearInv'
  <2>1. UNCHANGED <<clientVars, ingressVars>>
    BY <1>1, QueueMoves
  <2>2. UNCHANGED <<now, clearedAt>>
    BY <1>1 DEF Deliver, ConsumerStep, CheckCompleted, CheckCleared, Business, ObserveOutcome,
       RetryMessage, GiveUp, MarkComplete, Ack, ConsumerCrash, Redeliver, kvVars
  <2> QED
    BY <2>1, <2>2 DEF clientVars, ingressVars
<1>2. ASSUME NEW r \in Request, LoseRequest(r) \/ IngressCrash(r)
      PROVE  ClearInv'
  <2>1. UNCHANGED <<now, clientVars, clearedAt>> /\ handler' = [handler EXCEPT ![r] = "done"]
    BY <1>2 DEF LoseRequest, IngressCrash, kvVars
  <2>2. \A q \in Request : handler'[q] = handler[q] \/ handler'[q] = "done"
    BY <1>0, <2>1
  <2> QED
    BY <2>1, <2>2 DEF clientVars
<1>3. CASE Tick
  <2>1. now' = now + 1 /\ UNCHANGED <<clientVars, ingressVars, clearedAt>>
    BY <1>3 DEF Tick, kvVars
  <2>2. /\ \A p \in Push : ~SessionOpen(p)
        /\ \A r \in Request : ~InFlight(r)
    BY <1>3 DEF Tick, Quiet
  <2> QED
    BY <1>0, <2>1, <2>2 DEF clientVars, ingressVars
<1>4. CASE (\E i \in Isolate : RecycleIsolate(i)) \/ UNCHANGED vars
  BY <1>4 DEF RecycleIsolate, vars, clientVars, ingressVars, kvVars
<1> HIDE DEF ClearInv
<1> QED
  BY <1>1, <1>2, <1>3, <1>4, ClearInvClient, ClearInvIngress DEF Next, FaultStep

\* Once the monitor has been told that a clear was accepted, no delivery of an
\* older change of that event enters business processing, for any number of pushes,
\* attempts, crashes and redeliveries, as long as KV reads and writes succeed.
THEOREM NoneProcessedAfterClear ==
    ASSUME MarkersHold
    PROVE  Spec => NoBusinessAfterClear
<1> DEFINE Inv == TypeInv /\ RequestInv /\ SettleInv /\ ClearInv
           Silent == \A r \in Request :
               consumer[r] # "business" /\ consumer'[r] = "business" =>
                   ~ \E p \in Push : ClearedFor(p, PushEvent(r))
                                     /\ generatedAt[p] > generatedAt[r[1]]
<1>1. Init => Inv
  BY TypeInvInit, RequestInvInit, SettleInvInit, ClearInvInit
<1>2. Inv /\ [Next]_vars => Inv'
  BY InvStep, ClearInvStep
<1>3. Inv /\ [Next]_vars => [Silent]_vars
  <2> SUFFICES ASSUME TypeInv, ClearInv, Next, NEW r \in Request,
                      consumer[r] # "business", consumer'[r] = "business",
                      NEW p \in Push, ClearedFor(p, PushEvent(r)),
                      generatedAt[p] > generatedAt[r[1]]
               PROVE  FALSE
    OBVIOUS
  <2>0. /\ consumer \in [Request -> ConsumerState] /\ generatedAt \in [Push -> Int]
        /\ clearedAt \in [Event -> Int] /\ r[1] \in Push /\ PushEvent(r) \in Event
    BY RequestParts DEF TypeInv, TypeOK, ClientTypeOK, QueueTypeOK, KVTypeOK
  <2>1. CheckCleared(r)
    <3>1. ASSUME NEW q \in Request, IngressStep(q) \/ FaultStep(q) \/ Deliver(q)
          PROVE  consumer'[r] = consumer[r] \/ consumer'[r] # "business"
      BY <2>0, <3>1 DEF IngressStep, Receive, ReadRecord, MarkProcessing, ObserveStarted,
         SendToQueue, CompleteCleared, RecordCleared, FaultStep, LoseRequest, IngressCrash,
         ConsumerCrash, Redeliver, Requeue, Deliver, queueVars
    <3>2. ASSUME NEW q \in Request, ConsumerStep(q), ~(q = r /\ CheckCleared(q))
          PROVE  consumer'[r] = consumer[r] \/ consumer'[r] # "business"
      BY <2>0, <3>2 DEF ConsumerStep, CheckCompleted, CheckCleared, Business, ObserveOutcome, AfterOutcome,
         RetryMessage, Requeue, GiveUp, MarkComplete, Ack, Goto
    <3>3. CASE Tick \/ (\E q \in Push : ClientStep(q)) \/ (\E i \in Isolate : RecycleIsolate(i))
      BY <3>3 DEF Tick, ClientStep, StartPush, RetryPush, ClientTimeout, RecycleIsolate, queueVars
    <3> QED
      BY <3>1, <3>2, <3>3 DEF Next
  <2>2. ~(clearedAt[PushEvent(r)] > generatedAt[r[1]])
    BY <2>0, <2>1 DEF CheckCleared, StaleAfterCleared, Goto, Fault, MarkersHold
  <2>3. clearedAt[PushEvent(r)] >= generatedAt[p]
    BY DEF ClearedFor, ClearInv, Marked
  <2> QED
    BY <2>0, <2>2, <2>3
<1>4. NoBusinessAfterClear <=> [][Silent]_vars
  BY DEF NoBusinessAfterClear
<1> HIDE DEF Inv, Silent
<1> QED
  BY <1>1, <1>2, <1>3, <1>4, PTL DEF Spec

(* What is accepted and not settled stays on the queue: the deliveries of  *)
(* a message stay below what faults can have added to the code's retries.  *)

LEMMA HistoryGrows ==
    ASSUME TypeInv, [Next]_vars
    PROVE  faults' \in Nat /\ faults' >= faults /\ settled \subseteq settled'
<1>0. faults \in Nat
  BY DEF TypeInv, TypeOK
<1>1. ASSUME NEW f, Fault(f) PROVE faults' = faults + 1
  BY <1>1 DEF Fault
<1>2. ASSUME NEW r \in Request, IngressStep(r)
      PROVE  faults' \in {faults, faults + 1} /\ settled' = settled
  BY <1>1, <1>2 DEF IngressStep, Receive, ReadRecord, MarkProcessing, ObserveStarted,
     SendToQueue, CompleteCleared, RecordCleared, PutRecord, PutObservatory, historyVars
<1>3. ASSUME NEW r \in Request, ConsumerStep(r)
      PROVE  faults' \in {faults, faults + 1} /\ settled \subseteq settled'
  BY <1>1, <1>3 DEF ConsumerStep, CheckCompleted, CheckCleared, Business, ObserveOutcome,
     RetryMessage, GiveUp, MarkComplete, Ack, PutRecord, PutObservatory, historyVars
<1>4. ASSUME NEW r \in Request, FaultStep(r) \/ Deliver(r)
      PROVE  faults' \in {faults, faults + 1} /\ settled' = settled
  BY <1>1, <1>4 DEF FaultStep, LoseRequest, IngressCrash, ConsumerCrash, Redeliver, Deliver,
     historyVars
<1>5. CASE Tick \/ (\E p \in Push : ClientStep(p)) \/ (\E i \in Isolate : RecycleIsolate(i))
           \/ UNCHANGED vars
  <2>1. UNCHANGED <<faults, settled>>
    BY <1>5 DEF Tick, ClientStep, StartPush, RetryPush, ClientTimeout, RecycleIsolate, vars,
       historyVars
  <2> QED
    BY <1>0, <2>1
<1> QED
  BY <1>0, <1>2, <1>3, <1>4, <1>5 DEF Next

InReserve(r) ==
    PushKey(r) \notin settled =>
        /\ message[r] = "queued" => deliveries[r] < MaxQueueRetries + faults
        /\ message[r] = "running" => deliveries[r] <= MaxQueueRetries + faults
        /\ message[r] = "dropped" => faults > MaxDeliveries - MaxQueueRetries

OnQueue ==
    \A p \in Push :
        client[p] = "accepted" /\ ~IsCleared(KeyOf[p]) =>
            \E r \in Request : PushKey(r) = KeyOf[p] /\ message[r] # "none"

CarriageInv == OnQueue /\ \A r \in Request : InReserve(r)

\* A message's place on the queue changes by steps of its own.
LEMMA OwnSteps ==
    ASSUME TypeInv, [Next]_vars, NEW r \in Request
    PROVE  \/ UNCHANGED <<message[r], deliveries[r]>>
           \/ SendToQueue(r) \/ Deliver(r) \/ RetryMessage(r) \/ Ack(r)
           \/ ConsumerCrash(r) \/ Redeliver(r)
<1>0. message \in [Request -> MessageState] /\ deliveries \in [Request -> 0 .. MaxDeliveries]
  BY DEF TypeInv, TypeOK, QueueTypeOK
<1>1. ASSUME NEW q \in Request, IngressStep(q), ~(q = r /\ SendToQueue(q))
      PROVE  UNCHANGED <<message[r], deliveries[r]>>
  BY <1>0, <1>1 DEF IngressStep, Receive, ReadRecord, MarkProcessing, ObserveStarted,
     SendToQueue, CompleteCleared, RecordCleared, queueVars
<1>2. ASSUME NEW q \in Request, ConsumerStep(q), ~(q = r /\ (RetryMessage(q) \/ Ack(q)))
      PROVE  UNCHANGED <<message[r], deliveries[r]>>
  BY <1>0, <1>2 DEF ConsumerStep, CheckCompleted, CheckCleared, Business, ObserveOutcome,
     RetryMessage, Requeue, GiveUp, MarkComplete, Ack
<1>3. ASSUME NEW q \in Request, q # r, Deliver(q) \/ ConsumerCrash(q) \/ Redeliver(q)
      PROVE  UNCHANGED <<message[r], deliveries[r]>>
  BY <1>0, <1>3 DEF Deliver, ConsumerCrash, Requeue, Redeliver
<1>4. ASSUME NEW q \in Request, LoseRequest(q) \/ IngressCrash(q)
      PROVE  UNCHANGED <<message[r], deliveries[r]>>
  BY <1>4 DEF LoseRequest, IngressCrash, queueVars
<1>5. CASE Tick \/ (\E p \in Push : ClientStep(p)) \/ (\E i \in Isolate : RecycleIsolate(i))
           \/ UNCHANGED vars
  BY <1>5 DEF Tick, ClientStep, StartPush, RetryPush, ClientTimeout, RecycleIsolate, vars,
     queueVars
<1> QED
  BY <1>1, <1>2, <1>3, <1>4, <1>5 DEF Next, FaultStep

LEMMA InReserveStep ==
    ASSUME TypeInv, RequestInv, SettleInv, [Next]_vars, NEW r \in Request, InReserve(r)
    PROVE  InReserve(r)'
<1>0. /\ message \in [Request -> MessageState] /\ deliveries \in [Request -> 0 .. MaxDeliveries]
      /\ faults \in Nat /\ MaxQueueRetries \in Nat \ {0} /\ MaxDeliveries \in Nat \ {0}
      /\ deliveries[r] \in Nat
  BY BoundsAssumption DEF TypeInv, TypeOK, QueueTypeOK
<1>1. faults' \in Nat /\ faults' >= faults /\ settled \subseteq settled'
  BY HistoryGrows
<1> SUFFICES ASSUME PushKey(r) \notin settled'
             PROVE  /\ message'[r] = "queued" => deliveries'[r] < MaxQueueRetries + faults'
                    /\ message'[r] = "running" => deliveries'[r] <= MaxQueueRetries + faults'
                    /\ message'[r] = "dropped" => faults' > MaxDeliveries - MaxQueueRetries
  BY DEF InReserve, PushKey
<1>2. /\ message[r] = "queued" => deliveries[r] < MaxQueueRetries + faults
      /\ message[r] = "running" => deliveries[r] <= MaxQueueRetries + faults
      /\ message[r] = "dropped" => faults > MaxDeliveries - MaxQueueRetries
  BY <1>1 DEF InReserve
<1>3. CASE UNCHANGED <<message[r], deliveries[r]>>
  BY <1>0, <1>1, <1>2, <1>3
<1>4. CASE SendToQueue(r)
  <2>1. deliveries'[r] = 0 /\ message'[r] \in {"none", "queued"}
    BY <1>0, <1>4 DEF SendToQueue, RequestInv, NotYetSent
  <2>2. 0 < MaxQueueRetries + faults'
    <3>1. MaxQueueRetries \in Nat /\ MaxQueueRetries # 0 /\ faults' \in Nat
      BY <1>0, <1>1
    <3>2. \A n, k \in Nat : n # 0 => 0 < n + k
      OBVIOUS
    <3> QED
      BY ONLY <3>1, <3>2
  <2> QED
    BY <2>1, <2>2
<1>5. CASE Deliver(r)
  <2>1. message'[r] = "running" /\ message[r] = "queued" /\ deliveries'[r] = deliveries[r] + 1
    BY <1>0, <1>5 DEF Deliver
  <2> QED
    BY <1>0, <1>1, <1>2, <2>1
<1>6. CASE RetryMessage(r)
  <2>1. /\ deliveries[r] < MaxQueueRetries /\ deliveries' = deliveries
        /\ message'[r] = IF deliveries[r] < MaxDeliveries THEN "queued" ELSE "dropped"
    BY <1>0, <1>6 DEF RetryMessage, Requeue, RetriesExhausted
  <2> QED
    BY <1>0, <1>1, <2>1
<1>7. CASE Ack(r)
  BY <1>0, <1>7 DEF Ack
<1>8. CASE ConsumerCrash(r)
  <2>1. /\ message[r] = "running" /\ deliveries' = deliveries /\ faults' = faults + 1
        /\ message'[r] = IF deliveries[r] < MaxDeliveries THEN "queued" ELSE "dropped"
    BY <1>0, <1>8 DEF ConsumerCrash, Requeue, Fault
  <2> QED
    BY <1>0, <1>2, <2>1
<1>9. CASE Redeliver(r)
  <2>1. message[r] = "acked"
    BY <1>9 DEF Redeliver
  <2>2. PushKey(r) \in settled
    BY <2>1 DEF SettleInv, AckedIsSettled
  <2> QED
    BY <1>1, <2>2
<1> QED
  BY <1>3, <1>4, <1>5, <1>6, <1>7, <1>8, <1>9, OwnSteps

LEMMA OnQueueStep ==
    ASSUME TypeInv, SettleInv, [Next]_vars, OnQueue
    PROVE  OnQueue'
<1>0. message \in [Request -> MessageState] /\ client \in [Push -> ClientState]
  BY DEF TypeInv, TypeOK, QueueTypeOK, ClientTypeOK
<1>1. ASSUME NEW r \in Request, message[r] # "none" PROVE message'[r] # "none"
  <2>1. CASE UNCHANGED message[r]
    BY <1>1, <2>1
  <2>2. CASE SendToQueue(r)
    BY <1>0, <1>1, <2>2 DEF SendToQueue
  <2>3. CASE Deliver(r) \/ RetryMessage(r) \/ Ack(r) \/ ConsumerCrash(r) \/ Redeliver(r)
    BY <1>0, <2>3 DEF Deliver, RetryMessage, Ack, ConsumerCrash, Redeliver, Requeue
  <2> QED
    BY <2>1, <2>2, <2>3, OwnSteps
<1> SUFFICES ASSUME NEW p \in Push, client'[p] = "accepted", ~IsCleared(KeyOf[p])
             PROVE  \E r \in Request : PushKey(r) = KeyOf[p] /\ message'[r] # "none"
  BY DEF OnQueue, PushKey, IsCleared
<1>2. CASE client[p] = "accepted"
  BY <1>1, <1>2 DEF OnQueue
<1>3. CASE client[p] # "accepted"
  <2>1. PICK r \in Request : IngressStep(r)
    <3>1. CASE \E q \in Push : ClientStep(q)
      BY <1>0, <1>3, <3>1 DEF ClientStep, StartPush, RetryPush, ClientTimeout, AfterFailure
    <3>2. ASSUME NEW r \in Request, Deliver(r) \/ ConsumerStep(r) \/ FaultStep(r)
          PROVE  client' = client
      BY <3>2 DEF Deliver, ConsumerStep, CheckCompleted, CheckCleared, Business,
         ObserveOutcome, RetryMessage, GiveUp, MarkComplete, Ack, FaultStep, LoseRequest,
         IngressCrash, ConsumerCrash, Redeliver, clientVars
    <3>3. CASE Tick \/ (\E i \in Isolate : RecycleIsolate(i)) \/ UNCHANGED vars
      BY <1>3, <3>3 DEF Tick, RecycleIsolate, vars, clientVars
    <3> QED
      BY <1>3, <3>1, <3>2, <3>3 DEF Next
  <2>2. p = r[1] /\ (RecordCleared(r) \/ message'[r] = "queued")
    BY <1>3, <2>1, IngressAnswers
  <2>3. PushKey(r) = KeyOf[p]
    BY <2>2 DEF PushKey
  <2>4. ~RecordCleared(r)
    BY <2>3 DEF RecordCleared, SettleInv, ClearedLane
  <2> QED
    BY <2>2, <2>3, <2>4
<1> QED
  BY <1>2, <1>3

\* Until it is settled, an accepted change stays on the queue, for any number of
\* retries, unless more faults happen than the platform has deliveries in reserve
\* over the code's own limit.
THEOREM AcceptedStaysCarried == Spec => []AcceptedIsCarried
<1> DEFINE Inv == TypeInv /\ RequestInv /\ SettleInv /\ CarriageInv
<1>1. Init => Inv
  <2>1. Init => CarriageInv
    BY DEF Init, CarriageInv, OnQueue, InReserve
  <2> QED
    BY <2>1, TypeInvInit, RequestInvInit, SettleInvInit
<1>2. Inv /\ [Next]_vars => Inv'
  BY InvStep, OnQueueStep, InReserveStep DEF CarriageInv
<1>3. Inv => AcceptedIsCarried
  <2> SUFFICES ASSUME TypeInv, SettleInv, CarriageInv, NEW p \in Push,
                      client[p] = "accepted", ~IsCleared(KeyOf[p]), KeyOf[p] \notin settled,
                      ~(faults > MaxDeliveries - MaxQueueRetries)
               PROVE  \E r \in Request : /\ PushKey(r) = KeyOf[p]
                                         /\ message[r] \in {"queued", "running"}
    BY DEF AcceptedIsCarried
  <2>1. PICK r \in Request : PushKey(r) = KeyOf[p] /\ message[r] # "none"
    BY DEF CarriageInv, OnQueue
  <2>2. message[r] # "acked"
    BY <2>1 DEF SettleInv, AckedIsSettled
  <2>3. message[r] # "dropped"
    BY <2>1 DEF CarriageInv, InReserve
  <2>4. message[r] \in MessageState
    BY DEF TypeInv, TypeOK, QueueTypeOK
  <2> QED
    BY <2>1, <2>2, <2>3, <2>4 DEF MessageState
<1> QED
  BY <1>1, <1>2, <1>3, PTL DEF Spec

(* Every delivery of a message comes to an end: each step of its consumer  *)
(* brings it nearer, and no fault sets it back.                            *)

StepsFrom(place, result) ==
    CASE place = "get" -> 8
      [] place = "marker" -> 7
      [] place = "business" -> 6
      [] place = "observe" /\ result = "call_failed" -> 5
      [] place = "failed" -> 4
      [] place = "observe" /\ result # "call_failed" -> 3
      [] place = "complete" -> 2
      [] OTHER -> 1

StepsLeft(r) == IF message[r] = "running" THEN StepsFrom(consumer[r], outcome[r]) ELSE 0

\* Each delivery is worth its nine steps, the delivery itself included.
Effort(r) == 9 * (MaxDeliveries - deliveries[r]) + StepsLeft(r)

EffortSinks(r) ==
    /\ Effort(r)' <= Effort(r)
    /\ Deliver(r) \/ ConsumerStep(r) => Effort(r)' < Effort(r)

LEMMA ConsumerSinks ==
    ASSUME TypeInv, NEW r \in Request, Deliver(r) \/ ConsumerStep(r)
    PROVE  Effort(r)' < Effort(r)
<1>0. /\ message \in [Request -> MessageState] /\ consumer \in [Request -> ConsumerState]
      /\ outcome \in [Request -> Outcome]
      /\ deliveries[r] \in Int /\ MaxDeliveries \in Int
  BY BoundsAssumption DEF TypeInv, TypeOK, QueueTypeOK
<1> SUFFICES \/ deliveries'[r] = deliveries[r] /\ StepsLeft(r)' < StepsLeft(r)
                /\ StepsLeft(r) \in Int /\ StepsLeft(r)' \in Int
             \/ deliveries'[r] = deliveries[r] + 1 /\ StepsLeft(r)' = 8 /\ StepsLeft(r) = 0
  BY <1>0 DEF Effort
<1>1. CASE Deliver(r)
  <2>1. /\ message[r] = "queued" /\ message'[r] = "running" /\ consumer'[r] = "get"
        /\ deliveries'[r] = deliveries[r] + 1
    BY <1>0, <1>1 DEF Deliver, TypeInv, TypeOK, QueueTypeOK
  <2> QED
    BY <2>1 DEF StepsLeft, StepsFrom
<1>2. CASE CheckCompleted(r)
  <2>1. /\ message[r] = "running" /\ message'[r] = "running"
        /\ consumer[r] = "get" /\ consumer'[r] \in {"ack", "marker"}
        /\ deliveries' = deliveries
    BY <1>0, <1>2 DEF CheckCompleted, At, Goto
  <2> QED
    BY <2>1 DEF StepsLeft, StepsFrom
<1>3. CASE CheckCleared(r)
  <2>1. /\ message[r] = "running" /\ message'[r] = "running" /\ consumer[r] = "marker"
        /\ \/ consumer'[r] = "business"
           \/ consumer'[r] = "observe" /\ outcome'[r] = "stale"
        /\ deliveries' = deliveries
    BY <1>0, <1>3 DEF CheckCleared, At, Goto
  <2> QED
    BY <2>1 DEF StepsLeft, StepsFrom
<1>4. CASE Business(r)
  <2>1. /\ message[r] = "running" /\ message'[r] = "running" /\ consumer[r] = "business"
        /\ consumer'[r] \in {"observe", "failed"}
        /\ deliveries' = deliveries
    BY <1>0, <1>4 DEF Business, At, Goto
  <2> QED
    BY <2>1 DEF StepsLeft, StepsFrom
<1>5. CASE ObserveOutcome(r)
  <2>1. /\ message[r] = "running" /\ message'[r] = "running" /\ consumer[r] = "observe"
        /\ consumer'[r] = IF outcome[r] = "call_failed" THEN "failed" ELSE "complete"
        /\ deliveries' = deliveries
    BY <1>0, <1>5 DEF ObserveOutcome, AfterOutcome, At, Goto
  <2> QED
    BY <2>1 DEF StepsLeft, StepsFrom
<1>6. CASE RetryMessage(r)
  <2>1. /\ message[r] = "running" /\ consumer[r] = "failed"
        /\ message'[r] \in {"queued", "dropped"} /\ deliveries' = deliveries
    BY <1>0, <1>6 DEF RetryMessage, Requeue, At
  <2> QED
    BY <2>1 DEF StepsLeft, StepsFrom
<1>7. CASE GiveUp(r)
  <2>1. /\ message[r] = "running" /\ message'[r] = "running" /\ consumer[r] = "failed"
        /\ consumer'[r] = "observe" /\ outcome'[r] = "processing_failed"
        /\ deliveries' = deliveries
    BY <1>0, <1>7 DEF GiveUp, At, Goto
  <2> QED
    BY <2>1 DEF StepsLeft, StepsFrom
<1>8. CASE MarkComplete(r)
  <2>1. /\ message[r] = "running" /\ message'[r] = "running" /\ consumer[r] = "complete"
        /\ consumer'[r] = "ack" /\ deliveries' = deliveries
    BY <1>0, <1>8 DEF MarkComplete, At, Goto
  <2> QED
    BY <2>1 DEF StepsLeft, StepsFrom
<1>9. CASE Ack(r)
  <2>1. /\ message[r] = "running" /\ message'[r] = "acked" /\ consumer[r] = "ack"
        /\ deliveries' = deliveries
    BY <1>0, <1>9 DEF Ack, At
  <2> QED
    BY <2>1 DEF StepsLeft, StepsFrom
<1> QED
  BY <1>1, <1>2, <1>3, <1>4, <1>5, <1>6, <1>7, <1>8, <1>9 DEF ConsumerStep

LEMMA EffortStep ==
    ASSUME TypeInv, RequestInv, [Next]_vars, NEW r \in Request
    PROVE  EffortSinks(r)
<1>0. /\ message \in [Request -> MessageState] /\ consumer \in [Request -> ConsumerState]
      /\ outcome \in [Request -> Outcome]
      /\ deliveries[r] \in Int /\ MaxDeliveries \in Int
  BY BoundsAssumption DEF TypeInv, TypeOK, QueueTypeOK
<1>1. StepsLeft(r) \in 0 .. 8
  BY DEF StepsLeft, StepsFrom
<1>2. CASE Deliver(r) \/ ConsumerStep(r)
  <2>1. Effort(r)' < Effort(r)
    BY <1>2, ConsumerSinks
  <2>2. Effort(r) \in Int /\ Effort(r)' \in Int
    <3>1. TypeInv'
      BY TypeInvStep
    <3>2. deliveries'[r] \in Int /\ StepsLeft(r)' \in 0 .. 8
      BY <3>1, BoundsAssumption DEF TypeInv, TypeOK, QueueTypeOK, StepsLeft, StepsFrom
    <3> QED
      BY <1>0, <1>1, <3>2 DEF Effort
  <2> QED
    BY <2>1, <2>2 DEF EffortSinks
<1>3. CASE ~Deliver(r) /\ ~ConsumerStep(r)
  <2> SUFFICES deliveries'[r] = deliveries[r] /\ (StepsLeft(r)' = StepsLeft(r) \/ StepsLeft(r)' = 0)
    BY <1>0, <1>1, <1>3 DEF EffortSinks, Effort
  <2>1. CASE UNCHANGED <<message[r], deliveries[r], consumer[r], outcome[r]>>
    BY <2>1 DEF StepsLeft
  <2>2. CASE deliveries'[r] = deliveries[r] /\ message'[r] # "running"
    BY <2>2 DEF StepsLeft
  <2>3. ASSUME NEW q \in Request, q # r,
               IngressStep(q) \/ Deliver(q) \/ ConsumerStep(q) \/ FaultStep(q)
        PROVE  UNCHANGED <<message[r], deliveries[r], consumer[r], outcome[r]>>
    BY <1>0, <2>3 DEF Deliver, ConsumerStep, CheckCompleted, CheckCleared, Business,
       ObserveOutcome, RetryMessage, Requeue, GiveUp, MarkComplete, Ack, Goto, FaultStep,
       LoseRequest, IngressCrash, ConsumerCrash, Redeliver, IngressStep, Receive, ReadRecord,
       MarkProcessing, ObserveStarted, SendToQueue, CompleteCleared, RecordCleared, queueVars,
       TypeInv, TypeOK, QueueTypeOK
  <2>4. CASE IngressStep(r)
    <3>1. UNCHANGED queueVars
          \/ (message'[r] = "queued" /\ deliveries' = deliveries)
      BY <1>0, <2>4 DEF IngressStep, Receive, ReadRecord, MarkProcessing, ObserveStarted,
         SendToQueue, CompleteCleared, RecordCleared, queueVars
    <3> QED
      BY <2>1, <2>2, <3>1 DEF queueVars
  <2>5. CASE FaultStep(r)
    <3>1. CASE LoseRequest(r) \/ IngressCrash(r)
      BY <2>1, <3>1 DEF LoseRequest, IngressCrash, queueVars
    <3>2. CASE ConsumerCrash(r) \/ Redeliver(r)
      BY <1>0, <2>2, <3>2 DEF ConsumerCrash, Redeliver, Requeue
    <3> QED
      BY <2>5, <3>1, <3>2 DEF FaultStep
  <2>6. CASE Tick \/ (\E p \in Push : ClientStep(p)) \/ (\E i \in Isolate : RecycleIsolate(i))
             \/ UNCHANGED vars
    BY <2>1, <2>6 DEF Tick, ClientStep, StartPush, RetryPush, ClientTimeout, RecycleIsolate,
       vars, queueVars
  <2> QED
    BY <1>3, <2>1, <2>3, <2>4, <2>5, <2>6 DEF Next
<1> QED
  BY <1>2, <1>3

\* A message costs at most 9 * MaxDeliveries steps of the platform and its consumers,
\* whatever fails and however often it comes again: each of them lowers what is
\* left, and nothing ever raises it.  (With fairness, this is why every message
\* comes to rest.)
THEOREM EffortRunsOut ==
    Spec => /\ [](\A r \in Request : Effort(r) \in 0 .. 9 * MaxDeliveries)
            /\ [][\A r \in Request : EffortSinks(r)]_vars
<1> DEFINE Fits == \A r \in Request : Effort(r) \in 0 .. 9 * MaxDeliveries
           Sinks == \A r \in Request : EffortSinks(r)
           Inv == TypeInv /\ RequestInv /\ Fits
<1>1. Init => Inv
  <2>1. Init => Fits
    <3> SUFFICES ASSUME Init, NEW r \in Request PROVE Effort(r) \in 0 .. 9 * MaxDeliveries
      OBVIOUS
    <3>1. deliveries[r] = 0 /\ StepsLeft(r) = 0
      BY DEF Init, StepsLeft
    <3> QED
      BY <3>1, BoundsAssumption DEF Effort
  <2> QED
    BY <2>1, TypeInvInit, RequestInvInit
<1>2. TypeInv /\ RequestInv /\ [Next]_vars => Sinks
  BY EffortStep
<1>3. Inv /\ [Next]_vars => Inv'
  <2> SUFFICES ASSUME Inv, [Next]_vars PROVE Inv'
    OBVIOUS
  <2>1. TypeInv' /\ RequestInv'
    BY TypeInvStep, RequestInvStep
  <2>2. ASSUME NEW r \in Request PROVE Effort(r)' \in 0 .. 9 * MaxDeliveries
    <3>1. Effort(r)' <= Effort(r) /\ Effort(r) \in 0 .. 9 * MaxDeliveries
      BY EffortStep DEF EffortSinks
    <3>2. deliveries'[r] \in 0 .. MaxDeliveries /\ StepsLeft(r)' \in 0 .. 8
      BY <2>1 DEF TypeInv, TypeOK, QueueTypeOK, StepsLeft, StepsFrom
    <3>3. MaxDeliveries \in Nat
      BY BoundsAssumption
    <3>4. Effort(r)' \in Nat
      BY <3>2, <3>3 DEF Effort
    <3> QED
      BY <3>1, <3>3, <3>4
  <2> QED
    BY <2>1, <2>2
<1>4. Inv => Fits
  OBVIOUS
<1>5. Inv /\ [Next]_vars => [Sinks]_vars
  BY <1>2
<1> HIDE DEF Inv, Fits, Sinks
<1>6. Spec => []Fits /\ [][Sinks]_vars
  BY <1>1, <1>3, <1>4, <1>5, PTL DEF Spec
<1> QED
  BY <1>6 DEF Fits, Sinks

(* Decisions beyond the first cost a fault each: from a decision, only a   *)
(* lost consumer or a redelivery leads back to where decisions are made.   *)

\* A message that may come to a decision without another fault.
Deciding(r) ==
    \/ message[r] \in {"none", "queued"}
    \/ message[r] = "running" /\ consumer[r] \in {"get", "marker", "business", "failed"}
    \/ message[r] = "running" /\ consumer[r] = "observe" /\ outcome[r] = "call_failed"

Paid(r) ==
    /\ decided[r] <= faults + 1
    /\ Deciding(r) => decided[r] <= faults

PaidInv == \A r \in Request : Paid(r)

LEMMA PaidOwnStep ==
    ASSUME TypeInv, NEW r \in Request, Paid(r),
           Deliver(r) \/ ConsumerStep(r) \/ ConsumerCrash(r) \/ Redeliver(r)
    PROVE  Paid(r)'
<1>0. /\ message \in [Request -> MessageState]
      /\ consumer \in [Request -> ConsumerState] /\ outcome \in [Request -> Outcome]
      /\ decided \in [Request -> Nat] /\ decided[r] \in Nat /\ faults \in Nat
  BY DEF TypeInv, TypeOK, QueueTypeOK, HistoryTypeOK
<1> USE <1>0 DEF Paid, Deciding
<1>1. CASE Deliver(r)
  BY <1>1 DEF Deliver, historyVars
<1>2. CASE CheckCompleted(r)
  <2>1. At(r, "get") /\ UNCHANGED <<message, outcome, decided>>
        /\ faults' \in {faults, faults + 1}
    BY <1>2 DEF CheckCompleted, historyVars, Fault
  <2> QED
    BY <2>1 DEF At
<1>3. CASE CheckCleared(r)
  <2>1. At(r, "marker") /\ decided' = decided /\ message' = message
        /\ faults' \in {faults, faults + 1}
    BY <1>3 DEF CheckCleared, Fault
  <2> QED
    BY <2>1 DEF At
<1>4. CASE Business(r)
  BY <1>4 DEF Business, At, Goto, historyVars
<1>5. CASE ObserveOutcome(r)
  <2>1. At(r, "observe") /\ decided' = decided /\ message' = message /\ outcome' = outcome
        /\ consumer' = [consumer EXCEPT ![r] = AfterOutcome(r)]
        /\ faults' \in {faults, faults + 1}
    BY <1>5 DEF ObserveOutcome, PutObservatory, Goto, Fault, historyVars
  <2> QED
    BY <2>1 DEF At, AfterOutcome
<1>6. CASE RetryMessage(r)
  BY <1>6 DEF RetryMessage, Requeue, At, historyVars
<1>7. CASE GiveUp(r)
  BY <1>7 DEF GiveUp, At, Goto
<1>8. CASE MarkComplete(r)
  <2>1. At(r, "complete") /\ decided' = decided /\ message' = message
        /\ consumer' = [consumer EXCEPT ![r] = "ack"]
        /\ faults' \in {faults, faults + 1}
    BY <1>8 DEF MarkComplete, PutRecord, Fault, Goto, historyVars
  <2> QED
    BY <2>1 DEF At
<1>9. CASE Ack(r)
  BY <1>9 DEF Ack, At, historyVars
<1>10. CASE ConsumerCrash(r) \/ Redeliver(r)
  <2>1. decided' = decided /\ faults' = faults + 1
    BY <1>10 DEF ConsumerCrash, Redeliver, Fault, historyVars
  <2> QED
    BY <2>1
<1> QED
  BY <1>1, <1>2, <1>3, <1>4, <1>5, <1>6, <1>7, <1>8, <1>9, <1>10 DEF ConsumerStep

LEMMA PaidInvStep ==
    ASSUME TypeInv, RequestInv, PaidInv, [Next]_vars
    PROVE  PaidInv'
<1>0. /\ message \in [Request -> MessageState] /\ consumer \in [Request -> ConsumerState]
      /\ outcome \in [Request -> Outcome] /\ decided \in [Request -> Nat] /\ faults \in Nat
  BY DEF TypeInv, TypeOK, QueueTypeOK, HistoryTypeOK
<1> SUFFICES ASSUME NEW r \in Request
             PROVE  Paid(r)'
  BY DEF PaidInv
<1>1. Paid(r)
  BY DEF PaidInv
<1>3. CASE Deliver(r) \/ ConsumerStep(r) \/ ConsumerCrash(r) \/ Redeliver(r)
  BY <1>1, <1>3, PaidOwnStep
<1>4. CASE UNCHANGED <<message[r], consumer[r], outcome[r], decided[r]>>
  <2>1. faults' \in Nat /\ faults' >= faults
    BY HistoryGrows
  <2>2. decided[r] \in Nat
    BY <1>0
  <2>3. Deciding(r)' = Deciding(r)
    BY <1>4 DEF Deciding
  <2> QED
    BY <1>0, <1>1, <1>4, <2>1, <2>2, <2>3 DEF Paid
<1>5. CASE SendToQueue(r)
  <2>1. decided[r] <= faults /\ decided[r] \in Nat
    BY <1>0, <1>1, <1>5 DEF SendToQueue, RequestInv, NotYetSent, Paid, Deciding
  <2>2. decided' = decided /\ faults' \in Nat /\ faults' >= faults
    BY <1>5, HistoryGrows DEF SendToQueue, historyVars
  <2> QED
    BY <1>0, <2>1, <2>2 DEF Paid
<1>6. ASSUME NEW q \in Request \ {r}, Deliver(q) \/ ConsumerStep(q) \/ FaultStep(q) \/ IngressStep(q)
      PROVE  UNCHANGED <<message[r], consumer[r], outcome[r], decided[r]>>
  BY <1>0, <1>6 DEF Deliver, ConsumerStep, CheckCompleted, CheckCleared, Business,
     ObserveOutcome, RetryMessage, Requeue, GiveUp, MarkComplete, Ack, Goto, FaultStep,
     LoseRequest, IngressCrash, ConsumerCrash, Redeliver, IngressStep, Receive, ReadRecord,
     MarkProcessing, ObserveStarted, SendToQueue, CompleteCleared, RecordCleared, queueVars,
     historyVars
<1>7. CASE (IngressStep(r) /\ ~SendToQueue(r)) \/ LoseRequest(r) \/ IngressCrash(r)
  <2>1. UNCHANGED <<message, consumer, outcome, decided>>
    BY <1>7 DEF LoseRequest, IngressCrash, IngressStep, Receive, ReadRecord, MarkProcessing,
       ObserveStarted, CompleteCleared, RecordCleared, queueVars, historyVars
  <2> QED
    BY <1>4, <2>1
<1>8. CASE Tick \/ (\E p \in Push : ClientStep(p)) \/ (\E i \in Isolate : RecycleIsolate(i))
           \/ UNCHANGED vars
  <2>1. UNCHANGED <<message, consumer, outcome, decided>>
    BY <1>8 DEF Tick, ClientStep, StartPush, RetryPush, ClientTimeout, RecycleIsolate, vars,
       queueVars, historyVars
  <2> QED
    BY <1>4, <2>1
<1> QED
  BY <1>3, <1>4, <1>5, <1>6, <1>7, <1>8 DEF Next, FaultStep

\* A message is decided at most once more often than there were faults: whatever the
\* order of deliveries, retries and client attempts, only a consumer that dies after its
\* decision, or a redelivery, leads to another one.
THEOREM DecisionsCostFaults == Spec => []DecisionsArePaid
<1> DEFINE Inv == TypeInv /\ RequestInv /\ PaidInv
<1>1. Init => Inv
  <2>1. Init => PaidInv
    BY DEF Init, PaidInv, Paid, Deciding
  <2> QED
    BY <2>1, TypeInvInit, RequestInvInit
<1>2. Inv /\ [Next]_vars => Inv'
  BY TypeInvStep, RequestInvStep, PaidInvStep
<1>3. Inv => DecisionsArePaid
  BY DEF PaidInv, Paid, DecisionsArePaid
<1> QED
  BY <1>1, <1>2, <1>3, PTL DEF Spec

=============================================================================
