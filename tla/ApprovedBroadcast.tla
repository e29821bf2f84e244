-------------------------- MODULE ApprovedBroadcast --------------------------
(***************************************************************************)
(* What happens to a change that the AI decided to tell: runAiApproved-    *)
(* PbsBroadcast and the two blobs of notified marks and the suppression    *)
(* blob it reads and writes.                                               *)
(*                                                                         *)
(* Consumers of the queue run it concurrently, each for one message.  An   *)
(* accident is first looked up in, and added to, the suppression blob.     *)
(* Then LINE and Telegram are served in parallel: each channel reads its   *)
(* blob of marks, pushes to its targets one by one, and writes the whole   *)
(* blob it has read with its own marks added.  An action is the code       *)
(* between two awaits.  Time is counted in ticks of the collision window.  *)
(*                                                                         *)
(* A cron run (runLineBroadcast) has nothing to push, but it drops expired *)
(* records from the suppression blob, and from LINE's blob the marks of    *)
(* TDX events that are gone, and writes both back as it has read them.     *)
(*                                                                         *)
(* The suppression blob is an array of records; here they are a set, and   *)
(* a record's number says where in the array it stands.                    *)
(***************************************************************************)
EXTENDS Integers, FiniteSets

CONSTANTS
    Message,         \* messages of the queue
    Approval,        \* what a message can say: [key, content, kind, km]
    Key,             \* source:rawId of an event
    Content,         \* computeNotificationFingerprint of an event
    NoContent,       \* no mark
    NoKm,            \* a place that cannot be told
    MaxKmDiff,       \* INCIDENT_MAX_KM_DIFF
    Window,          \* INCIDENT_SUPPRESSION_COLLISION_WINDOW_MS in ticks
    CronWindow,      \* INCIDENT_SUPPRESSION_WINDOW_MS in ticks
    Prunable,        \* keys the dedupe may retire: those of TDX
    LineTarget,      \* users and groups that may be subscribed
    Subscriptions,   \* sets of them that may be switched on when they are read
    TelegramTarget,  \* the one Telegram channel
    Muted,           \* sources told to nobody yet (suppressLineNotify), as keys
    FaultKind,       \* faults that may happen; a cron run at work counts as one
    MaxFaults,       \* how many of them
    MaxDeliveries,   \* deliveries of a message by the queue
    MaxTime          \* bound on the clock

Channel == {"line", "telegram"}
TargetsOf(c) == IF c = "line" THEN LineTarget ELSE {TelegramTarget}
Target == LineTarget \cup {TelegramTarget}

ASSUME ApprovalAssumption ==
    /\ \A a \in Approval : a.key \in Key /\ a.content \in Content
    /\ NoContent \notin Content
    /\ TelegramTarget \notin LineTarget
    /\ Subscriptions \subseteq SUBSET LineTarget
    /\ Prunable \subseteq Key

ASSUME BroadcastBounds ==
    /\ MaxFaults \in Nat /\ MaxDeliveries \in Nat /\ MaxTime \in Nat
    /\ Window \in Nat /\ CronWindow \in Nat /\ Window <= CronWindow

VARIABLES
    now,          \* the clock
    what,         \* what[m]: what message m says
    delivery,     \* delivery[m]: where the consumer of m is
    tries,        \* tries[m]: deliveries of m so far
    startedAt,    \* startedAt[m]: the consumer's own idea of now
    base,         \* base[m]: the suppression blob as the consumer has read it
    suppression,  \* the suppression blob
    suppressedBy, \* suppressedBy[m]: keys whose records suppressed m
    task,         \* task[m][c]: where the delivery of m to channel c is
    copy,         \* copy[m][c]: the marks as this delivery has read them
    todo,         \* todo[m][c]: targets still to be pushed to
    sent,         \* sent[m][c]: targets pushed to, not yet marked
    notified,     \* notified[c][k][x]: the mark of target x for event k
    told,         \* what was ever pushed, as <<k, x, content>>
    lastTold,     \* lastTold[k][x]: the content pushed last
    doubts,       \* <<k, x>> whose mark may not say what x was told last
    repeats,      \* <<k, x>> pushed the same content twice in a row
    withheld,     \* <<k, x>> skipped although last told something else
    passedAt,     \* passedAt[m]: when m was let through as a new incident
    blurred,      \* whether the suppression blob has lost or moved a sighting
    recorded,     \* records added so far, which number them
    cron,         \* where the cron run is
    cronCopy,     \* LINE's marks as the cron run has read them
    cronBase,     \* the suppression blob as the cron run has read it
    cronAt,       \* the cron run's own idea of now
    faults        \* faults so far

consumers == <<what, delivery, tries, startedAt>>
incidents == <<base, suppression, suppressedBy, passedAt, blurred, recorded>>
tasks == <<task, copy, todo, sent>>
marks == <<notified, told, lastTold, doubts, repeats, withheld>>
cronRun == <<cron, cronCopy, cronBase, cronAt>>
vars == <<now, consumers, incidents, tasks, marks, cronRun, faults>>

KeyOf(m) == what[m].key
ContentOf(m) == what[m].content

NoMarks == [k \in Key |-> [x \in Target |-> NoContent]]
Never == -1

Init ==
    /\ now = 0
    /\ what \in [Message -> Approval]
    /\ delivery = [m \in Message |-> "queued"]
    /\ tries = [m \in Message |-> 0]
    /\ startedAt = [m \in Message |-> 0]
    /\ base = [m \in Message |-> {}]
    /\ suppression = {}
    /\ suppressedBy = [m \in Message |-> {}]
    /\ task = [m \in Message |-> [c \in Channel |-> "idle"]]
    /\ copy = [m \in Message |-> [c \in Channel |-> NoMarks]]
    /\ todo = [m \in Message |-> [c \in Channel |-> {}]]
    /\ sent = [m \in Message |-> [c \in Channel |-> {}]]
    /\ notified = [c \in Channel |-> NoMarks]
    /\ told = {} /\ doubts = {} /\ repeats = {} /\ withheld = {}
    /\ lastTold = NoMarks
    /\ passedAt = [m \in Message |-> Never]
    /\ blurred = FALSE /\ recorded = 0
    /\ cron = "off" /\ cronCopy = NoMarks /\ cronBase = {} /\ cronAt = 0
    /\ faults = 0

Fault(kind) ==
    /\ kind \in FaultKind
    /\ faults < MaxFaults
    /\ faults' = faults + 1

-----------------------------------------------------------------------------
(* The consumer up to the channels. *)

GoTo(m, place) == delivery' = [delivery EXCEPT ![m] = place]

\* From here on both channels are served.
Open(m) ==
    /\ GoTo(m, "delivering")
    /\ task' = [task EXCEPT ![m] = [c \in Channel |-> "reading"]]

Deliverable(m) ==
    /\ delivery[m] = "queued"
    /\ tries[m] < MaxDeliveries
    /\ tries' = [tries EXCEPT ![m] = @ + 1]

\* Within the service area and the broadcast hours.  The clock is read only
\* here, and compared only for accidents.
Start(m) ==
    /\ Deliverable(m)
    /\ IF what[m].kind = "accident"
         THEN /\ GoTo(m, "sighting")
              /\ now' \in now..MaxTime
              /\ startedAt' = [startedAt EXCEPT ![m] = now']
              /\ UNCHANGED task
         ELSE Open(m) /\ UNCHANGED <<now, startedAt>>
    /\ UNCHANGED <<what, incidents, copy, todo, sent, marks, faults>>

\* Outside of them: nothing is read, written or pushed.
GateCloses(m) ==
    /\ Deliverable(m)
    /\ GoTo(m, "done")
    /\ UNCHANGED <<now, what, startedAt, incidents, tasks, marks, faults>>

ReadSuppression(m) ==
    /\ delivery[m] = "sighting"
    /\ base' = [base EXCEPT ![m] = suppression]
    /\ GoTo(m, "recording")
    /\ UNCHANGED <<now, what, tries, startedAt, suppression, suppressedBy,
                   passedAt, blurred, recorded, tasks, marks, faults>>

\* The clock reading has served its purpose.
Forget(m) == startedAt' = [startedAt EXCEPT ![m] = 0]

\* Without the blob nothing is suppressed, and nothing is recorded.
SuppressionUnreadable(m) ==
    /\ delivery[m] = "sighting"
    /\ Fault("read")
    /\ Open(m)
    /\ passedAt' = [passedAt EXCEPT ![m] = startedAt[m]]
    /\ blurred' = TRUE
    /\ Forget(m)
    /\ UNCHANGED <<now, what, tries, base, suppression, suppressedBy, recorded,
                   copy, todo, sent, marks>>

Near(a, b) ==
    /\ a # NoKm /\ b # NoKm
    /\ a - b <= MaxKmDiff /\ b - a <= MaxKmDiff

Alive(blob, time) == {r \in blob : time - r.lastSeen < Window}

\* Mutant: incidents compared by their exact kilometre.
SameKm(blob, km) == {r \in blob : r.km = km}

Matches(blob, km) == {r \in blob : Near(r.km, km)}

\* Array.find takes the first one.
First(hits) == CHOOSE r \in hits : \A s \in hits : r.no <= s.no

\* What record number no, opened for event k, says of the sighting of m.
Sighting(no, k, m) ==
    [no |-> no, key |-> k, km |-> what[m].km, lastSeen |-> startedAt[m]]

\* The first record of the same incident is refreshed where it stands; without
\* one, a record is added at the end.
Sighted(blob, m) ==
    LET hits == Matches(blob, what[m].km)
        first == First(hits)
    IN  IF hits = {}
          THEN blob \cup {Sighting(recorded + 1, KeyOf(m), m)}
          ELSE (blob \ {first}) \cup {Sighting(first.no, first.key, m)}

Suppressing(blob, m) ==
    LET hits == Matches(blob, what[m].km)
    IN  IF hits = {} THEN {} ELSE {First(hits).key}

\* What makes the blob an unreliable witness: it has changed since it was
\* read, it was written by a consumer with a later clock, or its record of the
\* incident moves to another place.
Blurs(m) ==
    \/ suppression # base[m]
    \/ \E r \in base[m] : r.lastSeen > startedAt[m]
    \/ \E r \in Matches(base[m], what[m].km) : r.km # what[m].km

\* A blob like the one that was read is not written; within one tick it may
\* still differ.
Stored(m) ==
    LET next == Sighted(Alive(base[m], startedAt[m]), m)
    IN  IF next = base[m] THEN {next, suppression} ELSE {next}

\* The blob is written before anything is pushed; a failed write is only
\* reported.
RecordSighting(m) ==
    LET by == Suppressing(Alive(base[m], startedAt[m]), m)
    IN  /\ delivery[m] = "recording"
        /\ \/ /\ suppression' \in Stored(m)
              /\ blurred' = (blurred \/ Blurs(m))
              /\ UNCHANGED faults
           \/ /\ Fault("write")
              /\ blurred' = TRUE
              /\ UNCHANGED suppression
        /\ base' = [base EXCEPT ![m] = {}]
        /\ recorded' = IF by = {} THEN recorded + 1 ELSE recorded
        /\ suppressedBy' = [suppressedBy EXCEPT ![m] = by]
        /\ IF by = {}
             THEN /\ Open(m)
                  /\ passedAt' = [passedAt EXCEPT ![m] = startedAt[m]]
             ELSE GoTo(m, "done") /\ UNCHANGED <<task, passedAt>>
        /\ Forget(m)
        /\ UNCHANGED <<now, what, tries, copy, todo, sent, marks>>

-----------------------------------------------------------------------------
(* One channel. *)

At(m, c, place) == task[m][c] = place

\* Other deliveries of the same event to this channel that have read the marks.
Rivals(m, c) ==
    {n \in Message \ {m} : /\ KeyOf(n) = KeyOf(m)
                           /\ task[n][c] \in {"pushing", "saving"}}

\* Mutants: the marks are not looked at; a mark of any content will do.
Everybody(m, c, on) == on
NeverMarked(m, c, on) == {x \in on : notified[c][KeyOf(m)][x] = NoContent}

Pending(m, c, on) == {x \in on : notified[c][KeyOf(m)][x] # ContentOf(m)}

\* Subscriptions change at any time: other targets may be switched on whenever
\* they are read.  Telegram's only target always is.
SwitchedOn(c) == IF c = "line" THEN Subscriptions ELSE {{TelegramTarget}}

ReadMarks(m, c, on) ==
    LET k == KeyOf(m)
        due == Pending(m, c, on)
    IN  /\ At(m, c, "reading")
        /\ IF due = {} \/ k \in Muted
             THEN /\ task' = [task EXCEPT ![m][c] = "done"]
                  /\ UNCHANGED <<copy, todo>>
             ELSE /\ task' = [task EXCEPT ![m][c] = "pushing"]
                  /\ copy' = [copy EXCEPT ![m][c] = notified[c]]
                  /\ todo' = [todo EXCEPT ![m][c] = due]
        /\ doubts' = doubts \cup
             {<<k, x>> : x \in UNION {sent[n][c] : n \in Rivals(m, c)}}
        /\ withheld' = withheld \cup
             {<<k, x>> : x \in {x \in on \ due : lastTold[k][x] # ContentOf(m)}}
        /\ UNCHANGED <<now, consumers, incidents, sent, notified, told, lastTold,
                       repeats, faults>>

\* The channel is not ready: no token, or one of its reads failed.
NotReady(m, c) ==
    /\ At(m, c, "reading")
    /\ Fault("read")
    /\ task' = [task EXCEPT ![m][c] = "done"]
    /\ UNCHANGED <<now, consumers, incidents, copy, todo, sent, marks>>

\* After the last target: marks are written if anybody was reached.
AfterPush(m, c, left, reached) ==
    /\ todo' = [todo EXCEPT ![m][c] = left]
    /\ task' = [task EXCEPT ![m][c] = IF left # {} THEN "pushing"
                                      ELSE IF reached # {} THEN "saving" ELSE "done"]
    /\ copy' = IF left = {} /\ reached = {}
                 THEN [copy EXCEPT ![m][c] = NoMarks] ELSE copy

\* The target receives the message.
Received(m, x) ==
    LET k == KeyOf(m)
    IN  /\ told' = told \cup {<<k, x, ContentOf(m)>>}
        /\ lastTold' = [lastTold EXCEPT ![k][x] = ContentOf(m)]
        /\ repeats' = IF lastTold[k][x] = ContentOf(m)
                        THEN repeats \cup {<<k, x>>} ELSE repeats

Push(m, c, x) ==
    /\ At(m, c, "pushing") /\ x \in todo[m][c]
    /\ Received(m, x)
    /\ sent' = [sent EXCEPT ![m][c] = @ \cup {x}]
    /\ AfterPush(m, c, todo[m][c] \ {x}, sent[m][c] \cup {x})
    /\ doubts' = IF Rivals(m, c) = {} THEN doubts ELSE doubts \cup {<<KeyOf(m), x>>}
    /\ UNCHANGED <<now, consumers, incidents, notified, withheld, faults>>

PushFails(m, c, x) ==
    /\ At(m, c, "pushing") /\ x \in todo[m][c]
    /\ Fault("push")
    /\ AfterPush(m, c, todo[m][c] \ {x}, sent[m][c])
    /\ UNCHANGED <<now, consumers, incidents, sent, marks>>

\* The message arrives, its answer does not: for the code a failed push.
AnswerLost(m, c, x) ==
    /\ At(m, c, "pushing") /\ x \in todo[m][c]
    /\ Fault("answer")
    /\ Received(m, x)
    /\ AfterPush(m, c, todo[m][c] \ {x}, sent[m][c])
    /\ doubts' = doubts \cup {<<KeyOf(m), x>>}
    /\ UNCHANGED <<now, consumers, incidents, sent, notified, withheld>>

EndTask(m, c) ==
    /\ task' = [task EXCEPT ![m][c] = "done"]
    /\ copy' = [copy EXCEPT ![m][c] = NoMarks]
    /\ sent' = [sent EXCEPT ![m][c] = {}]

\* Mutant: marks all targets, not those that were reached.
AllMarked(m, c) ==
    [copy[m][c] EXCEPT ![KeyOf(m)] =
        [x \in Target |-> IF x \in TargetsOf(c) THEN ContentOf(m) ELSE @[x]]]

Marked(m, c) ==
    [copy[m][c] EXCEPT ![KeyOf(m)] =
        [x \in Target |-> IF x \in sent[m][c] THEN ContentOf(m) ELSE @[x]]]

Overwritten(m, c) ==
    {p \in Key \X Target : notified[c][p[1]][p[2]] # copy[m][c][p[1]][p[2]]}

SaveMarks(m, c) ==
    /\ At(m, c, "saving")
    /\ notified' = [notified EXCEPT ![c] = Marked(m, c)]
    /\ doubts' = doubts \cup Overwritten(m, c)
    /\ EndTask(m, c)
    /\ UNCHANGED <<now, consumers, incidents, todo, told, lastTold, repeats, withheld,
                   faults>>

SaveFails(m, c) ==
    /\ At(m, c, "saving")
    /\ Fault("write")
    /\ doubts' = doubts \cup {<<KeyOf(m), x>> : x \in sent[m][c]}
    /\ EndTask(m, c)
    /\ UNCHANGED <<now, consumers, incidents, todo, notified, told, lastTold, repeats,
                   withheld>>

-----------------------------------------------------------------------------
(* The end of a delivery. *)

\* Mutant: what a delivery was about to do outlives it.
TasksSurvive(m) == UNCHANGED tasks

ClearTasks(m) ==
    /\ task' = [task EXCEPT ![m] = [c \in Channel |-> "idle"]]
    /\ copy' = [copy EXCEPT ![m] = [c \in Channel |-> NoMarks]]
    /\ todo' = [todo EXCEPT ![m] = [c \in Channel |-> {}]]
    /\ sent' = [sent EXCEPT ![m] = [c \in Channel |-> {}]]

\* Both channels have settled; the message is completed whatever came of it.
Finish(m) ==
    /\ delivery[m] = "delivering"
    /\ \A c \in Channel : task[m][c] = "done"
    /\ GoTo(m, "done")
    /\ ClearTasks(m)
    /\ UNCHANGED <<now, what, tries, startedAt, incidents, marks, faults>>

\* The consumer is stopped; its message returns to the queue.
Die(m) ==
    /\ delivery[m] \in {"sighting", "recording", "delivering"}
    /\ Fault("die")
    /\ GoTo(m, "queued")
    /\ base' = [base EXCEPT ![m] = {}]
    /\ doubts' = doubts \cup {<<KeyOf(m), x>> : x \in UNION {sent[m][c] : c \in Channel}}
    /\ ClearTasks(m)
    /\ Forget(m)
    /\ UNCHANGED <<now, what, tries, suppression, suppressedBy, passedAt, blurred,
                   recorded, notified, told, lastTold, repeats, withheld>>

Consumer(m) ==
    \/ Start(m) \/ GateCloses(m)
    \/ ReadSuppression(m) \/ SuppressionUnreadable(m) \/ RecordSighting(m)
    \/ Finish(m) \/ Die(m)

Deliver(m, c) ==
    \/ \E on \in SwitchedOn(c) : ReadMarks(m, c, on)
    \/ NotReady(m, c)
    \/ \E x \in TargetsOf(c) : Push(m, c, x) \/ PushFails(m, c, x) \/ AnswerLost(m, c, x)
    \/ SaveMarks(m, c) \/ SaveFails(m, c)

-----------------------------------------------------------------------------
(* The cron run: runLineBroadcast without events. *)

\* readNotifiedState.
CronReadsMarks ==
    /\ cron = "off"
    /\ Fault("cron")
    /\ cron' = "reading"
    /\ cronCopy' = notified["line"]
    /\ now' \in now..MaxTime
    /\ cronAt' = now'
    /\ UNCHANGED <<consumers, incidents, tasks, marks, cronBase>>

CronReadsSuppression ==
    /\ cron = "reading"
    /\ cron' = "expiring"
    /\ cronBase' = suppression
    /\ UNCHANGED <<now, consumers, incidents, tasks, marks, cronCopy, cronAt, faults>>

Unexpired == {r \in cronBase : cronAt - r.lastSeen < CronWindow}

\* The blob has changed since it was read, or a consumer with an earlier clock is yet
\* to look for what has expired.
CronBlurs ==
    \/ suppression # cronBase
    \/ \E m \in Message : delivery[m] \in {"sighting", "recording"} /\ startedAt[m] < cronAt

\* persistIncidentSuppressionState, if anything has expired.
CronExpires ==
    /\ cron = "expiring"
    /\ \/ /\ Unexpired # cronBase
          /\ suppression' = Unexpired
          /\ blurred' = (blurred \/ CronBlurs)
       \/ UNCHANGED <<suppression, blurred>>
    /\ cron' = "pruning" /\ cronBase' = {} /\ cronAt' = 0
    /\ UNCHANGED <<now, consumers, base, suppressedBy, passedAt, recorded, tasks, marks,
                   cronCopy, faults>>

\* Mutant: marks that could not be read are written back as none at all.
PrunedFromNothing(gone) == NoMarks

\* removePrunedEvents.
Pruned(gone) ==
    [k \in Key |-> IF k \in gone THEN [x \in Target |-> NoContent] ELSE cronCopy[k]]

\* Marks written since the cron run has read them.
Undone == {p \in Key \X LineTarget : notified["line"][p[1]][p[2]] # cronCopy[p[1]][p[2]]}

\* The rest of the run, with the marks of the events the dedupe has just retired.
\* With none, after a failed read or with a failed write nothing happens.
CronPrunes ==
    /\ cron = "pruning"
    /\ \/ \E gone \in SUBSET Prunable \ {{}} :
             /\ notified' = [notified EXCEPT !["line"] = Pruned(gone)]
             /\ doubts' = doubts \cup Undone \cup (gone \X LineTarget)
       \/ UNCHANGED <<notified, doubts>>
    /\ cron' = "off" /\ cronCopy' = NoMarks
    /\ UNCHANGED <<now, consumers, incidents, tasks, told, lastTold, repeats, withheld,
                   cronBase, cronAt, faults>>

Cron == CronReadsMarks \/ CronReadsSuppression \/ CronExpires \/ CronPrunes

Work(m) == (Consumer(m) \/ \E c \in Channel : Deliver(m, c)) /\ UNCHANGED cronRun

Next == Cron \/ \E m \in Message : Work(m)

Spec == Init /\ [][Next]_vars

-----------------------------------------------------------------------------
(* Properties *)

Marks == [Key -> [Target -> Content \cup {NoContent}]]
Pairs == Key \X Target
Incident == [no : Nat, key : Key, km : {a.km : a \in Approval}, lastSeen : 0..MaxTime]

\* Types of every variable, and tasks run only while their delivery does.
TypeOK ==
    /\ now \in 0..MaxTime
    /\ what \in [Message -> Approval]
    /\ delivery \in [Message -> {"queued", "sighting", "recording", "delivering", "done"}]
    /\ tries \in [Message -> 0..MaxDeliveries]
    /\ startedAt \in [Message -> 0..MaxTime]
    /\ \A m \in Message : base[m] \subseteq Incident
    /\ suppression \subseteq Incident
    /\ suppressedBy \in [Message -> SUBSET Key]
    /\ task \in [Message -> [Channel -> {"idle", "reading", "pushing", "saving", "done"}]]
    /\ \A m \in Message : \A c \in Channel : (task[m][c] = "idle") <=> (delivery[m] # "delivering")
    /\ copy \in [Message -> [Channel -> Marks]]
    /\ todo \in [Message -> [Channel -> SUBSET Target]]
    /\ sent \in [Message -> [Channel -> SUBSET Target]]
    /\ notified \in [Channel -> Marks]
    /\ told \subseteq Key \X Target \X Content
    /\ lastTold \in Marks
    /\ doubts \subseteq Pairs /\ repeats \subseteq Pairs /\ withheld \subseteq Pairs
    /\ passedAt \in [Message -> {Never} \cup 0..MaxTime]
    /\ blurred \in BOOLEAN /\ recorded \in Nat
    /\ cron \in {"off", "reading", "expiring", "pruning"}
    /\ cronCopy \in Marks /\ cronAt \in 0..MaxTime
    /\ cronBase \subseteq Incident
    /\ faults \in 0..MaxFaults

\* A mark is never false: whatever the writes of concurrent consumers do to
\* the blobs, a target marked as notified of a content was pushed it.  (The
\* header of notified.js: what has actually been PUSHED, per target.)
MarkedWasTold ==
    \A c \in Channel, k \in Key, x \in Target :
        notified[c][k][x] # NoContent => <<k, x, notified[c][k][x]>> \in told

\* The same content is pushed to a target twice in a row only after an event
\* that left its mark in doubt: an answer or a write that failed, a consumer
\* that died, a blob written over by another consumer or a cron run, a mark
\* that was pruned, or two deliveries of one event at once.
RepeatsAreInDoubt == repeats \subseteq doubts

\* A target is skipped only when it was last told just this content, again
\* except in doubt: a stale mark may make targetNeedsNotification hold back a
\* change from a target that last heard something else.
WithheldOnlyInDoubt == withheld \subseteq doubts

\* Outside of doubt, and of the moment between push and write, the marks say
\* what the targets were told last.
MarksInStep ==
    \A c \in Channel : \A k \in Key, x \in TargetsOf(c) :
        \/ <<k, x>> \in doubts
        \/ \E m \in Message : KeyOf(m) = k /\ x \in sent[m][c]
        \/ notified[c][k][x] = lastTold[k][x]

\* Two reports of one accident within the collision window are not both told,
\* unless the blob was written over, written by a later clock, failed, or had
\* its record moved to another kilometre.
DuplicatesSuppressed ==
    \A m, n \in Message :
        /\ m # n /\ passedAt[m] # Never /\ passedAt[n] # Never
        /\ what[m].kind = "accident" /\ what[n].kind = "accident"
        /\ Near(what[m].km, what[n].km)
        /\ passedAt[m] - passedAt[n] \in 0..(Window - 1)
        => blurred

\* An event is suppressed as one that was already notified (doc of
\* resolveIncidentNotifications): when all is over, somebody was told of it.
SuppressedWasTold ==
    (\A m \in Message : delivery[m] = "done") =>
        \A m \in Message : \A k \in suppressedBy[m] :
            \E x \in Target, content \in Content : <<k, x, content>> \in told

=============================================================================
