------------------------------- MODULE AiDecision -------------------------------
(***************************************************************************)
(* What a queue consumer does with a report between the cleared marker and *)
(* the broadcast: runAiDecisionPath, with the three things in KV it reads  *)
(* and writes - the incident memory, the cache of AI decisions and the     *)
(* position cooldown ("never twice at one place within the hour").         *)
(*                                                                         *)
(* Memory and cooldown are one blob each, read whole, written back whole   *)
(* after the AI call and the push, so consumers at work together write     *)
(* over each other.  A run is one delivery of one report, cut at every     *)
(* await; a retried message is another run.  The blobs are those of one    *)
(* road and direction: records of other groups pass through untouched.     *)
(*                                                                         *)
(* Time is counted in half hours.  A run takes a minute or two, so the     *)
(* clock stands still while one is at work.  Excluded candidates end       *)
(* before anything is read, and are left out.  The AI's answer is free.    *)
(***************************************************************************)
EXTENDS Integers, FiniteSets

CONSTANTS
    Run,            \* deliveries of a report to a consumer
    NoRun,
    Report,         \* contents of events: eventId and fingerprint
    EventOf,        \* EventOf[p]: the source:eventId of report p
    KmOf,           \* KmOf[p]: deriveEventLocationForMemory, as a kilometre
    NoKm,           \* no kilometre can be read off the report
    CooldownRange,  \* POSITION_COOLDOWN_MAX_KM_DIFF
    MemoryRange,    \* INCIDENT_MEMORY_MAX_KM_DIFF
    Window,         \* POSITION_COOLDOWN_WINDOW_MS
    CooldownTTL,    \* POSITION_COOLDOWN_RECORD_TTL_MS
    MemoryTTL,      \* INCIDENT_MEMORY_TTL_MS
    MaxCandidates,  \* MAX_MEMORY_CANDIDATES
    MaxActive,      \* consumers at work at once
    Faults,         \* the kinds of fault that may happen
    MaxFaults,      \* bound: how many faults happen in a behaviour
    MaxTime         \* bound: the last half hour

ASSUME ReportAssumption ==
    /\ KmOf \in [Report -> Int \cup {NoKm}]
    /\ NoKm \notin Int
    /\ NoRun \notin Run /\ IsFiniteSet(Run)

ASSUME TimesAssumption ==
    /\ Window \in Nat /\ CooldownTTL \in Nat /\ MemoryTTL \in Nat
    /\ Window < CooldownTTL
    /\ CooldownRange \in Nat /\ MemoryRange \in Nat
    /\ MaxTime \in Nat /\ MaxFaults \in Nat
    /\ Faults \subseteq {"read", "write", "die"}

VARIABLES
    now,
    pc,           \* pc[r]: where run r is
    report,       \* report[r]: what it is about
    startedAt,    \* startedAt[r]: the `now` of its handler
    memory,       \* the incident memory
    memoryCopy,   \* memoryCopy[r]: as run r has read it
    cache,        \* the AI decision cache
    decision,     \* decision[r]: the validated answer
    cooldown,     \* the position cooldown
    cooldownCopy, \* cooldownCopy[r]: as run r has read it
    pushed,       \* runs whose broadcast reached somebody
    silenced,     \* runs the cooldown has stopped
    family,       \* history: the incident that the sighting of run r went into
    written,      \* history: runs that have written the cooldown
    memoryGone,   \* history: memoryGone[r]: sightings run r cannot have read
    cooldownGone, \* history: cooldownGone[r]: cooldown writes run r cannot have read
    unseen,       \* history: runs whose sighting may not be in the memory
    unnoted,      \* history: runs whose push may not be in the cooldown
    faults        \* faults that have happened

control  == <<pc, report, startedAt>>
memories == <<memory, memoryCopy, family, memoryGone, unseen>>
answers  == <<cache, decision>>
cooling  == <<cooldown, cooldownCopy, written, cooldownGone, unnoted>>
outcomes == <<pushed, silenced>>
vars == <<now, control, memories, answers, cooling, outcomes, faults>>

-----------------------------------------------------------------------------
(* State *)

Never == -1
Place == Int \cup {NoKm}

Sighting ==
    [no : Nat, key : Run, km : Place, event : {EventOf[p] : p \in Report},
     seen : Nat, told : Nat \cup {Never}]

Impact  == {"LOW", "HIGH"}
Notice  == [no : Nat, km : Place, at : Nat, max : Impact]
Verdict == {"unasked", "other", "unchanged", "changed"}

\* The impact of a decision to tell nobody is never read.
Decision ==
    [notify : {TRUE}, impact : Impact, verdict : Verdict]
    \cup [notify : {FALSE}, impact : {"LOW"}, verdict : Verdict]

Context == SUBSET [key : Run, seen : Nat]
Answer  == [report : Report, context : Context, decision : Decision]

Quiet == [notify |-> FALSE, impact |-> "LOW", verdict |-> "unasked"]

Working == {"asking", "calling", "deciding", "pushing", "remembering", "cooling"}
Active(r) == pc[r] \in Working

TypeOK ==
    /\ now \in Nat /\ faults \in Nat
    /\ pc \in [Run -> Working \cup {"off", "done"}]
    /\ report \in [Run -> Report] /\ startedAt \in [Run -> Nat]
    /\ memory \subseteq Sighting /\ memoryCopy \in [Run -> SUBSET Sighting]
    /\ cache \subseteq Answer /\ decision \in [Run -> Decision]
    /\ cooldown \subseteq Notice /\ cooldownCopy \in [Run -> SUBSET Notice]
    /\ pushed \subseteq Run /\ silenced \subseteq Run
    /\ family \in [Run -> Run \cup {NoRun}] /\ written \subseteq Run
    /\ memoryGone \in [Run -> SUBSET Run] /\ cooldownGone \in [Run -> SUBSET Run]
    /\ unseen \subseteq Run /\ unnoted \subseteq Run

Init ==
    /\ now = 0 /\ faults = 0
    /\ pc = [r \in Run |-> "off"]
    /\ report \in [Run -> Report]
    /\ startedAt = [r \in Run |-> 0]
    /\ memory = {} /\ memoryCopy = [r \in Run |-> {}]
    /\ cache = {} /\ decision = [r \in Run |-> Quiet]
    /\ cooldown = {} /\ cooldownCopy = [r \in Run |-> {}]
    /\ pushed = {} /\ silenced = {}
    /\ family = [r \in Run |-> NoRun] /\ written = {}
    /\ memoryGone = [r \in Run |-> {}] /\ cooldownGone = [r \in Run |-> {}]
    /\ unseen = {} /\ unnoted = {}

Km(r)    == KmOf[report[r]]
Event(r) == EventOf[report[r]]
Goto(r, place) == pc' = [pc EXCEPT ![r] = place]

Fault(kind) ==
    /\ kind \in Faults
    /\ faults < MaxFaults
    /\ faults' = faults + 1

Within(a, b, range) == a # NoKm /\ b # NoKm /\ a - b <= range /\ b - a <= range

-----------------------------------------------------------------------------
(* The incident memory: selectMemoryCandidates, buildIncidentMemoryUpdate *)

Sighted == {r \in Run : family[r] # NoRun}

Current(blob, time) == {s \in blob : time - s.seen < MemoryTTL}

\* Newest first, in the order of the array among equals.
Before(s, t) == s.seen > t.seen \/ (s.seen = t.seen /\ s.no < t.no)

\* Near, not too old, and not last seen as this very event; the newest ones.
Candidates(r) ==
    LET near == {s \in Current(memoryCopy[r], startedAt[r]) :
                    s.event # Event(r) /\ Within(s.km, Km(r), MemoryRange)}
    IN  {s \in near : Cardinality({t \in near : Before(t, s)}) < MaxCandidates}

\* buildMemoryContextFingerprint.
ContextOf(r) == {[key |-> s.key, seen |-> s.seen] : s \in Candidates(r)}

\* The one record the answer is about: memoryCandidates[0].
Newest(r) == CHOOSE s \in Candidates(r) : \A t \in Candidates(r) : ~Before(t, s)

Matched(r) == decision[r].verdict \in {"unchanged", "changed"} /\ Candidates(r) # {}

\* A new incident gets a random key: the name of the run that starts it.
FamilyOf(r) == IF Matched(r) THEN Newest(r).key ELSE r

\* Mutant: notified although nobody was reached.
ToldOnDecision(r, before) == IF decision[r].notify THEN startedAt[r] ELSE before

\* lastNotifiedAt: only a broadcast that reached somebody counts.
ToldAt(r, before) == IF r \in pushed THEN startedAt[r] ELSE before

\* The matched record is refreshed in place, or a new one is appended.
SightingOf(r) ==
    LET old == Newest(r)
    IN  IF Matched(r)
        THEN [old EXCEPT !.km = IF Km(r) # NoKm THEN Km(r) ELSE @,
                         !.event = Event(r), !.seen = startedAt[r],
                         !.told = ToldAt(r, @)]
        ELSE [no |-> Cardinality(Sighted) + 1, key |-> r, km |-> Km(r),
              event |-> Event(r), seen |-> startedAt[r], told |-> ToldAt(r, Never)]

\* Mutant: only the record of this run is written.
OnlyThis(r) == {SightingOf(r)}

NextMemory(r) ==
    {s \in Current(memoryCopy[r], startedAt[r]) : s.key # FamilyOf(r)} \cup {SightingOf(r)}

-----------------------------------------------------------------------------
(* The position cooldown: positionCooldown.js *)

Matches(blob, km) == {n \in blob : Within(n.km, km, CooldownRange)}

\* Array.find: the first record of the array that is near enough, whatever its age.
FirstMatch(blob, km) ==
    CHOOSE n \in Matches(blob, km) : \A m \in Matches(blob, km) : n.no <= m.no

\* Mutant: the boundary of the window is open.
BlockedExclusive(blob, km, time, impact) ==
    LET n == FirstMatch(blob, km)
    IN  /\ Matches(blob, km) # {}
        /\ time - n.at < Window
        /\ ~(impact = "HIGH" /\ n.max = "LOW")

\* Mutant: a record blocks for as long as it is there.
BlockedForLong(blob, km, time, impact) ==
    LET n == FirstMatch(blob, km)
    IN  /\ Matches(blob, km) # {}
        /\ ~(impact = "HIGH" /\ n.max = "LOW")

\* evaluatePositionCooldown.
Blocked(blob, km, time, impact) ==
    LET n == FirstMatch(blob, km)
    IN  /\ Matches(blob, km) # {}
        /\ time - n.at <= Window
        /\ ~(impact = "HIGH" /\ n.max = "LOW")

Alive(blob, time) == {n \in blob : time - n.at < CooldownTTL}

\* buildPositionCooldownUpdate: never down from HIGH.
NextCooldown(r) ==
    LET alive  == Alive(cooldownCopy[r], startedAt[r])
        old    == FirstMatch(alive, Km(r))
        impact == decision[r].impact
    IN  IF Matches(alive, Km(r)) # {}
        THEN (alive \ {old})
             \cup {[no |-> old.no, km |-> Km(r), at |-> startedAt[r],
                    max |-> IF impact = "HIGH" THEN "HIGH" ELSE old.max]}
        ELSE alive \cup {[no |-> Cardinality(written) + 1, km |-> Km(r),
                          at |-> startedAt[r], max |-> impact]}

-----------------------------------------------------------------------------
(* runAiDecisionPath *)

\* A failed read of a blob is an empty blob, and what was in it is gone for the run.
ReadMemory(r) ==
    \/ /\ memoryCopy' = [memoryCopy EXCEPT ![r] = memory]
       /\ memoryGone' = [memoryGone EXCEPT ![r] = {}]
       /\ UNCHANGED faults
    \/ /\ Fault("read")
       /\ memoryCopy' = [memoryCopy EXCEPT ![r] = {}]
       /\ memoryGone' = [memoryGone EXCEPT ![r] = Sighted]

Start(r) ==
    /\ pc[r] = "off"
    /\ Cardinality({q \in Run : Active(q)}) < MaxActive
    /\ Goto(r, "asking")
    /\ startedAt' = [startedAt EXCEPT ![r] = now]
    /\ ReadMemory(r)
    /\ UNCHANGED <<now, report, memory, family, unseen, answers, cooling, outcomes>>

\* Mutant: the key of the cache leaves the context out.
KeyWithoutContext(r) == {a \in cache : a.report = report[r]}

\* The entry under the key of this event, content and memory context.
Cached(r) == {a \in cache : a.report = report[r] /\ a.context = ContextOf(r)}

\* readAiDecisionCache: a hit is used as it is; a failed read is a miss.
Consult(r) ==
    /\ pc[r] = "asking"
    /\ \/ /\ \E a \in Cached(r) : decision' = [decision EXCEPT ![r] = a.decision]
          /\ Goto(r, "deciding")
          /\ UNCHANGED faults
       \/ /\ (Cached(r) = {} /\ UNCHANGED faults) \/ Fault("read")
          /\ Goto(r, "calling")
          /\ UNCHANGED decision
    /\ UNCHANGED <<now, report, startedAt, memories, cache, cooling, outcomes>>

\* Mutant: an unknown impact passes.
AnyImpact(r) == [notify : {TRUE}, impact : {"LOW", "MEDIUM"}, verdict : {"unasked", "other"}]

\* validateAiDecisionResponse: sameIncident and materialChange are there if and
\* only if there was something to compare with.
Valid(r) == {d \in Decision : (d.verdict = "unasked") = (ContextOf(r) = {})}

\* A valid answer is cached (best effort), over any entry of the same key.
Answered(r) ==
    /\ pc[r] = "calling"
    /\ \E d \in Valid(r) :
          /\ decision' = [decision EXCEPT ![r] = d]
          /\ \/ /\ cache' = (cache \ Cached(r))
                            \cup {[report |-> report[r], context |-> ContextOf(r), decision |-> d]}
                /\ UNCHANGED faults
             \/ Fault("write") /\ UNCHANGED cache
    /\ Goto(r, "deciding")
    /\ UNCHANGED <<now, report, startedAt, memories, cooling, outcomes>>

\* The run is over, and with it what it has read.
EndRun(r) ==
    /\ Goto(r, "done")
    /\ memoryCopy' = [memoryCopy EXCEPT ![r] = {}]
    /\ memoryGone' = [memoryGone EXCEPT ![r] = {}]
    /\ cooldownCopy' = [cooldownCopy EXCEPT ![r] = {}]
    /\ cooldownGone' = [cooldownGone EXCEPT ![r] = {}]
    /\ UNCHANGED <<now, report, startedAt, memory, family, unseen, answers,
                   cooldown, written, unnoted, outcomes>>

\* Timeout, error or invalid answer: nothing is cached or remembered.
NotAnswered(r) == pc[r] = "calling" /\ EndRun(r) /\ UNCHANGED faults

\* Nothing to tell, or (suppressForNoChange) nothing new about the same incident.
Unworthy(r) == ~decision[r].notify \/ decision[r].verdict = "unchanged"

Dismiss(r) ==
    /\ pc[r] = "deciding" /\ Unworthy(r)
    /\ Goto(r, "remembering")
    /\ UNCHANGED <<now, report, startedAt, memories, answers, cooling, outcomes, faults>>

\* readPositionCooldownState, then the verdict on what it returned.
CheckCooldown(r) ==
    /\ pc[r] = "deciding" /\ ~Unworthy(r)
    /\ \/ /\ cooldownCopy' = [cooldownCopy EXCEPT ![r] = cooldown]
          /\ cooldownGone' = [cooldownGone EXCEPT ![r] = {}]
          /\ UNCHANGED faults
       \/ /\ Fault("read")
          /\ cooldownCopy' = [cooldownCopy EXCEPT ![r] = {}]
          /\ cooldownGone' = [cooldownGone EXCEPT ![r] = written]
    /\ IF Blocked(cooldownCopy'[r], Km(r), startedAt[r], decision[r].impact)
       THEN Goto(r, "remembering") /\ silenced' = silenced \cup {r}
       ELSE Goto(r, "pushing") /\ UNCHANGED silenced
    /\ UNCHANGED <<now, report, startedAt, memories, answers, cooldown, written, unnoted,
                   pushed>>

\* runAiApprovedPbsBroadcast: it reaches somebody, or nobody (gates, suppression,
\* failed pushes, an exception: the catch block remembers the sighting too).
Broadcast(r) ==
    /\ pc[r] = "pushing"
    /\ \/ pushed' = pushed \cup {r} /\ unnoted' = unnoted \cup {r}
       \/ UNCHANGED <<pushed, unnoted>>
    /\ Goto(r, "remembering")
    /\ UNCHANGED <<now, report, startedAt, memories, answers, cooldown, cooldownCopy, written,
                   cooldownGone, silenced, faults>>

\* The runs at work now cannot have read what r writes.
Misses(gone, r) ==
    [q \in Run |-> IF q = r THEN {} ELSE IF Active(q) THEN gone[q] \cup {r} ELSE gone[q]]

\* persistSighting: the whole blob, as read before the AI call.
PersistSighting(r) ==
    /\ pc[r] = "remembering"
    /\ \/ /\ memory' = NextMemory(r)
          /\ family' = [family EXCEPT ![r] = FamilyOf(r)]
          /\ memoryGone' = Misses(memoryGone, r)
          /\ unseen' = (unseen \ {r}) \cup memoryGone[r]
          /\ UNCHANGED faults
       \/ /\ Fault("write")
          /\ memoryGone' = [memoryGone EXCEPT ![r] = {}]
          /\ UNCHANGED <<memory, family, unseen>>
    /\ memoryCopy' = [memoryCopy EXCEPT ![r] = {}]
    /\ Goto(r, IF r \in pushed THEN "cooling" ELSE "done")
    /\ UNCHANGED <<now, report, startedAt, answers, cooling, outcomes>>

\* persistPositionCooldownAfterPush: the whole blob, as read before the push.
PersistCooldown(r) ==
    /\ pc[r] = "cooling"
    /\ \/ /\ cooldown' = NextCooldown(r)
          /\ written' = written \cup {r}
          /\ cooldownGone' = Misses(cooldownGone, r)
          /\ unnoted' = (unnoted \ {r}) \cup cooldownGone[r]
          /\ UNCHANGED faults
       \/ /\ Fault("write")
          /\ cooldownGone' = [cooldownGone EXCEPT ![r] = {}]
          /\ UNCHANGED <<cooldown, written, unnoted>>
    /\ cooldownCopy' = [cooldownCopy EXCEPT ![r] = {}]
    /\ Goto(r, "done")
    /\ UNCHANGED <<now, report, startedAt, memories, answers, outcomes>>

\* The invocation is lost between two awaits.
Die(r) == Active(r) /\ Fault("die") /\ EndRun(r)

-----------------------------------------------------------------------------
(* The specification *)

Tick ==
    /\ now < MaxTime
    /\ \A r \in Run : ~Active(r)
    /\ now' = now + 1
    /\ UNCHANGED <<control, memories, answers, cooling, outcomes, faults>>

RunStep(r) ==
    \/ Start(r) \/ Consult(r) \/ Answered(r) \/ NotAnswered(r)
    \/ Dismiss(r) \/ CheckCooldown(r) \/ Broadcast(r)
    \/ PersistSighting(r) \/ PersistCooldown(r)

Next == Tick \/ \E r \in Run : RunStep(r) \/ Die(r)

Spec == Init /\ [][Next]_vars

-----------------------------------------------------------------------------
(* Properties *)

\* The answer a run acts on, cached or not, speaks of the same incident and of
\* change exactly when the run has an incident to compare with ("all three MUST
\* agree on whether memory context was supplied", aiDecisionEngine.js).
AnswerFitsQuestion ==
    \A r \in Run :
        pc[r] \in {"deciding", "pushing", "remembering"} =>
            (decision[r].verdict = "unasked") = (ContextOf(r) = {})

Near(q, r) == Within(Km(q), Km(r), CooldownRange)

\* A push at a place where another went out within the last hour, and no rise from
\* LOW to HIGH.
Repeats(r, q) ==
    /\ q \in pushed /\ Near(q, r)
    /\ startedAt[r] - startedAt[q] <= Window
    /\ ~(decision[r].impact = "HIGH" /\ decision[q].impact = "LOW")

\* Nobody is told twice within the hour about one place, whatever the AI says,
\* unless the earlier push was not yet noted when the later run read the cooldown,
\* or its note was lost (a dead consumer, a failed read or write, a rival's blob).
RepeatsHaveACause ==
    [][\A r \in pushed' \ pushed, q \in Run :
          Repeats(r, q) => q \in unnoted \cup cooldownGone[r]]_vars

\* "Whatever the AI's notify, sameIncident or materialChange: pushed within the last
\* sixty minutes at the same position, and no rise from LOW to HIGH this time, is
\* blocked" (debugPush.js, of evaluatePositionCooldown), for pushes at LOW, which
\* cannot rise.
LowNeverRepeats ==
    [][\A r \in pushed' \ pushed, q \in Run :
          Repeats(r, q) /\ decision[r].impact = "LOW" => q \in unnoted \cup cooldownGone[r]]_vars

\* Nobody is silenced without reason: a run the cooldown stopped has a push near
\* enough in space and time, and one stopped at HIGH a HIGH one.
SilencedWithReason ==
    \A r \in silenced :
        \E q \in pushed :
            /\ Near(q, r) /\ startedAt[r] - startedAt[q] <= Window
            /\ decision[r].impact = "HIGH" =>
                  \E p \in pushed : decision[p].impact = "HIGH"

\* lastNotifiedAt never claims a notification that did not go out, nor that of another
\* incident, through failed writes, dead consumers and blobs written over: it is the
\* moment of a push whose sighting went into this very incident.
NotifiedWasPushed ==
    \A s \in memory :
        s.told # Never => \E r \in pushed : startedAt[r] = s.told /\ family[r] = s.key

\* A sighting stays in the memory for its eight hours, with its notification, unless
\* a run that had not read it wrote the blob.
SightingsKept ==
    \A r \in Run :
        /\ family[r] # NoRun /\ r \notin unseen
        /\ now - startedAt[r] < MemoryTTL
        => \E s \in memory :
              /\ s.key = family[r] /\ s.seen >= startedAt[r]
              /\ r \in pushed => s.told >= startedAt[r]

=============================================================================
