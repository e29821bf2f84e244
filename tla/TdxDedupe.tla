------------------------------ MODULE TdxDedupe ------------------------------
(***************************************************************************)
(* How road events of TDX reach the queue: a cron run fetches the sources, *)
(* reads the dedupe state, classifies what it fetched, commits the new     *)
(* state, and then enqueues what is new or updated.                        *)
(*                                                                         *)
(* Runs do not overlap (twenty minutes lie between them, and the night).   *)
(* An event that is absent is not forgotten at once: its absence clock     *)
(* starts at the first payload of a healthy source that lacks it, and only *)
(* after the grace period is it dropped from the state.  Clocks are ages   *)
(* in ticks, cut off at the grace period, which is all that is compared.   *)
(***************************************************************************)
EXTENDS Integers

CONSTANTS
    Source,     \* sources of TDX that production fetches
    Event,      \* source:rawId of an event
    SourceOf,   \* SourceOf[e]: the source that reports event e
    ContentOf,  \* ContentOf[e]: what computeFingerprint may be of event e
    Excluded,   \* contents that the geography and road policy gates drop
    NoContent,  \* the event is not there
    Grace,      \* ABSENCE_GRACE_PERIOD_MS in ticks
    Pause       \* ticks that may lie between two runs

Content == UNION {ContentOf[e] : e \in Event}

ASSUME DedupeAssumption ==
    /\ SourceOf \in [Event -> Source]
    /\ NoContent \notin Content
    /\ Grace \in Nat \ {0}
    /\ Pause \subseteq Nat

VARIABLES
    upstream,  \* upstream[e]: what TDX says of e
    run,       \* where the cron run is
    healthy,   \* sources this run fetched without an error
    payload,   \* payload[e]: what they said of e
    baseline,  \* the baseline key
    seen,      \* seen[e]: the fingerprint in the dedupe state
    absence,   \* absence[e]: the age of missingSince in the dedupe state
    due,       \* events still to be enqueued by this run
    known,     \* known[e]: content last enqueued, or there at the baseline
    missed,    \* missed[e]: how long healthy sources have lacked e without a break
    cause,     \* events that may be announced again
    untold     \* events whose present content was not enqueued

state == <<baseline, seen, absence>>
history == <<known, missed, cause, untold>>
vars == <<upstream, run, healthy, payload, state, due, history>>

View == [Event -> Content \cup {NoContent}]
NoClock == -1
Age == {NoClock} \cup 0..Grace

Nowhere == [e \in Event |-> NoContent]
Stopped == [e \in Event |-> NoClock]

Init ==
    /\ upstream \in {v \in View : \A e \in Event : v[e] \in ContentOf[e] \cup {NoContent}}
    /\ run = "idle" /\ healthy = {} /\ payload = Nowhere
    /\ baseline = FALSE /\ seen = Nowhere /\ absence = Stopped
    /\ due = {}
    /\ known = Nowhere /\ missed = Stopped /\ cause = {} /\ untold = {}

\* An age after d more ticks.
Older(age, d) ==
    IF age = NoClock THEN NoClock
    ELSE IF age + d < Grace THEN age + d ELSE Grace

-----------------------------------------------------------------------------
(* What the run has found *)

Found(e) == payload[e] # NoContent
Healthy(e) == SourceOf[e] \in healthy

IsNew(e) == Found(e) /\ seen[e] = NoContent
IsUpdated(e) == Found(e) /\ seen[e] \notin {NoContent, payload[e]}

\* Mutant: an update is recorded and not pushed.
OnlyNew == {e \in Event : IsNew(e)}

Pushable == {e \in Event : IsNew(e) \/ IsUpdated(e)}

\* Mutant: a failed source lacks its events.
MissingAnyway(e) == seen[e] # NoContent /\ ~Found(e)

\* Not there, and not because its source failed.
IsMissing(e) == seen[e] # NoContent /\ ~Found(e) /\ Healthy(e)

IsPruned(e) == IsMissing(e) /\ absence[e] = Grace

NextSeen ==
    [e \in Event |-> IF Found(e) THEN payload[e]
                     ELSE IF IsPruned(e) THEN NoContent ELSE seen[e]]

\* Mutant: every absent run starts the clock again.
ClockRestarted ==
    [e \in Event |-> IF IsPruned(e) \/ ~IsMissing(e) THEN NoClock ELSE 0]

NextAbsence ==
    [e \in Event |-> IF Found(e) \/ IsPruned(e) THEN NoClock
                     ELSE IF IsMissing(e) /\ absence[e] = NoClock THEN 0
                     ELSE absence[e]]

\* Mutant: the loop of sends goes over the candidates of the gates, not over what passed.
Candidates == Pushable

\* Pushable events that pass the gates.
Enqueued == {e \in Pushable : payload[e] \notin Excluded}

-----------------------------------------------------------------------------
(* The run *)

EndRun ==
    /\ run' = "idle" /\ healthy' = {} /\ payload' = Nowhere /\ due' = {}

\* Every source is fetched on its own; without a token all of them fail.
Fetch(ok, d) ==
    LET found == [e \in Event |-> IF SourceOf[e] \in ok THEN upstream[e] ELSE NoContent]
        lacking == {e \in Event : SourceOf[e] \in ok /\ upstream[e] = NoContent}
    IN  /\ run = "idle"
        /\ run' = "fetched"
        /\ healthy' = ok
        /\ payload' = found
        /\ absence' = [e \in Event |-> Older(absence[e], d)]
        /\ missed' = [e \in Event |->
                         IF found[e] # NoContent THEN NoClock
                         ELSE IF e \in lacking /\ missed[e] = NoClock THEN 0
                         ELSE Older(missed[e], d)]
        /\ cause' = cause \cup {e \in Event : found[e] \notin {NoContent, known[e]}}
                          \cup {e \in lacking : Older(missed[e], d) = Grace}
        /\ UNCHANGED <<upstream, baseline, seen, due, known, untold>>

\* Sightings that the run cannot record: the clock of such an event goes on.
Unrecorded == {e \in Event : Found(e) /\ absence[e] # NoClock}

\* Without the state nothing is classified.
ReadFails ==
    /\ run = "fetched"
    /\ EndRun
    /\ cause' = cause \cup Unrecorded
    /\ UNCHANGED <<upstream, state, known, missed, untold>>

\* The first run records what there is and enqueues nothing; the baseline key is
\* written in a second step.
SeedBaseline ==
    /\ run = "fetched" /\ ~baseline
    /\ run' = "seeding"
    /\ seen' = payload
    /\ absence' = Stopped
    /\ UNCHANGED <<upstream, healthy, payload, baseline, due, history>>

MarkBaseline ==
    /\ run = "seeding"
    /\ baseline' = TRUE
    /\ known' = payload /\ cause' = {} /\ untold' = {}
    /\ EndRun
    /\ UNCHANGED <<upstream, seen, absence, missed>>

MarkFails ==
    /\ run = "seeding"
    /\ EndRun
    /\ UNCHANGED <<upstream, state, history>>

Recorded == seen' = NextSeen /\ absence' = NextAbsence

\* An event is told, or will be, or was dropped at the gates.
Commit ==
    /\ run = "fetched" /\ baseline
    /\ Recorded
    /\ untold' = (untold \cup Pushable) \ Enqueued
    /\ IF Enqueued = {}
         THEN EndRun
         ELSE /\ run' = "sending" /\ due' = Enqueued
              /\ UNCHANGED <<healthy, payload>>
    /\ UNCHANGED <<upstream, baseline, known, missed, cause>>

\* The put fails, and took effect or did not: nothing is enqueued.
CommitFails ==
    /\ run = "fetched" /\ baseline
    /\ <<NextSeen, NextAbsence>> # <<seen, absence>>
    /\ \/ UNCHANGED <<seen, absence, untold>> /\ cause' = cause \cup Unrecorded
       \/ Recorded /\ untold' = untold \cup Pushable /\ UNCHANGED cause
    /\ EndRun
    /\ UNCHANGED <<upstream, baseline, known, missed>>

AfterSend(e) ==
    IF due = {e} THEN EndRun
    ELSE due' = due \ {e} /\ UNCHANGED <<run, healthy, payload>>

Send(e) ==
    /\ run = "sending" /\ e \in due
    /\ AfterSend(e)
    /\ known' = [known EXCEPT ![e] = payload[e]]
    /\ cause' = cause \ {e}
    /\ UNCHANGED <<upstream, state, missed, untold>>

\* A failed send is counted, not repeated.
SendFails(e) ==
    /\ run = "sending" /\ e \in due
    /\ AfterSend(e)
    /\ untold' = untold \cup {e}
    /\ UNCHANGED <<upstream, state, known, missed, cause>>

Die ==
    /\ run # "idle"
    /\ EndRun
    /\ untold' = untold \cup due
    /\ cause' = IF run = "fetched" THEN cause \cup Unrecorded ELSE cause
    /\ UNCHANGED <<upstream, state, known, missed>>

\* Only a fetch looks at TDX, so what changes during a run changes before the next.
UpstreamChanges(e) ==
    /\ run = "idle"
    /\ \E x \in ContentOf[e] \cup {NoContent} :
           upstream' = [upstream EXCEPT ![e] = x]
    /\ UNCHANGED <<run, healthy, payload, state, due, history>>

RunStep ==
    \/ \E ok \in SUBSET Source, d \in Pause : Fetch(ok, d)
    \/ ReadFails \/ SeedBaseline \/ MarkBaseline \/ MarkFails
    \/ Commit \/ CommitFails
    \/ \E e \in Event : Send(e) \/ SendFails(e)

Next == RunStep \/ Die \/ \E e \in Event : UpstreamChanges(e)

Spec == Init /\ [][Next]_vars

\* Cron goes on, and neither TDX nor KV nor the platform fails for ever.
FairSpec ==
    /\ Spec
    /\ WF_vars(RunStep)
    /\ SF_vars(\E d \in Pause : Fetch(Source, d))
    /\ SF_vars(healthy = Source /\ (SeedBaseline \/ Commit))
    /\ SF_vars(MarkBaseline)

-----------------------------------------------------------------------------
(* Properties *)

TypeOK ==
    /\ upstream \in View
    /\ run \in {"idle", "fetched", "seeding", "sending"}
    /\ healthy \subseteq Source
    /\ payload \in View
    /\ baseline \in BOOLEAN
    /\ seen \in View /\ absence \in [Event -> Age]
    /\ due \subseteq Event /\ (run = "sending" <=> due # {})
    /\ \A e \in due : payload[e] \in Content \ Excluded
    /\ known \in View /\ missed \in [Event -> Age]
    /\ cause \subseteq Event /\ untold \subseteq Event

\* An event is enqueued with the content it was last enqueued with, or had at the
\* baseline, only if a payload has shown it with another content since, or healthy
\* payloads have lacked it for the grace period without a sighting in between, or
\* a sighting was fetched and could not be recorded.  A failed source, a blip and
\* the first run announce nothing.
RepeatsHaveACause == \A e \in due : payload[e] = known[e] => e \in cause

\* Whatever the state remembers was enqueued, is about to be, was there at the
\* baseline, was dropped at the gates, or its one attempt is known to have failed.
\* A write that fails before it takes effect loses nothing.
NothingLostSilently ==
    baseline => \A e \in Event : seen[e] \in {NoContent, known[e]} \/ e \in due \/ e \in untold

\* When TDX stops changing its mind about an event, the state comes to agree:
\* the event is there with its content, or forgotten.
Converges ==
    \A e \in Event :
        <>[][upstream'[e] = upstream[e]]_upstream => <>[](seen[e] = upstream[e])

=============================================================================
