----------------------------- MODULE LocalMonitor -----------------------------
(***************************************************************************)
(* The Windows monitor: fetch the PBS payload, compare it with the state   *)
(* file (compareWithPreviousState), write the new state, then push every   *)
(* NEW, UPDATED and CLEARED change, one at a time (dispatchDebugChanges).  *)
(*                                                                         *)
(* The state file has one writer (see MonitorLock) and is replaced by a    *)
(* rename, so its read, the comparison and its write are one step.  A      *)
(* round ends early when its fetch, its file or its log fails, and the     *)
(* process may be killed anywhere.                                         *)
(*                                                                         *)
(* A payload says of every event what its fingerprint covers, that it is   *)
(* cleared (the text says so), or nothing.  An id occurs once in it.       *)
(***************************************************************************)
EXTENDS Integers, FiniteSets

CONSTANTS
    Event,         \* UIDs inside the service area
    Content,       \* fingerprints
    ContentOf,     \* ContentOf[e]: the fingerprints PBS may give event e
    NoContent,     \* the payload, or the state file, has no such event
    ClearText,     \* the payload says the event is cleared
    ClearAfter     \* consecutive misses that confirm an absence: 2

ASSUME ContentAssumption == NoContent \notin Content /\ ClearText \notin Content
                            /\ NoContent # ClearText

ASSUME ContentOfAssumption == ContentOf \in [Event -> SUBSET Content]

ASSUME ClearAfterAssumption == ClearAfter \in Nat \ {0}

VARIABLES
    upstream,   \* upstream[e]: what PBS says of e
    pc,         \* where the monitor is
    payload,    \* the payload of this round
    hasState,   \* whether there is a state file
    recorded,   \* recorded[e]: the fingerprint in the state file
    missing,    \* missing[e]: missingCount in the state file
    pending,    \* the changes of this round that are still to be pushed
    heard,      \* heard[e]: what the changes the Worker received say of e
    gap,        \* history: events whose last change the Worker did not receive
    misses      \* history: payloads fetched without e since e was last recorded as
                \* seen, up to ClearAfter

fileVars     == <<hasState, recorded, missing>>
listenerVars == <<heard, gap>>
vars == <<upstream, pc, payload, fileVars, pending, listenerVars, misses>>

-----------------------------------------------------------------------------
(* State *)

Told      == Content \cup {NoContent}
Said      == Told \cup {ClearText}
Lifecycle == {"NEW", "UPDATED", "CLEARED"}
Change    == [event : Event, lifecycle : Lifecycle, content : Content]
Place     == {"down", "idle", "fetch", "record", "dispatch"}

NoPayload == [e \in Event |-> NoContent]

TypeOK ==
    /\ upstream \in [Event -> Said] /\ payload \in [Event -> Said]
    /\ pc \in Place /\ hasState \in BOOLEAN
    /\ recorded \in [Event -> Told] /\ missing \in [Event -> 0 .. ClearAfter - 1]
    /\ pending \subseteq Change
    /\ heard \in [Event -> Told] /\ gap \subseteq Event
    /\ misses \in [Event -> 0 .. ClearAfter]

SaidOf(e) == ContentOf[e] \cup {NoContent, ClearText}

Init ==
    /\ upstream \in {f \in [Event -> Said] : \A e \in Event : f[e] \in SaidOf(e)}
    /\ pc = "down" /\ payload = NoPayload
    /\ hasState = FALSE
    /\ recorded = [e \in Event |-> NoContent]
    /\ missing = [e \in Event |-> 0]
    /\ pending = {}
    /\ heard = [e \in Event |-> NoContent]
    /\ gap = {}
    /\ misses = [e \in Event |-> 0]

At(place)   == pc = place
Goto(place) == pc' = place

\* PBS edits, clears or drops an entry, or brings it back.
UpstreamChanges(e) ==
    /\ \E x \in SaidOf(e) \ {upstream[e]} : upstream' = [upstream EXCEPT ![e] = x]
    /\ UNCHANGED <<pc, payload, fileVars, pending, listenerVars, misses>>

-----------------------------------------------------------------------------
(* fetchPbsUpstream *)

\* The process starts, by hand or by the Task Scheduler.
Start ==
    /\ At("down") /\ Goto("idle")
    /\ UNCHANGED <<upstream, payload, fileVars, pending, listenerVars, misses>>

BeginRound ==
    /\ At("idle") /\ Goto("fetch")
    /\ UNCHANGED <<upstream, payload, fileVars, pending, listenerVars, misses>>

Active(e) == payload[e] \in Content

Fetch ==
    /\ At("fetch")
    /\ payload' = upstream
    /\ misses' = [e \in Event |->
                     IF upstream[e] \notin Content /\ misses[e] < ClearAfter
                     THEN misses[e] + 1 ELSE misses[e]]
    /\ Goto("record")
    /\ UNCHANGED <<upstream, fileVars, pending, listenerVars>>

\* Both attempts fail, or the payload cannot be parsed: the round is over.
FetchFails ==
    /\ At("fetch") /\ Goto("idle")
    /\ UNCHANGED <<upstream, payload, fileVars, pending, listenerVars, misses>>

-----------------------------------------------------------------------------
(* compareWithPreviousState *)

Known(e) == recorded[e] # NoContent

\* Mutants: the first miss confirms; the count goes on from where an earlier
\* absence left it, or is never written; a cleared event is kept.
AtOnce(e)       == missing[e] + 1 >= 1
MissingKept(e)  == IF Known(e) /\ ~Active(e) THEN missing[e] + 1 ELSE missing[e]
NeverCounted(e) == 0
RecordedKept(e) == IF Active(e) THEN payload[e] ELSE recorded[e]

ConfirmedAbsent(e) == missing[e] + 1 >= ClearAfter

IsNew(e)     == Active(e) /\ ~Known(e)
IsUpdated(e) == Active(e) /\ Known(e) /\ payload[e] # recorded[e]
IsCleared(e) == ~Active(e) /\ Known(e) /\ (payload[e] = ClearText \/ ConfirmedAbsent(e))

\* A confirmed clear carries the event as the state file has it.
NewChange(e)     == [event |-> e, lifecycle |-> "NEW", content |-> payload[e]]
UpdatedChange(e) == [event |-> e, lifecycle |-> "UPDATED", content |-> payload[e]]
ClearedChange(e) == [event |-> e, lifecycle |-> "CLEARED", content |-> recorded[e]]

\* Mutant: the quiet baseline is not quiet.
LoudChanges ==
    {NewChange(e) : e \in {d \in Event : IsNew(d)}}
    \cup {UpdatedChange(e) : e \in {d \in Event : IsUpdated(d)}}
    \cup {ClearedChange(e) : e \in {d \in Event : IsCleared(d)}}

\* The first run is a baseline: everything active is recorded, nothing is pushed.
Changes ==
    IF ~hasState THEN {}
    ELSE {NewChange(e) : e \in {d \in Event : IsNew(d)}}
         \cup {UpdatedChange(e) : e \in {d \in Event : IsUpdated(d)}}
         \cup {ClearedChange(e) : e \in {d \in Event : IsCleared(d)}}

\* MISSING_PENDING_CLEAR: absent, and the entry is kept with its count.
PendingClear(e) == ~Active(e) /\ Known(e) /\ ~IsCleared(e)

NextRecorded(e) ==
    IF Active(e) THEN payload[e] ELSE IF PendingClear(e) THEN recorded[e] ELSE NoContent

\* Being seen again cancels a pending absence.
NextMissing(e) == IF PendingClear(e) THEN missing[e] + 1 ELSE 0

-----------------------------------------------------------------------------
(* The rest of a round *)

\* Events the baseline records are not told to anybody.
Untold == IF hasState THEN {} ELSE {e \in Event : Active(e)}

\* Read the state file, compare, and write it before anything is pushed.
Record ==
    /\ At("record")
    /\ pending' = Changes
    /\ gap' = gap \cup Untold
    /\ hasState' = TRUE
    /\ recorded' = [e \in Event |-> NextRecorded(e)]
    /\ missing' = [e \in Event |-> NextMissing(e)]
    /\ misses' = [e \in Event |-> IF Active(e) THEN 0 ELSE misses[e]]
    /\ payload' = NoPayload
    /\ Goto("dispatch")
    /\ UNCHANGED <<upstream, heard>>

\* The file cannot be read or written: it stays as it was.
RecordFails ==
    /\ At("record") /\ Goto("idle")
    /\ payload' = NoPayload
    /\ UNCHANGED <<upstream, fileVars, pending, listenerVars, misses>>

Rank == [NEW |-> 1, UPDATED |-> 2, CLEARED |-> 3]

\* All NEW before all UPDATED before all CLEARED.
IsFirst(c) == \A d \in pending : Rank[c.lifecycle] <= Rank[d.lifecycle]

Lose(lost) ==
    /\ pending' = pending \ lost
    /\ gap' = gap \cup {c.event : c \in lost}
    /\ UNCHANGED heard

\* The Worker has the change, whether or not its answer comes back in time.
PushReceived(c) ==
    /\ At("dispatch") /\ c \in pending /\ IsFirst(c)
    /\ pending' = pending \ {c}
    /\ heard' = [heard EXCEPT ![c.event] = IF c.lifecycle = "CLEARED" THEN NoContent
                                           ELSE c.content]
    /\ gap' = gap \ {c.event}
    /\ UNCHANGED <<upstream, pc, payload, fileVars, misses>>

\* Both attempts of sendDebugPush fail before the Worker has it: counted, logged,
\* and on to the next change.
PushFails(c) ==
    /\ At("dispatch") /\ c \in pending /\ IsFirst(c)
    /\ Lose({c})
    /\ UNCHANGED <<upstream, pc, payload, fileVars, misses>>

\* The log of a failed push cannot be written: the round ends there.
AbortDispatch ==
    /\ At("dispatch") /\ pending # {}
    /\ Lose(pending)
    /\ Goto("idle")
    /\ UNCHANGED <<upstream, payload, fileVars, misses>>

EndRound ==
    /\ At("dispatch") /\ pending = {}
    /\ Goto("idle")
    /\ UNCHANGED <<upstream, payload, fileVars, pending, listenerVars, misses>>

Crash ==
    /\ ~At("down") /\ Goto("down")
    /\ Lose(pending)
    /\ payload' = NoPayload
    /\ UNCHANGED <<upstream, fileVars, misses>>

-----------------------------------------------------------------------------
(* The specification *)

RoundStep ==
    \/ Start \/ BeginRound \/ Fetch \/ FetchFails \/ Record \/ RecordFails
    \/ (\E c \in pending : PushReceived(c) \/ PushFails(c))
    \/ AbortDispatch \/ EndRound

Next == RoundStep \/ Crash \/ \E e \in Event : UpstreamChanges(e)

Spec == Init /\ [][Next]_vars

\* The process loops, the watchdog starts it again, and neither a crash nor PBS nor
\* the disk prevents the same step for ever.
FairSpec ==
    /\ Spec
    /\ WF_vars(RoundStep)
    /\ SF_vars(BeginRound) /\ SF_vars(Fetch) /\ SF_vars(Record)

-----------------------------------------------------------------------------
(* Properties *)

\* The abstract feed: the state file is what has been announced.
Feed == INSTANCE ChangeFeed WITH
            started <- hasState, announced <- recorded,
            outbox <- {c.event : c \in pending}

\* The monitor implements the feed: no crash, failed push, baseline or absence
\* makes the state file say of an event what was not announced, except in a gap.
ImplementsFeed == Feed!Spec

\* The change fits what its receiver believes.
Fits(c) ==
    CASE c.lifecycle = "NEW"     -> heard[c.event] = NoContent
      [] c.lifecycle = "UPDATED" -> heard[c.event] \notin {NoContent, c.content}
      [] c.lifecycle = "CLEARED" -> heard[c.event] = c.content

\* Unless an earlier change was lost, the Worker gets NEW only for an event it does
\* not know, UPDATED only with a content it has not, and CLEARED only with the very
\* content it was last told, whose fingerprint makes the idempotency key.
PendingFits == \A c \in pending : c.event \notin gap => Fits(c)

\* No event is cleared on the strength of a failed fetch, a single miss or a blip:
\* the payload says so, or ClearAfter payloads have lacked it since it was last
\* recorded as seen (they need not be consecutive: a sighting whose round fails
\* before the state is written does not count).
ClearNeedsEvidence ==
    [][\A c \in pending' \ pending :
          c.lifecycle = "CLEARED" =>
              payload[c.event] = ClearText \/ misses[c.event] >= ClearAfter]_vars

Recordable(x) == IF x \in Content THEN x ELSE NoContent

\* When PBS stops changing its mind about an event, the state file comes to say
\* the same, and so does the Worker unless it missed the change, through crashes,
\* failed fetches and failed writes.
Converges ==
    \A e \in Event :
        <>[][upstream'[e] = upstream[e]]_upstream =>
            <>[](/\ recorded[e] = Recordable(upstream[e])
                 /\ e \in gap \/ heard[e] = recorded[e])

=============================================================================
