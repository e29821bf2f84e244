-------------------------------- MODULE CronTick --------------------------------
(***************************************************************************)
(* The blobs that cron runs share with the others: the subscriptions,      *)
(* which webhook calls write, and the shared feed, which consumers write.  *)
(* A cron run comes to the first in runLineBroadcast and to the second at  *)
(* the end of runScheduledTdxSync; with polling switched off, as it is,    *)
(* it has nothing to broadcast and no product of its own.                  *)
(*                                                                         *)
(* Time is counted in steps longer than any session.                       *)
(***************************************************************************)
EXTENDS Integers, FiniteSets

CONSTANTS
    Session, Target, NoCommand, Event, Content, NoProduct, NoImage, Rank,
    Retention, ImageTTL, MaxStored, Faults, MaxFaults,
    MaxActive,  \* bound: sessions at work at once
    MaxTime     \* bound: the last moment

ASSUME RankAssumption ==
    Rank \in [Event -> Int] /\ \A d, e \in Event : Rank[d] = Rank[e] => d = e

ASSUME CronBounds ==
    /\ MaxFaults \in Nat /\ MaxTime \in Nat
    /\ Retention \in Nat /\ ImageTTL \in Nat

VARIABLES
    pc, faults, now,
    subs, subsCopy, command, said, missed, unsure,
    feed, feedCopy, product, latest, unread, shaky

Subs == INSTANCE Subscriptions
Feed == INSTANCE SharedFeed

ASSUME NoProductAssumption == NoProduct \notin Feed!Entry

subsVars == <<subs, subsCopy, command, said, missed, unsure>>
feedVars == <<feed, feedCopy, product, latest, unread, shaky>>
vars == <<pc, faults, now, subsVars, feedVars>>

Place == {"off", "switching", "answering", "migrating", "feeding", "writing", "done"}

TypeOK ==
    /\ pc \in [Session -> Place]
    /\ Subs!SubsTypeOK /\ Feed!FeedTypeOK

Init ==
    /\ pc = [s \in Session |-> "off"]
    /\ faults = 0 /\ now = 0
    /\ Subs!SubsInit /\ Feed!FeedInit

Active == {s \in Session : pc[s] \notin {"off", "done"}}

\* At most one cron run is under way: they are ten minutes apart.
IsCron(s) ==
    pc[s] = "migrating" \/ (pc[s] \in {"feeding", "writing"} /\ product[s] = NoProduct)

MayStart(s) == pc[s] # "off" \/ Cardinality(Active) < MaxActive

SubsMoves(s) ==
    /\ MayStart(s)
    /\ Subs!SubsStep(s)
    /\ UNCHANGED <<now, feedVars>>
    /\ \A q, r \in Session : IsCron(q)' /\ IsCron(r)' => q = r

FeedMoves(s) ==
    /\ MayStart(s)
    /\ Feed!FeedStep(s)
    /\ UNCHANGED <<now, subsVars>>

Tick ==
    /\ now < MaxTime /\ Active = {}
    /\ now' = now + 1
    /\ UNCHANGED <<pc, faults, subsVars, feedVars>>

Next == Tick \/ \E s \in Session : SubsMoves(s) \/ FeedMoves(s)

Spec == Init /\ [][Next]_vars

-----------------------------------------------------------------------------
(* Properties *)

\* Whatever cron runs, webhook calls and consumers do, a target is switched the way it
\* was last told, unless a fault or an overlap touched it (subscriptions.js, setEnabled).
AnswersHold == Subs!SwitchedAsAnswered

\* Cron runs with nothing to add neither drop nor change what consumers put into the
\* feed, except by an overlap (sharedFeed.js, runSharedFeedPersist).
FeedKept == Feed!FeedIsTrue

\* No report is shown with the image of an earlier content (isStoredImageStillValid).
ImagesFit == Feed!ImageFitsContent

=============================================================================
