----------------------------- MODULE CronTick_proofs -----------------------------
(***************************************************************************)
(* Proofs about the subscriptions and the shared feed, for any number of   *)
(* sessions, targets, events and faults: both blobs are typed, targets are *)
(* switched as they were told, finished reports stay in the feed, and no   *)
(* image is shown with another content than its own.                       *)
(***************************************************************************)
EXTENDS CronTick, TLAPS

-----------------------------------------------------------------------------
(* Types *)

\* Who has a command under way has one to carry out.
CommandsGiven == \A s \in Session : Subs!Commanding(s) => command[s] \in Subs!Command

\* A blob is read with one entry per event, as it is stored.
OnePerEvent(blob) == \A x, y \in blob : x.event = y.event => x = y
CopiesFit == \A s \in Session : OnePerEvent(feedCopy[s])

TypeInv == TypeOK /\ CommandsGiven /\ CopiesFit

LEMMA InitTyped == Init => TypeInv
  BY CronBounds
  DEF Init, TypeInv, TypeOK, CommandsGiven, CopiesFit, OnePerEvent, Place,
      Subs!SubsInit, Subs!SubsTypeOK, Subs!Switch, Subs!Enabled, Subs!NoSubs, Subs!Commanding,
      Feed!FeedInit, Feed!FeedTypeOK

LEMMA FaultTyped ==
    ASSUME faults \in 0..MaxFaults, NEW kind, Subs!Fault(kind) \/ Feed!Fault(kind)
    PROVE  faults' \in 0..MaxFaults
  BY CronBounds DEF Subs!Fault, Feed!Fault

\* The steps on the subscriptions.
LEMMA SubsTyped ==
    ASSUME TypeInv, NEW s \in Session, SubsMoves(s)
    PROVE  TypeInv'
<1> USE DEF TypeInv, TypeOK, Subs!SubsTypeOK, CommandsGiven
<1>1. UNCHANGED <<now, feedVars>> /\ Subs!SubsStep(s)  BY DEF SubsMoves
<1>2. CopiesFit'  BY <1>1 DEF CopiesFit, OnePerEvent, feedVars
<1>3. faults \in 0..MaxFaults => faults' \in 0..MaxFaults
  BY <1>1, FaultTyped
  DEF Subs!SubsStep, Subs!Ask, Subs!Store, Subs!Answer, Subs!CronReads, Subs!Migrate, Subs!DieInSubs
<1>4. (Feed!FeedTypeOK)'  BY <1>1, <1>3 DEF Feed!FeedTypeOK, feedVars
<1>5. pc' \in [Session -> Place]
  BY <1>1
  DEF Subs!SubsStep, Subs!Ask, Subs!Store, Subs!Answer, Subs!CronReads, Subs!Migrate, Subs!DieInSubs,
      Subs!Goto, Place
<1>6. CASE Subs!Ask(s)
  BY <1>6, <1>2, <1>3, <1>4, <1>5
  DEF Subs!Ask, Subs!ReadSubs, Subs!Goto, Subs!Commanding, Subs!Command, Subs!TargetOf,
      Subs!Switch, Subs!Normal
<1>7. CASE Subs!Store(s)
  <2>1. Subs!Switched(s) \in [Target -> Subs!Switch]
    BY <1>7 DEF Subs!Store, Subs!Switched, Subs!Commanding, Subs!Command, Subs!TargetOf, Subs!Switch
  <2>2. Subs!TargetOf(s) \in Target
    BY <1>7 DEF Subs!Store, Subs!Commanding, Subs!Command, Subs!TargetOf
  <2>3. subs' \in [Target -> Subs!Switch] /\ said' \in [Target -> BOOLEAN]
        /\ command' \in [Session -> Subs!Command \cup {NoCommand}]
    BY <1>7, <2>1 DEF Subs!Store
  <2>4. subsCopy' \in [Session -> [Target -> Subs!Switch \ {"legacy"}]]
    BY <1>7 DEF Subs!Store, Subs!ForgetSubs, Subs!NoSubs, Subs!Switch
  <2>4a. missed \in [Session -> SUBSET Target] /\ missed[s] \subseteq Target  OBVIOUS
  <2>4b. missed' \in [Session -> SUBSET Target]
    <3>1. CASE missed' = [q \in Session |->
                              IF q = s THEN {}
                              ELSE IF Subs!Reading(q) THEN missed[q] \cup {Subs!TargetOf(s)}
                              ELSE missed[q]]
      <4>1. \A q \in Session : missed[q] \cup {Subs!TargetOf(s)} \subseteq Target
        BY ONLY <2>2, <2>4a
      <4>2. \A q \in Session : missed'[q] \in SUBSET Target
        BY ONLY <3>1, <4>1, <2>4a
      <4> QED  BY ONLY <3>1, <4>2
    <3>2. CASE missed' = [missed EXCEPT ![s] = {}]  BY ONLY <3>2, <2>4a
    <3> QED  BY <3>1, <3>2, <1>7 DEF Subs!Store, Subs!ForgetSubs
  <2>5. missed' \in [Session -> SUBSET Target] /\ unsure' \subseteq Target
    BY <1>7, <2>2, <2>4a, <2>4b DEF Subs!Store
  <2>6. CommandsGiven'
    BY <1>7 DEF Subs!Store, Subs!Goto, Subs!Commanding
  <2> QED  BY <1>2, <1>3, <1>4, <1>5, <2>3, <2>4, <2>5, <2>6
<1>8. CASE Subs!Answer(s)
  BY <1>8, <1>2, <1>3, <1>4, <1>5
  DEF Subs!Answer, Subs!Goto, Subs!Commanding, Subs!Command, Subs!TargetOf
<1>9. CASE Subs!CronReads(s)
  BY <1>9, <1>2, <1>3, <1>4, <1>5
  DEF Subs!CronReads, Subs!ReadSubs, Subs!Goto, Subs!Commanding, Subs!Switch, Subs!Normal
<1>10. CASE Subs!Migrate(s)
  BY <1>10, <1>2, <1>3, <1>4, <1>5
  DEF Subs!Migrate, Subs!ForgetSubs, Subs!NoSubs, Subs!Goto, Subs!Commanding, Subs!Switch
<1>11. CASE Subs!DieInSubs(s)
  BY <1>11, <1>2, <1>3, <1>4, <1>5
  DEF Subs!DieInSubs, Subs!ForgetSubs, Subs!NoSubs, Subs!Goto, Subs!Commanding, Subs!Command,
      Subs!TargetOf, Subs!Switch
<1> QED  BY <1>1, <1>6, <1>7, <1>8, <1>9, <1>10, <1>11 DEF Subs!SubsStep

\* The steps on the feed.
LEMMA EntryTyped ==
    ASSUME Feed!FeedTypeOK, NEW s \in Session, product[s] # NoProduct
    PROVE  Feed!EntryOf(s) \in Feed!Entry
<1>1. product[s] \in Feed!Product /\ feedCopy[s] \subseteq Feed!Entry /\ now \in Nat
  BY DEF Feed!FeedTypeOK
<1>2. Feed!UpdatedAt(s) \in Nat
  <2>1. CASE Feed!Unchanged(s) = {}  BY <2>1, <1>1 DEF Feed!UpdatedAt
  <2>2. CASE Feed!Unchanged(s) # {}
    <3>1. (CHOOSE x \in Feed!Unchanged(s) : TRUE) \in Feed!Unchanged(s)  BY <2>2
    <3> QED  BY <3>1, <1>1, <2>2 DEF Feed!UpdatedAt, Feed!Unchanged, Feed!Entry
  <2> QED  BY <2>1, <2>2
<1>3. Feed!EntryOf(s).image \in Feed!Image
  <2>1. CASE product[s].image # NoImage
    BY <2>1, <1>1 DEF Feed!EntryOf, Feed!Product
  <2>2. CASE product[s].image = NoImage /\ Feed!Carried(s) # {}
    <3>1. (CHOOSE x \in Feed!Carried(s) : TRUE) \in Feed!Carried(s)  BY <2>2
    <3> QED  BY <3>1, <1>1, <2>2 DEF Feed!EntryOf, Feed!Carried, Feed!Entry
  <2>3. CASE product[s].image = NoImage /\ Feed!Carried(s) = {}
    BY <2>3 DEF Feed!EntryOf, Feed!Image
  <2> QED  BY <2>1, <2>2, <2>3
<1> QED  BY <1>1, <1>2, <1>3 DEF Feed!EntryOf, Feed!Entry, Feed!Product

LEMMA NextFeedTyped ==
    ASSUME Feed!FeedTypeOK, CopiesFit, NEW s \in Session
    PROVE  /\ Feed!NextFeed(s) \subseteq Feed!Entry
           /\ OnePerEvent(Feed!NextFeed(s))
           /\ Feed!Own(s) \cup Feed!Retained(s) \subseteq Feed!Entry
<1>1. Feed!Own(s) \subseteq Feed!Entry  BY EntryTyped DEF Feed!Own
<1>2. Feed!Retained(s) \subseteq feedCopy[s] /\ feedCopy[s] \subseteq Feed!Entry
  BY DEF Feed!Retained, Feed!FeedTypeOK
<1>3. Feed!NextFeed(s) \subseteq Feed!Own(s) \cup Feed!Retained(s)
  BY DEF Feed!NextFeed, Feed!Newest
<1>4. OnePerEvent(Feed!Own(s) \cup Feed!Retained(s))
  <2>1. \A x, y \in Feed!Own(s) : x = y  BY DEF Feed!Own
  <2>2. \A x \in Feed!Retained(s), y \in Feed!Own(s) : x.event # y.event  BY DEF Feed!Retained
  <2>3. OnePerEvent(Feed!Retained(s))  BY <1>2 DEF CopiesFit, OnePerEvent
  <2> QED  BY <2>1, <2>2, <2>3 DEF OnePerEvent
<1> QED  BY <1>1, <1>2, <1>3, <1>4 DEF OnePerEvent

LEMMA FeedTyped ==
    ASSUME TypeInv, NEW s \in Session, FeedMoves(s)
    PROVE  TypeInv'
<1>1. UNCHANGED <<now, subsVars>> /\ Feed!FeedStep(s)  BY DEF FeedMoves
<1>2. Feed!FeedTypeOK /\ CopiesFit /\ pc \in [Session -> Place]  BY DEF TypeInv, TypeOK
<1>3. faults' \in 0..MaxFaults
  BY <1>1, <1>2, FaultTyped
  DEF Feed!FeedStep, Feed!Complete, Feed!ReadFeed, Feed!WriteFeed, Feed!DieInFeed, Feed!FeedTypeOK
<1>4. pc' \in [Session -> Place]
  BY <1>1, <1>2
  DEF Feed!FeedStep, Feed!Complete, Feed!ReadFeed, Feed!WriteFeed, Feed!DieInFeed, Feed!EndFeed,
      Feed!Goto, Place
<1>5. (Subs!SubsTypeOK)'
  BY <1>1, <1>3 DEF TypeInv, TypeOK, Subs!SubsTypeOK, subsVars
<1>6. CommandsGiven'
  <2>1. \A q \in Session : Subs!Commanding(q)' => Subs!Commanding(q)
    BY <1>1, <1>2
    DEF Feed!FeedStep, Feed!Complete, Feed!ReadFeed, Feed!WriteFeed, Feed!DieInFeed, Feed!EndFeed,
        Feed!Goto, Subs!Commanding
  <2> QED  BY <1>1, <2>1 DEF TypeInv, CommandsGiven, subsVars
<1>7. now' \in Nat  BY <1>1, <1>2 DEF Feed!FeedTypeOK
<1>8. CASE Feed!Complete(s)
  <2>1. product' \in [Session -> Feed!Product \cup {NoProduct}]
    BY <1>8, <1>2, CronBounds DEF Feed!Complete, Feed!FeedTypeOK, Feed!Product, Feed!Image
  <2> QED
    BY <1>8, <1>2, <1>3, <1>4, <1>5, <1>6, <1>7, <2>1
    DEF Feed!Complete, TypeInv, TypeOK, Feed!FeedTypeOK, CopiesFit
<1>9. CASE Feed!ReadFeed(s)
  <2>1. feedCopy' \in [Session -> SUBSET Feed!Entry]
        /\ product' \in [Session -> Feed!Product \cup {NoProduct}]
    BY <1>9, <1>2 DEF Feed!ReadFeed, Feed!EndFeed, Feed!FeedTypeOK
  <2>2. CopiesFit'
    BY <1>9, <1>2 DEF Feed!ReadFeed, Feed!EndFeed, Feed!FeedTypeOK, CopiesFit, OnePerEvent
  <2> QED
    BY <1>9, <1>2, <1>3, <1>4, <1>5, <1>6, <1>7, <2>1, <2>2
    DEF Feed!ReadFeed, TypeInv, TypeOK, Feed!FeedTypeOK
<1>10. CASE Feed!WriteFeed(s) \/ Feed!DieInFeed(s)
  <2>1. feedCopy' \in [Session -> SUBSET Feed!Entry]
        /\ product' \in [Session -> Feed!Product \cup {NoProduct}]
    BY <1>10, <1>2 DEF Feed!WriteFeed, Feed!DieInFeed, Feed!EndFeed, Feed!FeedTypeOK
  <2>2. CopiesFit'
    BY <1>10, <1>2
    DEF Feed!WriteFeed, Feed!DieInFeed, Feed!EndFeed, Feed!FeedTypeOK, CopiesFit, OnePerEvent
  <2>3. feed' \subseteq Feed!Entry /\ \A x, y \in feed' : x.event = y.event => x = y
    BY <1>10, <1>2, NextFeedTyped
    DEF Feed!WriteFeed, Feed!DieInFeed, Feed!FeedTypeOK, OnePerEvent
  <2>4. Feed!Of(Feed!Own(s) \cup Feed!Retained(s)) \subseteq Event
    BY <1>2, NextFeedTyped DEF Feed!Of, Feed!Entry
  <2>5. Feed!Of(Feed!Own(s)) \subseteq Event  BY <2>4 DEF Feed!Of
  <2>6. unread' \in [Session -> SUBSET Event]
    <3>1. unread \in [Session -> SUBSET Event]  BY <1>2 DEF Feed!FeedTypeOK
    <3>2. CASE unread' = [q \in Session |->
                              IF q = s THEN {}
                              ELSE IF pc[q] = "writing" THEN unread[q] \cup Feed!Of(Feed!Own(s))
                              ELSE unread[q]]
      <4>1. \A q \in Session : unread'[q] \in SUBSET Event  BY ONLY <3>1, <3>2, <2>5
      <4> QED  BY ONLY <3>2, <4>1
    <3>3. CASE unread' = [unread EXCEPT ![s] = {}]  BY ONLY <3>1, <3>3
    <3> QED  BY <3>2, <3>3, <1>10 DEF Feed!WriteFeed, Feed!DieInFeed
  <2>7. shaky' \subseteq Event
    <3>1. Feed!CappedOff(s) \subseteq Event  BY <2>4 DEF Feed!CappedOff, Feed!Of
    <3>2. Feed!Overlapped(s) \subseteq Event  BY <1>2 DEF Feed!Overlapped, Feed!FeedTypeOK
    <3> QED  BY <1>10, <1>2, <3>1, <3>2 DEF Feed!WriteFeed, Feed!DieInFeed, Feed!FeedTypeOK
  <2>8. latest' \in [Event -> Feed!Entry \cup {NoProduct}]
    <3>1. ASSUME product[s] # NoProduct
          PROVE  product[s].event \in Event /\ Feed!LatestAfter(s) \in Feed!Entry
      <4>1. product[s] \in Feed!Product /\ now \in Nat  BY <1>2, <3>1 DEF Feed!FeedTypeOK
      <4>2. product[s].event \in Event  BY <4>1 DEF Feed!Product
      <4>3. latest[product[s].event] # NoProduct => latest[product[s].event] \in Feed!Entry
        BY <1>2, <4>2 DEF Feed!FeedTypeOK
      <4> QED  BY <4>1, <4>2, <4>3 DEF Feed!LatestAfter, Feed!Entry, Feed!Product
    <3> QED  BY <1>10, <1>2, <3>1 DEF Feed!WriteFeed, Feed!DieInFeed, Feed!FeedTypeOK
  <2> QED
    BY <1>2, <1>3, <1>4, <1>5, <1>6, <1>7, <2>1, <2>2, <2>3, <2>6, <2>7, <2>8
    DEF TypeInv, TypeOK, Feed!FeedTypeOK
<1> QED  BY <1>1, <1>8, <1>9, <1>10 DEF Feed!FeedStep

LEMMA TickTyped ==
    ASSUME TypeInv, Tick \/ UNCHANGED vars
    PROVE  TypeInv'
<1>1. UNCHANGED <<pc, faults, subsVars, feedVars>> /\ (now \in Nat => now' \in Nat)
  BY DEF Tick, vars
<1>2. (Subs!SubsTypeOK)' /\ CommandsGiven'
  BY <1>1 DEF TypeInv, TypeOK, Subs!SubsTypeOK, CommandsGiven, Subs!Commanding, subsVars
<1>3. (Feed!FeedTypeOK)' /\ CopiesFit'
  BY <1>1 DEF TypeInv, TypeOK, Feed!FeedTypeOK, CopiesFit, feedVars
<1> QED  BY <1>1, <1>2, <1>3 DEF TypeInv, TypeOK

LEMMA NextTyped == TypeInv /\ [Next]_vars => TypeInv'
  BY SubsTyped, FeedTyped, TickTyped DEF Next

\* Sessions, subscriptions and the feed keep their types, and the stored feed holds one
\* entry per event (buildSharedFeedEvents).
THEOREM TypeCorrect == Spec => []TypeOK
<1>1. Spec => []TypeInv  BY InitTyped, NextTyped, PTL DEF Spec
<1> QED  BY <1>1, PTL DEF TypeInv

-----------------------------------------------------------------------------
(* Switches *)

Answering(s, t)   == pc[s] = "answering" /\ Subs!TargetOf(s) = t
CommandingOn(s, t) == Subs!Commanding(s) /\ Subs!TargetOf(s) = t

\* Nobody else has a command under way for a target that is not in doubt.
OneCommander ==
    \A t \in Target \ unsure : \A q, r \in Session :
        CommandingOn(q, t) /\ CommandingOn(r, t) => q = r

\* A command that was stored is what the switch says until it is answered.
StoredHolds ==
    \A t \in Target \ unsure : \A s \in Session :
        Answering(s, t) => (Subs!Enabled(subs[t]) <=> command[s].switch = "on")

\* Without one, the switch says what was answered last.
SaidHolds ==
    \A t \in Target \ unsure :
        (\A s \in Session : ~Answering(s, t)) => (Subs!Enabled(subs[t]) <=> said[t])

\* What was read of a target that nobody has switched since is still so.
CopyHolds ==
    \A s \in Session : \A t \in Target \ (unsure \cup missed[s]) :
        Subs!Reading(s) => (Subs!Enabled(subsCopy[s][t]) <=> Subs!Enabled(subs[t]))

SwitchInv == OneCommander /\ StoredHolds /\ SaidHolds /\ CopyHolds

\* What the rest of the proof knows of the places and the blobs.
SubsTypes ==
    /\ pc \in [Session -> Place]
    /\ subs \in [Target -> Subs!Switch]
    /\ subsCopy \in [Session -> [Target -> Subs!Switch \ {"legacy"}]]
    /\ said \in [Target -> BOOLEAN]
    /\ command \in [Session -> Subs!Command \cup {NoCommand}]
    /\ missed \in [Session -> SUBSET Target]
    /\ CommandsGiven

LEMMA TypesOfSubs == TypeInv => SubsTypes
  BY DEF TypeInv, TypeOK, Subs!SubsTypeOK, SubsTypes

LEMMA InitSwitches == Init => SwitchInv
  BY DEF Init, SwitchInv, OneCommander, StoredHolds, SaidHolds, CopyHolds, Answering, CommandingOn,
      Subs!SubsInit, Subs!Commanding, Subs!Reading

LEMMA NormalEnabled == \A w \in Subs!Switch : Subs!Enabled(Subs!Normal(w)) <=> Subs!Enabled(w)
  BY DEF Subs!Switch, Subs!Enabled, Subs!Normal

\* A session reads the blob and goes on with it.
LEMMA ReadHolds ==
    ASSUME SubsTypes, CopyHolds, NEW s \in Session, Subs!ReadSubs(s), subs' = subs,
           missed' = missed, unsure \subseteq unsure',
           NEW place, pc' = [pc EXCEPT ![s] = place]
    PROVE  CopyHolds'
<1>1. \A t \in Target : Subs!Enabled(subsCopy'[s][t]) <=> Subs!Enabled(subs[t])
  BY NormalEnabled DEF Subs!ReadSubs, SubsTypes
<1>2. \A q \in Session \ {s} : subsCopy'[q] = subsCopy[q] /\ pc'[q] = pc[q]
  BY DEF Subs!ReadSubs, SubsTypes
<1> QED  BY <1>1, <1>2 DEF CopyHolds, Subs!Reading, Subs!Enabled

LEMMA AskHolds ==
    ASSUME SubsTypes, SwitchInv, NEW s \in Session, Subs!Ask(s)
    PROVE  SwitchInv'
<1> PICK c \in Subs!Command :
        LET rivals == {q \in Session : Subs!Commanding(q) /\ Subs!TargetOf(q) = c.target}
        IN  /\ command' = [command EXCEPT ![s] = c]
            /\ \/ /\ Subs!ReadSubs(s) /\ Subs!Goto(s, "switching")
                  /\ unsure' = unsure \cup {Subs!TargetOf(q) : q \in rivals}
               \/ /\ Subs!Goto(s, "answering")
                  /\ unsure' = unsure \cup {c.target} /\ UNCHANGED subsCopy
  BY DEF Subs!Ask
<1>1a. pc[s] = "off" /\ UNCHANGED <<subs, said, missed>>  BY DEF Subs!Ask
<1>1b. /\ pc'[s] \in {"switching", "answering"} /\ unsure \subseteq unsure'
       /\ pc'[s] = "answering" => c.target \in unsure'
  BY DEF Subs!Goto, SubsTypes
<1>1c. command'[s] = c /\ \A q \in Session \ {s} : pc'[q] = pc[q] /\ command'[q] = command[q]
  BY DEF Subs!Goto, SubsTypes
<1>1d. \A q \in Session \ {s} : CommandingOn(q, c.target) => c.target \in unsure'
  BY DEF CommandingOn
<1>1. /\ pc[s] = "off" /\ UNCHANGED <<subs, said, missed>> /\ unsure \subseteq unsure'
      /\ pc'[s] \in {"switching", "answering"}
      /\ command'[s] = c
      /\ pc'[s] = "answering" => c.target \in unsure'
      /\ \A q \in Session \ {s} :
            pc'[q] = pc[q] /\ command'[q] = command[q]
            /\ (CommandingOn(q, c.target) => c.target \in unsure')
  BY <1>1a, <1>1b, <1>1c, <1>1d
<1>2. \A q \in Session \ {s}, t \in Target :
          (CommandingOn(q, t)' <=> CommandingOn(q, t)) /\ (Answering(q, t)' <=> Answering(q, t))
  BY <1>1 DEF CommandingOn, Answering, Subs!Commanding, Subs!TargetOf
<1>3. \A t \in Target : CommandingOn(s, t)' => t = c.target
  BY <1>1 DEF CommandingOn, Subs!TargetOf
<1>4. \A t \in Target \ unsure' : ~Answering(s, t)'
  BY <1>1 DEF Answering, Subs!TargetOf
<1>5. OneCommander'
  BY <1>1, <1>2, <1>3 DEF SwitchInv, OneCommander
<1>6. StoredHolds'
  BY <1>1, <1>2, <1>4 DEF SwitchInv, StoredHolds
<1>7. SaidHolds'
  <2>1. \A t \in Target : ~Answering(s, t)  BY <1>1 DEF Answering
  <2> QED  BY <1>1, <1>2, <2>1 DEF SwitchInv, SaidHolds
<1>8. CopyHolds'
  <2>1. CASE Subs!ReadSubs(s) /\ Subs!Goto(s, "switching")
    BY <1>1, <2>1, ReadHolds DEF Subs!Goto, SwitchInv
  <2>2. CASE Subs!Goto(s, "answering") /\ UNCHANGED subsCopy
    <3>1. \A q \in Session : Subs!Reading(q)' => Subs!Reading(q)
      BY <2>2, <1>1 DEF Subs!Goto, Subs!Reading, SubsTypes
    <3> QED  BY <2>2, <1>1, <3>1 DEF SwitchInv, CopyHolds
  <2> QED  BY <2>1, <2>2
<1> QED  BY <1>5, <1>6, <1>7, <1>8 DEF SwitchInv

\* The blob is written by a session that has read it: where it had missed nothing, it
\* changes no switch but its own.
LEMMA WrittenFits ==
    ASSUME SubsTypes, CopyHolds, NEW s \in Session, Subs!Reading(s),
           NEW t \in Target \ (unsure \cup missed[s])
    PROVE  Subs!Enabled(subsCopy[s][t]) <=> Subs!Enabled(subs[t])
  BY DEF CopyHolds

LEMMA StoreHolds ==
    ASSUME SubsTypes, SwitchInv, NEW s \in Session, Subs!Store(s)
    PROVE  SwitchInv'
<1> DEFINE u == Subs!TargetOf(s)
<1>1. /\ pc[s] = "switching" /\ pc'[s] = "answering" /\ unsure \subseteq unsure'
      /\ command[s] \in Subs!Command /\ u \in Target /\ command[s].switch \in {"on", "off"}
      /\ UNCHANGED <<command, said>>
      /\ \A q \in Session \ {s} : pc'[q] = pc[q] /\ subsCopy'[q] = subsCopy[q]
  BY DEF Subs!Store, Subs!Goto, Subs!ForgetSubs, Subs!Commanding, Subs!Command, Subs!TargetOf,
         SubsTypes, CommandsGiven
<1>2. \A q \in Session, t \in Target : CommandingOn(q, t)' <=> CommandingOn(q, t)
  BY <1>1 DEF CommandingOn, Subs!Commanding, Subs!TargetOf
<1>3. OneCommander'  BY <1>1, <1>2 DEF SwitchInv, OneCommander
<1>4. \A q \in Session \ {s}, t \in Target : Answering(q, t)' <=> Answering(q, t)
  BY <1>1 DEF Answering, Subs!TargetOf
<1>5. /\ Answering(s, u)' /\ CommandingOn(s, u) /\ \A t \in Target : ~Answering(s, t)
      /\ \A t \in Target \ {u} : ~Answering(s, t)'
  BY <1>1 DEF Answering, CommandingOn, Subs!Commanding, Subs!TargetOf
<1>6. \A q \in Session \ {s} : u \notin unsure => ~Answering(q, u)
  BY <1>1, <1>5 DEF SwitchInv, OneCommander, Answering, CommandingOn, Subs!Commanding
<1>7. CASE /\ subs' = Subs!Switched(s) /\ unsure' = unsure \cup missed[s]
           /\ missed' = [q \in Session |->
                            IF q = s THEN {}
                            ELSE IF Subs!Reading(q) THEN missed[q] \cup {u} ELSE missed[q]]
  <2>1. \A t \in (Target \ unsure') \ {u} : Subs!Enabled(subs'[t]) <=> Subs!Enabled(subs[t])
    <3>1. \A t \in Target \ {u} : subs'[t] = subsCopy[s][t]
      BY <1>7, <1>1 DEF Subs!Switched, SubsTypes
    <3>2. Subs!Reading(s)  BY <1>1 DEF Subs!Reading
    <3> QED  BY <3>1, <3>2, <1>7, WrittenFits DEF SwitchInv
  <2>2. Subs!Enabled(subs'[u]) <=> command[s].switch = "on"
    BY <1>7, <1>1 DEF Subs!Switched, SubsTypes, Subs!Enabled
  <2>3. StoredHolds'
    <3> SUFFICES ASSUME NEW t \in Target \ unsure', NEW q \in Session, Answering(q, t)'
                 PROVE  Subs!Enabled(subs'[t]) <=> command[q].switch = "on"
      BY <1>1 DEF StoredHolds, Subs!Enabled
    <3>1. CASE t = u
      <4>1. q = s  BY <3>1, <1>1, <1>4, <1>6
      <4> QED  BY <4>1, <3>1, <2>2
    <3>2. CASE t # u
      <4>1. q # s /\ Answering(q, t)  BY <3>2, <1>4, <1>5
      <4> QED  BY <4>1, <3>2, <2>1, <1>1 DEF SwitchInv, StoredHolds
    <3> QED  BY <3>1, <3>2
  <2>4. SaidHolds'
    <3> SUFFICES ASSUME NEW t \in Target \ unsure', \A q \in Session : ~Answering(q, t)'
                 PROVE  Subs!Enabled(subs'[t]) <=> said[t]
      BY <1>1 DEF SaidHolds, Subs!Enabled
    <3>1. t # u  BY <1>1 DEF Answering, Subs!TargetOf
    <3>2. \A q \in Session : ~Answering(q, t)  BY <1>4, <1>5
    <3> QED  BY <3>1, <3>2, <2>1, <1>1 DEF SwitchInv, SaidHolds
  <2>5. CopyHolds'
    <3> SUFFICES ASSUME NEW q \in Session, NEW t \in Target \ (unsure' \cup missed'[q]),
                        Subs!Reading(q)'
                 PROVE  Subs!Enabled(subsCopy'[q][t]) <=> Subs!Enabled(subs'[t])
      BY DEF CopyHolds, Subs!Enabled
    <3>1. q # s /\ Subs!Reading(q)  BY <1>1 DEF Subs!Reading
    <3>2. missed'[q] = missed[q] \cup {u}  BY <3>1, <1>7
    <3> QED  BY <3>1, <3>2, <2>1, <1>1 DEF SwitchInv, CopyHolds
  <2> QED  BY <1>3, <2>3, <2>4, <2>5 DEF SwitchInv
<1>8. CASE unsure' = unsure \cup {u} /\ Subs!ForgetSubs(s) /\ UNCHANGED subs
  <2>1. StoredHolds'  BY <1>8, <1>1, <1>4, <1>5 DEF SwitchInv, StoredHolds
  <2>2. SaidHolds'  BY <1>8, <1>1, <1>4, <1>5 DEF SwitchInv, SaidHolds
  <2>3. \A q \in Session : Subs!Reading(q)' => q # s /\ Subs!Reading(q)
    BY <1>1 DEF Subs!Reading
  <2>4. \A q \in Session \ {s} : missed'[q] = missed[q]
    BY <1>8 DEF Subs!ForgetSubs, SubsTypes
  <2>5. CopyHolds'  BY <1>8, <1>1, <2>3, <2>4 DEF SwitchInv, CopyHolds
  <2> QED  BY <1>3, <2>1, <2>2, <2>5 DEF SwitchInv
<1> QED  BY <1>7, <1>8 DEF Subs!Store

LEMMA AnswerHolds ==
    ASSUME SubsTypes, SwitchInv, NEW s \in Session, Subs!Answer(s)
    PROVE  SwitchInv'
<1> DEFINE u == Subs!TargetOf(s)
<1>1. /\ pc[s] = "answering" /\ pc'[s] = "done" /\ unsure \subseteq unsure'
      /\ u \in Target /\ UNCHANGED <<subs, subsCopy, missed>>
      /\ \A q \in Session \ {s} : pc'[q] = pc[q] /\ command'[q] = command[q]
  BY DEF Subs!Answer, Subs!Goto, Subs!Commanding, Subs!Command, Subs!TargetOf, SubsTypes, CommandsGiven
<1>2. \A q \in Session \ {s}, t \in Target :
          (CommandingOn(q, t)' <=> CommandingOn(q, t)) /\ (Answering(q, t)' <=> Answering(q, t))
  BY <1>1 DEF CommandingOn, Answering, Subs!Commanding, Subs!TargetOf
<1>3. \A t \in Target : ~CommandingOn(s, t)' /\ ~Answering(s, t)'
  BY <1>1 DEF CommandingOn, Answering, Subs!Commanding
<1>4. Answering(s, u) /\ \A t \in Target \ {u} : ~Answering(s, t)
  BY <1>1 DEF Answering
<1>5. OneCommander'  BY <1>1, <1>2, <1>3 DEF SwitchInv, OneCommander
<1>6. StoredHolds'  BY <1>1, <1>2, <1>3 DEF SwitchInv, StoredHolds
<1>7. SaidHolds'
  <2> SUFFICES ASSUME NEW t \in Target \ unsure', \A q \in Session : ~Answering(q, t)'
               PROVE  Subs!Enabled(subs[t]) <=> said'[t]
    BY <1>1 DEF SaidHolds, Subs!Enabled
  <2>1. CASE t = u
    <3>1. said'[u] = (command[s].switch = "on")
      BY <2>1, <1>1 DEF Subs!Answer, SubsTypes
    <3> QED  BY <2>1, <3>1, <1>1, <1>4 DEF SwitchInv, StoredHolds
  <2>2. CASE t # u
    <3>1. said'[t] = said[t]  BY <2>2 DEF Subs!Answer, SubsTypes
    <3>2. \A q \in Session : ~Answering(q, t)  BY <2>2, <1>2, <1>4
    <3> QED  BY <3>1, <3>2, <1>1 DEF SwitchInv, SaidHolds
  <2> QED  BY <2>1, <2>2
<1>8. CopyHolds'
  <2>1. \A q \in Session : Subs!Reading(q)' => Subs!Reading(q)  BY <1>1 DEF Subs!Reading
  <2> QED  BY <1>1, <2>1 DEF SwitchInv, CopyHolds
<1> QED  BY <1>5, <1>6, <1>7, <1>8 DEF SwitchInv

\* Who commands nothing, before and after, leaves the commands of the others alone.
LEMMA Bystander ==
    ASSUME SubsTypes, SwitchInv, NEW s \in Session, NEW place,
           ~Subs!Commanding(s), place \notin {"switching", "answering"},
           pc' = [pc EXCEPT ![s] = place],
           unsure \subseteq unsure', UNCHANGED <<command, said>>,
           \A t \in Target \ unsure' : Subs!Enabled(subs'[t]) <=> Subs!Enabled(subs[t])
    PROVE  OneCommander' /\ StoredHolds' /\ SaidHolds'
<1>1. \A q \in Session, t \in Target :
          (CommandingOn(q, t)' <=> CommandingOn(q, t)) /\ (Answering(q, t)' <=> Answering(q, t))
  BY DEF CommandingOn, Answering, Subs!Commanding, Subs!TargetOf, SubsTypes
<1>2. OneCommander'  BY <1>1 DEF SwitchInv, OneCommander
<1>3. StoredHolds'
  <2> SUFFICES ASSUME NEW t \in Target \ unsure', NEW q \in Session, Answering(q, t)'
               PROVE  Subs!Enabled(subs'[t]) <=> command[q].switch = "on"
    BY DEF StoredHolds, Subs!Enabled
  <2> QED  BY <1>1 DEF SwitchInv, StoredHolds
<1>4. SaidHolds'
  <2> SUFFICES ASSUME NEW t \in Target \ unsure', \A q \in Session : ~Answering(q, t)'
               PROVE  Subs!Enabled(subs'[t]) <=> said[t]
    BY DEF SaidHolds, Subs!Enabled
  <2> QED  BY <1>1 DEF SwitchInv, SaidHolds
<1> QED  BY <1>2, <1>3, <1>4

LEMMA CronReadsHolds ==
    ASSUME SubsTypes, SwitchInv, NEW s \in Session, Subs!CronReads(s)
    PROVE  SwitchInv'
<1>1. pc[s] = "off" /\ UNCHANGED <<subs, command, said, missed, unsure>>  BY DEF Subs!CronReads
<1>2. ~Subs!Commanding(s) /\ ~Subs!Reading(s)  BY <1>1 DEF Subs!Commanding, Subs!Reading
<1>3. CASE Subs!ReadSubs(s) /\ Subs!Goto(s, "migrating")
  <2>1. CopyHolds'  BY <1>1, <1>3, ReadHolds DEF Subs!Goto, SwitchInv
  <2> QED  BY <1>1, <1>2, <1>3, <2>1, Bystander DEF Subs!Goto, SwitchInv
<1>4. CASE Subs!Goto(s, "feeding") /\ UNCHANGED subsCopy
  <2>1. \A q \in Session : Subs!Reading(q)' => Subs!Reading(q)
    BY <1>4, <1>1 DEF Subs!Goto, Subs!Reading, SubsTypes
  <2>2. CopyHolds'  BY <1>4, <1>1, <2>1 DEF SwitchInv, CopyHolds
  <2> QED  BY <1>1, <1>2, <1>4, <2>2, Bystander DEF Subs!Goto, SwitchInv
<1> QED  BY <1>3, <1>4 DEF Subs!CronReads

LEMMA MigrateHolds ==
    ASSUME SubsTypes, SwitchInv, NEW s \in Session, Subs!Migrate(s)
    PROVE  SwitchInv'
<1>1. /\ pc[s] = "migrating" /\ pc' = [pc EXCEPT ![s] = "feeding"] /\ unsure \subseteq unsure'
      /\ Subs!ForgetSubs(s) /\ UNCHANGED <<command, said>>
      /\ (subs' = subsCopy[s] /\ unsure' = unsure \cup missed[s]) \/ UNCHANGED <<subs, unsure>>
  BY DEF Subs!Migrate, Subs!Goto
<1>2. ~Subs!Commanding(s) /\ Subs!Reading(s)  BY <1>1 DEF Subs!Commanding, Subs!Reading
<1>3. \A t \in Target \ unsure' : Subs!Enabled(subs'[t]) <=> Subs!Enabled(subs[t])
  BY <1>1, <1>2, WrittenFits DEF SwitchInv
<1>4. CopyHolds'
  <2> SUFFICES ASSUME NEW q \in Session, NEW t \in Target \ (unsure' \cup missed'[q]),
                      Subs!Reading(q)'
               PROVE  Subs!Enabled(subsCopy'[q][t]) <=> Subs!Enabled(subs'[t])
    BY DEF CopyHolds, Subs!Enabled
  <2>1. q # s /\ Subs!Reading(q)  BY <1>1 DEF Subs!Reading, SubsTypes
  <2>2. subsCopy'[q] = subsCopy[q] /\ missed'[q] = missed[q]
    BY <1>1, <2>1 DEF Subs!ForgetSubs, SubsTypes
  <2> QED  BY <1>1, <1>3, <2>1, <2>2 DEF SwitchInv, CopyHolds
<1> QED  BY <1>1, <1>2, <1>3, <1>4, Bystander DEF SwitchInv

LEMMA DieHolds ==
    ASSUME SubsTypes, SwitchInv, NEW s \in Session, Subs!DieInSubs(s)
    PROVE  SwitchInv'
<1>1. /\ Subs!Commanding(s) \/ pc[s] = "migrating"
      /\ pc'[s] = "done" /\ unsure \subseteq unsure' /\ UNCHANGED <<subs, said>>
      /\ \A q \in Session \ {s} : /\ pc'[q] = pc[q] /\ command'[q] = command[q]
                                  /\ subsCopy'[q] = subsCopy[q] /\ missed'[q] = missed[q]
      /\ pc[s] = "answering" => Subs!TargetOf(s) \in unsure'
  BY DEF Subs!DieInSubs, Subs!Goto, Subs!ForgetSubs, SubsTypes
<1>2. \A q \in Session \ {s}, t \in Target :
          (CommandingOn(q, t)' <=> CommandingOn(q, t)) /\ (Answering(q, t)' <=> Answering(q, t))
  BY <1>1 DEF CommandingOn, Answering, Subs!Commanding, Subs!TargetOf
<1>3. \A t \in Target : ~CommandingOn(s, t)' /\ ~Answering(s, t)'
  BY <1>1 DEF CommandingOn, Answering, Subs!Commanding
<1>4. \A t \in Target \ unsure' : ~Answering(s, t)  BY <1>1 DEF Answering
<1>5. OneCommander'  BY <1>1, <1>2, <1>3 DEF SwitchInv, OneCommander
<1>6. StoredHolds'  BY <1>1, <1>2, <1>3 DEF SwitchInv, StoredHolds
<1>7. SaidHolds'  BY <1>1, <1>2, <1>4 DEF SwitchInv, SaidHolds
<1>8. CopyHolds'
  <2>1. \A q \in Session : Subs!Reading(q)' => q # s /\ Subs!Reading(q)
    BY <1>1 DEF Subs!Reading
  <2> QED  BY <1>1, <2>1 DEF SwitchInv, CopyHolds
<1> QED  BY <1>5, <1>6, <1>7, <1>8 DEF SwitchInv

\* A session at the feed neither commands nor reads switches.
LEMMA FeedLeavesSwitches ==
    ASSUME SubsTypes, SwitchInv, NEW s \in Session, FeedMoves(s)
    PROVE  SwitchInv'
<1>1. UNCHANGED <<subs, subsCopy, command, said, missed, unsure>> /\ Feed!FeedStep(s)
  BY DEF FeedMoves, subsVars
<1>2. PICK place \in {"feeding", "writing", "done"} : pc' = [pc EXCEPT ![s] = place]
  BY <1>1
  DEF Feed!FeedStep, Feed!Complete, Feed!ReadFeed, Feed!WriteFeed, Feed!DieInFeed, Feed!EndFeed, Feed!Goto
<1>3. pc[s] \in {"off", "feeding", "writing"}
  BY <1>1 DEF Feed!FeedStep, Feed!Complete, Feed!ReadFeed, Feed!WriteFeed, Feed!DieInFeed
<1>4. \A q \in Session : Subs!Reading(q)' => Subs!Reading(q)
  BY <1>2 DEF Subs!Reading, SubsTypes
<1>5. CopyHolds'  BY <1>1, <1>4 DEF SwitchInv, CopyHolds
<1> QED
  BY <1>1, <1>2, <1>3, <1>5, Bystander DEF SwitchInv, Subs!Commanding

LEMMA NextSwitches == TypeInv /\ SwitchInv /\ [Next]_vars => SwitchInv'
<1> SUFFICES ASSUME TypeInv, SwitchInv, [Next]_vars PROVE SwitchInv'  OBVIOUS
<1>1. SubsTypes  BY TypesOfSubs
<1>2. CASE Tick \/ UNCHANGED vars
  BY <1>2
  DEF Tick, vars, subsVars, SwitchInv, OneCommander, StoredHolds, SaidHolds, CopyHolds, Answering,
      CommandingOn, Subs!Commanding, Subs!TargetOf, Subs!Reading
<1>3. ASSUME NEW s \in Session, SubsMoves(s) PROVE SwitchInv'
  <2>1. Subs!SubsStep(s)  BY <1>3 DEF SubsMoves
  <2> QED
    BY <1>1, <2>1, AskHolds, StoreHolds, AnswerHolds, CronReadsHolds, MigrateHolds, DieHolds
    DEF Subs!SubsStep
<1>4. ASSUME NEW s \in Session, FeedMoves(s) PROVE SwitchInv'
  BY <1>1, <1>4, FeedLeavesSwitches
<1> QED  BY <1>2, <1>3, <1>4 DEF Next

\* Whatever webhook calls, cron runs, failed reads, writes and answers and lost
\* invocations do (setEnabled, persistSubscriptions), the switch of a target that none
\* of them put in doubt says what the target was told last.
THEOREM AnswersAreKept == Spec => []AnswersHold
<1>1. TypeInv /\ SwitchInv => AnswersHold
  <2> SUFFICES ASSUME TypeInv, SwitchInv, NEW t \in Target \ unsure,
                      \A s \in Session : ~(Subs!Commanding(s) /\ Subs!TargetOf(s) = t)
               PROVE  Subs!Enabled(subs[t]) = said[t]
    BY DEF AnswersHold, Subs!SwitchedAsAnswered
  <2>1. \A s \in Session : ~Answering(s, t)  BY DEF Answering, Subs!Commanding
  <2>2. Subs!Enabled(subs[t]) <=> said[t]  BY <2>1 DEF SwitchInv, SaidHolds
  <2>3. said[t] \in BOOLEAN /\ Subs!Enabled(subs[t]) \in BOOLEAN
    BY TypesOfSubs DEF SubsTypes, Subs!Enabled
  <2> QED  BY <2>2, <2>3
<1>2. Spec => [](TypeInv /\ SwitchInv)
  BY InitTyped, NextTyped, InitSwitches, NextSwitches, PTL DEF Spec
<1> QED  BY <1>1, <1>2, PTL

-----------------------------------------------------------------------------
(* Images *)

OwnImages(blob) == \A x \in blob : x.image # NoImage => x.image.of = x.content

ImageInv ==
    /\ OwnImages(feed)
    /\ \A s \in Session :
          /\ OwnImages(feedCopy[s])
          /\ product[s] # NoProduct /\ product[s].image # NoImage
                => product[s].image.of = product[s].content

LEMMA InitImages == Init => ImageInv
  BY DEF Init, Feed!FeedInit, ImageInv, OwnImages

\* What a session makes of the feed has images of its own contents.
LEMMA NextFeedImages ==
    ASSUME ImageInv, NEW s \in Session
    PROVE  OwnImages(Feed!NextFeed(s))
<1>1. Feed!NextFeed(s) \subseteq Feed!Own(s) \cup Feed!Retained(s)
  BY DEF Feed!NextFeed, Feed!Newest
<1>2. OwnImages(Feed!Retained(s))  BY DEF ImageInv, OwnImages, Feed!Retained
<1>3. OwnImages(Feed!Own(s))
  <2> SUFFICES ASSUME product[s] # NoProduct, Feed!EntryOf(s).image # NoImage
               PROVE  Feed!EntryOf(s).image.of = Feed!EntryOf(s).content
    BY DEF Feed!Own, OwnImages
  <2>1. Feed!EntryOf(s).content = product[s].content  BY DEF Feed!EntryOf
  <2>2. CASE product[s].image # NoImage
    <3>1. Feed!EntryOf(s).image = product[s].image  BY <2>2 DEF Feed!EntryOf
    <3> QED  BY <2>1, <2>2, <3>1 DEF ImageInv
  <2>3. CASE product[s].image = NoImage
    <3>1. Feed!Carried(s) # {}  BY <2>3 DEF Feed!EntryOf
    <3>2. (CHOOSE x \in Feed!Carried(s) : TRUE) \in Feed!Carried(s)  BY <3>1
    <3>3. Feed!EntryOf(s).image = (CHOOSE x \in Feed!Carried(s) : TRUE).image
      BY <2>3, <3>1 DEF Feed!EntryOf
    <3> QED  BY <2>1, <3>2, <3>3 DEF Feed!Carried, ImageInv, OwnImages
  <2> QED  BY <2>2, <2>3
<1> QED  BY <1>1, <1>2, <1>3 DEF OwnImages

LEMMA NextImages == TypeInv /\ ImageInv /\ [Next]_vars => ImageInv'
<1> SUFFICES ASSUME TypeInv, ImageInv, [Next]_vars PROVE ImageInv'  OBVIOUS
<1>1. feedCopy \in [Session -> SUBSET Feed!Entry]
      /\ product \in [Session -> Feed!Product \cup {NoProduct}]
  BY DEF TypeInv, TypeOK, Feed!FeedTypeOK
<1>2. CASE Tick \/ UNCHANGED vars \/ \E s \in Session : SubsMoves(s)
  BY <1>2 DEF Tick, vars, SubsMoves, feedVars, ImageInv, OwnImages
<1>3. ASSUME NEW s \in Session, FeedMoves(s) PROVE ImageInv'
  <2>1. CASE Feed!Complete(s)
    BY <1>1, <2>1 DEF Feed!Complete, ImageInv, OwnImages
  <2>2. CASE Feed!ReadFeed(s)
    BY <1>1, <2>2 DEF Feed!ReadFeed, Feed!EndFeed, ImageInv, OwnImages
  <2>3. CASE Feed!WriteFeed(s) \/ Feed!DieInFeed(s)
    <3>1. OwnImages(feed')
      BY <2>3, NextFeedImages DEF Feed!WriteFeed, Feed!DieInFeed, ImageInv
    <3>2. Feed!EndFeed(s)  BY <2>3 DEF Feed!WriteFeed, Feed!DieInFeed
    <3> QED  BY <1>1, <3>1, <3>2 DEF Feed!EndFeed, ImageInv, OwnImages
  <2> QED  BY <1>3, <2>1, <2>2, <2>3 DEF FeedMoves, Feed!FeedStep
<1> QED  BY <1>2, <1>3 DEF Next

\* No report is ever shown with the image of an earlier content
\* (isStoredImageStillValid), whatever is carried over, written over or lost.
THEOREM ImagesAreOwn == Spec => []ImagesFit
<1>1. ImageInv => ImagesFit  BY DEF ImageInv, OwnImages, ImagesFit, Feed!ImageFitsContent
<1>2. Spec => [](TypeInv /\ ImageInv)
  BY InitTyped, NextTyped, InitImages, NextImages, PTL DEF Spec
<1> QED  BY <1>1, <1>2, PTL

-----------------------------------------------------------------------------
(* The feed *)

Fresh(e) == latest[e] # NoProduct /\ now - latest[e].updated <= Retention
Valid(image) == image # NoImage /\ image.until > now

\* An entry is the product last stored for its event, as long as that is fresh.
Agrees(x) ==
    /\ latest[x.event] # NoProduct /\ x.content = latest[x.event].content
    /\ Fresh(x.event) =>
          /\ x.updated = latest[x.event].updated
          /\ Valid(x.image) \/ Valid(latest[x.event].image) => x.image = latest[x.event].image

\* So are all entries of a blob, and every fresh product has one, but for the events in doubt.
Sound(blob, doubt) ==
    /\ \A x \in blob : x.event \notin doubt => Agrees(x)
    /\ \A e \in Event \ doubt : Fresh(e) => \E x \in blob : x.event = e

FeedInv ==
    /\ Sound(feed, shaky)
    /\ \A s \in Session : pc[s] = "writing" => Sound(feedCopy[s], shaky \cup unread[s])

LEMMA InitFeedInv == Init => FeedInv
  BY DEF Init, Feed!FeedInit, FeedInv, Sound, Fresh

\* What is being written for a product that is not in doubt is what is known of it after.
LEMMA EntryAgrees ==
    ASSUME TypeInv, NEW s \in Session, product[s] # NoProduct,
           NEW y, y = Feed!EntryOf(s),
           Sound(feedCopy[s], shaky \cup unread[s]),
           product[s].event \notin shaky \cup unread[s],
           latest' = [latest EXCEPT ![product[s].event] = Feed!LatestAfter(s)], now' = now
    PROVE  Agrees(y)'
<1> DEFINE p == product[s]
           l == latest[p.event]
           m == Feed!LatestAfter(s)
           same == l # NoProduct /\ l.content = p.content
           alike == m.updated = y.updated
                    /\ (Valid(y.image) \/ Valid(m.image) => y.image = m.image)
<1>1. /\ p \in Feed!Product /\ p.event \in Event /\ latest \in [Event -> Feed!Entry \cup {NoProduct}]
      /\ now \in Nat /\ m \in Feed!Entry
  <2>1. p \in Feed!Product /\ latest \in [Event -> Feed!Entry \cup {NoProduct}] /\ now \in Nat
    BY DEF TypeInv, TypeOK, Feed!FeedTypeOK
  <2>2. p.event \in Event  BY <2>1 DEF Feed!Product
  <2>3. l # NoProduct => l \in Feed!Entry  BY <2>1, <2>2
  <2> QED  BY <2>1, <2>2, <2>3 DEF Feed!LatestAfter, Feed!Entry, Feed!Product
<1>2. /\ m.content = p.content
      /\ m.image = IF p.image = NoImage /\ same THEN l.image ELSE p.image
      /\ m.updated = IF same THEN l.updated ELSE now
  BY DEF Feed!LatestAfter
<1>3. latest'[p.event] = m /\ m # NoProduct  BY <1>1, NoProductAssumption
<1>4. \A x \in feedCopy[s] : x.event = p.event => Agrees(x)  BY DEF Sound
<1>5. y.event = p.event /\ y.content = p.content /\ y.updated = Feed!UpdatedAt(s)
  BY DEF Feed!EntryOf
<1>6. ASSUME now - m.updated <= Retention PROVE alike
  <2>1. CASE ~same
    <3>1. \A x \in feedCopy[s] : x.event = p.event => x.content # p.content
      BY <1>4, <2>1 DEF Agrees
    <3>2. Feed!Unchanged(s) = {} /\ Feed!Carried(s) = {}
      BY <3>1 DEF Feed!Unchanged, Feed!Carried
    <3>3. y.updated = now  BY <1>5, <3>2 DEF Feed!UpdatedAt
    <3>4. y.image = p.image  BY <3>2 DEF Feed!EntryOf
    <3> QED  BY <1>2, <2>1, <3>3, <3>4
  <2>2. CASE same /\ now - l.updated <= Retention
    <3>1. Fresh(p.event)  BY <2>2 DEF Fresh
    <3>2. PICK z \in feedCopy[s] : z.event = p.event  BY <1>1, <3>1 DEF Sound
    <3>3. \A x \in feedCopy[s] : x.event = p.event =>
              x.content = p.content /\ x.updated = l.updated
              /\ (Valid(x.image) \/ Valid(l.image) => x.image = l.image)
      BY <1>4, <2>2, <3>1 DEF Agrees
    <3>4. y.updated = l.updated
      <4>1. z \in Feed!Unchanged(s)  BY <3>2, <3>3 DEF Feed!Unchanged
      <4>2. (CHOOSE x \in Feed!Unchanged(s) : TRUE) \in Feed!Unchanged(s)  BY <4>1
      <4>3. y.updated = (CHOOSE x \in Feed!Unchanged(s) : TRUE).updated
        BY <1>5, <4>1 DEF Feed!UpdatedAt
      <4> QED  BY <3>3, <4>2, <4>3 DEF Feed!Unchanged
    <3>5. CASE p.image # NoImage
      <4>1. y.image = p.image  BY <3>5 DEF Feed!EntryOf
      <4> QED  BY <1>2, <2>2, <3>4, <3>5, <4>1
    <3>6. CASE p.image = NoImage /\ Feed!Carried(s) # {}
      <4>1. (CHOOSE x \in Feed!Carried(s) : TRUE) \in Feed!Carried(s)  BY <3>6
      <4>2. y.image = (CHOOSE x \in Feed!Carried(s) : TRUE).image  BY <3>6 DEF Feed!EntryOf
      <4>3. y.image = l.image  BY <3>3, <4>1, <4>2 DEF Feed!Carried, Valid
      <4> QED  BY <1>2, <2>2, <3>4, <3>6, <4>3
    <3>7. CASE p.image = NoImage /\ Feed!Carried(s) = {}
      <4>1. y.image = NoImage  BY <3>7 DEF Feed!EntryOf
      <4>2. ~Valid(l.image)
        <5> SUFFICES ASSUME Valid(l.image) PROVE FALSE  OBVIOUS
        <5>1. z.image = l.image  BY <3>2, <3>3
        <5>2. z \in Feed!Carried(s)  BY <3>2, <3>3, <5>1 DEF Feed!Carried, Valid
        <5> QED  BY <5>2, <3>7
      <4> QED  BY <1>2, <2>2, <3>4, <3>7, <4>1, <4>2 DEF Valid
    <3> QED  BY <3>5, <3>6, <3>7
  <2>3. CASE same /\ ~(now - l.updated <= Retention)
    BY <1>2, <1>6, <2>3
  <2> QED  BY <2>1, <2>2, <2>3
<1> QED  BY <1>2, <1>3, <1>5, <1>6 DEF Agrees, Fresh, Valid

\* An entry of another event than the product's says after the write what it said before.
LEMMA OthersAgree ==
    ASSUME TypeInv, NEW s \in Session, NEW e \in Event,
           product[s] # NoProduct => e # product[s].event,
           latest' = IF product[s] = NoProduct THEN latest
                     ELSE [latest EXCEPT ![product[s].event] = Feed!LatestAfter(s)],
           now' = now
    PROVE  /\ Fresh(e)' <=> Fresh(e)
           /\ \A x : x.event = e => (Agrees(x)' <=> Agrees(x))
<1>1. latest \in [Event -> Feed!Entry \cup {NoProduct}]
  BY DEF TypeInv, TypeOK, Feed!FeedTypeOK
<1>2. latest'[e] = latest[e]  BY <1>1
<1> QED  BY <1>2 DEF Fresh, Agrees, Valid

\* A product goes in unless the cap drops it; its event is in doubt if somebody else
\* stored it meanwhile.
LEMMA OwnIsWritten ==
    ASSUME TypeInv, FeedInv, NEW s \in Session, pc[s] = "writing", now' = now,
           product[s] # NoProduct, NEW e \in Event, e = product[s].event,
           latest' = [latest EXCEPT ![product[s].event] = Feed!LatestAfter(s)],
           feed' = IF Feed!NextFeed(s) = feedCopy[s] THEN feed ELSE Feed!NextFeed(s),
           e \notin shaky \cup Feed!Overlapped(s) \cup Feed!CappedOff(s)
    PROVE  /\ \A x \in feed' : x.event = e => Agrees(x)'
           /\ Fresh(e)' => \E x \in feed' : x.event = e
<1> DEFINE p == product[s]
           l == latest[e]
           m == Feed!LatestAfter(s)
<1> PICK y : y = Feed!EntryOf(s)  OBVIOUS
<1>1. y.event = e /\ y.content = p.content /\ Feed!Own(s) = {y}
      /\ (p.image # NoImage => y.image = p.image)
  BY DEF Feed!EntryOf, Feed!Own
<1>2. e \in Feed!Of(Feed!Own(s))  BY <1>1 DEF Feed!Of
<1>3. e \notin unread[s]  BY <1>2 DEF Feed!Overlapped
<1>4. Sound(feedCopy[s], shaky \cup unread[s]) /\ Sound(feed, shaky)  BY DEF FeedInv
<1>5. Agrees(y)'  BY <1>3, <1>4, EntryAgrees
<1>6. y \in Feed!NextFeed(s)  BY <1>1 DEF Feed!CappedOff, Feed!Of
<1>7. latest \in [Event -> Feed!Entry \cup {NoProduct}]
  BY DEF TypeInv, TypeOK, Feed!FeedTypeOK
<1>8. CASE Feed!NextFeed(s) # feedCopy[s]
  <2>1. \A x \in Feed!NextFeed(s) : x.event = e => x = y
    BY <1>1 DEF Feed!NextFeed, Feed!Newest, Feed!Retained
  <2> QED  BY <1>1, <1>5, <1>6, <1>8, <2>1
<1>9. CASE Feed!NextFeed(s) = feedCopy[s]
  <2>1. feed' = feed /\ y \in feedCopy[s]  BY <1>6, <1>9
  <2>2. Agrees(y)  BY <1>1, <1>3, <1>4, <2>1 DEF Sound
  <2>3. l # NoProduct /\ l.content = p.content  BY <1>1, <2>2 DEF Agrees
  <2>4. latest'[e] = m /\ m.content = l.content /\ m.updated = l.updated
        /\ m.image = (IF p.image = NoImage THEN l.image ELSE p.image)
    BY <1>7, <2>3 DEF Feed!LatestAfter
  <2>5. Fresh(e)' => Fresh(e)  BY <2>3, <2>4 DEF Fresh
  <2>6. ASSUME NEW x \in feed, x.event = e PROVE Agrees(x)'
    <3>1. Agrees(x)  BY <1>4, <2>6 DEF Sound
    <3>2. m # NoProduct  BY <1>1, <1>5, <2>4 DEF Agrees
    <3>3. ASSUME Fresh(e), Valid(x.image) \/ Valid(m.image) PROVE x.image = m.image
      <4>1. /\ Valid(x.image) \/ Valid(l.image) => x.image = l.image
            /\ Valid(y.image) \/ Valid(l.image) => y.image = l.image
        BY <1>1, <2>2, <2>6, <3>1, <3>3 DEF Agrees
      <4>2. CASE p.image = NoImage  BY <2>4, <3>3, <4>1, <4>2
      <4>3. CASE p.image # NoImage
        <5>1. y.image = m.image  BY <1>1, <2>4, <4>3
        <5>2. CASE Valid(x.image)  BY <4>1, <5>1, <5>2
        <5>3. CASE Valid(m.image)  BY <4>1, <5>1, <5>3
        <5> QED  BY <3>3, <5>2, <5>3
      <4> QED  BY <4>2, <4>3
    <3> QED  BY <2>4, <2>5, <2>6, <3>1, <3>2, <3>3 DEF Agrees, Valid
  <2>7. Fresh(e)' => \E x \in feed : x.event = e  BY <1>4, <1>7, <2>5 DEF Sound
  <2> QED  BY <2>1, <2>6, <2>7
<1> QED  BY <1>8, <1>9

\* The entries of the other events stay as they were, or as the session has read them.
LEMMA OthersStay ==
    ASSUME TypeInv, FeedInv, NEW s \in Session, pc[s] = "writing", now' = now,
           NEW e \in Event, product[s] # NoProduct => e # product[s].event,
           latest' = IF product[s] = NoProduct THEN latest
                     ELSE [latest EXCEPT ![product[s].event] = Feed!LatestAfter(s)],
           feed' = IF Feed!NextFeed(s) = feedCopy[s] THEN feed ELSE Feed!NextFeed(s),
           e \notin shaky \cup Feed!Overlapped(s) \cup Feed!CappedOff(s)
    PROVE  /\ \A x \in feed' : x.event = e => Agrees(x)'
           /\ Fresh(e)' => \E x \in feed' : x.event = e
<1>1. Sound(feedCopy[s], shaky \cup unread[s]) /\ Sound(feed, shaky)  BY DEF FeedInv
<1>2. /\ Fresh(e)' <=> Fresh(e)
      /\ \A x : x.event = e => (Agrees(x)' <=> Agrees(x))
  BY OthersAgree
<1>3. CASE Feed!NextFeed(s) = feedCopy[s]
  BY <1>1, <1>2, <1>3 DEF Sound
<1>4. CASE Feed!NextFeed(s) # feedCopy[s]
  <2>1. e \notin unread[s]  BY <1>4 DEF Feed!Overlapped
  <2>2. \A x \in Feed!Own(s) : x.event # e  BY DEF Feed!Own, Feed!EntryOf
  <2>3. \A x \in Feed!NextFeed(s) : x.event = e => x \in feedCopy[s]
    BY <2>2 DEF Feed!NextFeed, Feed!Newest, Feed!Retained
  <2>4. ASSUME Fresh(e) PROVE \E x \in Feed!NextFeed(s) : x.event = e
    <3>1. PICK x \in feedCopy[s] : x.event = e  BY <1>1, <2>1, <2>4 DEF Sound
    <3>2. Agrees(x)  BY <1>1, <2>1, <3>1 DEF Sound
    <3>3. now - x.updated <= Retention  BY <2>4, <3>1, <3>2 DEF Agrees, Fresh
    <3>4. x \in Feed!Retained(s)  BY <2>2, <3>1, <3>3 DEF Feed!Retained
    <3> QED  BY <3>1, <3>4 DEF Feed!CappedOff, Feed!Of
  <2> QED  BY <1>1, <1>2, <1>4, <2>1, <2>3, <2>4 DEF Sound
<1> QED  BY <1>3, <1>4

LEMMA WriteKeepsFeed ==
    ASSUME TypeInv, FeedInv, NEW s \in Session, Feed!WriteFeed(s), now' = now
    PROVE  FeedInv'
<1>1. /\ pc[s] = "writing" /\ pc'[s] = "done"
      /\ \A q \in Session \ {s} : pc'[q] = pc[q] /\ feedCopy'[q] = feedCopy[q]
  BY DEF Feed!WriteFeed, Feed!EndFeed, Feed!Goto, TypeInv, TypeOK, Feed!FeedTypeOK
<1>2. CASE UNCHANGED <<feed, latest, shaky>> /\ unread' = [unread EXCEPT ![s] = {}]
  <2>1. \A q \in Session \ {s} : unread'[q] = unread[q]
    BY <1>2 DEF TypeInv, TypeOK, Feed!FeedTypeOK
  <2> QED  BY <1>1, <1>2, <2>1 DEF FeedInv, Sound, Agrees, Fresh, Valid
<1>3. CASE /\ feed' = IF Feed!NextFeed(s) = feedCopy[s] THEN feed ELSE Feed!NextFeed(s)
           /\ latest' = IF product[s] = NoProduct THEN latest
                        ELSE [latest EXCEPT ![product[s].event] = Feed!LatestAfter(s)]
           /\ unread' = [q \in Session |->
                            IF q = s THEN {}
                            ELSE IF pc[q] = "writing" THEN unread[q] \cup Feed!Of(Feed!Own(s))
                            ELSE unread[q]]
           /\ shaky' = shaky \cup Feed!Overlapped(s) \cup Feed!CappedOff(s)
  <2>1. \A e \in Event \ shaky' :
            /\ \A x \in feed' : x.event = e => Agrees(x)'
            /\ Fresh(e)' => \E x \in feed' : x.event = e
    <3> TAKE e \in Event \ shaky'
    <3>1. CASE product[s] # NoProduct /\ e = product[s].event
      BY <1>1, <1>3, <3>1, OwnIsWritten
    <3>2. CASE product[s] # NoProduct => e # product[s].event
      BY <1>1, <1>3, <3>2, OthersStay
    <3> QED  BY <3>1, <3>2
  <2>2. \A x \in feed' : x.event \in Event
    BY NextTyped, <1>3, NextFeedTyped DEF TypeInv, TypeOK, Feed!FeedTypeOK, Feed!Entry
  <2>3. Sound(feed, shaky)'  BY <2>1, <2>2 DEF Sound
  <2>4. ASSUME NEW q \in Session \ {s}, pc'[q] = "writing"
        PROVE  Sound(feedCopy[q], shaky \cup unread[q])'
    <3>1. /\ feedCopy'[q] = feedCopy[q]
          /\ unread'[q] = unread[q] \cup Feed!Of(Feed!Own(s))
          /\ shaky \subseteq shaky' /\ Sound(feedCopy[q], shaky \cup unread[q])
      BY <1>1, <1>3, <2>4 DEF FeedInv
    <3>2. \A e \in Event \ (shaky' \cup unread'[q]) : product[s] # NoProduct => e # product[s].event
      BY <3>1 DEF Feed!Of, Feed!Own, Feed!EntryOf
    <3>3. \A e \in Event \ (shaky' \cup unread'[q]) :
              /\ Fresh(e)' <=> Fresh(e)
              /\ \A x : x.event = e => (Agrees(x)' <=> Agrees(x))
      BY <1>3, <3>2, OthersAgree
    <3>4. \A x \in feedCopy[q] : x.event \in Event
      BY DEF TypeInv, TypeOK, Feed!FeedTypeOK, Feed!Entry
    <3> QED  BY <3>1, <3>3, <3>4 DEF Sound
  <2> QED  BY <1>1, <2>3, <2>4 DEF FeedInv
<1> QED  BY <1>2, <1>3 DEF Feed!WriteFeed

LEMMA NextFeedInv == TypeInv /\ FeedInv /\ [Next]_vars => FeedInv'
<1> SUFFICES ASSUME TypeInv, FeedInv, [Next]_vars PROVE FeedInv'  OBVIOUS
<1>1. pc \in [Session -> Place] /\ feedCopy \in [Session -> SUBSET Feed!Entry]
      /\ latest \in [Event -> Feed!Entry \cup {NoProduct}] /\ now \in Nat
      /\ unread \in [Session -> SUBSET Event]
  BY DEF TypeInv, TypeOK, Feed!FeedTypeOK
<1>2. CASE UNCHANGED vars
  BY <1>2 DEF vars, feedVars, FeedInv, Sound, Agrees, Fresh, Valid
<1>3. CASE Tick
  <2>1. now' = now + 1 /\ UNCHANGED <<pc, feed, feedCopy, latest, unread, shaky>>
    BY <1>3 DEF Tick, feedVars
  <2>2. \A s \in Session : pc'[s] # "writing"
    BY <1>3, <2>1 DEF Tick, Active
  <2>3. \A e \in Event : Fresh(e)' => Fresh(e)
    <3> SUFFICES ASSUME NEW e \in Event, Fresh(e)' PROVE Fresh(e)  OBVIOUS
    <3>0. latest' = latest /\ now' = now + 1  BY <2>1
    <3>1. latest[e] # NoProduct /\ now' - latest[e].updated <= Retention
      BY <3>0 DEF Fresh
    <3>2. latest[e].updated \in Nat  BY <1>1, <3>1 DEF Feed!Entry
    <3> QED  BY <1>1, <3>0, <3>1, <3>2, CronBounds DEF Fresh
  <2>4. ASSUME NEW x \in feed, Agrees(x) PROVE Agrees(x)'
    <3>1. x \in Feed!Entry /\ x.event \in Event
      BY DEF TypeInv, TypeOK, Feed!FeedTypeOK, Feed!Entry
    <3>2. ASSUME NEW i \in Feed!Image, Valid(i)' PROVE Valid(i)
      <4>1. i # NoImage /\ i.until > now + 1  BY <2>1, <3>2 DEF Valid
      <4>2. i.until \in Nat  BY <4>1 DEF Feed!Image
      <4> QED  BY <1>1, <4>1, <4>2 DEF Valid
    <3>3. latest[x.event] # NoProduct => latest[x.event].image \in Feed!Image
      BY <1>1, <3>1 DEF Feed!Entry
    <3>4. x.image \in Feed!Image  BY <3>1 DEF Feed!Entry
    <3> QED  BY <2>1, <2>3, <2>4, <3>1, <3>2, <3>3, <3>4 DEF Agrees
  <2>5. Sound(feed, shaky)'  BY <2>1, <2>3, <2>4 DEF FeedInv, Sound
  <2> QED  BY <2>2, <2>5 DEF FeedInv
<1>4. ASSUME NEW s \in Session, SubsMoves(s) PROVE FeedInv'
  <2>1. UNCHANGED <<now, feed, feedCopy, product, latest, unread, shaky>> /\ Subs!SubsStep(s)
    BY <1>4 DEF SubsMoves, feedVars
  <2>2. \A q \in Session : pc'[q] = "writing" => pc[q] = "writing"
    BY <1>1, <2>1
    DEF Subs!SubsStep, Subs!Ask, Subs!Store, Subs!Answer, Subs!CronReads, Subs!Migrate,
        Subs!DieInSubs, Subs!Goto
  <2> QED  BY <2>1, <2>2 DEF FeedInv, Sound, Agrees, Fresh, Valid
<1>5. ASSUME NEW s \in Session, FeedMoves(s) PROVE FeedInv'
  <2>1. Feed!FeedStep(s) /\ now' = now  BY <1>5 DEF FeedMoves
  <2>2. CASE Feed!Complete(s)
    <3>1. /\ UNCHANGED <<now, feed, feedCopy, latest, unread, shaky>>
          /\ \A q \in Session : pc'[q] = "writing" => pc[q] = "writing"
      BY <1>1, <2>1, <2>2 DEF Feed!Complete, Feed!Goto
    <3> QED  BY <3>1 DEF FeedInv, Sound, Agrees, Fresh, Valid
  <2>3. CASE Feed!ReadFeed(s)
    <3>1. /\ UNCHANGED <<now, feed, latest, unread, shaky>>
          /\ feedCopy'[s] = feed \/ pc'[s] # "writing"
          /\ \A q \in Session \ {s} : pc'[q] = pc[q] /\ feedCopy'[q] = feedCopy[q]
      BY <1>1, <2>1, <2>3 DEF Feed!ReadFeed, Feed!EndFeed, Feed!Goto
    <3>2. \A x : Agrees(x)' <=> Agrees(x)  BY <3>1 DEF Agrees, Fresh, Valid
    <3>3. \A e : Fresh(e)' <=> Fresh(e)  BY <3>1 DEF Fresh
    <3>4. Sound(feed, shaky)'  BY <3>1, <3>2, <3>3 DEF FeedInv, Sound
    <3>5. ASSUME NEW q \in Session, pc'[q] = "writing"
          PROVE  Sound(feedCopy[q], shaky \cup unread[q])'
      <4>1. CASE q = s
        BY <3>1, <3>2, <3>3, <3>5, <4>1 DEF FeedInv, Sound
      <4>2. CASE q # s
        BY <3>1, <3>2, <3>3, <3>5, <4>2 DEF FeedInv, Sound
      <4> QED  BY <4>1, <4>2
    <3> QED  BY <3>4, <3>5 DEF FeedInv
  <2>4. CASE Feed!WriteFeed(s)  BY <2>1, <2>4, WriteKeepsFeed
  <2>5. CASE Feed!DieInFeed(s)
    <3>1. /\ UNCHANGED <<now, feed, latest, shaky>> /\ pc'[s] = "done"
          /\ \A q \in Session \ {s} :
                pc'[q] = pc[q] /\ feedCopy'[q] = feedCopy[q] /\ unread'[q] = unread[q]
      BY <1>1, <2>1, <2>5 DEF Feed!DieInFeed, Feed!EndFeed, Feed!Goto
    <3> QED  BY <3>1 DEF FeedInv, Sound, Agrees, Fresh, Valid
  <2> QED  BY <2>1, <2>2, <2>3, <2>4, <2>5 DEF Feed!FeedStep
<1> QED  BY <1>2, <1>3, <1>4, <1>5 DEF Next

\* A finished report stays in the feed for its retention, with its time and its image
\* (buildSharedFeedEvents), unless a session that had not read it wrote the blob or the
\* cap dropped it, for any number of sessions, events and faults.
THEOREM FeedIsKept == Spec => []FeedKept
<1>1. TypeInv /\ FeedInv => FeedKept
  BY DEF FeedInv, Sound, Agrees, Fresh, Valid, FeedKept, Feed!FeedIsTrue
<1>2. Spec => [](TypeInv /\ FeedInv)
  BY InitTyped, NextTyped, InitFeedInv, NextFeedInv, PTL DEF Spec
<1> QED  BY <1>1, <1>2, PTL

=============================================================================
