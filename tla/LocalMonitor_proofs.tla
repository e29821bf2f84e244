-------------------------- MODULE LocalMonitor_proofs --------------------------
(***************************************************************************)
(* The monitor implements the abstract feed, for any number of events,     *)
(* contents and confirming misses.                                         *)
(***************************************************************************)
EXTENDS LocalMonitor, TLAPS

LEMMA MonitorTypeInit == Init => TypeOK
<1> SUFFICES ASSUME Init
             PROVE  TypeOK
  OBVIOUS
<1>1. 0 \in 0 .. ClearAfter - 1 /\ 0 \in 0 .. ClearAfter
  BY ClearAfterAssumption
<1>2. missing \in [Event -> 0 .. ClearAfter - 1] /\ misses \in [Event -> 0 .. ClearAfter]
  BY <1>1 DEF Init
<1> QED
  BY <1>2 DEF Init, TypeOK, Told, Said, Place, NoPayload

LEMMA ChangesType ==
    ASSUME TypeOK
    PROVE  Changes \subseteq Change
BY ContentAssumption DEF TypeOK, Changes, NewChange, UpdatedChange, ClearedChange, IsNew,
   IsUpdated, IsCleared, Active, Known, Change, Lifecycle, Told, Said

LEMMA FileType ==
    ASSUME TypeOK
    PROVE  /\ [e \in Event |-> NextRecorded(e)] \in [Event -> Told]
           /\ [e \in Event |-> NextMissing(e)] \in [Event -> 0 .. ClearAfter - 1]
<1>1. \A e \in Event : NextRecorded(e) \in Told
  BY DEF TypeOK, NextRecorded, Active, Told
<1>2. \A e \in Event : NextMissing(e) \in 0 .. ClearAfter - 1
  BY ClearAfterAssumption DEF TypeOK, NextMissing, PendingClear, IsCleared, ConfirmedAbsent
<1> QED
  BY <1>1, <1>2

LEMMA MonitorTypeStep == TypeOK /\ [Next]_vars => TypeOK'
<1> SUFFICES ASSUME TypeOK, [Next]_vars
             PROVE  TypeOK'
  OBVIOUS
<1> USE ClearAfterAssumption DEF Place, At, Goto
<1>1. CASE Start \/ BeginRound \/ FetchFails \/ EndRound
  BY <1>1 DEF TypeOK, Start, BeginRound, FetchFails, EndRound, fileVars, listenerVars
<1>2. CASE Fetch
  <2>1. misses' \in [Event -> 0 .. ClearAfter]
    BY <1>2 DEF TypeOK, Fetch
  <2> QED
    BY <1>2, <2>1 DEF TypeOK, Fetch, fileVars, listenerVars
<1>3. CASE Record
  <2>1. /\ pending' \subseteq Change
        /\ recorded' \in [Event -> Told] /\ missing' \in [Event -> 0 .. ClearAfter - 1]
    BY <1>3, ChangesType, FileType DEF Record
  <2>2. gap' \subseteq Event
    BY <1>3 DEF TypeOK, Record, Untold
  <2>3. misses' \in [Event -> 0 .. ClearAfter] /\ payload' \in [Event -> Said]
    BY <1>3 DEF TypeOK, Record, NoPayload, Said, Told
  <2> QED
    BY <1>3, <2>1, <2>2, <2>3 DEF TypeOK, Record
<1>4. CASE RecordFails
  BY <1>4 DEF TypeOK, RecordFails, fileVars, listenerVars, NoPayload, Said, Told
<1>5. ASSUME NEW c \in pending, PushReceived(c)
      PROVE  TypeOK'
  <2>1. c \in Change
    BY DEF TypeOK
  <2> QED
    BY <1>5, <2>1 DEF TypeOK, PushReceived, fileVars, Change, Told
<1>6. CASE (\E c \in pending : PushFails(c)) \/ AbortDispatch \/ Crash
  BY <1>6 DEF TypeOK, PushFails, AbortDispatch, Crash, Lose, fileVars, Change, NoPayload,
     Said, Told
<1>7. ASSUME NEW e \in Event, UpstreamChanges(e)
      PROVE  TypeOK'
  <2>1. SaidOf(e) \subseteq Said
    BY ContentOfAssumption DEF SaidOf, Said, Told
  <2>2. upstream' \in [Event -> Said]
    BY <1>7, <2>1 DEF TypeOK, UpstreamChanges
  <2> QED
    BY <1>7, <2>2 DEF TypeOK, UpstreamChanges, fileVars, listenerVars
<1>8. CASE UNCHANGED vars
  BY <1>8 DEF TypeOK, vars, fileVars, listenerVars
<1> QED
  BY <1>1, <1>2, <1>3, <1>4, <1>5, <1>6, <1>7, <1>8 DEF Next, RoundStep

-----------------------------------------------------------------------------
(* What the changes under way mean.  A change carries the event as the     *)
(* state file has it now, there is one per event, and outside them and     *)
(* the gaps the Worker believes what the file says.                        *)

Outbox == {c.event : c \in pending}

OneChangeEach == \A c, d \in pending : c.event = d.event => c = d

After(c) == IF c.lifecycle = "CLEARED" THEN NoContent ELSE c.content

ChangeIsRecorded == \A c \in pending : recorded[c.event] = After(c)

RestInStep == \A e \in Event \ (Outbox \cup gap) : heard[e] = recorded[e]

NothingBeforeBaseline ==
    ~hasState => /\ recorded = NoPayload /\ heard = NoPayload
                 /\ gap = {} /\ pending = {}

OnlyWhileDispatching == pc # "dispatch" => pending = {}

FeedInv ==
    /\ OneChangeEach /\ ChangeIsRecorded /\ RestInStep /\ PendingFits
    /\ NothingBeforeBaseline /\ OnlyWhileDispatching

LEMMA FeedInvInit == Init => FeedInv
BY DEF Init, FeedInv, OneChangeEach, ChangeIsRecorded, RestInStep, PendingFits,
   NothingBeforeBaseline, OnlyWhileDispatching, NoPayload

LEMMA ChangesAreTheDifference ==
    ASSUME TypeOK, hasState
    PROVE  {c.event : c \in Changes} = {e \in Event : NextRecorded(e) # recorded[e]}
<1>1. ASSUME NEW e \in Event
      PROVE  NextRecorded(e) # recorded[e] <=> IsNew(e) \/ IsUpdated(e) \/ IsCleared(e)
  BY ContentAssumption DEF TypeOK, NextRecorded, PendingClear, IsNew, IsUpdated, IsCleared,
     Active, Known, Told
<1>2. {c.event : c \in Changes} = {e \in Event : IsNew(e) \/ IsUpdated(e) \/ IsCleared(e)}
  <2>1. Changes = {NewChange(e) : e \in {d \in Event : IsNew(d)}}
                  \cup {UpdatedChange(e) : e \in {d \in Event : IsUpdated(d)}}
                  \cup {ClearedChange(e) : e \in {d \in Event : IsCleared(d)}}
    BY DEF Changes
  <2>2. \A e \in Event : /\ NewChange(e).event = e /\ UpdatedChange(e).event = e
                         /\ ClearedChange(e).event = e
    BY DEF NewChange, UpdatedChange, ClearedChange
  <2> QED
    BY <2>1, <2>2
<1> QED
  BY <1>1, <1>2

LEMMA RecordKeeps ==
    ASSUME TypeOK, FeedInv, Record
    PROVE  FeedInv'
<1>0. pending = {} /\ pending' = Changes /\ heard' = heard
      /\ \A e \in Event : recorded'[e] = NextRecorded(e)
  BY DEF Record, At, FeedInv, OnlyWhileDispatching
<1>1. ASSUME NEW c \in Changes
      PROVE  /\ hasState /\ c.event \in Event
             /\ \/ IsNew(c.event) /\ c = NewChange(c.event)
                \/ IsUpdated(c.event) /\ c = UpdatedChange(c.event)
                \/ IsCleared(c.event) /\ c = ClearedChange(c.event)
  BY DEF Changes, NewChange, UpdatedChange, ClearedChange
<1>2. OneChangeEach'
  BY <1>0, <1>1 DEF OneChangeEach, IsNew, IsUpdated, IsCleared
<1>3. ChangeIsRecorded'
  BY <1>0, <1>1 DEF ChangeIsRecorded, After, NextRecorded, PendingClear, NewChange,
     UpdatedChange, ClearedChange, IsNew, IsUpdated, IsCleared
<1>4. CASE ~hasState
  <2>1. pending' = {} /\ gap' = gap \cup {e \in Event : Active(e)}
    BY <1>4, <1>0 DEF Record, Changes, Untold
  <2>2. \A e \in Event : recorded[e] = NoContent /\ heard[e] = NoContent
    BY <1>4 DEF FeedInv, NothingBeforeBaseline, NoPayload
  <2>3. RestInStep'
    BY <1>0, <2>1, <2>2 DEF RestInStep, Outbox, NextRecorded, PendingClear, Known
  <2>4. PendingFits'
    BY <2>1 DEF PendingFits
  <2>5. NothingBeforeBaseline' /\ OnlyWhileDispatching'
    BY DEF Record, Goto, NothingBeforeBaseline, OnlyWhileDispatching
  <2> QED
    BY <1>2, <1>3, <2>3, <2>4, <2>5 DEF FeedInv
<1>5. CASE hasState
  <2>1. gap' = gap /\ \A e \in Event \ gap : heard[e] = recorded[e]
    BY <1>5, <1>0 DEF Record, Untold, FeedInv, RestInStep, Outbox
  <2>2. RestInStep'
    BY <1>5, <1>0, <2>1, ChangesAreTheDifference DEF RestInStep, Outbox
  <2>3. PendingFits'
    <3>1. ASSUME NEW c \in Changes, c.event \notin gap
          PROVE  Fits(c)
      <4>1. heard[c.event] = recorded[c.event] /\ c.event \in Event
        BY <1>1, <2>1, <3>1
      <4>2. CASE IsNew(c.event) /\ c = NewChange(c.event)
        <5>1. c.lifecycle = "NEW" /\ recorded[c.event] = NoContent
          BY <4>2 DEF NewChange, IsNew, Known
        <5> QED
          BY <4>1, <5>1 DEF Fits
      <4>3. CASE IsUpdated(c.event) /\ c = UpdatedChange(c.event)
        <5>1. /\ c.lifecycle = "UPDATED" /\ c.content = payload[c.event]
              /\ recorded[c.event] \notin {NoContent, payload[c.event]}
          BY <4>3 DEF UpdatedChange, IsUpdated, Known
        <5> QED
          BY <4>1, <5>1 DEF Fits
      <4>4. CASE IsCleared(c.event) /\ c = ClearedChange(c.event)
        <5>1. c.lifecycle = "CLEARED" /\ c.content = recorded[c.event]
          BY <4>4 DEF ClearedChange
        <5> QED
          BY <4>1, <5>1 DEF Fits
      <4> QED
        BY <1>1, <4>2, <4>3, <4>4
    <3> QED
      BY <1>0, <2>1, <3>1 DEF PendingFits, Fits
  <2>4. NothingBeforeBaseline' /\ OnlyWhileDispatching'
    BY DEF Record, Goto, NothingBeforeBaseline, OnlyWhileDispatching
  <2> QED
    BY <1>2, <1>3, <2>2, <2>3, <2>4 DEF FeedInv
<1> QED
  BY <1>4, <1>5

LEMMA DispatchKeeps ==
    ASSUME TypeOK, FeedInv,
           (\E c \in pending : PushReceived(c) \/ PushFails(c)) \/ AbortDispatch \/ Crash
    PROVE  FeedInv'
<1>1. ASSUME NEW c \in pending, PushReceived(c)
      PROVE  FeedInv'
  <2>0. /\ c \in Change /\ pending' = pending \ {c} /\ gap' = gap \ {c.event}
        /\ heard' = [heard EXCEPT ![c.event] = After(c)]
        /\ recorded' = recorded /\ hasState' = hasState /\ pc' = pc /\ pc = "dispatch"
    BY <1>1 DEF PushReceived, TypeOK, fileVars, After, At
  <2>1. Outbox' = Outbox \ {c.event}
    BY <2>0 DEF Outbox, FeedInv, OneChangeEach
  <2>2. OneChangeEach' /\ ChangeIsRecorded'
    BY <2>0 DEF FeedInv, OneChangeEach, ChangeIsRecorded, After
  <2>3. RestInStep'
    BY <2>0, <2>1 DEF FeedInv, RestInStep, ChangeIsRecorded, TypeOK
  <2>4. PendingFits'
    <3>1. ASSUME NEW d \in pending', d.event \notin gap'
          PROVE  heard'[d.event] = heard[d.event] /\ d \in pending /\ d.event \notin gap
      BY <2>0, <3>1 DEF FeedInv, OneChangeEach, TypeOK
    <3> QED
      BY <3>1 DEF FeedInv, PendingFits, Fits
  <2>5. NothingBeforeBaseline' /\ OnlyWhileDispatching'
    BY <2>0 DEF FeedInv, NothingBeforeBaseline, OnlyWhileDispatching
  <2> QED
    BY <2>2, <2>3, <2>4, <2>5 DEF FeedInv
<1>2. ASSUME NEW lost \in SUBSET pending, Lose(lost),
             recorded' = recorded /\ hasState' = hasState, pc' = pc \/ pending' = {}
      PROVE  FeedInv'
  <2>1. OneChangeEach' /\ ChangeIsRecorded' /\ RestInStep'
    BY <1>2 DEF Lose, FeedInv, OneChangeEach, ChangeIsRecorded, RestInStep, Outbox, After
  <2>2. PendingFits'
    BY <1>2 DEF Lose, FeedInv, PendingFits, Fits
  <2>3. NothingBeforeBaseline' /\ OnlyWhileDispatching'
    BY <1>2 DEF Lose, FeedInv, NothingBeforeBaseline, OnlyWhileDispatching
  <2> QED
    BY <2>1, <2>2, <2>3 DEF FeedInv
<1>3. ASSUME NEW c \in pending, PushFails(c)
      PROVE  FeedInv'
  BY <1>3, <1>2 DEF PushFails, fileVars
<1>4. CASE AbortDispatch \/ Crash
  <2>1. Lose(pending) /\ recorded' = recorded /\ hasState' = hasState
    BY <1>4 DEF AbortDispatch, Crash, fileVars
  <2>2. pending' = {}
    BY <2>1 DEF Lose
  <2> QED
    BY <1>2, <2>1, <2>2
<1> QED
  BY <1>1, <1>3, <1>4

LEMMA FeedInvStep ==
    ASSUME TypeOK, FeedInv, [Next]_vars
    PROVE  FeedInv'
<1>1. ASSUME UNCHANGED <<fileVars, pending, listenerVars>>,
             pc' = "dispatch" => pc = "dispatch" \/ pending = {},
             pc = "dispatch" => pc' = "dispatch" \/ pending = {}
      PROVE  FeedInv'
  BY <1>1 DEF fileVars, listenerVars, FeedInv, OneChangeEach, ChangeIsRecorded, After,
     RestInStep, Outbox, PendingFits, Fits, NothingBeforeBaseline, OnlyWhileDispatching
<1>2. CASE Start \/ BeginRound \/ FetchFails \/ RecordFails \/ EndRound \/ Fetch
  BY <1>1, <1>2 DEF Start, BeginRound, FetchFails, RecordFails, EndRound, Fetch, At, Goto,
     fileVars, listenerVars
<1>3. CASE \E e \in Event : UpstreamChanges(e)
  BY <1>1, <1>3 DEF UpstreamChanges
<1>4. CASE UNCHANGED vars
  BY <1>1, <1>4 DEF vars
<1> QED
  BY <1>2, <1>3, <1>4, RecordKeeps, DispatchKeeps DEF Next, RoundStep

-----------------------------------------------------------------------------

\* Whatever is lost, a change the Worker is sent fits what it believes, unless an
\* earlier change of that event was lost (dispatchDebugChanges after the write).
THEOREM ChangesFit == Spec => []PendingFits
<1>1. TypeOK /\ FeedInv /\ [Next]_vars => (TypeOK /\ FeedInv)'
  BY MonitorTypeStep, FeedInvStep
<1>2. FeedInv => PendingFits
  BY DEF FeedInv
<1> QED
  BY <1>1, <1>2, MonitorTypeInit, FeedInvInit, PTL DEF Spec

LEMMA FeedStep ==
    ASSUME TypeOK, FeedInv, [Next]_vars
    PROVE  [Feed!Next]_(Feed!vars)
<1> USE DEF Feed!vars
<1>1. CASE Record
  <2>0. /\ pending = {} /\ pending' = Changes /\ heard' = heard /\ hasState'
        /\ recorded' = [e \in Event |-> NextRecorded(e)]
    BY <1>1 DEF Record, At, FeedInv, OnlyWhileDispatching
  <2>1. recorded' \in Feed!View
    BY <2>0, FileType DEF Feed!View, Told
  <2>2. CASE ~hasState
    <3>1. pending' = {} /\ gap' = gap \cup {e \in Event : Active(e)}
      BY <1>1, <2>2 DEF Record, Changes, Untold
    <3>2. \A e \in Event : Active(e) <=> recorded'[e] # recorded[e]
      BY <2>0, <2>2, ContentAssumption DEF FeedInv, NothingBeforeBaseline, NoPayload,
         NextRecorded, PendingClear, Known, Active
    <3>3. Feed!Baseline(recorded')
      BY <2>0, <2>2, <3>1, <3>2 DEF Feed!Baseline, Feed!Changed
    <3> QED
      BY <2>1, <3>3 DEF Feed!Next
  <2>3. CASE hasState
    <3>1. gap' = gap
      BY <1>1, <2>3 DEF Record, Untold
    <3>2. {c.event : c \in pending'} = {e \in Event : recorded'[e] # recorded[e]}
      BY <2>0, <2>3, ChangesAreTheDifference
    <3>3. PICK view \in Feed!View : view = recorded'
      BY <2>1
    <3>4. Feed!Announce(view)
      BY <2>0, <2>3, <3>1, <3>2, <3>3 DEF Feed!Announce, Feed!Changed
    <3> QED
      BY <3>4 DEF Feed!Next
  <2> QED
    BY <2>2, <2>3
<1>2. ASSUME NEW c \in pending, PushReceived(c)
      PROVE  Feed!Deliver(c.event) /\ c.event \in Event
  <2>1. /\ c.event \in Event /\ recorded[c.event] = After(c)
        /\ pending' = pending \ {c} /\ gap' = gap \ {c.event}
        /\ heard' = [heard EXCEPT ![c.event] = After(c)]
        /\ UNCHANGED <<hasState, recorded>>
    BY <1>2 DEF PushReceived, TypeOK, Change, fileVars, FeedInv, ChangeIsRecorded, After
  <2>2. {d.event : d \in pending'} = {d.event : d \in pending} \ {c.event}
    BY <2>1 DEF FeedInv, OneChangeEach
  <2> QED
    BY <2>1, <2>2 DEF Feed!Deliver
<1>3. ASSUME NEW c \in pending, PushFails(c)
      PROVE  Feed!Lose({c.event}) /\ {c.event} \subseteq Outbox
  <2>1. {d.event : d \in pending'} = {d.event : d \in pending} \ {c.event}
    BY <1>3 DEF PushFails, Lose, FeedInv, OneChangeEach
  <2> QED
    BY <1>3, <2>1 DEF PushFails, Lose, Feed!Lose, fileVars, Outbox
<1>4. CASE (AbortDispatch \/ Crash) /\ pending # {}
  <2>1. PICK lost \in SUBSET Outbox : lost = Outbox
    OBVIOUS
  <2>2. Feed!Lose(lost)
    BY <1>4, <2>1 DEF AbortDispatch, Crash, Lose, Feed!Lose, fileVars, Outbox
  <2> QED
    BY <2>2 DEF Feed!Next, Outbox
<1>5. CASE UNCHANGED <<fileVars, pending, listenerVars>>
  BY <1>5 DEF fileVars, listenerVars
<1>6. CASE Crash /\ pending = {}
  BY <1>6 DEF Crash, Lose, fileVars
<1>7. CASE Start \/ BeginRound \/ FetchFails \/ RecordFails \/ EndRound \/ Fetch
           \/ (\E e \in Event : UpstreamChanges(e)) \/ UNCHANGED vars
  BY <1>5, <1>7 DEF Start, BeginRound, FetchFails, RecordFails, EndRound, Fetch,
     UpstreamChanges, fileVars, listenerVars, vars
<1>8. CASE \E c \in pending : PushReceived(c) \/ PushFails(c)
  BY <1>2, <1>3, <1>8 DEF Feed!Next, Outbox
<1> QED
  BY <1>1, <1>4, <1>6, <1>7, <1>8 DEF Next, RoundStep, AbortDispatch

LEMMA FeedInit == Init => Feed!Init
BY DEF Init, Feed!Init

\* The monitor implements the abstract feed: writing the state file announces what
\* changed, a push delivers one announcement, a failed push, a log that cannot be
\* written or a forced exit loses some, and nothing else touches them.
THEOREM MonitorImplementsFeed == Spec => ImplementsFeed
<1>1. TypeOK /\ FeedInv /\ [Next]_vars => (TypeOK /\ FeedInv)'
  BY MonitorTypeStep, FeedInvStep
<1>2. TypeOK /\ FeedInv /\ [Next]_vars => [Feed!Next]_(Feed!vars)
  BY FeedStep
<1> QED
  BY <1>1, <1>2, MonitorTypeInit, FeedInvInit, FeedInit, PTL DEF Spec, ImplementsFeed, Feed!Spec

-----------------------------------------------------------------------------
(* The file never counts more misses than there were payloads without the  *)
(* event since it was recorded as seen.                                    *)

EvidenceInv ==
    \A e \in Event :
        /\ missing[e] <= misses[e]
        /\ pc = "record" /\ payload[e] \notin Content => missing[e] < misses[e]

LEMMA EvidenceStep ==
    ASSUME TypeOK, EvidenceInv, [Next]_vars
    PROVE  EvidenceInv'
<1>1. CASE Fetch
  <2> SUFFICES ASSUME NEW e \in Event
               PROVE  /\ missing'[e] <= misses'[e]
                      /\ payload'[e] \notin Content => missing'[e] < misses'[e]
    BY DEF EvidenceInv
  <2>1. /\ missing'[e] = missing[e] /\ payload'[e] = upstream[e]
        /\ misses'[e] = IF upstream[e] \notin Content /\ misses[e] < ClearAfter
                        THEN misses[e] + 1 ELSE misses[e]
    BY <1>1 DEF Fetch, fileVars
  <2>2. /\ missing[e] \in Nat /\ missing[e] < ClearAfter /\ missing[e] <= misses[e]
        /\ misses[e] \in Nat
    BY ClearAfterAssumption DEF TypeOK, EvidenceInv
  <2> QED
    BY <2>1, <2>2, ClearAfterAssumption
<1>2. CASE Record
  <2> SUFFICES ASSUME NEW e \in Event
               PROVE  missing'[e] <= misses'[e]
    BY <1>2 DEF EvidenceInv, Record, Goto
  <2>1. /\ missing'[e] = NextMissing(e)
        /\ misses'[e] = IF Active(e) THEN 0 ELSE misses[e]
    BY <1>2 DEF Record
  <2>2. /\ missing[e] \in Nat /\ misses[e] \in Nat
        /\ ~Active(e) => missing[e] < misses[e]
    BY <1>2, ClearAfterAssumption DEF TypeOK, EvidenceInv, Record, At, Active
  <2> QED
    BY <2>1, <2>2 DEF NextMissing, PendingClear
<1>3. ASSUME UNCHANGED <<missing, misses>>, pc' # "record" \/ UNCHANGED <<pc, payload>>
      PROVE  EvidenceInv'
  BY <1>3 DEF EvidenceInv
<1>4. CASE Start \/ BeginRound \/ FetchFails \/ RecordFails \/ AbortDispatch \/ EndRound
           \/ Crash
  BY <1>3, <1>4 DEF Start, BeginRound, FetchFails, RecordFails, AbortDispatch, EndRound,
     Crash, Goto, fileVars
<1>5. CASE (\E c \in pending : PushReceived(c) \/ PushFails(c))
           \/ (\E e \in Event : UpstreamChanges(e)) \/ UNCHANGED vars
  BY <1>3, <1>5 DEF PushReceived, PushFails, UpstreamChanges, vars, fileVars
<1> QED
  BY <1>1, <1>2, <1>4, <1>5 DEF Next, RoundStep

LEMMA EvidenceGives ==
    ASSUME TypeOK, EvidenceInv, Next,
           NEW c \in pending', c \notin pending, c.lifecycle = "CLEARED"
    PROVE  payload[c.event] = ClearText \/ misses[c.event] >= ClearAfter
<1>1. Record
  BY DEF Next, RoundStep, Start, BeginRound, Fetch, FetchFails, RecordFails, PushReceived,
     PushFails, AbortDispatch, EndRound, Crash, UpstreamChanges, Lose
<1>2. c \in Changes
  BY <1>1 DEF Record
<1>3. c.event \in Event /\ IsCleared(c.event)
  BY <1>2 DEF Changes, NewChange, UpdatedChange, ClearedChange
<1>4. /\ missing[c.event] < misses[c.event]
      /\ missing[c.event] \in Nat /\ misses[c.event] \in Nat
  BY <1>1, <1>3, ClearAfterAssumption DEF TypeOK, EvidenceInv, Record, At, IsCleared, Active
<1> QED
  BY <1>3, <1>4, ClearAfterAssumption DEF IsCleared, ConfirmedAbsent

\* No event is cleared on fewer than ClearAfter payloads without it, whatever rounds
\* fail in between (missingCount of compareWithPreviousState).
THEOREM ClearedOnEvidence == Spec => ClearNeedsEvidence
<1>1. Init => EvidenceInv
  BY DEF Init, EvidenceInv
<1>2. TypeOK /\ EvidenceInv /\ [Next]_vars => (TypeOK /\ EvidenceInv)'
  BY MonitorTypeStep, EvidenceStep
<1>3. TypeOK /\ EvidenceInv /\ [Next]_vars =>
        [\A c \in pending' \ pending :
            c.lifecycle = "CLEARED" =>
                payload[c.event] = ClearText \/ misses[c.event] >= ClearAfter]_vars
  BY EvidenceGives DEF vars
<1> QED
  BY <1>1, <1>2, <1>3, MonitorTypeInit, PTL DEF Spec, ClearNeedsEvidence

\* Every variable keeps its type.
THEOREM MonitorTypeCorrect == Spec => []TypeOK
  BY MonitorTypeInit, MonitorTypeStep, PTL DEF Spec

=============================================================================
