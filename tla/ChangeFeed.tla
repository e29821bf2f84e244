------------------------------ MODULE ChangeFeed ------------------------------
(***************************************************************************)
(* What the LocalMonitor promises whoever listens to its NEW, UPDATED and  *)
(* CLEARED changes, without polling, files, absence counts or processes:   *)
(*                                                                         *)
(*   a listener that applies what it is sent believes of every event what  *)
(*   the feed has announced, except for events whose announcement is still *)
(*   to come or was lost, and for the events of the first, quiet baseline. *)
(***************************************************************************)
EXTENDS TLAPS

CONSTANTS
    Event,      \* event ids
    Content,    \* what an event can say (its fingerprint)
    NoContent   \* there is no such event

VARIABLES
    started,    \* whether the baseline has been taken
    announced,  \* announced[e]: what the feed says of e
    outbox,     \* events whose announcement is on its way
    heard,      \* heard[e]: what the listener believes of e
    gap         \* events of which the listener missed the last announcement

vars == <<started, announced, outbox, heard, gap>>

View == [Event -> Content \cup {NoContent}]

Init ==
    /\ started = FALSE
    /\ announced = [e \in Event |-> NoContent]
    /\ heard = [e \in Event |-> NoContent]
    /\ outbox = {} /\ gap = {}

Changed(view) == {e \in Event : view[e] # announced[e]}

\* The first look at the world is taken in silence.
Baseline(view) ==
    /\ ~started
    /\ started' = TRUE
    /\ announced' = view
    /\ gap' = gap \cup Changed(view)
    /\ UNCHANGED <<outbox, heard>>

Announce(view) ==
    /\ started /\ outbox = {}
    /\ announced' = view
    /\ outbox' = Changed(view)
    /\ UNCHANGED <<started, heard, gap>>

Deliver(e) ==
    /\ e \in outbox
    /\ outbox' = outbox \ {e}
    /\ heard' = [heard EXCEPT ![e] = announced[e]]
    /\ gap' = gap \ {e}
    /\ UNCHANGED <<started, announced>>

\* Announcements are never repeated: what is lost stays lost.
Lose(lost) ==
    /\ lost # {} /\ lost \subseteq outbox
    /\ outbox' = outbox \ lost
    /\ gap' = gap \cup lost
    /\ UNCHANGED <<started, announced, heard>>

Next ==
    \/ \E view \in View : Baseline(view) \/ Announce(view)
    \/ \E e \in Event : Deliver(e)
    \/ \E lost \in SUBSET outbox : Lose(lost)

Spec == Init /\ [][Next]_vars

\* The promise.
InStep == \A e \in Event \ (outbox \cup gap) : heard[e] = announced[e]

-----------------------------------------------------------------------------

FeedTypeOK ==
    /\ announced \in View /\ heard \in View
    /\ outbox \subseteq Event /\ gap \subseteq Event

\* The feed keeps its promise: outside its outbox and its gaps the listener is in
\* step with what was announced (state written before dispatch, dispatch in order).
THEOREM FeedInStep == Spec => []InStep
<1>1. Init => FeedTypeOK /\ InStep
  BY DEF Init, FeedTypeOK, InStep, View
<1>2. ASSUME FeedTypeOK, InStep, [Next]_vars
      PROVE  (FeedTypeOK /\ InStep)'
  <2> USE <1>2 DEF FeedTypeOK, InStep, View
  <2>1. ASSUME NEW view \in View, Baseline(view) \/ Announce(view)
        PROVE  (FeedTypeOK /\ InStep)'
    BY <2>1 DEF Baseline, Announce, Changed
  <2>2. ASSUME NEW e \in Event, Deliver(e)
        PROVE  (FeedTypeOK /\ InStep)'
    BY <2>2 DEF Deliver
  <2>3. ASSUME NEW lost \in SUBSET outbox, Lose(lost)
        PROVE  (FeedTypeOK /\ InStep)'
    BY <2>3 DEF Lose
  <2>4. CASE UNCHANGED vars
    BY <2>4 DEF vars
  <2> QED
    BY <1>2, <2>1, <2>2, <2>3, <2>4 DEF Next
<1> QED
  BY <1>1, <1>2, PTL DEF Spec

=============================================================================
