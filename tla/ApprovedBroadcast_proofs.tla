----------------------- MODULE ApprovedBroadcast_proofs -----------------------
(***************************************************************************)
(* Proofs about ApprovedBroadcast, for any messages, keys, targets, faults *)
(* and interleavings: marks are never false, a repeated or withheld        *)
(* content always has a mark in doubt, and as long as nothing blurs the    *)
(* suppression blob, one accident is let through once in its window.       *)
(***************************************************************************)
EXTENDS ApprovedBroadcast, TLAPS, WellFoundedInduction

Active(m, c) == task[m][c] \in {"pushing", "saving"}

Stage == {"queued", "sighting", "recording", "delivering", "done"}
Place == {"idle", "reading", "pushing", "saving", "done"}

Typed ==
    /\ what \in [Message -> Approval]
    /\ delivery \in [Message -> Stage]
    /\ task \in [Message -> [Channel -> Place]]
    /\ copy \in [Message -> [Channel -> Marks]]
    /\ todo \in [Message -> [Channel -> SUBSET Target]]
    /\ sent \in [Message -> [Channel -> SUBSET Target]]
    /\ notified \in [Channel -> Marks]
    /\ lastTold \in Marks

\* A channel works on its own targets; only a delivery under way has targets
\* without a mark, and who is still to be reached had no such mark when read.
Shape ==
    \A m \in Message, c \in Channel :
        /\ sent[m][c] \subseteq TargetsOf(c) /\ todo[m][c] \subseteq TargetsOf(c)
        /\ ~Active(m, c) => sent[m][c] = {}
        /\ delivery[m] # "delivering" => task[m][c] = "idle"
        /\ \A x \in todo[m][c] :
              task[m][c] = "pushing" =>
                  x \notin sent[m][c] /\ copy[m][c][KeyOf(m)][x] # ContentOf(m)

\* Marks, copies of marks and marks to come all stand for pushes.
Truth ==
    /\ MarkedWasTold
    /\ \A m \in Message, c \in Channel, k \in Key, x \in Target :
           copy[m][c][k][x] # NoContent => <<k, x, copy[m][c][k][x]>> \in told
    /\ \A m \in Message, c \in Channel : \A x \in sent[m][c] :
           <<KeyOf(m), x, ContentOf(m)>> \in told

\* What deliveries of event k know of target x is what x was told last.
Knows(m, c, k, x) ==
    KeyOf(m) = k =>
        /\ x \in sent[m][c] => lastTold[k][x] = ContentOf(m)
        /\ x \notin sent[m][c] /\ Active(m, c) => copy[m][c][k][x] = lastTold[k][x]

Unmarked(c, k, x) == \E m \in Message : KeyOf(m) = k /\ x \in sent[m][c]

InStep ==
    \A c \in Channel, k \in Key, x \in Target :
        x \in TargetsOf(c) /\ <<k, x>> \notin doubts =>
            /\ \A m \in Message : Knows(m, c, k, x)
            /\ Unmarked(c, k, x) \/ notified[c][k][x] = lastTold[k][x]

Excused == RepeatsAreInDoubt /\ WithheldOnlyInDoubt

IInv == Typed /\ Shape /\ Truth /\ InStep /\ Excused

-----------------------------------------------------------------------------
\* What a message says is a key and a content.
LEMMA Saying ==
    ASSUME what \in [Message -> Approval], NEW m \in Message
    PROVE  KeyOf(m) \in Key /\ ContentOf(m) \in Content /\ ContentOf(m) # NoContent
  BY ApprovalAssumption DEF KeyOf, ContentOf

\* A target belongs to one channel.
LEMMA OneChannel ==
    ASSUME NEW c \in Channel, NEW d \in Channel, NEW x \in TargetsOf(c), x \in TargetsOf(d)
    PROVE  c = d /\ x \in Target
  BY ApprovalAssumption DEF Channel, TargetsOf, Target

LEMMA NoMarksTyped == NoMarks \in Marks
  BY DEF NoMarks, Marks

\* The invariant holds at the start.
LEMMA Initially == Init => IInv
<1> SUFFICES ASSUME Init PROVE IInv OBVIOUS
<1>1. Typed
  <2>1. what \in [Message -> Approval]
    BY DEF Init
  <2>6. delivery \in [Message -> Stage]
    BY DEF Init, Stage
  <2>7. task \in [Message -> [Channel -> Place]]
    BY DEF Init, Place
  <2>2. copy \in [Message -> [Channel -> Marks]]
    BY NoMarksTyped DEF Init
  <2>3. todo \in [Message -> [Channel -> SUBSET Target]]
    BY DEF Init
  <2>4. sent \in [Message -> [Channel -> SUBSET Target]]
    BY DEF Init
  <2>5. notified \in [Channel -> Marks] /\ lastTold \in Marks
    BY NoMarksTyped DEF Init
  <2> QED BY <2>1, <2>2, <2>3, <2>4, <2>5, <2>6, <2>7 DEF Typed
<1>2. Shape
  BY DEF Init, Shape, Active, TargetsOf
<1>3. Truth
  BY DEF Init, Truth, MarkedWasTold, NoMarks
<1>4. InStep
  BY DEF Init, InStep, Knows, Unmarked, Active, NoMarks
<1>5. Excused
  BY DEF Init, Excused, RepeatsAreInDoubt, WithheldOnlyInDoubt
<1> QED BY <1>1, <1>2, <1>3, <1>4, <1>5 DEF IInv

-----------------------------------------------------------------------------
(* Steps that push nothing and mark nothing. *)

\* A channel's work goes on or ends, with nothing left unmarked.
Winds(m, c) ==
    /\ todo'[m][c] \subseteq todo[m][c]
    /\ copy'[m][c] = copy[m][c] \/ (~Active(m, c)' /\ copy'[m][c] = NoMarks)
    /\ Active(m, c)' => Active(m, c)
    /\ task'[m][c] = "pushing" => task[m][c] = "pushing"
    /\ ~Active(m, c)' => sent[m][c] = {}
    /\ delivery'[m] # "delivering" => task'[m][c] = "idle"

\* Steps that leave what was pushed and marked alone, do not start a channel's
\* work and end it only where nothing is left unmarked keep the invariant.
LEMMA QuietStep ==
    ASSUME IInv,
           UNCHANGED <<what, sent, notified, told, lastTold, repeats>>,
           doubts \subseteq doubts', withheld' \subseteq doubts',
           delivery' \in [Message -> Stage],
           task' \in [Message -> [Channel -> Place]],
           copy' \in [Message -> [Channel -> Marks]],
           todo' \in [Message -> [Channel -> SUBSET Target]],
           \A m \in Message, c \in Channel : Winds(m, c)
    PROVE  IInv'
<1>1. Typed'
  BY DEF IInv, Typed
<1>2. Shape'
  <2> SUFFICES ASSUME NEW m \in Message, NEW c \in Channel
               PROVE  /\ sent'[m][c] \subseteq TargetsOf(c) /\ todo'[m][c] \subseteq TargetsOf(c)
                      /\ ~Active(m, c)' => sent'[m][c] = {}
                      /\ delivery'[m] # "delivering" => task'[m][c] = "idle"
                      /\ \A x \in todo'[m][c] :
                            task'[m][c] = "pushing" =>
                                x \notin sent'[m][c]
                                /\ copy'[m][c][KeyOf(m)'][x] # ContentOf(m)'
    BY DEF Shape
  <2>1. /\ sent[m][c] \subseteq TargetsOf(c) /\ todo[m][c] \subseteq TargetsOf(c)
        /\ \A x \in todo[m][c] :
              task[m][c] = "pushing" =>
                  x \notin sent[m][c] /\ copy[m][c][KeyOf(m)][x] # ContentOf(m)
    BY DEF IInv, Shape
  <2>2. KeyOf(m)' = KeyOf(m) /\ ContentOf(m)' = ContentOf(m)
    BY DEF KeyOf, ContentOf
  <2>3. task'[m][c] = "pushing" => copy'[m][c] = copy[m][c]
    BY DEF Active, Winds
  <2>4. Winds(m, c)
    OBVIOUS
  <2> QED BY <2>1, <2>2, <2>3, <2>4 DEF Winds
<1>3. Truth'
  <2>1. MarkedWasTold'
    BY DEF IInv, Truth, MarkedWasTold
  <2>2. ASSUME NEW m \in Message, NEW c \in Channel, NEW k \in Key, NEW x \in Target,
               copy'[m][c][k][x] # NoContent
        PROVE  <<k, x, copy'[m][c][k][x]>> \in told'
    <3>1. copy'[m][c] # NoMarks
      BY <2>2 DEF NoMarks
    <3>2. copy'[m][c] = copy[m][c]
      BY <3>1 DEF Winds
    <3> QED BY <2>2, <3>2 DEF IInv, Truth
  <2>3. ASSUME NEW m \in Message, NEW c \in Channel, NEW x \in sent'[m][c]
        PROVE  <<KeyOf(m)', x, ContentOf(m)'>> \in told'
    BY DEF IInv, Truth, KeyOf, ContentOf
  <2> QED BY <2>1, <2>2, <2>3 DEF Truth
<1>4. InStep'
  <2> SUFFICES ASSUME NEW c \in Channel, NEW k \in Key, NEW x \in Target,
                      x \in TargetsOf(c), <<k, x>> \notin doubts'
               PROVE  /\ \A m \in Message : Knows(m, c, k, x)'
                      /\ Unmarked(c, k, x)' \/ notified[c][k][x] = lastTold[k][x]
    BY DEF InStep
  <2>1. Unmarked(c, k, x) \/ notified[c][k][x] = lastTold[k][x]
    BY DEF IInv, InStep
  <2>2. ASSUME NEW m \in Message PROVE Knows(m, c, k, x)'
    <3>1. Knows(m, c, k, x)
      BY DEF IInv, InStep
    <3>2. Active(m, c)' => Active(m, c) /\ copy'[m][c] = copy[m][c]
      BY DEF Winds
    <3> QED BY <3>1, <3>2 DEF Knows, KeyOf, ContentOf
  <2> QED BY <2>1, <2>2 DEF Unmarked, KeyOf
<1>5. Excused'
  BY DEF IInv, Excused, RepeatsAreInDoubt, WithheldOnlyInDoubt
<1> QED BY <1>1, <1>2, <1>3, <1>4, <1>5 DEF IInv

\* The consumer up to the channels pushes and marks nothing.
LEMMA Approach ==
    ASSUME IInv, NEW m \in Message,
           \/ Start(m) \/ GateCloses(m) \/ ReadSuppression(m)
           \/ SuppressionUnreadable(m) \/ RecordSighting(m)
    PROVE  IInv'
<1>1. /\ UNCHANGED <<what, copy, todo, sent, notified, told, lastTold, doubts, repeats,
                     withheld>>
      /\ delivery[m] # "delivering"
      /\ \E s \in Stage : delivery' = [delivery EXCEPT ![m] = s]
      /\ \/ task' = task
         \/ /\ task' = [task EXCEPT ![m] = [c \in Channel |-> "reading"]]
            /\ delivery' = [delivery EXCEPT ![m] = "delivering"]
  <2>1. CASE Start(m)
    BY <2>1 DEF Start, Deliverable, GoTo, Open, Stage, marks
  <2>2. CASE GateCloses(m)
    BY <2>2 DEF GateCloses, Deliverable, GoTo, Stage, marks, tasks
  <2>3. CASE ReadSuppression(m)
    BY <2>3 DEF ReadSuppression, GoTo, Stage, marks, tasks
  <2>4. CASE SuppressionUnreadable(m)
    BY <2>4 DEF SuppressionUnreadable, GoTo, Open, Stage, marks
  <2>5. CASE RecordSighting(m)
    BY <2>5 DEF RecordSighting, GoTo, Open, Stage, marks
  <2> QED BY <2>1, <2>2, <2>3, <2>4, <2>5
<1>2. \A c \in Channel : sent[m][c] = {}
  BY <1>1 DEF IInv, Shape, Active
<1>3. delivery' \in [Message -> Stage]
  <2> PICK s \in Stage : delivery' = [delivery EXCEPT ![m] = s]
    BY <1>1
  <2> QED BY DEF IInv, Typed
<1>4. task' \in [Message -> [Channel -> Place]]
  <2>1. task \in [Message -> [Channel -> Place]] /\ "reading" \in Place
    BY DEF IInv, Typed, Place
  <2> QED BY <1>1, <2>1
<1>5. ASSUME NEW n \in Message, NEW c \in Channel
      PROVE  Winds(n, c)
  <2>1. CASE n = m
    <3>1. \/ task'[n][c] = task[n][c] /\ task[n][c] = "idle"
          \/ task'[n][c] = "reading" /\ delivery'[n] = "delivering"
      BY <1>1, <2>1 DEF IInv, Typed, Shape
    <3> QED BY <1>1, <1>2, <2>1, <3>1 DEF Active, Winds
  <2>2. CASE n # m
    <3>1. task'[n][c] = task[n][c] /\ delivery'[n] = delivery[n]
      BY <1>1, <2>2 DEF IInv, Typed
    <3>2. /\ ~Active(n, c) => sent[n][c] = {}
          /\ delivery[n] # "delivering" => task[n][c] = "idle"
      BY DEF IInv, Shape
    <3> QED BY <1>1, <3>1, <3>2 DEF Active, Winds
  <2> QED BY <2>1, <2>2
<1>6. /\ doubts \subseteq doubts' /\ withheld' \subseteq doubts'
      /\ copy' \in [Message -> [Channel -> Marks]]
      /\ todo' \in [Message -> [Channel -> SUBSET Target]]
  BY <1>1 DEF IInv, Typed, Excused, WithheldOnlyInDoubt
<1> QED
  BY <1>1, <1>3, <1>4, <1>5, <1>6, QuietStep

\* A channel that is not ready ends its work.
LEMMA NotReadyStep ==
    ASSUME IInv, NEW m \in Message, NEW c \in Channel, NotReady(m, c)
    PROVE  IInv'
<1>1. /\ UNCHANGED <<what, delivery, copy, todo, sent, notified, told, lastTold, doubts,
                     repeats, withheld>>
      /\ task[m][c] = "reading"
      /\ task' = [task EXCEPT ![m][c] = "done"]
  BY DEF NotReady, At, consumers, marks
<1>2. sent[m][c] = {}
  BY <1>1 DEF IInv, Shape, Active
<1>3. task' \in [Message -> [Channel -> Place]]
  BY <1>1 DEF IInv, Typed, Place
<1>4. ASSUME NEW n \in Message, NEW d \in Channel
      PROVE  Winds(n, d)
  <2>1. task'[n][d] = task[n][d] \/ (n = m /\ d = c /\ task'[n][d] = "done")
    BY <1>1 DEF IInv, Typed
  <2>2. /\ ~Active(n, d) => sent[n][d] = {}
        /\ delivery[n] # "delivering" => task[n][d] = "idle"
    BY DEF IInv, Shape
  <2> QED BY <1>1, <1>2, <2>1, <2>2 DEF Active, Winds
<1>5. /\ doubts \subseteq doubts' /\ withheld' \subseteq doubts'
      /\ copy' \in [Message -> [Channel -> Marks]]
      /\ todo' \in [Message -> [Channel -> SUBSET Target]]
      /\ delivery' \in [Message -> Stage]
  BY <1>1 DEF IInv, Typed, Excused, WithheldOnlyInDoubt
<1> QED
  BY <1>1, <1>3, <1>4, <1>5, QuietStep

\* When both channels have settled, nothing is left unmarked.
LEMMA FinishStep ==
    ASSUME IInv, NEW m \in Message, Finish(m)
    PROVE  IInv'
<1>1. /\ UNCHANGED <<what, notified, told, lastTold, doubts, repeats, withheld>>
      /\ \A c \in Channel : task[m][c] = "done"
      /\ delivery' = [delivery EXCEPT ![m] = "done"]
      /\ task' = [task EXCEPT ![m] = [c \in Channel |-> "idle"]]
      /\ copy' = [copy EXCEPT ![m] = [c \in Channel |-> NoMarks]]
      /\ todo' = [todo EXCEPT ![m] = [c \in Channel |-> {}]]
      /\ sent' = [sent EXCEPT ![m] = [c \in Channel |-> {}]]
  BY DEF Finish, GoTo, ClearTasks, marks
<1>2. \A c \in Channel : sent[m][c] = {}
  BY <1>1 DEF IInv, Shape, Active
<1>3. sent' = sent
  BY <1>1, <1>2 DEF IInv, Typed
<1>4. delivery' \in [Message -> Stage] /\ task' \in [Message -> [Channel -> Place]]
  BY <1>1 DEF IInv, Typed, Place, Stage
<1>5. copy' \in [Message -> [Channel -> Marks]]
  BY <1>1, NoMarksTyped DEF IInv, Typed
<1>6. todo' \in [Message -> [Channel -> SUBSET Target]]
  BY <1>1 DEF IInv, Typed
<1>7. ASSUME NEW n \in Message, NEW c \in Channel
      PROVE  Winds(n, c)
  <2>1. CASE n = m
    <3>1. /\ task'[n][c] = "idle" /\ copy'[n][c] = NoMarks /\ todo'[n][c] = {}
          /\ sent[n][c] = {}
      BY <1>1, <1>2, <2>1 DEF IInv, Typed
    <3> QED BY <3>1 DEF Active, Winds
  <2>2. CASE n # m
    <3>1. /\ task'[n][c] = task[n][c] /\ delivery'[n] = delivery[n]
          /\ copy'[n][c] = copy[n][c] /\ todo'[n][c] = todo[n][c]
      BY <1>1, <2>2 DEF IInv, Typed
    <3>2. /\ ~Active(n, c) => sent[n][c] = {}
          /\ delivery[n] # "delivering" => task[n][c] = "idle"
      BY DEF IInv, Shape
    <3> QED BY <3>1, <3>2 DEF Active, Winds
  <2> QED BY <2>1, <2>2
<1>8. doubts \subseteq doubts' /\ withheld' \subseteq doubts'
  BY <1>1 DEF IInv, Excused, WithheldOnlyInDoubt
<1> QED
  BY <1>1, <1>3, <1>4, <1>5, <1>6, <1>7, <1>8, QuietStep

-----------------------------------------------------------------------------
(* Reading the marks. *)

\* A mark that is read outside of doubt is what the target was told last.
LEMMA MarkIsRight ==
    ASSUME IInv, NEW m \in Message, NEW c \in Channel, task[m][c] = "reading",
           NEW x \in TargetsOf(c), <<KeyOf(m), x>> \notin doubts,
           \A n \in Rivals(m, c) : x \notin sent[n][c]
    PROVE  notified[c][KeyOf(m)][x] = lastTold[KeyOf(m)][x]
<1>1. KeyOf(m) \in Key /\ x \in Target
  BY Saying, OneChannel DEF IInv, Typed
<1>2. ASSUME NEW n \in Message, KeyOf(n) = KeyOf(m), x \in sent[n][c]
      PROVE  FALSE
  <2>1. Active(n, c)
    BY <1>2 DEF IInv, Shape
  <2>2. n # m
    BY <2>1 DEF Active
  <2> QED BY <1>2, <2>1, <2>2 DEF Rivals, Active
<1> QED
  BY <1>1, <1>2 DEF IInv, InStep, Unmarked

LEMMA ReadMarksStep ==
    ASSUME IInv, NEW m \in Message, NEW c \in Channel, NEW on \in SwitchedOn(c),
           ReadMarks(m, c, on)
    PROVE  IInv'
<1> DEFINE k == KeyOf(m)
           due == Pending(m, c, on)
           racing == {<<k, x>> : x \in UNION {sent[n][c] : n \in Rivals(m, c)}}
<1>1. /\ UNCHANGED <<what, delivery, sent, notified, told, lastTold, repeats>>
      /\ task[m][c] = "reading"
      /\ doubts' = doubts \cup racing
      /\ withheld' = withheld \cup
           {<<k, x>> : x \in {x \in on \ due : lastTold[k][x] # ContentOf(m)}}
  BY DEF ReadMarks, At, consumers
<1>2. on \subseteq TargetsOf(c) /\ due \subseteq on
  BY ApprovalAssumption DEF SwitchedOn, TargetsOf, Pending
<1>3. k \in Key /\ sent[m][c] = {} /\ on \subseteq Target
  BY <1>1, <1>2, Saying DEF IInv, Typed, Shape, Active, TargetsOf, Target
<1>4. ASSUME NEW x \in TargetsOf(c), <<k, x>> \notin doubts'
      PROVE  notified[c][k][x] = lastTold[k][x]
  <2>1. \A n \in Rivals(m, c) : x \notin sent[n][c]
    BY <1>1, <1>4
  <2> QED BY <1>1, <1>4, <2>1, MarkIsRight
<1>5. withheld' \subseteq doubts'
  <2>1. ASSUME NEW x \in on \ due, lastTold[k][x] # ContentOf(m), <<k, x>> \notin doubts'
        PROVE  FALSE
    <3>1. notified[c][k][x] = ContentOf(m)
      BY <2>1 DEF Pending
    <3> QED BY <1>2, <1>4, <2>1, <3>1
  <2> QED BY <1>1, <2>1 DEF IInv, Excused, WithheldOnlyInDoubt
<1>6. CASE task' = [task EXCEPT ![m][c] = "done"] /\ UNCHANGED <<copy, todo>>
  <2>1. task' \in [Message -> [Channel -> Place]]
    BY <1>6 DEF IInv, Typed, Place
  <2>2. ASSUME NEW n \in Message, NEW d \in Channel
        PROVE  Winds(n, d)
    <3>1. task'[n][d] = task[n][d] \/ (n = m /\ d = c /\ task'[n][d] = "done")
      BY <1>6 DEF IInv, Typed
    <3>2. /\ ~Active(n, d) => sent[n][d] = {}
          /\ delivery[n] # "delivering" => task[n][d] = "idle"
      BY DEF IInv, Shape
    <3> QED BY <1>1, <1>3, <1>6, <3>1, <3>2 DEF Active, Winds
  <2>3. /\ copy' \in [Message -> [Channel -> Marks]]
        /\ todo' \in [Message -> [Channel -> SUBSET Target]]
        /\ delivery' \in [Message -> Stage]
    BY <1>1, <1>6 DEF IInv, Typed
  <2> QED BY <1>1, <1>5, <2>1, <2>2, <2>3, QuietStep
<1>7. CASE /\ task' = [task EXCEPT ![m][c] = "pushing"]
           /\ copy' = [copy EXCEPT ![m][c] = notified[c]]
           /\ todo' = [todo EXCEPT ![m][c] = due]
  <2>1. Typed'
    <3>1. task' \in [Message -> [Channel -> Place]]
      BY <1>7 DEF IInv, Typed, Place
    <3>2. copy' \in [Message -> [Channel -> Marks]]
      BY <1>7 DEF IInv, Typed
    <3>3. todo' \in [Message -> [Channel -> SUBSET Target]]
      BY <1>2, <1>3, <1>7 DEF IInv, Typed
    <3> QED BY <1>1, <3>1, <3>2, <3>3 DEF IInv, Typed
  <2>2. /\ task'[m][c] = "pushing" /\ copy'[m][c] = notified[c] /\ todo'[m][c] = due
        /\ \A n \in Message, d \in Channel :
              ~(n = m /\ d = c) => /\ task'[n][d] = task[n][d]
                                   /\ copy'[n][d] = copy[n][d] /\ todo'[n][d] = todo[n][d]
    BY <1>7 DEF IInv, Typed
  <2>3. \A n \in Message : KeyOf(n)' = KeyOf(n) /\ ContentOf(n)' = ContentOf(n)
    BY <1>1 DEF KeyOf, ContentOf
  <2>4. Shape'
    <3> SUFFICES ASSUME NEW n \in Message, NEW d \in Channel
                 PROVE  /\ sent'[n][d] \subseteq TargetsOf(d)
                        /\ todo'[n][d] \subseteq TargetsOf(d)
                        /\ ~Active(n, d)' => sent'[n][d] = {}
                        /\ delivery'[n] # "delivering" => task'[n][d] = "idle"
                        /\ \A x \in todo'[n][d] :
                              task'[n][d] = "pushing" =>
                                  x \notin sent'[n][d]
                                  /\ copy'[n][d][KeyOf(n)'][x] # ContentOf(n)'
      BY DEF Shape
    <3>1. CASE n = m /\ d = c
      <4>1. \A x \in due : notified[c][k][x] # ContentOf(m)
        BY DEF Pending
      <4>2. delivery[m] = "delivering"
        BY <1>1 DEF IInv, Shape
      <4> QED BY <1>1, <1>2, <1>3, <2>2, <2>3, <3>1, <4>1, <4>2 DEF Active
    <3>2. CASE ~(n = m /\ d = c)
      BY <1>1, <2>2, <2>3, <3>2 DEF IInv, Shape, Active
    <3> QED BY <3>1, <3>2
  <2>5. Truth'
    <3>1. MarkedWasTold'
      BY <1>1 DEF IInv, Truth, MarkedWasTold
    <3>2. ASSUME NEW n \in Message, NEW d \in Channel, NEW l \in Key, NEW x \in Target,
                 copy'[n][d][l][x] # NoContent
          PROVE  <<l, x, copy'[n][d][l][x]>> \in told'
      <4>1. CASE n = m /\ d = c
        BY <1>1, <2>2, <3>2, <4>1 DEF IInv, Truth, MarkedWasTold
      <4>2. CASE ~(n = m /\ d = c)
        BY <1>1, <2>2, <3>2, <4>2 DEF IInv, Truth
      <4> QED BY <4>1, <4>2
    <3>3. ASSUME NEW n \in Message, NEW d \in Channel, NEW x \in sent'[n][d]
          PROVE  <<KeyOf(n)', x, ContentOf(n)'>> \in told'
      BY <1>1, <2>3 DEF IInv, Truth
    <3> QED BY <3>1, <3>2, <3>3 DEF Truth
  <2>6. InStep'
    <3> SUFFICES ASSUME NEW d \in Channel, NEW l \in Key, NEW x \in Target,
                        x \in TargetsOf(d), <<l, x>> \notin doubts'
                 PROVE  /\ \A n \in Message : Knows(n, d, l, x)'
                        /\ Unmarked(d, l, x)' \/ notified'[d][l][x] = lastTold'[l][x]
      BY DEF InStep
    <3>1. /\ \A n \in Message : Knows(n, d, l, x)
          /\ Unmarked(d, l, x) \/ notified[d][l][x] = lastTold[l][x]
      BY <1>1 DEF IInv, InStep
    <3>2. ASSUME NEW n \in Message PROVE Knows(n, d, l, x)'
      <4>1. CASE n = m /\ d = c
        BY <1>1, <1>3, <1>4, <2>2, <2>3, <4>1 DEF Knows
      <4>2. CASE ~(n = m /\ d = c)
        BY <1>1, <2>2, <2>3, <3>1, <4>2 DEF Knows, Active
      <4> QED BY <4>1, <4>2
    <3> QED BY <1>1, <2>3, <3>1, <3>2 DEF Unmarked
  <2>7. Excused'
    BY <1>1, <1>5 DEF IInv, Excused, RepeatsAreInDoubt, WithheldOnlyInDoubt
  <2> QED BY <2>1, <2>4, <2>5, <2>6, <2>7 DEF IInv
<1> QED
  BY <1>6, <1>7 DEF ReadMarks

-----------------------------------------------------------------------------
(* Pushing. *)

\* Who pushes next finds types in order, and its own channel moved on.
LEMMA AfterPushShape ==
    ASSUME IInv, NEW m \in Message, NEW c \in Channel,
           NEW left \in SUBSET todo[m][c], NEW reached \in SUBSET Target,
           task[m][c] = "pushing", AfterPush(m, c, left, reached)
    PROVE  /\ task' \in [Message -> [Channel -> Place]]
           /\ copy' \in [Message -> [Channel -> Marks]]
           /\ todo' \in [Message -> [Channel -> SUBSET Target]]
           /\ todo'[m][c] = left
           /\ \/ task'[m][c] = "pushing" /\ copy'[m][c] = copy[m][c]
              \/ task'[m][c] = "saving" /\ copy'[m][c] = copy[m][c]
              \/ task'[m][c] = "done" /\ reached = {} /\ copy'[m][c] \in {copy[m][c], NoMarks}
           /\ \A n \in Message, d \in Channel :
                 ~(n = m /\ d = c) => /\ task'[n][d] = task[n][d]
                                      /\ copy'[n][d] = copy[n][d]
                                      /\ todo'[n][d] = todo[n][d]
<1> DEFINE next == IF left # {} THEN "pushing" ELSE IF reached # {} THEN "saving" ELSE "done"
<1>1. /\ todo' = [todo EXCEPT ![m][c] = left]
      /\ task' = [task EXCEPT ![m][c] = next]
      /\ copy' = IF left = {} /\ reached = {}
                   THEN [copy EXCEPT ![m][c] = NoMarks] ELSE copy
  BY DEF AfterPush
<1>2. next \in Place
  BY DEF Place
<1>3. left \subseteq Target
  BY DEF IInv, Typed
<1>4. task' \in [Message -> [Channel -> Place]] /\ task'[m][c] = next
  BY <1>1, <1>2 DEF IInv, Typed
<1>5. copy' \in [Message -> [Channel -> Marks]]
  BY <1>1, NoMarksTyped DEF IInv, Typed
<1>6. todo' \in [Message -> [Channel -> SUBSET Target]] /\ todo'[m][c] = left
  BY <1>1, <1>3 DEF IInv, Typed
<1>7. /\ (left = {} /\ reached = {}) => copy'[m][c] = NoMarks
      /\ ~(left = {} /\ reached = {}) => copy'[m][c] = copy[m][c]
  BY <1>1 DEF IInv, Typed
<1>8. \A n \in Message, d \in Channel :
         ~(n = m /\ d = c) => /\ task'[n][d] = task[n][d]
                              /\ copy'[n][d] = copy[n][d]
                              /\ todo'[n][d] = todo[n][d]
  BY <1>1 DEF IInv, Typed
<1> QED BY <1>4, <1>5, <1>6, <1>7, <1>8

\* A failed push reaches nobody.
LEMMA PushFailsStep ==
    ASSUME IInv, NEW m \in Message, NEW c \in Channel, NEW x \in TargetsOf(c),
           PushFails(m, c, x)
    PROVE  IInv'
<1>1. /\ UNCHANGED <<what, delivery, sent, notified, told, lastTold, doubts, repeats,
                     withheld>>
      /\ task[m][c] = "pushing"
      /\ AfterPush(m, c, todo[m][c] \ {x}, sent[m][c])
  BY DEF PushFails, At, consumers, marks
<1>2. sent[m][c] \in SUBSET Target /\ todo[m][c] \ {x} \in SUBSET todo[m][c]
  BY DEF IInv, Typed
<1>5. /\ todo'[m][c] = todo[m][c] \ {x}
      /\ \/ task'[m][c] = "pushing" /\ copy'[m][c] = copy[m][c]
         \/ task'[m][c] = "saving" /\ copy'[m][c] = copy[m][c]
         \/ task'[m][c] = "done" /\ sent[m][c] = {} /\ copy'[m][c] \in {copy[m][c], NoMarks}
      /\ \A n \in Message, d \in Channel :
            ~(n = m /\ d = c) => /\ task'[n][d] = task[n][d]
                                 /\ copy'[n][d] = copy[n][d]
                                 /\ todo'[n][d] = todo[n][d]
  BY <1>1, <1>2, AfterPushShape
<1>3. ASSUME NEW n \in Message, NEW d \in Channel
      PROVE  Winds(n, d)
  <2>1. /\ ~Active(n, d) => sent[n][d] = {}
        /\ delivery[n] # "delivering" => task[n][d] = "idle"
    BY DEF IInv, Shape
  <2>2. CASE n = m /\ d = c
    BY <1>1, <1>5, <2>1, <2>2 DEF Winds, Active
  <2>3. CASE ~(n = m /\ d = c)
    BY <1>1, <1>5, <2>1, <2>3 DEF Winds, Active
  <2> QED BY <2>2, <2>3
<1>4. /\ doubts \subseteq doubts' /\ withheld' \subseteq doubts'
      /\ delivery' \in [Message -> Stage]
  BY <1>1 DEF IInv, Typed, Excused, WithheldOnlyInDoubt
<1> QED
  BY <1>1, <1>2, <1>3, <1>4, AfterPushShape, QuietStep

\* A push that arrives, with or without an answer.
LEMMA ArrivalStep ==
    ASSUME IInv, NEW m \in Message, NEW c \in Channel, NEW x \in todo[m][c],
           task[m][c] = "pushing",
           Received(m, x),
           NEW reached \in {sent[m][c], sent[m][c] \cup {x}},
           AfterPush(m, c, todo[m][c] \ {x}, reached),
           sent' = [sent EXCEPT ![m][c] = reached],
           doubts \subseteq doubts',
           \/ <<KeyOf(m), x>> \in doubts'
           \/ x \in reached /\ Rivals(m, c) = {},
           UNCHANGED <<what, delivery, notified, withheld>>
    PROVE  IInv'
<1> DEFINE k == KeyOf(m)
<1>1. /\ x \in TargetsOf(c) /\ x \in Target /\ k \in Key /\ ContentOf(m) \in Content
      /\ ContentOf(m) # NoContent
      /\ x \notin sent[m][c] /\ copy[m][c][k][x] # ContentOf(m)
      /\ delivery[m] = "delivering"
  BY Saying DEF IInv, Typed, Shape
<1>2. /\ told' = told \cup {<<k, x, ContentOf(m)>>}
      /\ lastTold' = [lastTold EXCEPT ![k][x] = ContentOf(m)]
      /\ repeats' = IF lastTold[k][x] = ContentOf(m)
                      THEN repeats \cup {<<k, x>>} ELSE repeats
  BY DEF Received
<1>3. /\ reached \in SUBSET Target /\ reached \subseteq TargetsOf(c)
      /\ todo[m][c] \ {x} \in SUBSET todo[m][c]
  BY <1>1 DEF IInv, Typed, Shape
<1>4. \A n \in Message : KeyOf(n)' = KeyOf(n) /\ ContentOf(n)' = ContentOf(n)
  BY DEF KeyOf, ContentOf
<1>5. /\ sent' \in [Message -> [Channel -> SUBSET Target]]
      /\ sent'[m][c] = reached
      /\ \A n \in Message, d \in Channel :
            ~(n = m /\ d = c) => sent'[n][d] = sent[n][d]
  BY <1>3 DEF IInv, Typed
<1>6. /\ lastTold' \in Marks /\ lastTold'[k][x] = ContentOf(m)
      /\ \A l \in Key, y \in Target :
            ~(l = k /\ y = x) => lastTold'[l][y] = lastTold[l][y]
  BY <1>1, <1>2 DEF IInv, Typed, Marks
<1>13. /\ todo'[m][c] = todo[m][c] \ {x}
       /\ \/ task'[m][c] = "pushing" /\ copy'[m][c] = copy[m][c]
          \/ task'[m][c] = "saving" /\ copy'[m][c] = copy[m][c]
          \/ task'[m][c] = "done" /\ reached = {} /\ copy'[m][c] \in {copy[m][c], NoMarks}
       /\ \A n \in Message, d \in Channel :
             ~(n = m /\ d = c) => /\ task'[n][d] = task[n][d]
                                  /\ copy'[n][d] = copy[n][d]
                                  /\ todo'[n][d] = todo[n][d]
  <2> DEFINE left == todo[m][c] \ {x}
  <2>1. left \in SUBSET todo[m][c] /\ reached \in SUBSET Target
    BY <1>3
  <2>2. AfterPush(m, c, left, reached)
    OBVIOUS
  <2> HIDE DEF left
  <2>3. /\ todo'[m][c] = left
        /\ \/ task'[m][c] = "pushing" /\ copy'[m][c] = copy[m][c]
           \/ task'[m][c] = "saving" /\ copy'[m][c] = copy[m][c]
           \/ task'[m][c] = "done" /\ reached = {} /\ copy'[m][c] \in {copy[m][c], NoMarks}
    BY <2>1, <2>2, AfterPushShape
  <2>4. \A n \in Message, d \in Channel :
            ~(n = m /\ d = c) => /\ task'[n][d] = task[n][d]
                                 /\ copy'[n][d] = copy[n][d]
                                 /\ todo'[n][d] = todo[n][d]
    BY <2>1, <2>2, AfterPushShape
  <2> QED BY <2>3, <2>4 DEF left
<1>7. Typed'
  BY <1>3, <1>5, <1>6, AfterPushShape DEF IInv, Typed
<1>8. Shape'
  <2> SUFFICES ASSUME NEW n \in Message, NEW d \in Channel
               PROVE  /\ sent'[n][d] \subseteq TargetsOf(d)
                      /\ todo'[n][d] \subseteq TargetsOf(d)
                      /\ ~Active(n, d)' => sent'[n][d] = {}
                      /\ delivery'[n] # "delivering" => task'[n][d] = "idle"
                      /\ \A y \in todo'[n][d] :
                            task'[n][d] = "pushing" =>
                                y \notin sent'[n][d]
                                /\ copy'[n][d][KeyOf(n)'][y] # ContentOf(n)'
    BY DEF Shape
  <2>1. /\ sent[n][d] \subseteq TargetsOf(d) /\ todo[n][d] \subseteq TargetsOf(d)
        /\ ~Active(n, d) => sent[n][d] = {}
        /\ delivery[n] # "delivering" => task[n][d] = "idle"
        /\ \A y \in todo[n][d] :
              task[n][d] = "pushing" =>
                  y \notin sent[n][d] /\ copy[n][d][KeyOf(n)][y] # ContentOf(n)
    BY DEF IInv, Shape
  <2>2. CASE n = m /\ d = c
    BY <1>1, <1>3, <1>4, <1>5, <1>13, <2>1, <2>2 DEF Active
  <2>3. CASE ~(n = m /\ d = c)
    BY <1>4, <1>5, <1>13, <2>1, <2>3 DEF Active
  <2> QED BY <2>2, <2>3
<1>9. Truth'
  <2>1. MarkedWasTold'
    BY <1>2 DEF IInv, Truth, MarkedWasTold
  <2>2. ASSUME NEW n \in Message, NEW d \in Channel, NEW l \in Key, NEW y \in Target,
               copy'[n][d][l][y] # NoContent
        PROVE  <<l, y, copy'[n][d][l][y]>> \in told'
    <3>1. copy'[n][d] # NoMarks
      BY <2>2 DEF NoMarks
    <3>2. copy'[n][d] = copy[n][d]
      BY <1>13, <3>1
    <3> QED BY <1>2, <2>2, <3>2 DEF IInv, Truth
  <2>3. ASSUME NEW n \in Message, NEW d \in Channel, NEW y \in sent'[n][d]
        PROVE  <<KeyOf(n)', y, ContentOf(n)'>> \in told'
    <3>1. y \in sent[n][d] \/ (n = m /\ d = c /\ y = x)
      BY <1>5
    <3> QED BY <1>2, <1>4, <3>1 DEF IInv, Truth
  <2> QED BY <2>1, <2>2, <2>3 DEF Truth
<1>10. ASSUME <<k, x>> \notin doubts'
       PROVE  /\ x \in reached /\ Rivals(m, c) = {}
              /\ copy[m][c][k][x] = lastTold[k][x]
  <2>1. Knows(m, c, k, x)
    BY <1>1, <1>10 DEF IInv, InStep
  <2> QED BY <1>1, <1>10, <2>1 DEF Knows, Active
<1>11. InStep'
  <2> SUFFICES ASSUME NEW d \in Channel, NEW l \in Key, NEW y \in Target,
                      y \in TargetsOf(d), <<l, y>> \notin doubts'
               PROVE  /\ \A n \in Message : Knows(n, d, l, y)'
                      /\ Unmarked(d, l, y)' \/ notified'[d][l][y] = lastTold'[l][y]
    BY DEF InStep
  <2>1. /\ \A n \in Message : Knows(n, d, l, y)
        /\ Unmarked(d, l, y) \/ notified[d][l][y] = lastTold[l][y]
    BY DEF IInv, InStep
  <2>2. CASE l = k /\ y = x
    <3>1. d = c
      BY <1>1, <2>2, OneChannel
    <3>2. x \in reached /\ Rivals(m, c) = {}
      BY <1>10, <2>2
    <3>3. ASSUME NEW n \in Message PROVE Knows(n, d, l, y)'
      <4>1. CASE n = m
        BY <1>4, <1>5, <1>6, <2>2, <3>1, <3>2, <4>1 DEF Knows
      <4>2. CASE n # m /\ KeyOf(n) = k
        <5>1. ~Active(n, c)
          BY <3>2, <4>2 DEF Rivals, Active
        <5>2. sent[n][c] = {} /\ ~Active(n, c)'
          BY <1>13, <4>2, <5>1 DEF IInv, Shape, Active
        <5> QED BY <1>5, <3>1, <4>2, <5>2 DEF Knows
      <4>3. CASE n # m /\ KeyOf(n) # k
        BY <1>4, <2>2, <4>3 DEF Knows
      <4> QED BY <4>1, <4>2, <4>3
    <3>4. Unmarked(d, l, y)'
      BY <1>4, <1>5, <2>2, <3>1, <3>2 DEF Unmarked
    <3> QED BY <3>3, <3>4
  <2>3. CASE ~(l = k /\ y = x)
    <3>1. lastTold'[l][y] = lastTold[l][y]
      BY <1>6, <2>3
    <3>2. ASSUME NEW n \in Message, KeyOf(n) = l
          PROVE  y \in sent'[n][d] <=> y \in sent[n][d]
      BY <1>5, <2>3, <3>2
    <3>3. ASSUME NEW n \in Message PROVE Knows(n, d, l, y)'
      <4>1. Active(n, d)' => Active(n, d) /\ copy'[n][d] = copy[n][d]
        BY <1>13 DEF Active
      <4> QED BY <1>4, <2>1, <3>1, <3>2, <4>1 DEF Knows
    <3>4. Unmarked(d, l, y) => Unmarked(d, l, y)'
      BY <1>4, <3>2 DEF Unmarked
    <3> QED BY <2>1, <3>1, <3>3, <3>4
  <2> QED BY <2>2, <2>3
<1>12. Excused'
  <2>1. repeats' \subseteq doubts'
    <3>1. <<k, x>> \in doubts' \/ repeats' = repeats
      BY <1>1, <1>2, <1>10
    <3> QED BY <1>2, <3>1 DEF IInv, Excused, RepeatsAreInDoubt
  <2> QED BY <2>1 DEF IInv, Excused, RepeatsAreInDoubt, WithheldOnlyInDoubt
<1> QED BY <1>7, <1>8, <1>9, <1>11, <1>12 DEF IInv

LEMMA PushStep ==
    ASSUME IInv, NEW m \in Message, NEW c \in Channel, NEW x \in TargetsOf(c),
           Push(m, c, x)
    PROVE  IInv'
<1>1. /\ x \in todo[m][c] /\ task[m][c] = "pushing" /\ Received(m, x)
      /\ sent' = [sent EXCEPT ![m][c] = @ \cup {x}]
      /\ AfterPush(m, c, todo[m][c] \ {x}, sent[m][c] \cup {x})
      /\ doubts' = IF Rivals(m, c) = {} THEN doubts ELSE doubts \cup {<<KeyOf(m), x>>}
      /\ UNCHANGED <<what, delivery, notified, withheld>>
  BY DEF Push, At, consumers
<1> DEFINE reached == sent[m][c] \cup {x}
<1>2. sent' = [sent EXCEPT ![m][c] = reached]
  BY <1>1 DEF IInv, Typed
<1>3. doubts \subseteq doubts' /\ (<<KeyOf(m), x>> \in doubts' \/ Rivals(m, c) = {})
  BY <1>1
<1>4. AfterPush(m, c, todo[m][c] \ {x}, reached) /\ x \in reached
      /\ reached \in {sent[m][c], sent[m][c] \cup {x}}
  BY <1>1
<1> HIDE DEF reached
<1>5. /\ <<KeyOf(m), x>> \in doubts' \/ (x \in reached /\ Rivals(m, c) = {})
      /\ x \in todo[m][c] /\ task[m][c] = "pushing" /\ Received(m, x)
      /\ UNCHANGED <<what, delivery, notified, withheld>>
  BY <1>1, <1>3, <1>4
<1> QED BY ONLY IInv, m \in Message, c \in Channel, <1>2, <1>3, <1>4, <1>5, ArrivalStep

LEMMA AnswerLostStep ==
    ASSUME IInv, NEW m \in Message, NEW c \in Channel, NEW x \in TargetsOf(c),
           AnswerLost(m, c, x)
    PROVE  IInv'
<1>1. /\ x \in todo[m][c] /\ task[m][c] = "pushing" /\ Received(m, x)
      /\ AfterPush(m, c, todo[m][c] \ {x}, sent[m][c])
      /\ doubts' = doubts \cup {<<KeyOf(m), x>>}
      /\ UNCHANGED <<what, delivery, sent, notified, withheld>>
  BY DEF AnswerLost, At, consumers
<1> DEFINE reached == sent[m][c]
<1>2. sent' = [sent EXCEPT ![m][c] = reached]
  BY <1>1 DEF IInv, Typed
<1>3. AfterPush(m, c, todo[m][c] \ {x}, reached)
      /\ reached \in {sent[m][c], sent[m][c] \cup {x}}
  BY <1>1
<1>4. doubts \subseteq doubts' /\ <<KeyOf(m), x>> \in doubts'
  BY <1>1
<1> HIDE DEF reached
<1>5. /\ <<KeyOf(m), x>> \in doubts' \/ (x \in reached /\ Rivals(m, c) = {})
      /\ x \in todo[m][c] /\ task[m][c] = "pushing" /\ Received(m, x)
      /\ UNCHANGED <<what, delivery, notified, withheld>>
  BY <1>1, <1>3, <1>4
<1> QED BY ONLY IInv, m \in Message, c \in Channel, <1>2, <1>3, <1>4, <1>5, ArrivalStep

-----------------------------------------------------------------------------
(* Writing the marks, and the end of a task. *)

\* A task that ends leaves the targets it reached marked or in doubt.
LEMMA TaskEnds ==
    ASSUME IInv, NEW m \in Message, NEW c \in Channel, task[m][c] = "saving",
           EndTask(m, c),
           UNCHANGED <<what, delivery, todo, told, lastTold, repeats, withheld>>,
           doubts \subseteq doubts',
           notified' \in [Channel -> Marks], MarkedWasTold',
           \A d \in Channel, k \in Key, x \in Target :
               /\ x \in TargetsOf(d) /\ <<k, x>> \notin doubts'
               /\ \A n \in Message : KeyOf(n) = k => x \notin sent'[n][d]
               => notified'[d][k][x] = lastTold[k][x]
    PROVE  IInv'
<1>1. /\ task' = [task EXCEPT ![m][c] = "done"]
      /\ copy' = [copy EXCEPT ![m][c] = NoMarks]
      /\ sent' = [sent EXCEPT ![m][c] = {}]
  BY DEF EndTask
<1>2. /\ task'[m][c] = "done" /\ copy'[m][c] = NoMarks /\ sent'[m][c] = {}
      /\ \A n \in Message, d \in Channel :
            ~(n = m /\ d = c) => /\ task'[n][d] = task[n][d]
                                 /\ copy'[n][d] = copy[n][d]
                                 /\ sent'[n][d] = sent[n][d]
  BY <1>1 DEF IInv, Typed
<1>3. \A n \in Message : KeyOf(n)' = KeyOf(n) /\ ContentOf(n)' = ContentOf(n)
  BY DEF KeyOf, ContentOf
<1>4. Typed'
  <2>1. task' \in [Message -> [Channel -> Place]]
    BY <1>1 DEF IInv, Typed, Place
  <2>2. copy' \in [Message -> [Channel -> Marks]]
    BY <1>1, NoMarksTyped DEF IInv, Typed
  <2>3. sent' \in [Message -> [Channel -> SUBSET Target]]
    BY <1>1 DEF IInv, Typed
  <2> QED BY <2>1, <2>2, <2>3 DEF IInv, Typed
<1>5. Shape'
  <2> SUFFICES ASSUME NEW n \in Message, NEW d \in Channel
               PROVE  /\ sent'[n][d] \subseteq TargetsOf(d)
                      /\ todo'[n][d] \subseteq TargetsOf(d)
                      /\ ~Active(n, d)' => sent'[n][d] = {}
                      /\ delivery'[n] # "delivering" => task'[n][d] = "idle"
                      /\ \A y \in todo'[n][d] :
                            task'[n][d] = "pushing" =>
                                y \notin sent'[n][d]
                                /\ copy'[n][d][KeyOf(n)'][y] # ContentOf(n)'
    BY DEF Shape
  <2>1. /\ sent[n][d] \subseteq TargetsOf(d) /\ todo[n][d] \subseteq TargetsOf(d)
        /\ ~Active(n, d) => sent[n][d] = {}
        /\ delivery[n] # "delivering" => task[n][d] = "idle"
        /\ \A y \in todo[n][d] :
              task[n][d] = "pushing" =>
                  y \notin sent[n][d] /\ copy[n][d][KeyOf(n)][y] # ContentOf(n)
    BY DEF IInv, Shape
  <2>2. CASE n = m /\ d = c
    BY <1>2, <2>1, <2>2 DEF Active
  <2>3. CASE ~(n = m /\ d = c)
    BY <1>2, <1>3, <2>1, <2>3 DEF Active
  <2> QED BY <2>2, <2>3
<1>6. Truth'
  <2>1. ASSUME NEW n \in Message, NEW d \in Channel, NEW l \in Key, NEW y \in Target,
               copy'[n][d][l][y] # NoContent
        PROVE  <<l, y, copy'[n][d][l][y]>> \in told'
    <3>1. copy'[n][d] # NoMarks
      BY <2>1 DEF NoMarks
    <3> QED BY <1>2, <2>1, <3>1 DEF IInv, Truth
  <2>2. ASSUME NEW n \in Message, NEW d \in Channel, NEW y \in sent'[n][d]
        PROVE  <<KeyOf(n)', y, ContentOf(n)'>> \in told'
    BY <1>2, <1>3 DEF IInv, Truth
  <2> QED BY <2>1, <2>2 DEF Truth
<1>7. InStep'
  <2> SUFFICES ASSUME NEW d \in Channel, NEW l \in Key, NEW y \in Target,
                      y \in TargetsOf(d), <<l, y>> \notin doubts'
               PROVE  /\ \A n \in Message : Knows(n, d, l, y)'
                      /\ Unmarked(d, l, y)' \/ notified'[d][l][y] = lastTold'[l][y]
    BY DEF InStep
  <2>1. ASSUME NEW n \in Message PROVE Knows(n, d, l, y)'
    <3>1. Knows(n, d, l, y)
      BY DEF IInv, InStep
    <3>2. CASE n = m /\ d = c
      BY <1>2, <3>2 DEF Knows, Active
    <3>3. CASE ~(n = m /\ d = c)
      BY <1>2, <1>3, <3>1, <3>3 DEF Knows, Active
    <3> QED BY <3>2, <3>3
  <2>2. Unmarked(d, l, y)' \/ notified'[d][l][y] = lastTold'[l][y]
    BY <1>3 DEF Unmarked
  <2> QED BY <2>1, <2>2
<1>8. Excused'
  BY DEF IInv, Excused, RepeatsAreInDoubt, WithheldOnlyInDoubt
<1> QED BY <1>4, <1>5, <1>6, <1>7, <1>8 DEF IInv

LEMMA SaveMarksStep ==
    ASSUME IInv, NEW m \in Message, NEW c \in Channel, SaveMarks(m, c)
    PROVE  IInv'
<1> DEFINE k == KeyOf(m)
<1>1. /\ task[m][c] = "saving" /\ EndTask(m, c)
      /\ UNCHANGED <<what, delivery, todo, told, lastTold, repeats, withheld>>
      /\ notified' = [notified EXCEPT ![c] = Marked(m, c)]
      /\ doubts' = doubts \cup Overwritten(m, c)
  BY DEF SaveMarks, At, consumers
<1>2. k \in Key /\ ContentOf(m) \in Content /\ Active(m, c) /\ copy[m][c] \in Marks
  BY <1>1, Saying DEF IInv, Typed, Active
<1>3. /\ Marked(m, c) \in Marks
      /\ \A l \in Key, x \in Target :
            Marked(m, c)[l][x] = IF l = k /\ x \in sent[m][c]
                                   THEN ContentOf(m) ELSE copy[m][c][l][x]
  BY <1>2 DEF Marked, Marks
<1>4. /\ notified' \in [Channel -> Marks] /\ notified'[c] = Marked(m, c)
      /\ \A d \in Channel : d # c => notified'[d] = notified[d]
  BY <1>1, <1>3 DEF IInv, Typed
<1>5. MarkedWasTold'
  <2> SUFFICES ASSUME NEW d \in Channel, NEW l \in Key, NEW x \in Target,
                      notified'[d][l][x] # NoContent
               PROVE  <<l, x, notified'[d][l][x]>> \in told'
    BY DEF MarkedWasTold
  <2>1. CASE d # c
    BY <1>1, <1>4, <2>1 DEF IInv, Truth, MarkedWasTold
  <2>2. CASE d = c /\ l = k /\ x \in sent[m][c]
    BY <1>1, <1>3, <1>4, <2>2 DEF IInv, Truth
  <2>3. CASE d = c /\ ~(l = k /\ x \in sent[m][c])
    BY <1>1, <1>3, <1>4, <2>3 DEF IInv, Truth
  <2> QED BY <2>1, <2>2, <2>3
<1>6. sent'[m][c] = {} /\ \A n \in Message, d \in Channel :
         ~(n = m /\ d = c) => sent'[n][d] = sent[n][d]
  BY <1>1 DEF EndTask, IInv, Typed
<1>7. ASSUME NEW d \in Channel, NEW l \in Key, NEW x \in Target,
             x \in TargetsOf(d), <<l, x>> \notin doubts',
             \A n \in Message : KeyOf(n) = l => x \notin sent'[n][d]
      PROVE  notified'[d][l][x] = lastTold[l][x]
  <2>1. /\ Knows(m, d, l, x)
        /\ Unmarked(d, l, x) \/ notified[d][l][x] = lastTold[l][x]
    BY <1>1, <1>7 DEF IInv, InStep
  <2>2. CASE d # c
    BY <1>4, <1>6, <1>7, <2>1, <2>2 DEF Unmarked
  <2>3. CASE d = c /\ l = k
    BY <1>2, <1>3, <1>4, <2>1, <2>3 DEF Knows
  <2>4. CASE d = c /\ l # k
    <3>1. notified[c][l][x] = copy[m][c][l][x]
      <4>1. <<l, x>> \in Key \X Target /\ <<l, x>>[1] = l /\ <<l, x>>[2] = x
        OBVIOUS
      <4> QED BY <1>1, <1>7, <4>1 DEF Overwritten
    <3>2. ~Unmarked(d, l, x)
      BY <1>6, <1>7, <2>4 DEF Unmarked
    <3> QED BY <1>3, <1>4, <2>1, <2>4, <3>1, <3>2
  <2> QED BY <2>2, <2>3, <2>4
<1>8. doubts \subseteq doubts'
  BY <1>1
<1> QED BY <1>1, <1>4, <1>5, <1>7, <1>8, TaskEnds

LEMMA SaveFailsStep ==
    ASSUME IInv, NEW m \in Message, NEW c \in Channel, SaveFails(m, c)
    PROVE  IInv'
<1>1. /\ task[m][c] = "saving" /\ EndTask(m, c)
      /\ UNCHANGED <<what, delivery, todo, notified, told, lastTold, repeats, withheld>>
      /\ doubts' = doubts \cup {<<KeyOf(m), x>> : x \in sent[m][c]}
  BY DEF SaveFails, At, consumers
<1>2. \A n \in Message, d \in Channel :
         ~(n = m /\ d = c) => sent'[n][d] = sent[n][d]
  BY <1>1 DEF EndTask, IInv, Typed
<1>3. ASSUME NEW d \in Channel, NEW l \in Key, NEW x \in Target,
             x \in TargetsOf(d), <<l, x>> \notin doubts',
             \A n \in Message : KeyOf(n) = l => x \notin sent'[n][d]
      PROVE  notified'[d][l][x] = lastTold[l][x]
  <2>1. ~(KeyOf(m) = l /\ x \in sent[m][c])
    BY <1>1, <1>3
  <2>2. ~Unmarked(d, l, x)
    BY <1>2, <1>3, <2>1 DEF Unmarked
  <2> QED BY <1>1, <1>3, <2>2 DEF IInv, InStep
<1>4. notified' \in [Channel -> Marks] /\ MarkedWasTold' /\ doubts \subseteq doubts'
  BY <1>1 DEF IInv, Typed, Truth, MarkedWasTold
<1> QED BY <1>1, <1>3, <1>4, TaskEnds

\* A consumer that dies leaves what it reached without a mark in doubt.
LEMMA DieStep ==
    ASSUME IInv, NEW m \in Message, Die(m)
    PROVE  IInv'
<1>1. /\ UNCHANGED <<what, notified, told, lastTold, repeats, withheld>>
      /\ delivery' = [delivery EXCEPT ![m] = "queued"]
      /\ doubts' = doubts \cup
           {<<KeyOf(m), x>> : x \in UNION {sent[m][c] : c \in Channel}}
      /\ task' = [task EXCEPT ![m] = [c \in Channel |-> "idle"]]
      /\ copy' = [copy EXCEPT ![m] = [c \in Channel |-> NoMarks]]
      /\ todo' = [todo EXCEPT ![m] = [c \in Channel |-> {}]]
      /\ sent' = [sent EXCEPT ![m] = [c \in Channel |-> {}]]
  BY DEF Die, GoTo, ClearTasks
<1>2. /\ delivery'[m] = "queued"
      /\ \A c \in Channel : /\ task'[m][c] = "idle" /\ copy'[m][c] = NoMarks
                            /\ todo'[m][c] = {} /\ sent'[m][c] = {}
      /\ \A n \in Message : n # m => /\ delivery'[n] = delivery[n] /\ task'[n] = task[n]
                                     /\ copy'[n] = copy[n] /\ todo'[n] = todo[n]
                                     /\ sent'[n] = sent[n]
  BY <1>1 DEF IInv, Typed
<1>3. \A n \in Message : KeyOf(n)' = KeyOf(n) /\ ContentOf(n)' = ContentOf(n)
  BY <1>1 DEF KeyOf, ContentOf
<1>4. Typed'
  <2>1. delivery' \in [Message -> Stage]
    BY <1>1 DEF IInv, Typed, Stage
  <2>2. task' \in [Message -> [Channel -> Place]]
    BY <1>1 DEF IInv, Typed, Place
  <2>3. copy' \in [Message -> [Channel -> Marks]]
    BY <1>1, NoMarksTyped DEF IInv, Typed
  <2>4. todo' \in [Message -> [Channel -> SUBSET Target]]
    BY <1>1 DEF IInv, Typed
  <2>5. sent' \in [Message -> [Channel -> SUBSET Target]]
    BY <1>1 DEF IInv, Typed
  <2> QED BY <1>1, <2>1, <2>2, <2>3, <2>4, <2>5 DEF IInv, Typed
<1>5. Shape'
  <2> SUFFICES ASSUME NEW n \in Message, NEW d \in Channel
               PROVE  /\ sent'[n][d] \subseteq TargetsOf(d)
                      /\ todo'[n][d] \subseteq TargetsOf(d)
                      /\ ~Active(n, d)' => sent'[n][d] = {}
                      /\ delivery'[n] # "delivering" => task'[n][d] = "idle"
                      /\ \A y \in todo'[n][d] :
                            task'[n][d] = "pushing" =>
                                y \notin sent'[n][d]
                                /\ copy'[n][d][KeyOf(n)'][y] # ContentOf(n)'
    BY DEF Shape
  <2>1. CASE n = m
    BY <1>2, <2>1
  <2>2. CASE n # m
    BY <1>2, <1>3, <2>2 DEF IInv, Shape, Active
  <2> QED BY <2>1, <2>2
<1>6. Truth'
  <2>1. ASSUME NEW n \in Message, NEW d \in Channel, NEW l \in Key, NEW y \in Target,
               copy'[n][d][l][y] # NoContent
        PROVE  <<l, y, copy'[n][d][l][y]>> \in told'
    <3>1. copy'[n][d] # NoMarks
      BY <2>1 DEF NoMarks
    <3>2. n # m
      BY <1>2, <3>1
    <3> QED BY <1>1, <1>2, <2>1, <3>2 DEF IInv, Truth
  <2>2. ASSUME NEW n \in Message, NEW d \in Channel, NEW y \in sent'[n][d]
        PROVE  <<KeyOf(n)', y, ContentOf(n)'>> \in told'
    <3>1. n # m
      BY <1>2, <2>2
    <3> QED BY <1>1, <1>2, <1>3, <2>2, <3>1 DEF IInv, Truth
  <2>3. MarkedWasTold'
    BY <1>1 DEF IInv, Truth, MarkedWasTold
  <2> QED BY <2>1, <2>2, <2>3 DEF Truth
<1>7. InStep'
  <2> SUFFICES ASSUME NEW d \in Channel, NEW l \in Key, NEW y \in Target,
                      y \in TargetsOf(d), <<l, y>> \notin doubts'
               PROVE  /\ \A n \in Message : Knows(n, d, l, y)'
                      /\ Unmarked(d, l, y)' \/ notified'[d][l][y] = lastTold'[l][y]
    BY DEF InStep
  <2>1. /\ \A n \in Message : Knows(n, d, l, y)
        /\ Unmarked(d, l, y) \/ notified[d][l][y] = lastTold[l][y]
    BY <1>1 DEF IInv, InStep
  <2>2. ASSUME NEW n \in Message PROVE Knows(n, d, l, y)'
    <3>1. CASE n = m
      BY <1>2, <3>1 DEF Knows, Active
    <3>2. CASE n # m
      BY <1>1, <1>2, <1>3, <2>1, <3>2 DEF Knows, Active
    <3> QED BY <3>1, <3>2
  <2>3. ~(KeyOf(m) = l /\ y \in sent[m][d])
    BY <1>1
  <2>4. Unmarked(d, l, y) => Unmarked(d, l, y)'
    BY <1>2, <1>3, <2>3 DEF Unmarked
  <2> QED BY <1>1, <2>1, <2>2, <2>4
<1>8. Excused'
  BY <1>1 DEF IInv, Excused, RepeatsAreInDoubt, WithheldOnlyInDoubt
<1> QED BY <1>4, <1>5, <1>6, <1>7, <1>8 DEF IInv

-----------------------------------------------------------------------------
(* All steps of consumers. *)

\* Of what the invariant speaks nothing changes.
LEMMA Unmoved ==
    ASSUME IInv, UNCHANGED <<what, delivery, tasks, marks>>
    PROVE  IInv'
<1>1. Typed'
  BY DEF IInv, Typed, tasks, marks
<1>2. Shape'
  BY DEF IInv, Shape, Active, KeyOf, ContentOf, tasks
<1>3. Truth'
  BY DEF IInv, Truth, MarkedWasTold, KeyOf, ContentOf, tasks, marks
<1>4. InStep'
  BY DEF IInv, InStep, Knows, Unmarked, Active, KeyOf, ContentOf, tasks, marks
<1>5. Excused'
  BY DEF IInv, Excused, RepeatsAreInDoubt, WithheldOnlyInDoubt, marks
<1> QED BY <1>1, <1>2, <1>3, <1>4, <1>5 DEF IInv

LEMMA WorkKeeps ==
    ASSUME IInv, NEW m \in Message, Work(m)
    PROVE  IInv'
<1>1. CASE Consumer(m)
  <2>1. CASE \/ Start(m) \/ GateCloses(m) \/ ReadSuppression(m)
             \/ SuppressionUnreadable(m) \/ RecordSighting(m)
    BY <2>1, Approach
  <2>2. CASE Finish(m)
    BY <2>2, FinishStep
  <2>3. CASE Die(m)
    BY <2>3, DieStep
  <2> QED BY <1>1, <2>1, <2>2, <2>3 DEF Consumer
<1>2. ASSUME NEW c \in Channel, Deliver(m, c) PROVE IInv'
  <2>1. CASE \E on \in SwitchedOn(c) : ReadMarks(m, c, on)
    BY <2>1, ReadMarksStep
  <2>2. CASE NotReady(m, c)
    BY <2>2, NotReadyStep
  <2>3. CASE \E x \in TargetsOf(c) : Push(m, c, x)
    BY <2>3, PushStep
  <2>4. CASE \E x \in TargetsOf(c) : PushFails(m, c, x)
    BY <2>4, PushFailsStep
  <2>5. CASE \E x \in TargetsOf(c) : AnswerLost(m, c, x)
    BY <2>5, AnswerLostStep
  <2>6. CASE SaveMarks(m, c)
    BY <2>6, SaveMarksStep
  <2>7. CASE SaveFails(m, c)
    BY <2>7, SaveFailsStep
  <2> QED BY <1>2, <2>1, <2>2, <2>3, <2>4, <2>5, <2>6, <2>7 DEF Deliver
<1> QED BY <1>1, <1>2 DEF Work

-----------------------------------------------------------------------------
(* The cron run. *)

\* What the cron run has read of the marks stands for pushes, too.
CronTruth ==
    /\ cronCopy \in Marks
    /\ \A k \in Key, x \in Target :
           cronCopy[k][x] # NoContent => <<k, x, cronCopy[k][x]>> \in told

LEMMA PrunedMarks ==
    ASSUME CronTruth, NEW gone
    PROVE  /\ Pruned(gone) \in Marks
           /\ \A k \in Key, x \in Target :
                 Pruned(gone)[k][x] = IF k \in gone THEN NoContent ELSE cronCopy[k][x]
  BY DEF CronTruth, Pruned, Marks

\* A mark it writes is what it was, or in doubt.
LEMMA PruneStep ==
    ASSUME IInv, CronTruth, CronPrunes
    PROVE  IInv'
<1>1. UNCHANGED <<what, delivery, tasks, told, lastTold, repeats, withheld>>
  BY DEF CronPrunes, consumers
<1>2. CASE UNCHANGED <<notified, doubts>>
  BY <1>1, <1>2, Unmoved DEF marks
<1>3. CASE \E gone \in SUBSET Prunable \ {{}} :
              /\ notified' = [notified EXCEPT !["line"] = Pruned(gone)]
              /\ doubts' = doubts \cup Undone \cup (gone \X LineTarget)
  <2> PICK gone \in SUBSET Prunable \ {{}} :
              /\ notified' = [notified EXCEPT !["line"] = Pruned(gone)]
              /\ doubts' = doubts \cup Undone \cup (gone \X LineTarget)
    BY <1>3
  <2>1. /\ notified' \in [Channel -> Marks] /\ notified'["line"] = Pruned(gone)
        /\ \A c \in Channel : c # "line" => notified'[c] = notified[c]
    BY PrunedMarks DEF IInv, Typed, Channel
  <2>2. ASSUME NEW c \in Channel, NEW k \in Key, NEW x \in TargetsOf(c),
               <<k, x>> \notin doubts'
        PROVE  notified'[c][k][x] = notified[c][k][x]
    <3>1. CASE c # "line"
      BY <2>1, <3>1
    <3>2. CASE c = "line"
      <4>1. x \in LineTarget /\ x \in Target
        BY <3>2 DEF TargetsOf, Target
      <4>2. k \notin gone
        BY <2>2, <4>1
      <4>3. notified["line"][k][x] = cronCopy[k][x]
        <5>1. <<k, x>> \in Key \X LineTarget /\ <<k, x>>[1] = k /\ <<k, x>>[2] = x
          BY <4>1
        <5> QED BY <2>2, <5>1 DEF Undone
      <4> QED BY <2>1, <3>2, <4>1, <4>2, <4>3, PrunedMarks
    <3> QED BY <3>1, <3>2
  <2>3. Typed'
    BY <1>1, <2>1 DEF IInv, Typed, tasks
  <2>4. Shape'
    BY <1>1 DEF IInv, Shape, Active, KeyOf, ContentOf, tasks
  <2>5. MarkedWasTold'
    <3> SUFFICES ASSUME NEW c \in Channel, NEW k \in Key, NEW x \in Target,
                        notified'[c][k][x] # NoContent
                 PROVE  <<k, x, notified'[c][k][x]>> \in told'
      BY DEF MarkedWasTold
    <3>1. CASE c # "line"
      BY <1>1, <2>1, <3>1 DEF IInv, Truth, MarkedWasTold
    <3>2. CASE c = "line"
      BY <1>1, <2>1, <3>2, PrunedMarks DEF CronTruth
    <3> QED BY <3>1, <3>2
  <2>6. Truth'
    BY <1>1, <2>5 DEF IInv, Truth, KeyOf, ContentOf, tasks
  <2>7. InStep'
    <3> SUFFICES ASSUME NEW c \in Channel, NEW k \in Key, NEW x \in Target,
                        x \in TargetsOf(c), <<k, x>> \notin doubts'
                 PROVE  /\ \A m \in Message : Knows(m, c, k, x)'
                        /\ Unmarked(c, k, x)' \/ notified'[c][k][x] = lastTold'[k][x]
      BY DEF InStep
    <3>1. /\ \A m \in Message : Knows(m, c, k, x)
          /\ Unmarked(c, k, x) \/ notified[c][k][x] = lastTold[k][x]
      BY DEF IInv, InStep
    <3>2. \A m \in Message : Knows(m, c, k, x)'
      BY <1>1, <3>1 DEF Knows, Active, KeyOf, ContentOf, tasks
    <3>3. Unmarked(c, k, x)' = Unmarked(c, k, x)
      BY <1>1 DEF Unmarked, KeyOf, tasks
    <3> QED BY <1>1, <2>2, <3>1, <3>2, <3>3
  <2>8. Excused'
    BY <1>1 DEF IInv, Excused, RepeatsAreInDoubt, WithheldOnlyInDoubt
  <2> QED BY <2>3, <2>4, <2>6, <2>7, <2>8 DEF IInv
<1> QED BY <1>2, <1>3 DEF CronPrunes

LEMMA CronKeeps ==
    ASSUME IInv, CronTruth, Cron
    PROVE  IInv' /\ CronTruth'
<1>1. CASE CronReadsMarks
  <2>1. UNCHANGED <<what, delivery, tasks, marks>> /\ cronCopy' = notified["line"]
    BY <1>1 DEF CronReadsMarks, consumers
  <2>2. CronTruth'
    BY <2>1 DEF CronTruth, IInv, Typed, Truth, MarkedWasTold, Channel, marks
  <2> QED BY <2>1, <2>2, Unmoved
<1>2. CASE CronReadsSuppression \/ CronExpires
  <2>1. UNCHANGED <<what, delivery, tasks, marks, cronCopy>>
    BY <1>2 DEF CronReadsSuppression, CronExpires, consumers
  <2>2. CronTruth'
    BY <2>1 DEF CronTruth, marks
  <2> QED BY <2>1, <2>2, Unmoved
<1>3. CASE CronPrunes
  <2>1. cronCopy' = NoMarks
    BY <1>3 DEF CronPrunes
  <2>2. CronTruth'
    BY <2>1, NoMarksTyped DEF CronTruth, NoMarks
  <2> QED BY <1>3, <2>2, PruneStep
<1> QED BY <1>1, <1>2, <1>3 DEF Cron

\* What was pushed stays pushed.
LEMMA ToldGrows ==
    ASSUME NEW m \in Message, Work(m)
    PROVE  told \subseteq told'
<1>1. CASE Consumer(m)
  BY <1>1 DEF Consumer, Start, GateCloses, ReadSuppression, SuppressionUnreadable,
              RecordSighting, Finish, Die, marks
<1>2. ASSUME NEW c \in Channel, Deliver(m, c) PROVE told \subseteq told'
  <2>1. CASE \E x \in TargetsOf(c) : Push(m, c, x) \/ AnswerLost(m, c, x)
    BY <2>1 DEF Push, AnswerLost, Received
  <2>2. CASE \/ \E on \in SwitchedOn(c) : ReadMarks(m, c, on)
             \/ \E x \in TargetsOf(c) : PushFails(m, c, x)
             \/ NotReady(m, c) \/ SaveMarks(m, c) \/ SaveFails(m, c)
    BY <2>2 DEF ReadMarks, PushFails, NotReady, SaveMarks, SaveFails, marks
  <2> QED BY <1>2, <2>1, <2>2 DEF Deliver
<1> QED BY <1>1, <1>2 DEF Work

-----------------------------------------------------------------------------
(* The types of the other variables. *)

Clocked ==
    /\ now \in 0..MaxTime
    /\ tries \in [Message -> 0..MaxDeliveries]
    /\ startedAt \in [Message -> 0..MaxTime]
    /\ cron \in {"off", "reading", "expiring", "pruning"} /\ cronAt \in 0..MaxTime
    /\ faults \in 0..MaxFaults

Remembering ==
    /\ \A m \in Message : base[m] \subseteq Incident
    /\ suppression \subseteq Incident /\ cronBase \subseteq Incident
    /\ suppressedBy \in [Message -> SUBSET Key]
    /\ passedAt \in [Message -> {Never} \cup 0..MaxTime]
    /\ blurred \in BOOLEAN /\ recorded \in Nat

Happened ==
    /\ told \subseteq Key \X Target \X Content
    /\ doubts \subseteq Pairs /\ repeats \subseteq Pairs /\ withheld \subseteq Pairs

Serving ==
    \A m \in Message : \A c \in Channel : (task[m][c] = "idle") <=> (delivery[m] # "delivering")

\* A set of natural numbers has a least element.
LEMMA LeastNat ==
    ASSUME NEW T \in SUBSET Nat, T # {}
    PROVE  \E x \in T : \A y \in T : x <= y
<1> DEFINE R == OpToRel(<, Nat)
<1>1. IsWellFoundedOn(R, Nat)
  BY ONLY NatLessThanWellFounded
<1>2. \A x, y \in Nat : y < x => <<y, x>> \in R
  BY DEF OpToRel
<1> HIDE DEF R
<1>3. PICK x \in T : \A y \in T : <<y, x>> \notin R
  BY <1>1, WFMin
<1>4. ASSUME NEW y \in T PROVE x <= y
  <2>1. x \in Nat /\ y \in Nat
    OBVIOUS
  <2>2. ~(y < x)
    BY ONLY <1>2, <1>3, <2>1, y \in T
  <2> QED BY ONLY <2>1, <2>2
<1> QED BY <1>4

\* Array.find returns one of the records that match.
LEMMA FirstIsHit ==
    ASSUME NEW hits \in SUBSET Incident, hits # {}
    PROVE  First(hits) \in hits
<1> DEFINE T == {r.no : r \in hits}
<1>1. T \in SUBSET Nat /\ T # {}
  BY DEF Incident
<1>2. PICK x \in T : \A y \in T : x <= y
  BY <1>1, LeastNat
<1>3. PICK r \in hits : r.no = x
  OBVIOUS
<1>4. \A s \in hits : r.no <= s.no
  BY <1>2, <1>3
<1> QED BY <1>3, <1>4 DEF First

\* What the recording of a sighting makes of a blob.
LEMMA SightedIs ==
    ASSUME Typed, Clocked, Remembering, NEW m \in Message, NEW blob \in SUBSET Incident
    PROVE  /\ Sighted(blob, m) \subseteq Incident
           /\ Suppressing(blob, m) \subseteq Key
           /\ Suppressing(blob, m) = {} <=> Matches(blob, what[m].km) = {}
           /\ \E r \in Sighted(blob, m) : r.km = what[m].km /\ r.lastSeen = startedAt[m]
           /\ \A r \in blob : r \in Sighted(blob, m) \/ Near(r.km, what[m].km)
<1> DEFINE hits == Matches(blob, what[m].km)
<1>1. hits \in SUBSET Incident
  BY DEF Matches
<1>2. what[m] \in Approval /\ KeyOf(m) \in Key /\ startedAt[m] \in 0..MaxTime /\ recorded \in Nat
  BY Saying DEF Typed, Clocked, Remembering
<1>3. ASSUME NEW no \in Nat, NEW k \in Key
      PROVE  /\ Sighting(no, k, m) \in Incident
             /\ Sighting(no, k, m).km = what[m].km
             /\ Sighting(no, k, m).lastSeen = startedAt[m]
  <2>1. what[m].km \in {a.km : a \in Approval}
    BY <1>2
  <2> QED BY <1>2, <2>1 DEF Sighting, Incident
<1>4. CASE hits = {}
  <2>1. /\ Sighted(blob, m) = blob \cup {Sighting(recorded + 1, KeyOf(m), m)}
        /\ Suppressing(blob, m) = {}
    BY <1>4 DEF Sighted, Suppressing
  <2>2. recorded + 1 \in Nat
    BY <1>2
  <2>3. /\ Sighting(recorded + 1, KeyOf(m), m) \in Incident
        /\ Sighting(recorded + 1, KeyOf(m), m).km = what[m].km
        /\ Sighting(recorded + 1, KeyOf(m), m).lastSeen = startedAt[m]
    BY <1>2, <1>3, <2>2
  <2> QED BY <1>4, <2>1, <2>3
<1>5. CASE hits # {}
  <2> DEFINE first == First(hits)
  <2>1. first \in hits
    BY <1>1, <1>5, FirstIsHit
  <2>2. /\ Sighted(blob, m) = (blob \ {first}) \cup {Sighting(first.no, first.key, m)}
        /\ Suppressing(blob, m) = {first.key}
    BY <1>5 DEF Sighted, Suppressing
  <2>3. first.no \in Nat /\ first.key \in Key
    BY <1>1, <2>1 DEF Incident
  <2>4. Near(first.km, what[m].km)
    BY <2>1 DEF Matches
  <2>5. /\ Sighting(first.no, first.key, m) \in Incident
        /\ Sighting(first.no, first.key, m).km = what[m].km
        /\ Sighting(first.no, first.key, m).lastSeen = startedAt[m]
    BY <1>3, <2>3
  <2> HIDE DEF first, hits
  <2> QED BY <1>5, <2>2, <2>3, <2>4, <2>5 DEF hits
<1> QED BY <1>4, <1>5

\* A channel's work leaves the clock, the consumers and the suppression blob alone.
LEMMA DeliverLeaves ==
    ASSUME NEW m \in Message, NEW c \in Channel, Deliver(m, c)
    PROVE  /\ UNCHANGED <<now, consumers, incidents>>
           /\ faults' = faults \/ (faults < MaxFaults /\ faults' = faults + 1)
<1>1. CASE \E on \in SwitchedOn(c) : ReadMarks(m, c, on)
  BY <1>1 DEF ReadMarks
<1>2. CASE NotReady(m, c)
  BY <1>2 DEF NotReady, Fault
<1>3. CASE \E x \in TargetsOf(c) : Push(m, c, x)
  BY <1>3 DEF Push
<1>4. CASE \E x \in TargetsOf(c) : PushFails(m, c, x)
  BY <1>4 DEF PushFails, Fault
<1>5. CASE \E x \in TargetsOf(c) : AnswerLost(m, c, x)
  BY <1>5 DEF AnswerLost, Fault
<1>6. CASE SaveMarks(m, c)
  BY <1>6 DEF SaveMarks
<1>7. CASE SaveFails(m, c)
  BY <1>7 DEF SaveFails, Fault
<1> QED BY <1>1, <1>2, <1>3, <1>4, <1>5, <1>6, <1>7 DEF Deliver

\* What a step of a consumer does to the clock and the suppression blob.
LEMMA ClockedStep ==
    ASSUME Typed, Clocked, [Next]_vars
    PROVE  Clocked'
<1>1. MaxFaults \in Nat /\ MaxDeliveries \in Nat /\ MaxTime \in Nat
  BY BroadcastBounds
<1>2. ASSUME NEW m \in Message, Work(m) PROVE Clocked'
  <2>1. CASE Start(m)
    <3>1. tries' \in [Message -> 0..MaxDeliveries]
      BY <1>1, <2>1 DEF Start, Deliverable, Clocked
    <3>2. now' \in 0..MaxTime /\ startedAt' \in [Message -> 0..MaxTime]
      BY <1>1, <2>1 DEF Start, Clocked
    <3> QED BY <1>2, <2>1, <3>1, <3>2 DEF Start, Work, cronRun, Clocked
  <2>2. CASE GateCloses(m)
    <3>1. tries' \in [Message -> 0..MaxDeliveries]
      BY <1>1, <2>2 DEF GateCloses, Deliverable, Clocked
    <3> QED BY <1>2, <2>2, <3>1 DEF GateCloses, Work, cronRun, Clocked
  <2>3. CASE ReadSuppression(m) \/ Finish(m)
    BY <1>2, <2>3 DEF ReadSuppression, Finish, Work, cronRun, Clocked
  <2>4. CASE SuppressionUnreadable(m) \/ RecordSighting(m) \/ Die(m)
    <3>1. startedAt' \in [Message -> 0..MaxTime]
      BY <1>1, <2>4 DEF SuppressionUnreadable, RecordSighting, Die, Forget, Clocked
    <3>2. faults' \in 0..MaxFaults
      BY <1>1, <2>4 DEF SuppressionUnreadable, RecordSighting, Die, Fault, Clocked
    <3>3. UNCHANGED <<now, tries>>
      BY <2>4 DEF SuppressionUnreadable, RecordSighting, Die
    <3> QED BY <1>2, <3>1, <3>2, <3>3 DEF Work, cronRun, Clocked
  <2>5. CASE \E c \in Channel : Deliver(m, c)
    <3>1. /\ UNCHANGED <<now, consumers>>
          /\ faults' = faults \/ (faults < MaxFaults /\ faults' = faults + 1)
      BY <2>5, DeliverLeaves
    <3>2. faults' \in 0..MaxFaults
      BY <1>1, <3>1 DEF Clocked
    <3> QED BY <1>2, <3>1, <3>2 DEF Work, consumers, cronRun, Clocked
  <2> QED BY <1>2, <2>1, <2>2, <2>3, <2>4, <2>5 DEF Work, Consumer
<1>3. CASE CronReadsMarks
  BY <1>1, <1>3 DEF CronReadsMarks, Fault, consumers, Clocked
<1>4. CASE CronReadsSuppression
  BY <1>4 DEF CronReadsSuppression, consumers, Clocked
<1>5. CASE CronExpires
  BY <1>1, <1>5 DEF CronExpires, consumers, Clocked
<1>6. CASE CronPrunes
  BY <1>6 DEF CronPrunes, consumers, Clocked
<1>7. CASE UNCHANGED vars
  BY <1>7 DEF vars, consumers, cronRun, Clocked
<1> QED BY <1>2, <1>3, <1>4, <1>5, <1>6, <1>7 DEF Next, Cron

\* What a consumer makes of the suppression blob.
LEMMA RecordingIs ==
    ASSUME Typed, Clocked, Remembering, NEW m \in Message, RecordSighting(m)
    PROVE  LET alive == Alive(base[m], startedAt[m])
               next == Sighted(alive, m)
           IN  /\ alive \subseteq Incident /\ base[m] \subseteq Incident
               /\ next \subseteq Incident
               /\ suppression' = suppression \/ suppression' = next
               /\ ~blurred' => /\ ~blurred /\ suppression = base[m] /\ suppression' = next
                               /\ \A r \in base[m] : r.lastSeen <= startedAt[m]
                               /\ \A r \in Matches(base[m], what[m].km) : r.km = what[m].km
<1> DEFINE alive == Alive(base[m], startedAt[m])
           next == Sighted(alive, m)
<1>1. base[m] \subseteq Incident /\ alive \subseteq Incident
  BY DEF Remembering, Alive
<1>2. next \subseteq Incident
  BY <1>1, SightedIs
<1>3. \A r \in base[m] : r.lastSeen \in Nat /\ startedAt[m] \in Nat
  BY <1>1, BroadcastBounds DEF Incident, Clocked
<1>4. \/ suppression' \in Stored(m) /\ blurred' = (blurred \/ Blurs(m))
      \/ blurred' = TRUE /\ suppression' = suppression
  BY DEF RecordSighting
<1>5. suppression' = suppression \/ suppression' = next
  BY <1>4 DEF Stored
<1>6. ASSUME ~blurred'
      PROVE  /\ ~blurred /\ suppression = base[m] /\ suppression' = next
             /\ \A r \in base[m] : r.lastSeen <= startedAt[m]
             /\ \A r \in Matches(base[m], what[m].km) : r.km = what[m].km
  <2>1. suppression' \in Stored(m) /\ ~blurred /\ ~Blurs(m)
    BY <1>4, <1>6
  <2>2. suppression = base[m]
    BY <2>1 DEF Blurs
  <2>3. suppression' = next
    BY <2>1, <2>2 DEF Stored
  <2>4. \A r \in base[m] : r.lastSeen <= startedAt[m]
    BY <1>3, <2>1 DEF Blurs
  <2>5. \A r \in Matches(base[m], what[m].km) : r.km = what[m].km
    BY <2>1 DEF Blurs
  <2> QED BY <2>1, <2>2, <2>3, <2>4, <2>5
<1> QED BY <1>1, <1>2, <1>5, <1>6

LEMMA RememberingStep ==
    ASSUME Typed, Clocked, Remembering, [Next]_vars
    PROVE  Remembering'
<1>1. ASSUME NEW m \in Message, Work(m) PROVE Remembering'
  <2>1. cronBase' = cronBase
    BY <1>1 DEF Work, cronRun
  <2>2. CASE Start(m) \/ GateCloses(m) \/ Finish(m)
    BY <2>1, <2>2 DEF Start, GateCloses, Finish, incidents, Remembering
  <2>3. CASE ReadSuppression(m)
    <3>1. \A n \in Message : base'[n] \subseteq Incident
      BY <2>3 DEF ReadSuppression, Remembering
    <3> QED BY <2>1, <2>3, <3>1 DEF ReadSuppression, Remembering
  <2>4. CASE SuppressionUnreadable(m)
    <3>1. passedAt' \in [Message -> {Never} \cup 0..MaxTime]
      BY <2>4 DEF SuppressionUnreadable, Remembering, Clocked
    <3> QED BY <2>1, <2>4, <3>1 DEF SuppressionUnreadable, Remembering
  <2>5. CASE RecordSighting(m)
    <3> DEFINE by == Suppressing(Alive(base[m], startedAt[m]), m)
    <3>1. \A n \in Message : base'[n] \subseteq Incident
      BY <2>5 DEF RecordSighting, Remembering
    <3>2. suppression' \subseteq Incident
      BY <2>5, RecordingIs DEF Remembering
    <3>3. by \subseteq Key
      BY SightedIs DEF Alive, Remembering
    <3>4. suppressedBy' \in [Message -> SUBSET Key]
      BY <2>5, <3>3 DEF RecordSighting, Remembering
    <3>5. passedAt' \in [Message -> {Never} \cup 0..MaxTime]
      BY <2>5 DEF RecordSighting, Remembering, Clocked
    <3>6. recorded' \in Nat
      BY <2>5 DEF RecordSighting, Remembering
    <3>7. blurred' \in BOOLEAN
      BY <2>5 DEF RecordSighting, Remembering, Blurs
    <3> QED BY <2>1, <3>1, <3>2, <3>4, <3>5, <3>6, <3>7 DEF Remembering
  <2>6. CASE Die(m)
    <3>1. \A n \in Message : base'[n] \subseteq Incident
      BY <2>6 DEF Die, Remembering
    <3> QED BY <2>1, <2>6, <3>1 DEF Die, Remembering
  <2>7. CASE \E c \in Channel : Deliver(m, c)
    BY <2>1, <2>7, DeliverLeaves DEF incidents, Remembering
  <2> QED BY <1>1, <2>2, <2>3, <2>4, <2>5, <2>6, <2>7 DEF Work, Consumer
<1>2. CASE CronReadsMarks \/ CronReadsSuppression \/ CronPrunes
  BY <1>2 DEF CronReadsMarks, CronReadsSuppression, CronPrunes, incidents, Remembering
<1>3. CASE CronExpires
  <2>1. Unexpired \subseteq Incident
    BY DEF Unexpired, Remembering
  <2>2. blurred' \in BOOLEAN
    BY <1>3 DEF CronExpires, CronBlurs, Remembering
  <2> QED BY <1>3, <2>1, <2>2 DEF CronExpires, Remembering
<1>4. CASE UNCHANGED vars
  BY <1>4 DEF vars, incidents, cronRun, Remembering
<1> QED BY <1>1, <1>2, <1>3, <1>4 DEF Next, Cron

\* What has happened is about known keys, targets and contents.
LEMMA HappenedStep ==
    ASSUME IInv, Happened, [Next]_vars
    PROVE  Happened'
<1>1. \A m \in Message : KeyOf(m) \in Key /\ ContentOf(m) \in Content
  BY Saying DEF IInv, Typed
<1>2. \A c \in Channel : TargetsOf(c) \subseteq Target
  BY DEF TargetsOf, Target
<1>3. \A m \in Message, c \in Channel : sent[m][c] \subseteq Target
  BY DEF IInv, Typed
<1>4. ASSUME NEW m \in Message, Consumer(m) PROVE Happened'
  <2>1. CASE \/ Start(m) \/ GateCloses(m) \/ ReadSuppression(m)
             \/ SuppressionUnreadable(m) \/ RecordSighting(m) \/ Finish(m)
    BY <2>1 DEF Start, GateCloses, ReadSuppression, SuppressionUnreadable, RecordSighting,
                Finish, marks, Happened
  <2>2. CASE Die(m)
    <3>1. doubts' \subseteq Pairs
      <4>1. \A x \in UNION {sent[m][c] : c \in Channel} : <<KeyOf(m), x>> \in Pairs
        BY <1>1, <1>3 DEF Pairs
      <4> QED BY <2>2, <4>1 DEF Die, Happened
    <3> QED BY <2>2, <3>1 DEF Die, Happened
  <2> QED BY <1>4, <2>1, <2>2 DEF Consumer
<1>5. ASSUME NEW m \in Message, NEW c \in Channel, Deliver(m, c) PROVE Happened'
  <2>1. ASSUME NEW on \in SwitchedOn(c), ReadMarks(m, c, on) PROVE Happened'
    <3>1. on \subseteq Target
      BY ApprovalAssumption DEF SwitchedOn, Target
    <3>2. doubts' \subseteq Pairs
      <4>1. \A x \in UNION {sent[n][c] : n \in Rivals(m, c)} : <<KeyOf(m), x>> \in Pairs
        BY <1>1, <1>3 DEF Pairs, Rivals
      <4>2. doubts' = doubts \cup
              {<<KeyOf(m), x>> : x \in UNION {sent[n][c] : n \in Rivals(m, c)}}
        BY <2>1 DEF ReadMarks
      <4> QED BY <4>1, <4>2 DEF Happened
    <3>3. withheld' \subseteq Pairs
      <4>1. \A x \in on : <<KeyOf(m), x>> \in Pairs
        BY <1>1, <3>1 DEF Pairs
      <4>2. withheld' = withheld \cup
              {<<KeyOf(m), x>> : x \in {x \in on \ Pending(m, c, on) :
                                          lastTold[KeyOf(m)][x] # ContentOf(m)}}
        BY <2>1 DEF ReadMarks
      <4> QED BY <4>1, <4>2 DEF Happened
    <3> QED BY <2>1, <3>2, <3>3 DEF ReadMarks, Happened
  <2>2. CASE NotReady(m, c)
    BY <2>2 DEF NotReady, marks, Happened
  <2>3. ASSUME NEW x \in TargetsOf(c), Push(m, c, x) \/ AnswerLost(m, c, x) PROVE Happened'
    <3>1. <<KeyOf(m), x>> \in Pairs /\ <<KeyOf(m), x, ContentOf(m)>> \in Key \X Target \X Content
      BY <1>1, <1>2 DEF Pairs
    <3>2. Received(m, x) /\ withheld' = withheld
      BY <2>3 DEF Push, AnswerLost
    <3>3. doubts' = doubts \/ doubts' = doubts \cup {<<KeyOf(m), x>>}
      BY <2>3 DEF Push, AnswerLost
    <3>4. told' \subseteq Key \X Target \X Content /\ repeats' \subseteq Pairs
      BY <3>1, <3>2 DEF Received, Happened
    <3> QED BY <3>1, <3>2, <3>3, <3>4 DEF Happened
  <2>4. CASE \E x \in TargetsOf(c) : PushFails(m, c, x)
    BY <2>4 DEF PushFails, marks, Happened
  <2>5. CASE SaveMarks(m, c)
    <3>1. Overwritten(m, c) \subseteq Pairs
      BY DEF Overwritten, Pairs
    <3> QED BY <2>5, <3>1 DEF SaveMarks, Happened
  <2>6. CASE SaveFails(m, c)
    <3>1. \A x \in sent[m][c] : <<KeyOf(m), x>> \in Pairs
      BY <1>1, <1>3 DEF Pairs
    <3> QED BY <2>6, <3>1 DEF SaveFails, Happened
  <2> QED BY <1>5, <2>1, <2>2, <2>3, <2>4, <2>5, <2>6 DEF Deliver
<1>6. CASE CronReadsMarks \/ CronReadsSuppression \/ CronExpires
  BY <1>6 DEF CronReadsMarks, CronReadsSuppression, CronExpires, marks, Happened
<1>7. CASE CronPrunes
  <2>1. Undone \subseteq Pairs
    BY DEF Undone, Pairs, Target
  <2>2. \A gone \in SUBSET Prunable \ {{}} : gone \X LineTarget \subseteq Pairs
    BY ApprovalAssumption DEF Pairs, Target
  <2>3. doubts' \subseteq Pairs
    BY <1>7, <2>1, <2>2 DEF CronPrunes, Happened
  <2> QED BY <1>7, <2>3 DEF CronPrunes, Happened
<1>8. CASE UNCHANGED vars
  BY <1>8 DEF vars, marks, Happened
<1> QED BY <1>4, <1>5, <1>6, <1>7, <1>8 DEF Next, Work, Cron

\* A consumer enters or leaves the delivery together with its tasks.
Stays(m) == task' = task /\ delivery[m] # "delivering" /\ delivery'[m] # "delivering"
Turns(m) ==
    \E p \in Place : /\ task' = [task EXCEPT ![m] = [c \in Channel |-> p]]
                     /\ p = "idle" <=> delivery'[m] # "delivering"

LEMMA ConsumerMoves ==
    ASSUME Typed, NEW m \in Message, Consumer(m)
    PROVE  /\ \A n \in Message : n # m => delivery'[n] = delivery[n]
           /\ Stays(m) \/ Turns(m)
<1> USE DEF Typed, Stays, Turns
<1>1. CASE Start(m)
  <2>1. CASE Open(m)
    BY <2>1 DEF GoTo, Open, Place
  <2>2. CASE GoTo(m, "sighting") /\ UNCHANGED task /\ delivery[m] = "queued"
    BY <2>2 DEF GoTo
  <2> QED BY <1>1, <2>1, <2>2 DEF Start, Deliverable
<1>2. CASE GateCloses(m)
  BY <1>2 DEF GateCloses, Deliverable, GoTo, tasks
<1>3. CASE ReadSuppression(m)
  BY <1>3 DEF ReadSuppression, GoTo, tasks
<1>4. CASE SuppressionUnreadable(m)
  BY <1>4 DEF SuppressionUnreadable, GoTo, Open, Place
<1>5. CASE RecordSighting(m)
  <2>1. CASE Open(m)
    BY <2>1 DEF GoTo, Open, Place
  <2>2. CASE GoTo(m, "done") /\ UNCHANGED task /\ delivery[m] = "recording"
    BY <2>2 DEF GoTo
  <2> QED BY <1>5, <2>1, <2>2 DEF RecordSighting
<1>6. CASE Finish(m) \/ Die(m)
  BY <1>6 DEF Finish, Die, GoTo, ClearTasks, Place
<1> QED BY <1>1, <1>2, <1>3, <1>4, <1>5, <1>6 DEF Consumer

LEMMA MovedServes ==
    ASSUME Typed, Serving, NEW m \in Message,
           \A n \in Message : n # m => delivery'[n] = delivery[n],
           Stays(m) \/ Turns(m)
    PROVE  Serving'
<1> SUFFICES ASSUME NEW n \in Message, NEW c \in Channel
             PROVE  (task'[n][c] = "idle") <=> (delivery'[n] # "delivering")
  BY DEF Serving
<1>1. CASE Stays(m)
  BY <1>1 DEF Stays, Serving
<1>2. CASE Turns(m)
  <2> PICK p \in Place : /\ task' = [task EXCEPT ![m] = [d \in Channel |-> p]]
                         /\ p = "idle" <=> delivery'[m] # "delivering"
    BY <1>2 DEF Turns
  <2>1. CASE n = m
    BY <2>1 DEF Typed
  <2>2. CASE n # m
    BY <2>2 DEF Typed, Serving
  <2> QED BY <2>1, <2>2
<1> QED BY <1>1, <1>2

\* The tasks of a message run only while it is delivered.
LEMMA ServingStep ==
    ASSUME IInv, Serving, [Next]_vars
    PROVE  Serving'
<1> USE DEF Serving
<1>1. Typed
  BY DEF IInv
<1>2. ASSUME NEW m \in Message, Consumer(m) PROVE Serving'
  BY <1>1, <1>2, ConsumerMoves, MovedServes
<1>3. ASSUME NEW m \in Message, NEW c \in Channel, Deliver(m, c) PROVE Serving'
  <2>1. delivery' = delivery
    BY <1>3, DeliverLeaves DEF consumers
  <2>2. task[m][c] # "idle"
        /\ \E place \in Place \ {"idle"} : task' = [task EXCEPT ![m][c] = place]
    <3>1. CASE \E on \in SwitchedOn(c) : ReadMarks(m, c, on)
      BY <3>1 DEF ReadMarks, At, Place
    <3>2. CASE NotReady(m, c)
      BY <3>2 DEF NotReady, At, Place
    <3>3. CASE \E x \in TargetsOf(c) : Push(m, c, x)
      BY <3>3 DEF Push, AfterPush, At, Place
    <3>4. CASE \E x \in TargetsOf(c) : PushFails(m, c, x)
      BY <3>4 DEF PushFails, AfterPush, At, Place
    <3>5. CASE \E x \in TargetsOf(c) : AnswerLost(m, c, x)
      BY <3>5 DEF AnswerLost, AfterPush, At, Place
    <3>6. CASE SaveMarks(m, c) \/ SaveFails(m, c)
      BY <3>6 DEF SaveMarks, SaveFails, EndTask, At, Place
    <3> QED BY <1>3, <3>1, <3>2, <3>3, <3>4, <3>5, <3>6 DEF Deliver
  <2>3. PICK place \in Place \ {"idle"} : task' = [task EXCEPT ![m][c] = place]
    BY <2>2
  <2> QED BY <1>1, <2>1, <2>2, <2>3 DEF Typed
<1>4. CASE Cron
  BY <1>4 DEF Cron, CronReadsMarks, CronReadsSuppression, CronExpires, CronPrunes,
              consumers, tasks
<1>5. CASE UNCHANGED vars
  BY <1>5 DEF vars, consumers, tasks
<1> QED BY <1>2, <1>3, <1>4, <1>5 DEF Next, Work

-----------------------------------------------------------------------------
(* Suppression: as long as the blob is not blurred, it remembers every      *)
(* incident that was let through.                                           *)

\* A record of the same kilometre says that n was seen when it was let through, or later.
Witnessed(n) == \E r \in suppression : r.km = what[n].km /\ r.lastSeen >= passedAt[n]

InWindow(m) == delivery[m] \in {"sighting", "recording"}

\* Nobody will look for a sighting of time t within its window any more.
Outlived(t) ==
    \/ \E r \in suppression : r.lastSeen >= t + Window
    \/ /\ now >= t + Window
       /\ \A m \in Message : InWindow(m) => startedAt[m] >= t + Window

Recalled ==
    ~blurred =>
        \A n \in Message : passedAt[n] # Never => Witnessed(n) \/ Outlived(passedAt[n])

ClockRuns == cronAt <= now

\* What the clock may do without an effect on Recalled.
LEMMA ClockAlone ==
    ASSUME Clocked, Remembering, Recalled,
           UNCHANGED <<what, suppression, passedAt>>,
           blurred => blurred',
           now' \in Nat, now' >= now,
           \A m \in Message : InWindow(m)' =>
               \/ InWindow(m) /\ startedAt'[m] = startedAt[m]
               \/ startedAt'[m] = now'
    PROVE  Recalled'
<1> SUFFICES ASSUME ~blurred', NEW n \in Message, passedAt'[n] # Never
             PROVE  Witnessed(n)' \/ Outlived(passedAt[n])'
  BY DEF Recalled
<1>1. Witnessed(n) \/ Outlived(passedAt[n])
  BY DEF Recalled
<1>2. passedAt[n] \in Int /\ Window \in Nat /\ now \in Nat
  BY BroadcastBounds DEF Remembering, Clocked, Never
<1>3. CASE Witnessed(n)
  BY <1>3 DEF Witnessed
<1>4. CASE \E r \in suppression : r.lastSeen >= passedAt[n] + Window
  BY <1>4 DEF Outlived
<1>5. CASE /\ now >= passedAt[n] + Window
           /\ \A m \in Message : InWindow(m) => startedAt[m] >= passedAt[n] + Window
  <2>1. now' >= passedAt[n] + Window
    BY <1>2, <1>5
  <2>2. ASSUME NEW m \in Message, InWindow(m)'
        PROVE  startedAt'[m] >= passedAt[n] + Window
    BY <1>5, <2>1, <2>2
  <2> QED BY <2>1, <2>2 DEF Outlived
<1> QED BY <1>1, <1>3, <1>4, <1>5 DEF Outlived

\* A sighting without a blur keeps every witness, or leaves a later one.
LEMMA SightingRecalls ==
    ASSUME Typed, Clocked, Remembering, Recalled, NEW m \in Message, RecordSighting(m)
    PROVE  Recalled'
<1> DEFINE alive == Alive(base[m], startedAt[m])
           next == Sighted(alive, m)
<1> SUFFICES ASSUME ~blurred', NEW n \in Message, passedAt'[n] # Never
             PROVE  Witnessed(n)' \/ Outlived(passedAt[n])'
  BY DEF Recalled
<1>1. /\ ~blurred /\ suppression = base[m] /\ suppression' = next
      /\ \A r \in suppression : r.lastSeen <= startedAt[m]
      /\ \A r \in Matches(suppression, what[m].km) : r.km = what[m].km
      /\ alive \subseteq Incident /\ suppression \subseteq Incident
  BY RecordingIs
<1>2. /\ \E r \in next : r.km = what[m].km /\ r.lastSeen = startedAt[m]
      /\ \A r \in alive : r \in next \/ Near(r.km, what[m].km)
  BY <1>1, SightedIs
<1>3. PICK seen \in suppression' : seen.km = what[m].km /\ seen.lastSeen = startedAt[m]
  BY <1>1, <1>2
<1>4. /\ UNCHANGED <<now, what>>
      /\ \/ passedAt' = passedAt
         \/ passedAt' = [passedAt EXCEPT ![m] = startedAt[m]]
      /\ startedAt' = [startedAt EXCEPT ![m] = 0]
      /\ delivery[m] = "recording"
      /\ \E s \in {"delivering", "done"} : delivery' = [delivery EXCEPT ![m] = s]
  BY DEF RecordSighting, Open, GoTo, Forget
<1>5. passedAt[n] \in Int /\ Window \in Nat /\ now \in Nat /\ startedAt[m] \in Nat
  BY BroadcastBounds DEF Remembering, Clocked, Never
<1>6. CASE passedAt'[n] # passedAt[n]
  <2>1. n = m /\ passedAt'[n] = startedAt[m]
    BY <1>4, <1>6 DEF Remembering
  <2> QED BY <1>3, <1>4, <1>5, <2>1 DEF Witnessed
<1>7. CASE passedAt'[n] = passedAt[n]
  <2>1. CASE Witnessed(n)
    <3>1. PICK r \in suppression : r.km = what[n].km /\ r.lastSeen >= passedAt[n]
      BY <2>1 DEF Witnessed
    <3>2. r.lastSeen \in Nat /\ r.lastSeen <= startedAt[m]
      BY <1>1, BroadcastBounds DEF Incident
    <3>3. CASE r \in suppression'
      BY <1>4, <1>7, <3>1, <3>3 DEF Witnessed
    <3>4. CASE r \notin suppression' /\ r \in alive
      <4>1. r.km = what[m].km
        BY <1>1, <1>2, <3>4 DEF Matches
      <4>2. seen.km = what[n].km /\ seen.lastSeen >= passedAt[n]
        BY <1>3, <1>5, <3>1, <3>2, <4>1
      <4> QED BY <1>4, <1>7, <4>2 DEF Witnessed
    <3>5. CASE r \notin alive
      <4>1. ~(startedAt[m] - r.lastSeen < Window)
        BY <1>1, <3>5 DEF Alive
      <4>2. seen.lastSeen >= passedAt[n] + Window
        BY <1>3, <1>5, <3>1, <3>2, <4>1
      <4> QED BY <1>7, <4>2 DEF Outlived
    <3> QED BY <3>3, <3>4, <3>5
  <2>2. CASE \E r \in suppression : r.lastSeen >= passedAt[n] + Window
    <3>1. PICK r \in suppression : r.lastSeen >= passedAt[n] + Window
      BY <2>2
    <3>2. r.lastSeen \in Nat /\ r.lastSeen <= startedAt[m]
      BY <1>1, BroadcastBounds DEF Incident
    <3>3. seen.lastSeen >= passedAt[n] + Window
      BY <1>3, <1>5, <3>1, <3>2
    <3> QED BY <1>7, <3>3 DEF Outlived
  <2>3. CASE /\ now >= passedAt[n] + Window
             /\ \A p \in Message : InWindow(p) => startedAt[p] >= passedAt[n] + Window
    <3>1. \A p \in Message : InWindow(p)' => InWindow(p) /\ startedAt'[p] = startedAt[p]
      BY <1>4 DEF InWindow, Typed, Clocked
    <3> QED BY <1>4, <1>7, <2>3, <3>1 DEF Outlived
  <2>4. Witnessed(n) \/ Outlived(passedAt[n])
    BY <1>1, <1>7 DEF Recalled
  <2> QED BY <2>1, <2>2, <2>3, <2>4 DEF Outlived
<1> QED BY <1>6, <1>7

\* What a cron run drops without a blur is older than any window still open.
LEMMA ExpiryRecalls ==
    ASSUME Typed, Clocked, Remembering, Recalled, ClockRuns, CronExpires
    PROVE  Recalled'
<1> SUFFICES ASSUME ~blurred', NEW n \in Message, passedAt'[n] # Never
             PROVE  Witnessed(n)' \/ Outlived(passedAt[n])'
  BY DEF Recalled
<1>1. /\ UNCHANGED <<now, what, delivery, startedAt, passedAt>>
      /\ ~blurred
      /\ suppression' # suppression => suppression' = Unexpired /\ ~CronBlurs
  BY DEF CronExpires, consumers, Remembering
<1>2. /\ passedAt[n] \in Int /\ now \in Nat /\ cronAt \in Nat /\ cronAt <= now
      /\ Window \in Nat /\ CronWindow \in Nat /\ Window <= CronWindow
      /\ \A m \in Message : startedAt[m] \in Nat
  BY BroadcastBounds DEF Remembering, Clocked, Never, ClockRuns
<1>3. ASSUME NEW r \in suppression, r \notin suppression'
      PROVE  /\ r.lastSeen \in Nat
             /\ cronAt >= r.lastSeen + Window
             /\ \A m \in Message : InWindow(m) => startedAt[m] >= cronAt
  <2>1. suppression' = Unexpired /\ ~CronBlurs
    BY <1>1, <1>3
  <2>2. r \in Incident /\ r \in cronBase
    BY <2>1 DEF CronBlurs, Remembering
  <2>3. r.lastSeen \in Nat
    BY <2>2, BroadcastBounds DEF Incident
  <2>4. ~(cronAt - r.lastSeen < CronWindow)
    BY <1>3, <2>1, <2>2 DEF Unexpired
  <2>5. cronAt >= r.lastSeen + Window
    BY <1>2, <2>3, <2>4
  <2>6. \A m \in Message : InWindow(m) => startedAt[m] >= cronAt
    BY <1>2, <2>1 DEF CronBlurs, InWindow
  <2> QED BY <2>3, <2>5, <2>6
<1>4. ASSUME NEW t \in Int, NEW r \in suppression, r.lastSeen >= t, r \notin suppression'
      PROVE  Outlived(t)'
  <2>1. cronAt >= t + Window
    BY <1>2, <1>3, <1>4
  <2>2. now' >= t + Window
    BY <1>1, <1>2, <2>1
  <2>3. ASSUME NEW m \in Message, InWindow(m)' PROVE startedAt'[m] >= t + Window
    <3>1. startedAt[m] >= cronAt
      BY <1>1, <1>3, <1>4, <2>3 DEF InWindow
    <3> QED BY <1>1, <1>2, <2>1, <3>1
  <2> QED BY <2>2, <2>3 DEF Outlived
<1>5. CASE Witnessed(n)
  <2>1. PICK r \in suppression : r.km = what[n].km /\ r.lastSeen >= passedAt[n]
    BY <1>5 DEF Witnessed
  <2>2. CASE r \in suppression'
    BY <1>1, <2>1, <2>2 DEF Witnessed
  <2>3. CASE r \notin suppression'
    BY <1>1, <1>2, <1>4, <2>1, <2>3
  <2> QED BY <2>2, <2>3
<1>6. CASE \E r \in suppression : r.lastSeen >= passedAt[n] + Window
  <2>1. PICK r \in suppression : r.lastSeen >= passedAt[n] + Window
    BY <1>6
  <2>2. CASE r \in suppression'
    BY <1>1, <2>1, <2>2 DEF Outlived
  <2>3. CASE r \notin suppression'
    <3>1. r.lastSeen \in Nat
      BY <1>3, <2>3
    <3>2. r.lastSeen >= passedAt[n]
      BY <1>2, <2>1, <3>1
    <3>3. Outlived(passedAt[n])'
      BY <1>1, <1>2, <1>4, <2>3, <3>2
    <3> QED BY <3>3
  <2> QED BY <2>2, <2>3
<1>7. CASE /\ now >= passedAt[n] + Window
           /\ \A m \in Message : InWindow(m) => startedAt[m] >= passedAt[n] + Window
  BY <1>1, <1>7 DEF Outlived, InWindow
<1>8. Witnessed(n) \/ Outlived(passedAt[n])
  BY <1>1 DEF Recalled
<1> QED BY <1>5, <1>6, <1>7, <1>8 DEF Outlived

LEMMA RecalledStep ==
    ASSUME Typed, Clocked, Remembering, Recalled, ClockRuns, [Next]_vars
    PROVE  Recalled'
<1>1. now \in Nat /\ MaxTime \in Nat
  BY BroadcastBounds DEF Clocked
<1>2. ASSUME NEW m \in Message, Work(m) PROVE Recalled'
  <2>1. CASE Start(m)
    <3>1. /\ UNCHANGED <<what, suppression, passedAt, blurred>>
          /\ now' \in Nat /\ now' >= now
      BY <1>1, <2>1 DEF Start, incidents
    <3>2. \A n \in Message : n # m => InWindow(n)' = InWindow(n) /\ startedAt'[n] = startedAt[n]
      BY <2>1 DEF Start, GoTo, Open, InWindow, Typed, Clocked
    <3>3. InWindow(m)' => startedAt'[m] = now'
      BY <2>1 DEF Start, GoTo, Open, InWindow, Typed, Clocked
    <3> QED BY <3>1, <3>2, <3>3, ClockAlone
  <2>2. CASE GateCloses(m) \/ ReadSuppression(m) \/ Finish(m) \/ Die(m)
    <3>1. UNCHANGED <<now, what, suppression, passedAt, blurred>>
      BY <2>2 DEF GateCloses, ReadSuppression, Finish, Die, incidents
    <3>2. \A n \in Message : InWindow(n)' => InWindow(n) /\ startedAt'[n] = startedAt[n]
      BY <2>2 DEF GateCloses, ReadSuppression, Finish, Die, GoTo, Forget, InWindow, Typed, Clocked
    <3> QED BY <1>1, <3>1, <3>2, ClockAlone
  <2>3. CASE SuppressionUnreadable(m)
    BY <2>3 DEF SuppressionUnreadable, Recalled
  <2>4. CASE RecordSighting(m)
    BY <2>4, SightingRecalls
  <2>5. CASE \E c \in Channel : Deliver(m, c)
    <3>1. UNCHANGED <<now, consumers, incidents>>
      BY <2>5, DeliverLeaves
    <3> QED BY <1>1, <3>1, ClockAlone DEF consumers, incidents, InWindow
  <2> QED BY <1>2, <2>1, <2>2, <2>3, <2>4, <2>5 DEF Work, Consumer
<1>3. CASE CronReadsMarks
  <2>1. UNCHANGED <<consumers, incidents>> /\ now' \in Nat /\ now' >= now
    BY <1>1, <1>3 DEF CronReadsMarks
  <2> QED BY <2>1, ClockAlone DEF consumers, incidents, InWindow
<1>4. CASE CronExpires
  BY <1>4, ExpiryRecalls
<1>5. CASE CronReadsSuppression \/ CronPrunes \/ UNCHANGED vars
  <2>1. UNCHANGED <<now, consumers, incidents>>
    BY <1>5 DEF CronReadsSuppression, CronPrunes, vars
  <2> QED BY <1>1, <2>1, ClockAlone DEF consumers, incidents, InWindow
<1> QED BY <1>2, <1>3, <1>4, <1>5 DEF Next, Cron

\* The cron run's clock is one that the consumers have seen.
LEMMA ClockRunsStep ==
    ASSUME Clocked, ClockRuns, [Next]_vars
    PROVE  ClockRuns'
<1>1. now \in Nat /\ cronAt \in Nat /\ MaxTime \in Nat
  BY BroadcastBounds DEF Clocked
<1>2. ASSUME NEW m \in Message, Work(m) PROVE ClockRuns'
  <2>1. cronAt' = cronAt
    BY <1>2 DEF Work, cronRun
  <2>2. now' \in Nat /\ now' >= now
    <3>1. CASE Start(m)
      BY <1>1, <3>1 DEF Start
    <3>2. CASE \/ GateCloses(m) \/ ReadSuppression(m) \/ SuppressionUnreadable(m)
               \/ RecordSighting(m) \/ Finish(m) \/ Die(m)
      BY <1>1, <3>2 DEF GateCloses, ReadSuppression, SuppressionUnreadable, RecordSighting,
                        Finish, Die
    <3>3. CASE \E c \in Channel : Deliver(m, c)
      BY <1>1, <3>3, DeliverLeaves
    <3> QED BY <1>2, <3>1, <3>2, <3>3 DEF Work, Consumer
  <2> QED BY <1>1, <2>1, <2>2 DEF ClockRuns
<1>3. CASE CronReadsMarks
  BY <1>1, <1>3 DEF CronReadsMarks, ClockRuns
<1>4. CASE CronReadsSuppression \/ CronPrunes
  BY <1>4 DEF CronReadsSuppression, CronPrunes, ClockRuns
<1>5. CASE CronExpires
  BY <1>1, <1>5 DEF CronExpires, ClockRuns
<1>6. CASE UNCHANGED vars
  BY <1>6 DEF vars, cronRun, ClockRuns
<1> QED BY <1>2, <1>3, <1>4, <1>5, <1>6 DEF Next, Cron

\* An incident let through in the open window of another would have found its record.
LEMMA NewIncident ==
    ASSUME Typed, Clocked, Remembering, Recalled, NEW m \in Message, RecordSighting(m),
           ~blurred', passedAt' # passedAt,
           NEW n \in Message, n # m, passedAt[n] # Never, Near(what[n].km, what[m].km)
    PROVE  passedAt'[m] = startedAt[m] /\ startedAt[m] >= passedAt[n] + Window
<1> DEFINE alive == Alive(base[m], startedAt[m])
<1>1. /\ ~blurred /\ suppression = base[m]
      /\ \A r \in suppression : r.lastSeen <= startedAt[m]
      /\ alive \subseteq Incident /\ suppression \subseteq Incident
  BY RecordingIs
<1>2. /\ Suppressing(alive, m) = {}
      /\ passedAt' = [passedAt EXCEPT ![m] = startedAt[m]]
      /\ delivery[m] = "recording"
  BY DEF RecordSighting
<1>3. passedAt[n] \in Int /\ Window \in Nat /\ startedAt[m] \in Nat
  BY BroadcastBounds DEF Remembering, Clocked, Never
<1>4. passedAt'[m] = startedAt[m]
  BY <1>2 DEF Remembering
<1>5. Matches(alive, what[m].km) = {}
  BY <1>1, <1>2, SightedIs
<1>6. CASE Witnessed(n)
  <2>1. PICK r \in suppression : r.km = what[n].km /\ r.lastSeen >= passedAt[n]
    BY <1>6 DEF Witnessed
  <2>2. r \notin alive
    BY <1>5, <2>1 DEF Matches
  <2>3. ~(startedAt[m] - r.lastSeen < Window) /\ r.lastSeen \in Nat
    BY <1>1, <2>2, BroadcastBounds DEF Alive, Incident
  <2> QED BY <1>3, <1>4, <2>1, <2>3
<1>7. CASE \E r \in suppression : r.lastSeen >= passedAt[n] + Window
  <2>1. PICK r \in suppression : r.lastSeen >= passedAt[n] + Window
    BY <1>7
  <2>2. r.lastSeen \in Nat /\ r.lastSeen <= startedAt[m]
    BY <1>1, BroadcastBounds DEF Incident
  <2> QED BY <1>3, <1>4, <2>1, <2>2
<1>8. CASE \A p \in Message : InWindow(p) => startedAt[p] >= passedAt[n] + Window
  BY <1>2, <1>4, <1>8 DEF InWindow
<1>9. Witnessed(n) \/ Outlived(passedAt[n])
  BY <1>1 DEF Recalled
<1> QED BY <1>6, <1>7, <1>8, <1>9 DEF Outlived

LEMMA SuppressedStep ==
    ASSUME Typed, Clocked, Remembering, Recalled, DuplicatesSuppressed, [Next]_vars
    PROVE  DuplicatesSuppressed'
<1>1. CASE UNCHANGED <<what, passedAt>> /\ (blurred => blurred')
  BY <1>1 DEF DuplicatesSuppressed
<1>2. ASSUME NEW m \in Message, RecordSighting(m), passedAt' # passedAt
      PROVE  DuplicatesSuppressed'
  <2> SUFFICES ASSUME ~blurred', NEW p \in Message, NEW q \in Message, p # q,
                      passedAt'[p] # Never, passedAt'[q] # Never,
                      what'[p].kind = "accident", what'[q].kind = "accident",
                      Near(what'[p].km, what'[q].km),
                      passedAt'[p] - passedAt'[q] \in 0..(Window - 1)
               PROVE  FALSE
    BY DEF DuplicatesSuppressed
  <2>1. /\ what' = what /\ ~blurred
        /\ passedAt' = [passedAt EXCEPT ![m] = startedAt[m]]
    BY <1>2, RecordingIs DEF RecordSighting
  <2>2. /\ \A n \in Message : n # m => passedAt'[n] = passedAt[n]
        /\ \A n \in Message : passedAt[n] \in Int
        /\ startedAt[m] \in Nat /\ Window \in Nat
    BY <2>1, BroadcastBounds DEF Remembering, Clocked, Never
  <2>3. CASE p = m
    <3>1. passedAt'[p] = startedAt[m] /\ startedAt[m] >= passedAt[q] + Window
      BY <1>2, <2>1, <2>2, <2>3, NewIncident DEF Near
    <3> QED BY <2>2, <2>3, <3>1
  <2>4. CASE q = m
    <3>1. passedAt'[q] = startedAt[m] /\ startedAt[m] >= passedAt[p] + Window
      BY <1>2, <2>1, <2>2, <2>4, NewIncident
    <3> QED BY <2>2, <2>4, <3>1
  <2>5. CASE p # m /\ q # m
    BY <2>1, <2>2, <2>5 DEF DuplicatesSuppressed
  <2> QED BY <2>3, <2>4, <2>5
<1>3. ASSUME NEW m \in Message, Work(m) PROVE DuplicatesSuppressed'
  <2>1. CASE Start(m) \/ GateCloses(m) \/ ReadSuppression(m) \/ Finish(m) \/ Die(m)
    BY <1>1, <2>1 DEF Start, GateCloses, ReadSuppression, Finish, Die, incidents
  <2>2. CASE SuppressionUnreadable(m)
    BY <2>2 DEF SuppressionUnreadable, DuplicatesSuppressed
  <2>3. CASE RecordSighting(m)
    <3>1. what' = what /\ (blurred => blurred')
      BY <2>3 DEF RecordSighting
    <3> QED BY <1>1, <1>2, <2>3, <3>1
  <2>4. CASE \E c \in Channel : Deliver(m, c)
    BY <1>1, <2>4, DeliverLeaves DEF consumers, incidents
  <2> QED BY <1>3, <2>1, <2>2, <2>3, <2>4 DEF Work, Consumer
<1>4. CASE Cron \/ UNCHANGED vars
  <2>1. UNCHANGED <<what, passedAt>> /\ (blurred => blurred')
    <3>1. CASE CronExpires
      BY <3>1 DEF CronExpires, CronBlurs, consumers, Remembering
    <3>2. CASE CronReadsMarks \/ CronReadsSuppression \/ CronPrunes \/ UNCHANGED vars
      BY <3>2 DEF CronReadsMarks, CronReadsSuppression, CronPrunes, vars, consumers, incidents
    <3> QED BY <1>4, <3>1, <3>2 DEF Cron
  <2> QED BY <1>1, <2>1
<1> QED BY <1>3, <1>4 DEF Next

-----------------------------------------------------------------------------
(* Theorems. *)

FullInv == IInv /\ CronTruth

LEMMA StepKeeps == FullInv /\ [Next]_vars => FullInv'
<1> SUFFICES ASSUME IInv, CronTruth, [Next]_vars PROVE IInv' /\ CronTruth'
  BY DEF FullInv
<1>1. ASSUME NEW m \in Message, Work(m) PROVE IInv' /\ CronTruth'
  <2>1. told \subseteq told' /\ cronCopy' = cronCopy
    BY <1>1, ToldGrows DEF Work, cronRun
  <2>2. CronTruth'
    BY <2>1 DEF CronTruth
  <2> QED BY <1>1, <2>2, WorkKeeps
<1>2. CASE Cron
  BY <1>2, CronKeeps
<1>3. CASE UNCHANGED vars
  <2>1. UNCHANGED <<what, delivery, tasks, marks, cronCopy>>
    BY <1>3 DEF vars, consumers, cronRun
  <2>2. CronTruth'
    BY <2>1 DEF CronTruth, marks
  <2> QED BY <2>1, <2>2, Unmoved
<1> QED BY <1>1, <1>2, <1>3 DEF Next

LEMMA Invariance == Spec => []IInv
<1>1. Init => FullInv
  <2>1. Init => CronTruth
    BY NoMarksTyped DEF Init, CronTruth, NoMarks
  <2> QED BY <2>1, Initially DEF FullInv
<1>2. FullInv => IInv
  BY DEF FullInv
<1> QED BY <1>1, <1>2, StepKeeps, PTL DEF Spec

\* A mark is never false, however consumers write over each other's blobs: a
\* target marked as notified of a content was pushed that content.
THEOREM MarksAreTrue == Spec => []MarkedWasTold
<1>1. IInv => MarkedWasTold
  BY DEF IInv, Truth
<1> QED BY <1>1, Invariance, PTL

\* Nobody is told the same content twice in a row unless its mark is in doubt
\* (a failed answer or write, a dead consumer, a blob written over, a rival).
THEOREM RepeatsHaveACause == Spec => []RepeatsAreInDoubt
<1>1. IInv => RepeatsAreInDoubt
  BY DEF IInv, Excused
<1> QED BY <1>1, Invariance, PTL

\* Nobody who last heard something else is skipped, with the same exceptions.
THEOREM SkippedAreUpToDate == Spec => []WithheldOnlyInDoubt
<1>1. IInv => WithheldOnlyInDoubt
  BY DEF IInv, Excused
<1> QED BY <1>1, Invariance, PTL

\* Outside of doubt, and of the moment between push and write, the marks say
\* what every target was told last.
THEOREM MarksKeepInStep == Spec => []MarksInStep
<1>1. IInv => MarksInStep
  <2> SUFFICES ASSUME IInv, NEW c \in Channel, NEW k \in Key, NEW x \in TargetsOf(c)
               PROVE  \/ <<k, x>> \in doubts
                      \/ \E m \in Message : KeyOf(m) = k /\ x \in sent[m][c]
                      \/ notified[c][k][x] = lastTold[k][x]
    BY DEF MarksInStep
  <2>1. x \in Target
    BY OneChannel
  <2> QED BY <2>1 DEF IInv, InStep, Unmarked
<1> QED BY <1>1, Invariance, PTL

\* All of the invariant, with the types of what the marks do not depend on.
Inv ==
    /\ FullInv /\ Clocked /\ Remembering /\ Happened /\ Serving
    /\ Recalled /\ ClockRuns /\ DuplicatesSuppressed

LEMMA WholeInvariance == Spec => []Inv
<1>1. Init => Clocked /\ Remembering /\ Happened /\ Serving
  <2> SUFFICES ASSUME Init PROVE Clocked /\ Remembering /\ Happened /\ Serving
    OBVIOUS
  <2>1. Clocked
    BY BroadcastBounds DEF Init, Clocked
  <2>2. Remembering
    BY BroadcastBounds DEF Init, Remembering
  <2>3. Happened /\ Serving
    BY DEF Init, Happened, Serving
  <2> QED BY <2>1, <2>2, <2>3
<1>2. Init => Recalled /\ ClockRuns /\ DuplicatesSuppressed
  BY DEF Init, Recalled, ClockRuns, DuplicatesSuppressed
<1>3. Init => FullInv
  <2>1. Init => CronTruth
    BY NoMarksTyped DEF Init, CronTruth, NoMarks
  <2> QED BY <2>1, Initially DEF FullInv
<1>4. Inv /\ [Next]_vars => Inv'
  <2> SUFFICES ASSUME Inv, [Next]_vars PROVE Inv'
    OBVIOUS
  <2>1. FullInv' /\ IInv /\ Typed
    BY StepKeeps DEF Inv, FullInv, IInv
  <2>2. Clocked' /\ Remembering' /\ ClockRuns'
    BY <2>1, ClockedStep, RememberingStep, ClockRunsStep DEF Inv
  <2>3. Happened' /\ Serving'
    BY <2>1, HappenedStep, ServingStep DEF Inv
  <2>4. Recalled' /\ DuplicatesSuppressed'
    BY <2>1, RecalledStep, SuppressedStep DEF Inv
  <2> QED BY <2>1, <2>2, <2>3, <2>4 DEF Inv
<1> QED BY <1>1, <1>2, <1>3, <1>4, PTL DEF Spec, Inv

\* Every variable keeps its type, and tasks run only while their delivery does.
THEOREM TypeCorrect == Spec => []TypeOK
<1>1. Inv => TypeOK
  BY DEF Inv, FullInv, IInv, CronTruth, Typed, Stage, Place, Clocked, Remembering, Happened,
         Serving, TypeOK
<1> QED BY <1>1, WholeInvariance, PTL

\* Two reports of one accident within the collision window are never both let
\* through, unless the suppression blob was written over, written by a later
\* clock, failed, or had a record moved to another kilometre.
THEOREM DuplicatesAreSuppressed == Spec => []DuplicatesSuppressed
<1>1. Inv => DuplicatesSuppressed
  BY DEF Inv
<1> QED BY <1>1, WholeInvariance, PTL

=============================================================================
