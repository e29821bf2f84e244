-------------------------- MODULE TdxDedupe_proofs --------------------------
(***************************************************************************)
(* Proofs about TdxDedupe.  RepeatsHaveACause is not inductive: it rests   *)
(* on where the run is (Stages), on the absence clock never being ahead of *)
(* what healthy payloads have shown (Clocks), and on every difference      *)
(* between what was enqueued and what is remembered or fetched having a    *)
(* cause (Causes).                                                         *)
(***************************************************************************)
EXTENDS TdxDedupe, TLAPS

\* How the stage of the run, the baseline and the list of sends belong together.
Stages ==
    /\ run = "seeding" => ~baseline /\ seen = payload
    /\ ~baseline => due = {} /\ known = Nowhere /\ absence = Stopped
    /\ \A e \in due : /\ payload[e] # NoContent
                      /\ seen[e] = payload[e]
                      /\ absence[e] = NoClock

\* What a run found when it looked.
Lacked(e) == run = "fetched" /\ ~Found(e) /\ Healthy(e)

Clocks ==
    /\ \A e \in Event :
           absence[e] # NoClock => \/ e \in cause
                                   \/ missed[e] # NoClock /\ absence[e] <= missed[e]
                                   \/ run = "fetched" /\ Found(e)
    /\ \A e \in Event : Lacked(e) => missed[e] # NoClock
    /\ \A e \in Event : Lacked(e) /\ absence[e] = Grace => e \in cause

Causes ==
    /\ baseline => \A e \in Event :
                       seen[e] # known[e] /\ known[e] # NoContent => e \in cause
    /\ run = "fetched" => \A e \in Event : payload[e] \notin {NoContent, known[e]} => e \in cause
    /\ RepeatsHaveACause

IndInv == TypeOK /\ Stages /\ Clocks /\ Causes /\ NothingLostSilently

-----------------------------------------------------------------------------

\* The cut-off keeps ages in range, never stops or starts a clock, and keeps order.
LEMMA OlderFacts ==
    ASSUME NEW x \in Age, NEW d \in Nat
    PROVE  /\ Older(x, d) \in Age
           /\ Older(x, d) = NoClock <=> x = NoClock
           /\ \A y \in Age : x <= y => Older(x, d) <= Older(y, d)
<1> USE DedupeAssumption DEF Age, NoClock
<1>1. CASE x = NoClock
  <2>1. Older(x, d) = NoClock
    BY <1>1 DEF Older
  <2>2. \A y \in Age : Older(y, d) >= NoClock
    BY DEF Older
  <2> QED
    BY <1>1, <2>1, <2>2
<1>2. CASE x # NoClock /\ x + d >= Grace
  <2>1. Older(x, d) = Grace
    BY <1>2 DEF Older
  <2>2. \A y \in Age : x <= y => Older(y, d) = Grace
    BY <1>2 DEF Older
  <2> QED
    BY <1>2, <2>1, <2>2
<1>3. CASE x # NoClock /\ x + d < Grace
  <2>1. Older(x, d) = x + d
    BY <1>3 DEF Older
  <2>2. \A y \in Age : x <= y => Older(y, d) >= x + d
    BY <1>3 DEF Older
  <2> QED
    BY <1>3, <2>1, <2>2
<1> QED
  BY <1>1, <1>2, <1>3

\* Every stage and every record keeps its type.
LEMMA TypeStep == ASSUME TypeOK, [Next]_vars PROVE TypeOK'
<1> USE DedupeAssumption
<1>1. ASSUME NEW ok \in SUBSET Source, NEW d \in Pause, Fetch(ok, d) PROVE TypeOK'
  <2>1. d \in Nat
    OBVIOUS
  <2>2. \A x \in Age : Older(x, d) \in Age
    BY <2>1, OlderFacts
  <2>3. absence' \in [Event -> Age] /\ missed' \in [Event -> Age]
    BY <1>1, <2>2 DEF TypeOK, Fetch, Age, NoClock
  <2>4. payload' \in View
    BY <1>1 DEF TypeOK, Fetch, View
  <2> QED
    BY <1>1, <2>3, <2>4 DEF TypeOK, Fetch
<1>2. Recorded => seen' \in View /\ absence' \in [Event -> Age]
  BY DEF TypeOK, Recorded, NextSeen, NextAbsence, Found, View, Age, NoClock
<1>3. CASE ReadFails
  BY <1>3 DEF TypeOK, ReadFails, EndRun, state, Nowhere, View, Unrecorded
<1>4. CASE SeedBaseline
  BY <1>4 DEF TypeOK, SeedBaseline, history, Stopped, Age, NoClock
<1>5. CASE MarkBaseline
  BY <1>5 DEF TypeOK, MarkBaseline, EndRun, Nowhere, View
<1>6. CASE MarkFails
  BY <1>6 DEF TypeOK, MarkFails, EndRun, state, history, Nowhere, View
<1>7. CASE Commit
  <2>1. \A e \in Enqueued : payload[e] \in Content \ Excluded
    BY DEF TypeOK, Enqueued, Pushable, IsNew, IsUpdated, Found, View
  <2>2. CASE Enqueued = {}
    BY <1>7, <1>2, <2>2 DEF TypeOK, Commit, EndRun, Enqueued, Pushable, Nowhere, View
  <2>3. CASE Enqueued # {}
    <3>1. due' = Enqueued /\ run' = "sending" /\ UNCHANGED payload
      BY <1>7, <2>3 DEF Commit
    <3>2. \A e \in due' : payload'[e] \in Content \ Excluded
      BY <2>1, <3>1
    <3> QED
      BY <1>7, <1>2, <2>3, <3>1, <3>2 DEF TypeOK, Commit, Enqueued, Pushable
  <2> QED
    BY <2>2, <2>3
<1>8. CASE CommitFails
  BY <1>8, <1>2 DEF TypeOK, CommitFails, EndRun, Pushable, Nowhere, View, Unrecorded
<1>9. ASSUME NEW e \in Event, Send(e) PROVE TypeOK'
  BY <1>9 DEF TypeOK, Send, AfterSend, EndRun, state, Nowhere, View
<1>10. ASSUME NEW e \in Event, SendFails(e) PROVE TypeOK'
  BY <1>10 DEF TypeOK, SendFails, AfterSend, EndRun, state, Nowhere, View
<1>11. CASE Die
  BY <1>11 DEF TypeOK, Die, EndRun, state, Nowhere, View, Unrecorded
<1>12. ASSUME NEW e \in Event, UpstreamChanges(e) PROVE TypeOK'
  BY <1>12 DEF TypeOK, UpstreamChanges, state, history, View, Content
<1>13. CASE UNCHANGED vars
  BY <1>13 DEF TypeOK, vars, state, history
<1> QED
  BY <1>1, <1>3, <1>4, <1>5, <1>6, <1>7, <1>8, <1>9, <1>10, <1>11, <1>12, <1>13
  DEF Next, RunStep

\* The stages stay in order.
LEMMA StagesStep == ASSUME TypeOK, Stages, [Next]_vars PROVE Stages'
<1>1. ASSUME NEW ok \in SUBSET Source, NEW d \in Pause, Fetch(ok, d) PROVE Stages'
  <2>1. due = {}
    BY <1>1 DEF TypeOK, Fetch
  <2>2. ~baseline => absence' = Stopped
    <3>1. Older(NoClock, d) = NoClock
      BY DEF Older
    <3> QED
      BY <1>1, <3>1 DEF Stages, Fetch, Stopped
  <2> QED
    BY <1>1, <2>1, <2>2 DEF Stages, Fetch
<1>2. CASE ReadFails
  BY <1>2 DEF Stages, ReadFails, EndRun, state
<1>3. CASE SeedBaseline
  BY <1>3 DEF Stages, SeedBaseline, history
<1>4. CASE MarkBaseline
  BY <1>4 DEF Stages, MarkBaseline, EndRun
<1>5. CASE MarkFails
  BY <1>5 DEF Stages, MarkFails, EndRun, state, history
<1>6. CASE Commit
  <2>1. \A e \in Enqueued : /\ payload[e] # NoContent
                            /\ seen'[e] = payload[e]
                            /\ absence'[e] = NoClock
    BY <1>6 DEF Commit, Recorded, NextSeen, NextAbsence, Enqueued, Pushable,
                IsNew, IsUpdated, Found
  <2> QED
    BY <1>6, <2>1 DEF Stages, Commit, EndRun
<1>7. CASE CommitFails
  BY <1>7 DEF Stages, CommitFails, EndRun
<1>8. ASSUME NEW e \in Event, Send(e) PROVE Stages'
  BY <1>8 DEF Stages, Send, AfterSend, EndRun, state
<1>9. ASSUME NEW e \in Event, SendFails(e) PROVE Stages'
  BY <1>9 DEF Stages, SendFails, AfterSend, EndRun, state
<1>10. CASE Die
  BY <1>10 DEF Stages, Die, EndRun, state
<1>11. ASSUME NEW e \in Event, UpstreamChanges(e) PROVE Stages'
  BY <1>11 DEF Stages, UpstreamChanges, state, history
<1>12. CASE UNCHANGED vars
  BY <1>12 DEF Stages, vars, state, history
<1> QED
  BY <1>1, <1>2, <1>3, <1>4, <1>5, <1>6, <1>7, <1>8, <1>9, <1>10, <1>11, <1>12
  DEF Next, RunStep

\* The stored clock never runs ahead of what healthy payloads have shown.
LEMMA ClocksStep == ASSUME TypeOK, Stages, Clocks, [Next]_vars PROVE Clocks'
<1> USE DedupeAssumption
<1>1. ASSUME NEW ok \in SUBSET Source, NEW d \in Pause, Fetch(ok, d) PROVE Clocks'
  <2> DEFINE lacking(e) == SourceOf[e] \in ok /\ upstream[e] = NoContent
  <2>1. \A x \in Age : /\ Older(x, d) \in Age
                       /\ Older(x, d) = NoClock <=> x = NoClock
                       /\ \A y \in Age : x <= y => Older(x, d) <= Older(y, d)
    BY OlderFacts
  <2>2. run = "idle" /\ run' = "fetched"
    BY <1>1 DEF Fetch
  <2>3. ASSUME NEW e \in Event
        PROVE  /\ Found(e)' \/ lacking(e) \/ SourceOf[e] \notin ok
               /\ Lacked(e)' => lacking(e)
               /\ ~Found(e)' => missed'[e] = IF lacking(e) /\ missed[e] = NoClock
                                               THEN 0 ELSE Older(missed[e], d)
               /\ absence'[e] = Older(absence[e], d)
               /\ lacking(e) /\ Older(missed[e], d) = Grace => e \in cause'
               /\ e \in cause => e \in cause'
               /\ absence[e] \in Age /\ missed[e] \in Age
    BY <1>1 DEF TypeOK, Fetch, Found, Lacked, Healthy
  <2> HIDE DEF lacking
  <2>4. ASSUME NEW e \in Event, absence'[e] # NoClock, ~Found(e)', e \notin cause
        PROVE  /\ missed'[e] = Older(missed[e], d)
               /\ missed'[e] # NoClock /\ absence'[e] <= missed'[e]
    <3>1. absence[e] # NoClock
      BY <2>1, <2>3, <2>4
    <3>2. missed[e] # NoClock /\ absence[e] <= missed[e]
      BY <2>2, <2>4, <3>1 DEF Clocks
    <3> QED
      BY <2>1, <2>3, <2>4, <3>2
  <2>5. ASSUME NEW e \in Event, Lacked(e)' PROVE missed'[e] # NoClock
    BY <2>1, <2>3, <2>5 DEF NoClock, Lacked
  <2>6. ASSUME NEW e \in Event, Lacked(e)', absence'[e] = Grace PROVE e \in cause'
    <3>1. lacking(e) /\ ~Found(e)'
      BY <2>3, <2>6 DEF Lacked
    <3>2. absence'[e] # NoClock
      BY <2>6 DEF NoClock
    <3>3. CASE e \in cause
      BY <2>3, <3>3
    <3>4. CASE e \notin cause
      <4>1. Grace <= Older(missed[e], d) /\ Older(missed[e], d) \in Age
        BY <2>1, <2>3, <2>4, <2>6, <3>1, <3>2, <3>4
      <4>2. Older(missed[e], d) = Grace
        BY <4>1 DEF Age, NoClock
      <4> QED
        BY <2>3, <3>1, <4>2
    <3> QED
      BY <3>3, <3>4
  <2> QED
    BY <2>2, <2>3, <2>4, <2>5, <2>6 DEF Clocks
<1>2. CASE ReadFails
  BY <1>2 DEF Clocks, ReadFails, EndRun, state, Unrecorded, Lacked
<1>3. CASE SeedBaseline
  BY <1>3 DEF Clocks, SeedBaseline, history, Stopped, Lacked
<1>4. CASE MarkBaseline
  BY <1>4 DEF Clocks, Stages, MarkBaseline, EndRun, Stopped, Lacked
<1>5. CASE MarkFails
  BY <1>5 DEF Clocks, MarkFails, EndRun, state, history, Lacked
<1>6. ASSUME Recorded, run = "fetched", UNCHANGED <<missed, cause>>, run' # "fetched"
      PROVE  Clocks'
  <2>1. ASSUME NEW e \in Event, absence'[e] # NoClock
        PROVE  e \in cause' \/ (missed'[e] # NoClock /\ absence'[e] <= missed'[e])
    <3>1. CASE IsMissing(e) /\ absence[e] = NoClock
      <4>1. absence'[e] = 0 /\ missed[e] # NoClock
        BY <1>6, <2>1, <3>1 DEF Recorded, NextAbsence, IsPruned, IsMissing, Clocks, Lacked
      <4> QED
        BY <1>6, <4>1 DEF TypeOK, Age, NoClock
    <3>2. CASE ~(IsMissing(e) /\ absence[e] = NoClock)
      <4>1. absence'[e] = absence[e] /\ ~Found(e)
        BY <1>6, <2>1, <3>2 DEF Recorded, NextAbsence
      <4> QED
        BY <1>6, <2>1, <4>1 DEF Clocks
    <3> QED
      BY <3>1, <3>2
  <2> QED
    BY <1>6, <2>1 DEF Clocks, Lacked
<1>7. CASE Commit
  BY <1>6, <1>7 DEF Commit, EndRun
<1>8. CASE CommitFails
  <2>1. CASE Recorded /\ UNCHANGED cause
    BY <1>6, <1>8, <2>1 DEF CommitFails, EndRun
  <2>2. CASE UNCHANGED <<seen, absence>> /\ cause' = cause \cup Unrecorded
    BY <1>8, <2>2 DEF Clocks, CommitFails, EndRun, Unrecorded, Lacked
  <2> QED
    BY <1>8, <2>1, <2>2 DEF CommitFails
<1>9. ASSUME NEW e \in Event, Send(e) PROVE Clocks'
  BY <1>9 DEF Clocks, Stages, Send, AfterSend, EndRun, state, Lacked
<1>10. ASSUME NEW e \in Event, SendFails(e) PROVE Clocks'
  BY <1>10 DEF Clocks, SendFails, AfterSend, EndRun, state, Lacked
<1>11. CASE Die
  BY <1>11 DEF Clocks, Die, EndRun, state, Unrecorded, Lacked
<1>12. ASSUME NEW e \in Event, UpstreamChanges(e) PROVE Clocks'
  BY <1>12 DEF Clocks, UpstreamChanges, state, history, Lacked, Found, Healthy
<1>13. CASE UNCHANGED vars
  BY <1>13 DEF Clocks, vars, state, history, Lacked, Found, Healthy
<1> QED
  BY <1>1, <1>2, <1>3, <1>4, <1>5, <1>7, <1>8, <1>9, <1>10, <1>11, <1>12, <1>13
  DEF Next, RunStep

\* A difference between what was enqueued and what is remembered has a cause.
LEMMA CausesStep == ASSUME TypeOK, Stages, Clocks, Causes, [Next]_vars PROVE Causes'
<1> USE DedupeAssumption DEF RepeatsHaveACause
<1>1. ASSUME NEW ok \in SUBSET Source, NEW d \in Pause, Fetch(ok, d) PROVE Causes'
  <2>1. due' = {}
    BY <1>1 DEF TypeOK, Fetch
  <2>2. \A e \in Event : payload'[e] \notin {NoContent, known'[e]} => e \in cause'
    BY <1>1 DEF Fetch
  <2> QED
    BY <1>1, <2>1, <2>2 DEF Causes, Fetch
<1>2. CASE ReadFails
  BY <1>2 DEF Causes, ReadFails, EndRun, state
<1>3. CASE SeedBaseline
  BY <1>3 DEF Causes, Stages, SeedBaseline, history
<1>4. CASE MarkBaseline
  BY <1>4 DEF Causes, Stages, MarkBaseline, EndRun
<1>5. CASE MarkFails
  BY <1>5 DEF Causes, Stages, MarkFails, EndRun, state, history
<1>6. ASSUME Recorded, baseline, run = "fetched", UNCHANGED <<known, cause>>
      PROVE  \A e \in Event : seen'[e] # known'[e] /\ known'[e] # NoContent => e \in cause'
  <2> SUFFICES ASSUME NEW e \in Event, seen'[e] # known[e], known[e] # NoContent
               PROVE  e \in cause
    BY <1>6
  <2>1. CASE Found(e)
    BY <1>6, <2>1 DEF Causes, Recorded, NextSeen, Found
  <2>2. CASE ~Found(e) /\ IsPruned(e)
    BY <1>6, <2>2 DEF Clocks, IsPruned, IsMissing, Lacked
  <2>3. CASE ~Found(e) /\ ~IsPruned(e)
    BY <1>6, <2>3 DEF Causes, Recorded, NextSeen
  <2> QED
    BY <2>1, <2>2, <2>3
<1>7. CASE Commit
  <2>1. \A e \in Enqueued : payload[e] = known[e] => e \in cause
    BY <1>7 DEF Commit, Causes, Enqueued, Pushable, IsNew, IsUpdated, Found
  <2> QED
    BY <1>6, <1>7, <2>1 DEF Causes, Commit, EndRun
<1>8. CASE CommitFails
  <2>1. CASE Recorded /\ UNCHANGED cause
    BY <1>6, <1>8, <2>1 DEF Causes, CommitFails, EndRun
  <2>2. CASE UNCHANGED <<seen, absence>> /\ cause' = cause \cup Unrecorded
    BY <1>8, <2>2 DEF Causes, CommitFails, EndRun
  <2> QED
    BY <1>8, <2>1, <2>2 DEF CommitFails
<1>9. ASSUME NEW e \in Event, Send(e) PROVE Causes'
  <2>1. baseline /\ run # "fetched" /\ run' # "fetched"
    BY <1>9 DEF TypeOK, Stages, Send, AfterSend, EndRun
  <2>2. known' = [known EXCEPT ![e] = payload[e]] /\ seen[e] = payload[e]
    BY <1>9 DEF Stages, Send
  <2>3. \A f \in due' : f # e /\ f \in due /\ payload'[f] = payload[f]
    BY <1>9 DEF Send, AfterSend, EndRun
  <2>4. UNCHANGED <<seen, baseline>> /\ cause' = cause \ {e}
    BY <1>9 DEF Send, state
  <2>5. \A f \in Event : seen'[f] # known'[f] /\ known'[f] # NoContent => f \in cause'
    BY <2>1, <2>2, <2>4 DEF Causes, TypeOK, View
  <2>6. due \subseteq Event
    BY DEF TypeOK
  <2>7. \A f \in due' : payload'[f] = known'[f] => f \in cause'
    BY <2>2, <2>3, <2>4, <2>6 DEF Causes, TypeOK, View
  <2> QED
    BY <2>1, <2>5, <2>7 DEF Causes
<1>10. ASSUME NEW e \in Event, SendFails(e) PROVE Causes'
  BY <1>10 DEF Causes, SendFails, AfterSend, EndRun, state
<1>11. CASE Die
  BY <1>11 DEF Causes, Die, EndRun, state
<1>12. ASSUME NEW e \in Event, UpstreamChanges(e) PROVE Causes'
  BY <1>12 DEF Causes, UpstreamChanges, state, history
<1>13. CASE UNCHANGED vars
  BY <1>13 DEF Causes, vars, state, history
<1> QED
  BY <1>1, <1>2, <1>3, <1>4, <1>5, <1>7, <1>8, <1>9, <1>10, <1>11, <1>12, <1>13
  DEF Next, RunStep

\* What is recorded is told, on its way, or known to be untold.
LEMMA TellingStep ==
    ASSUME TypeOK, Stages, NothingLostSilently, [Next]_vars
    PROVE  NothingLostSilently'
<1> USE DEF NothingLostSilently
<1>1. ASSUME NEW ok \in SUBSET Source, NEW d \in Pause, Fetch(ok, d)
      PROVE  NothingLostSilently'
  BY <1>1 DEF Fetch
<1>2. CASE ReadFails
  BY <1>2 DEF TypeOK, ReadFails, EndRun, state
<1>3. CASE SeedBaseline
  BY <1>3 DEF SeedBaseline
<1>4. CASE MarkBaseline
  BY <1>4 DEF Stages, MarkBaseline
<1>5. CASE MarkFails
  BY <1>5 DEF TypeOK, MarkFails, EndRun, state, history
<1>6. ASSUME Recorded, baseline, run = "fetched"
      PROVE  \A e \in Event : seen'[e] \in {NoContent, known[e]} \/ e \in untold \/ e \in Pushable
  <2> SUFFICES ASSUME NEW e \in Event
               PROVE  seen'[e] \in {NoContent, known[e]} \/ e \in untold \/ e \in Pushable
    OBVIOUS
  <2>1. due = {}
    BY <1>6 DEF TypeOK
  <2>2. seen[e] \in {NoContent, known[e]} \/ e \in untold
    BY <1>6, <2>1
  <2>3. CASE Found(e)
    BY <1>6, <2>2, <2>3 DEF Recorded, NextSeen, Pushable, IsNew, IsUpdated
  <2>4. CASE ~Found(e)
    BY <1>6, <2>2, <2>4 DEF Recorded, NextSeen
  <2> QED
    BY <2>3, <2>4
<1>7. CASE Commit
  <2>1. untold' = (untold \cup Pushable) \ Enqueued /\ known' = known
    BY <1>7 DEF Commit
  <2>2. due' = Enqueued
    BY <1>7 DEF Commit, EndRun
  <2> QED
    BY <1>6, <1>7, <2>1, <2>2 DEF Commit
<1>8. CASE CommitFails
  <2>1. due = {} /\ UNCHANGED <<baseline, known>>
    BY <1>8 DEF TypeOK, CommitFails
  <2>2. CASE Recorded /\ untold' = untold \cup Pushable
    BY <1>6, <1>8, <2>1, <2>2 DEF CommitFails
  <2>3. CASE UNCHANGED <<seen, absence, untold>>
    BY <1>8, <2>1, <2>3
  <2> QED
    BY <1>8, <2>2, <2>3 DEF CommitFails
<1>9. ASSUME NEW e \in Event, Send(e) PROVE NothingLostSilently'
  <2>1. due \ {e} \subseteq due'
    BY <1>9 DEF Send, AfterSend, EndRun
  <2> QED
    BY <1>9, <2>1 DEF TypeOK, View, Stages, Send, state
<1>10. ASSUME NEW e \in Event, SendFails(e) PROVE NothingLostSilently'
  <2>1. due \ {e} \subseteq due'
    BY <1>10 DEF SendFails, AfterSend, EndRun
  <2> QED
    BY <1>10, <2>1 DEF SendFails, state
<1>11. CASE Die
  BY <1>11 DEF Die, EndRun, state
<1>12. ASSUME NEW e \in Event, UpstreamChanges(e) PROVE NothingLostSilently'
  BY <1>12 DEF UpstreamChanges, state, history
<1>13. CASE UNCHANGED vars
  BY <1>13 DEF vars, state, history
<1> QED
  BY <1>1, <1>2, <1>3, <1>4, <1>5, <1>7, <1>8, <1>9, <1>10, <1>11, <1>12, <1>13
  DEF Next, RunStep

\* All parts hold at the start and none is lost.
LEMMA Inductive == Spec => []IndInv
<1>1. Init => IndInv
  BY DedupeAssumption
  DEF Init, IndInv, TypeOK, Stages, Clocks, Causes, NothingLostSilently, Lacked,
      RepeatsHaveACause, Nowhere, Stopped, View, Age, NoClock
<1>2. IndInv /\ [Next]_vars => IndInv'
  BY TypeStep, StagesStep, ClocksStep, CausesStep, TellingStep DEF IndInv
<1> QED
  BY <1>1, <1>2, PTL DEF Spec

\* The state of the run, the dedupe state and the clocks keep their types.
THEOREM TypeCorrect == Spec => []TypeOK
<1>1. IndInv => TypeOK
  BY DEF IndInv
<1> QED
  BY <1>1, Inductive, PTL

\* Whatever fails and however long the runs lie apart, an event is enqueued again
\* with content that was already enqueued only for a cause.
THEOREM NoRepeatWithoutCause == Spec => []RepeatsHaveACause
<1>1. IndInv => RepeatsHaveACause
  BY DEF IndInv, Causes
<1> QED
  BY <1>1, Inductive, PTL

\* What the state remembers was told, or it is known why not.
THEOREM NoneLostSilently == Spec => []NothingLostSilently
<1>1. IndInv => NothingLostSilently
  BY DEF IndInv
<1> QED
  BY <1>1, Inductive, PTL

=============================================================================
