---------------------------- MODULE AiDecision_proofs ----------------------------
(***************************************************************************)
(* Proofs about AiDecision, for any runs, reports, places, windows, faults *)
(* and interleavings: the answer acted on fits the question, the cooldown  *)
(* silences nobody without a push, nothing is remembered as told that was  *)
(* not, sightings survive; and, where the places of reports fall into      *)
(* clusters, no push repeats another unless its note was lost.             *)
(***************************************************************************)
EXTENDS AiDecision, FiniteSetTheorems, WellFoundedInduction, TLAPS

\* A run that has read the memory and not yet written it back.
Holding(r) == pc[r] \in {"asking", "calling", "deciding", "pushing", "remembering"}

\* How far a run has come, told by what it has left behind.
Shape ==
    /\ \A r \in Run :
          /\ startedAt[r] <= now
          /\ Active(r) => startedAt[r] = now
          /\ r \in pushed => pc[r] \in {"remembering", "cooling", "done"}
          /\ pc[r] = "cooling" => r \in pushed
          /\ r \in silenced => pc[r] \in {"remembering", "done"} /\ r \notin pushed
          /\ family[r] # NoRun => pc[r] \in {"cooling", "done"}
          /\ r \in written => pc[r] = "done"
          /\ memoryGone[r] \subseteq Sighted /\ cooldownGone[r] \subseteq written
    /\ unseen \subseteq Sighted
    /\ unnoted \subseteq pushed /\ written \subseteq pushed

\* Sightings are of the past, one to an incident, and told only by a push of the incident.
SoundSightings(blob, time, sighted, told, at, kin) ==
    /\ \A s \in blob :
          /\ s.seen <= time /\ s.key \in sighted
          /\ s.told # Never => \E q \in told : at[q] = s.told /\ kin[q] = s.key
    /\ \A s, t \in blob : s.key = t.key => s = t

SoundMemory(blob) == SoundSightings(blob, now, Sighted, pushed, startedAt, family)

MemoriesAreSound == SoundMemory(memory) /\ \A r \in Run : SoundMemory(memoryCopy[r])

\* The sighting of r is in the blob, with its notification, or a later one of its incident.
Kept(blob, r) ==
    \E s \in blob :
        /\ s.key = family[r] /\ s.seen >= startedAt[r]
        /\ r \in pushed => s.told >= startedAt[r]

MemoriesAreWhole ==
    \A r \in Sighted \ unseen :
        now - startedAt[r] < MemoryTTL =>
            /\ Kept(memory, r)
            /\ \A q \in Run : Holding(q) /\ r \notin memoryGone[q] => Kept(memoryCopy[q], r)

\* A note is of a push, and a HIGH one of a HIGH push too.
SoundNotes(blob, told, at, what) ==
    \A n \in blob :
        /\ \E q \in told : Km(q) = n.km /\ at[q] = n.at
        /\ n.max = "HIGH" => \E q \in told : what[q].impact = "HIGH"

SoundCooldown(blob) == SoundNotes(blob, pushed, startedAt, decision)

CooldownsAreSound == SoundCooldown(cooldown) /\ \A r \in Run : SoundCooldown(cooldownCopy[r])

CacheFits == \A a \in cache : (a.decision.verdict = "unasked") = (a.context = {})

-----------------------------------------------------------------------------
(* The choices of the code are well defined *)

\* A set of natural numbers has a least element.
LEMMA LeastNat ==
    ASSUME NEW T \in SUBSET Nat, T # {}
    PROVE  \E x \in T : \A y \in T : x <= y
<1> DEFINE R == OpToRel(<, Nat)
<1>1. IsWellFoundedOn(R, Nat)
  BY ONLY NatLessThanWellFounded
<1>2. \A x, y \in Nat : y < x => <<y, x>> \in R
  BY DEF OpToRel
<1> HIDE DEF R
<1>3. PICK x \in T : \A y \in T : <<y, x>> \notin R
  BY <1>1, WFMin
<1>4. ASSUME NEW y \in T PROVE x <= y
  <2>1. x \in Nat /\ y \in Nat
    OBVIOUS
  <2>2. ~(y < x)
    BY ONLY <1>2, <1>3, <2>1, y \in T
  <2> QED BY ONLY <2>1, <2>2
<1> QED BY <1>4

\* Array.find returns a record that matches, when there is one.
LEMMA FirstMatches ==
    ASSUME NEW blob \in SUBSET Notice, NEW km, Matches(blob, km) # {}
    PROVE  FirstMatch(blob, km) \in Matches(blob, km)
<1> DEFINE T == {n.no : n \in Matches(blob, km)}
<1>1. Matches(blob, km) \subseteq Notice
  BY DEF Matches
<1>2. T \in SUBSET Nat /\ T # {}
  BY <1>1 DEF Notice
<1>3. PICK x \in T : \A y \in T : x <= y
  BY <1>2, LeastNat
<1>4. PICK n \in Matches(blob, km) : n.no = x
  OBVIOUS
<1>5. \A m \in Matches(blob, km) : n.no <= m.no
  BY <1>3, <1>4
<1> QED BY <1>4, <1>5 DEF FirstMatch

\* The newest candidate is one of them.
LEMMA NewestIsCandidate ==
    ASSUME NEW r \in Run, memoryCopy[r] \subseteq Sighting, now \in Nat,
           \A s \in memoryCopy[r] : s.seen <= now, Candidates(r) # {}
    PROVE  Newest(r) \in Candidates(r)
<1> DEFINE T == {now - s.seen : s \in Candidates(r)}
<1>1. Candidates(r) \subseteq memoryCopy[r]
  BY DEF Candidates, Current
<1>2. \A s \in Candidates(r) : s.seen \in Nat /\ s.no \in Nat /\ s.seen <= now
  BY <1>1 DEF Sighting
<1>3. T \in SUBSET Nat /\ T # {}
  BY <1>2
<1>4. PICK x \in T : \A y \in T : x <= y
  BY <1>3, LeastNat
<1> DEFINE L == {s \in Candidates(r) : now - s.seen = x}
<1> DEFINE U == {s.no : s \in L}
<1>5. U \in SUBSET Nat /\ U # {}
  BY <1>2
<1> HIDE DEF U
<1>6. PICK u \in U : \A y \in U : u <= y
  BY <1>5, LeastNat
<1>7. PICK s \in L : s.no = u
  BY DEF U
<1>8. ASSUME NEW t \in Candidates(r) PROVE ~Before(t, s)
  <2>1. x <= now - t.seen /\ now - s.seen = x
    BY <1>4, <1>7
  <2>2. t.seen = s.seen => s.no <= t.no
    BY <1>6, <1>7, <2>1 DEF U
  <2> QED BY <1>2, <2>1, <2>2 DEF Before
<1> QED BY <1>7, <1>8 DEF Newest

-----------------------------------------------------------------------------
(* Types *)

LEMMA ReportTyped ==
    ASSUME TypeOK, NEW r \in Run
    PROVE  /\ Km(r) \in Place /\ Event(r) \in {EventOf[p] : p \in Report}
           /\ startedAt[r] \in Nat /\ decision[r].impact \in Impact
           /\ memoryCopy[r] \subseteq Sighting /\ cooldownCopy[r] \subseteq Notice
<1>1. report[r] \in Report /\ startedAt[r] \in Nat /\ decision[r] \in Decision
  BY DEF TypeOK
<1>2. Km(r) \in Place /\ Event(r) \in {EventOf[p] : p \in Report}
  BY <1>1, ReportAssumption DEF Km, Event, Place
<1>3. decision[r].impact \in Impact
  BY <1>1 DEF Decision, Impact
<1>4. memoryCopy[r] \subseteq Sighting /\ cooldownCopy[r] \subseteq Notice
  BY DEF TypeOK
<1> QED BY <1>1, <1>2, <1>3, <1>4

\* The record of a matched sighting.
LEMMA MatchedIsCandidate ==
    ASSUME TypeOK, MemoriesAreSound, NEW r \in Run, Matched(r)
    PROVE  Newest(r) \in Candidates(r) /\ Newest(r) \in memoryCopy[r] /\ Newest(r) \in Sighting
<1>1. \A s \in memoryCopy[r] : s.seen <= now
  BY DEF MemoriesAreSound, SoundMemory, SoundSightings
<1>2. memoryCopy[r] \subseteq Sighting /\ now \in Nat
  BY DEF TypeOK
<1>3. Newest(r) \in Candidates(r)
  BY <1>1, <1>2, NewestIsCandidate DEF Matched
<1>4. Candidates(r) \subseteq memoryCopy[r]
  BY DEF Candidates, Current
<1> QED BY <1>2, <1>3, <1>4

LEMMA SightingTyped ==
    ASSUME TypeOK, MemoriesAreSound, NEW r \in Run
    PROVE  /\ SightingOf(r) \in Sighting /\ FamilyOf(r) \in Run
           /\ SightingOf(r).key = FamilyOf(r) /\ SightingOf(r).seen = startedAt[r]
           /\ SightingOf(r).told = ToldAt(r, IF Matched(r) THEN Newest(r).told ELSE Never)
           /\ NextMemory(r) \subseteq Sighting
<1> USE ReportTyped
<1>1. Cardinality(Sighted) + 1 \in Nat
  <2>1. IsFiniteSet(Sighted)
    BY ReportAssumption, FS_Subset DEF Sighted
  <2> QED BY <2>1, FS_CardinalityType
<1>2. CASE Matched(r)
  <2> DEFINE old == Newest(r)
  <2>1. old \in Sighting
    BY <1>2, MatchedIsCandidate
  <2>2. old = [no |-> old.no, key |-> old.key, km |-> old.km, event |-> old.event,
               seen |-> old.seen, told |-> old.told]
        /\ old.no \in Nat /\ old.key \in Run /\ old.km \in Place
        /\ old.told \in Nat \cup {Never}
    BY <2>1 DEF Sighting
  <2>3. SightingOf(r) =
          [no |-> old.no, key |-> old.key, km |-> IF Km(r) # NoKm THEN Km(r) ELSE old.km,
           event |-> Event(r), seen |-> startedAt[r], told |-> ToldAt(r, old.told)]
    BY <1>2, <2>2 DEF SightingOf
  <2>4. ToldAt(r, old.told) \in Nat \cup {Never}
    BY <2>2 DEF ToldAt
  <2>5. (IF Km(r) # NoKm THEN Km(r) ELSE old.km) \in Place
    BY <2>2
  <2> HIDE DEF old
  <2>6. SightingOf(r) \in Sighting
    BY <2>2, <2>3, <2>4, <2>5 DEF Sighting
  <2>7. FamilyOf(r) = old.key
    BY <1>2 DEF FamilyOf, old
  <2>8. NextMemory(r) \subseteq Sighting
    BY <2>6 DEF NextMemory, Current
  <2>9. SightingOf(r).told = ToldAt(r, old.told)
    BY <2>3
  <2> QED BY <1>2, <2>2, <2>3, <2>6, <2>7, <2>8, <2>9 DEF old
<1>3. CASE ~Matched(r)
  <2>1. SightingOf(r) =
          [no |-> Cardinality(Sighted) + 1, key |-> r, km |-> Km(r),
           event |-> Event(r), seen |-> startedAt[r], told |-> ToldAt(r, Never)]
    BY <1>3 DEF SightingOf
  <2>2. ToldAt(r, Never) \in Nat \cup {Never}
    BY DEF ToldAt
  <2>3. SightingOf(r) \in Sighting
    BY <1>1, <2>1, <2>2 DEF Sighting
  <2>4. FamilyOf(r) = r
    BY <1>3 DEF FamilyOf
  <2>5. NextMemory(r) \subseteq Sighting
    BY <2>3 DEF NextMemory, Current
  <2> QED BY <1>3, <2>1, <2>3, <2>4, <2>5
<1> QED BY <1>2, <1>3

\* What a run writes into the cooldown: its own note, in the place of the one it
\* matches, and the others that are alive.
AliveFor(r)  == Alive(cooldownCopy[r], startedAt[r])
MatchedBy(r) == Matches(AliveFor(r), Km(r))
Others(r)    == IF MatchedBy(r) = {} THEN AliveFor(r)
                ELSE AliveFor(r) \ {FirstMatch(AliveFor(r), Km(r))}
NoteOf(r)    ==
    LET old == FirstMatch(AliveFor(r), Km(r))
    IN  IF MatchedBy(r) = {}
        THEN [no |-> Cardinality(written) + 1, km |-> Km(r),
              at |-> startedAt[r], max |-> decision[r].impact]
        ELSE [no |-> old.no, km |-> Km(r), at |-> startedAt[r],
              max |-> IF decision[r].impact = "HIGH" THEN "HIGH" ELSE old.max]

LEMMA CooldownWritten ==
    ASSUME TypeOK, NEW r \in Run
    PROVE  /\ AliveFor(r) \subseteq cooldownCopy[r] /\ cooldownCopy[r] \subseteq Notice
           /\ NoteOf(r) \in Notice /\ NextCooldown(r) = Others(r) \cup {NoteOf(r)}
           /\ NoteOf(r).km = Km(r) /\ NoteOf(r).at = startedAt[r]
           /\ decision[r].impact = "HIGH" => NoteOf(r).max = "HIGH"
           /\ NoteOf(r).max = "HIGH" =>
                 \/ decision[r].impact = "HIGH"
                 \/ \E n \in AliveFor(r) : n.max = "HIGH"
           /\ MatchedBy(r) # {} =>
                 LET old == FirstMatch(AliveFor(r), Km(r))
                 IN  /\ old \in MatchedBy(r) /\ old \in AliveFor(r)
                     /\ old.max = "HIGH" => NoteOf(r).max = "HIGH"
<1> DEFINE old == FirstMatch(AliveFor(r), Km(r))
<1>1. Km(r) \in Place /\ startedAt[r] \in Nat /\ decision[r].impact \in Impact
      /\ cooldownCopy[r] \subseteq Notice
  BY ReportTyped
<1>2. AliveFor(r) \subseteq cooldownCopy[r] /\ AliveFor(r) \subseteq Notice
  BY <1>1 DEF AliveFor, Alive
<1>3. Cardinality(written) + 1 \in Nat
  <2>1. IsFiniteSet(written)
    BY ReportAssumption, FS_Subset DEF TypeOK
  <2> QED BY <2>1, FS_CardinalityType
<1>4. CASE MatchedBy(r) # {}
  <2>1. old \in MatchedBy(r)
    BY <1>2, <1>4, FirstMatches DEF MatchedBy
  <2>2. old \in AliveFor(r) /\ old \in Notice
    BY <1>2, <2>1 DEF MatchedBy, Matches
  <2> HIDE DEF old
  <2>3. NoteOf(r) = [no |-> old.no, km |-> Km(r), at |-> startedAt[r],
                     max |-> IF decision[r].impact = "HIGH" THEN "HIGH" ELSE old.max]
    BY <1>4 DEF NoteOf, old
  <2>4. NextCooldown(r) = Others(r) \cup {NoteOf(r)}
    BY <1>4, <2>3 DEF NextCooldown, Others, AliveFor, MatchedBy, old
  <2>5. NoteOf(r) \in Notice
    BY <1>1, <2>2, <2>3 DEF Notice, Impact
  <2>6. /\ NoteOf(r).km = Km(r) /\ NoteOf(r).at = startedAt[r]
        /\ NoteOf(r).max = IF decision[r].impact = "HIGH" THEN "HIGH" ELSE old.max
    BY <2>3
  <2> QED BY <1>1, <1>2, <1>4, <2>1, <2>2, <2>4, <2>5, <2>6 DEF old
<1>5. CASE MatchedBy(r) = {}
  <2>1. NoteOf(r) = [no |-> Cardinality(written) + 1, km |-> Km(r),
                     at |-> startedAt[r], max |-> decision[r].impact]
    BY <1>5 DEF NoteOf
  <2>2. NextCooldown(r) = Others(r) \cup {NoteOf(r)}
    BY <1>5, <2>1 DEF NextCooldown, Others, AliveFor, MatchedBy
  <2>3. NoteOf(r) \in Notice
    BY <1>1, <1>3, <2>1 DEF Notice
  <2> QED BY <1>1, <1>2, <1>5, <2>1, <2>2, <2>3
<1> QED BY <1>4, <1>5

LEMMA FaultTyped == ASSUME NEW k, faults \in Nat, Fault(k) PROVE faults' \in Nat
  BY DEF Fault

\* Every step keeps every variable in its set.
LEMMA TypeNext ==
    ASSUME TypeOK, MemoriesAreSound, [Next]_vars
    PROVE  TypeOK'
<1> USE DEF Working
<1>1. CASE UNCHANGED vars
  BY <1>1 DEF TypeOK, vars, control, memories, answers, cooling, outcomes
<1>2. CASE Tick
  BY <1>2 DEF TypeOK, Tick, control, memories, answers, cooling, outcomes
<1>3. ASSUME NEW r \in Run, Start(r) PROVE TypeOK'
  <2>1. pc' \in [Run -> Working \cup {"off", "done"}] /\ startedAt' \in [Run -> Nat]
    BY <1>3 DEF TypeOK, Start, Goto
  <2>2. memoryCopy' \in [Run -> SUBSET Sighting] /\ memoryGone' \in [Run -> SUBSET Run]
        /\ faults' \in Nat
    BY <1>3, FaultTyped DEF TypeOK, Start, ReadMemory, Sighted
  <2> QED BY <1>3, <2>1, <2>2 DEF TypeOK, Start, answers, cooling, outcomes
<1>4. ASSUME NEW r \in Run, Consult(r) PROVE TypeOK'
  <2>1. pc' \in [Run -> Working \cup {"off", "done"}] /\ faults' \in Nat
    BY <1>4, FaultTyped DEF TypeOK, Consult, Goto
  <2>2. decision' \in [Run -> Decision]
    <3>1. \A a \in cache : a.decision \in Decision
      BY DEF TypeOK, Answer
    <3> QED BY <1>4, <3>1 DEF TypeOK, Consult, Cached
  <2> QED BY <1>4, <2>1, <2>2 DEF TypeOK, Consult, memories, cooling, outcomes
<1>5. ASSUME NEW r \in Run, Answered(r) PROVE TypeOK'
  <2>1. pc' \in [Run -> Working \cup {"off", "done"}] /\ faults' \in Nat
    BY <1>5, FaultTyped DEF TypeOK, Answered, Goto
  <2>2. PICK d \in Valid(r) :
          /\ decision' = [decision EXCEPT ![r] = d]
          /\ cache' \subseteq cache \cup
                {[report |-> report[r], context |-> ContextOf(r), decision |-> d]}
    BY <1>5 DEF Answered
  <2>3. d \in Decision
    BY DEF Valid
  <2>4. ContextOf(r) \in Context
    <3>1. \A s \in Candidates(r) : s.key \in Run /\ s.seen \in Nat
      BY DEF Candidates, Current, TypeOK, Sighting
    <3> QED BY <3>1 DEF ContextOf, Context
  <2>5. [report |-> report[r], context |-> ContextOf(r), decision |-> d] \in Answer
    BY <2>3, <2>4 DEF TypeOK, Answer
  <2>6. decision' \in [Run -> Decision] /\ cache' \subseteq Answer
    BY <2>2, <2>3, <2>5 DEF TypeOK
  <2> QED BY <1>5, <2>1, <2>6 DEF TypeOK, Answered, memories, cooling, outcomes
<1>6. ASSUME NEW r \in Run, EndRun(r), faults' \in Nat PROVE TypeOK'
  BY <1>6 DEF TypeOK, EndRun, Goto, answers, outcomes
<1>7. ASSUME NEW r \in Run, NotAnswered(r) PROVE TypeOK'
  BY <1>6, <1>7 DEF NotAnswered, TypeOK
<1>8. ASSUME NEW r \in Run, Die(r) PROVE TypeOK'
  BY <1>6, <1>8, FaultTyped DEF Die, TypeOK
<1>9. ASSUME NEW r \in Run, Dismiss(r) PROVE TypeOK'
  BY <1>9 DEF TypeOK, Dismiss, Goto, memories, answers, cooling, outcomes
<1>10. ASSUME NEW r \in Run, CheckCooldown(r) PROVE TypeOK'
  <2>1. pc' \in [Run -> Working \cup {"off", "done"}] /\ silenced' \subseteq Run
    BY <1>10 DEF TypeOK, CheckCooldown, Goto
  <2>2. cooldownCopy' \in [Run -> SUBSET Notice] /\ cooldownGone' \in [Run -> SUBSET Run]
        /\ faults' \in Nat
    BY <1>10, FaultTyped DEF TypeOK, CheckCooldown
  <2> QED BY <1>10, <2>1, <2>2 DEF TypeOK, CheckCooldown, memories, answers
<1>11. ASSUME NEW r \in Run, Broadcast(r) PROVE TypeOK'
  BY <1>11 DEF TypeOK, Broadcast, Goto, memories, answers
<1>12. ASSUME NEW r \in Run, NEW gone \in [Run -> SUBSET Run]
       PROVE  Misses(gone, r) \in [Run -> SUBSET Run]
  BY DEF Misses
<1>13. ASSUME NEW r \in Run, PersistSighting(r) PROVE TypeOK'
  <2>1. pc' \in [Run -> Working \cup {"off", "done"}] /\ faults' \in Nat
        /\ memoryCopy' \in [Run -> SUBSET Sighting]
    BY <1>13, FaultTyped DEF TypeOK, PersistSighting, Goto
  <2>2. memory' \subseteq Sighting /\ family' \in [Run -> Run \cup {NoRun}]
    BY <1>13, SightingTyped DEF TypeOK, PersistSighting
  <2>3. memoryGone' \in [Run -> SUBSET Run] /\ unseen' \subseteq Run
    BY <1>12, <1>13 DEF TypeOK, PersistSighting
  <2> QED BY <1>13, <2>1, <2>2, <2>3 DEF TypeOK, PersistSighting, answers, cooling, outcomes
<1>14. ASSUME NEW r \in Run, PersistCooldown(r) PROVE TypeOK'
  <2>1. pc' \in [Run -> Working \cup {"off", "done"}] /\ faults' \in Nat
        /\ cooldownCopy' \in [Run -> SUBSET Notice]
    BY <1>14, FaultTyped DEF TypeOK, PersistCooldown, Goto
  <2>2. NextCooldown(r) \subseteq Notice
    BY CooldownWritten DEF Others
  <2>3. cooldown' \subseteq Notice /\ written' \subseteq Run
    BY <1>14, <2>2 DEF TypeOK, PersistCooldown
  <2>4. cooldownGone' \in [Run -> SUBSET Run] /\ unnoted' \subseteq Run
    BY <1>12, <1>14 DEF TypeOK, PersistCooldown
  <2> QED BY <1>14, <2>1, <2>3, <2>4 DEF TypeOK, PersistCooldown, memories, answers, outcomes
<1> QED BY <1>1, <1>2, <1>3, <1>4, <1>5, <1>7, <1>8, <1>9, <1>10, <1>11, <1>13, <1>14
        DEF Next, RunStep

-----------------------------------------------------------------------------
(* Where runs are *)

LEMMA ShapeNext ==
    ASSUME TypeOK, Shape, MemoriesAreSound, [Next]_vars
    PROVE  Shape'
<1> USE DEF Shape, Active, Working, Sighted
<1>0. \A q \in Run : startedAt[q] \in Nat /\ now \in Nat
  BY DEF TypeOK
<1>1. CASE UNCHANGED vars
  BY <1>1 DEF vars, control, memories, answers, cooling, outcomes
<1>2. CASE Tick
  <2>1. UNCHANGED <<pc, startedAt, family, memoryGone, cooldownGone, unseen, pushed, silenced,
                    written, unnoted>>
    BY <1>2 DEF Tick, control, memories, cooling, outcomes
  <2>2. \A q \in Run : startedAt'[q] <= now'
    BY <1>0, <1>2, <2>1 DEF Tick
  <2>3. \A q \in Run : ~Active(q)'
    BY <1>2, <2>1 DEF Tick
  <2> QED BY <2>1, <2>2, <2>3
<1>3. ASSUME NEW r \in Run, Start(r) PROVE Shape'
  <2>1. pc[r] = "off" /\ pc' = [pc EXCEPT ![r] = "asking"]
        /\ startedAt' = [startedAt EXCEPT ![r] = now]
        /\ UNCHANGED <<now, family, unseen, pushed, silenced, written, cooldownGone, unnoted>>
    BY <1>3 DEF Start, Goto, cooling, outcomes
  <2>2. \A q \in Run : memoryGone'[q] \subseteq Sighted
    BY <1>3 DEF Start, ReadMemory, TypeOK
  <2> QED BY <1>0, <2>1, <2>2 DEF TypeOK
<1>4. ASSUME NEW r \in Run, Consult(r) PROVE Shape'
  BY <1>0, <1>4 DEF TypeOK, Consult, Goto, memories, cooling, outcomes
<1>5. ASSUME NEW r \in Run, Answered(r) PROVE Shape'
  BY <1>0, <1>5 DEF TypeOK, Answered, Goto, memories, cooling, outcomes
<1>6. ASSUME NEW r \in Run, EndRun(r), Active(r) PROVE Shape'
  <2>1. pc' = [pc EXCEPT ![r] = "done"]
        /\ UNCHANGED <<now, startedAt, family, unseen, pushed, silenced, written, unnoted>>
    BY <1>6 DEF EndRun, Goto, outcomes
  <2>2. \A q \in Run : memoryGone'[q] \subseteq Sighted /\ cooldownGone'[q] \subseteq written
    BY <1>6 DEF EndRun, TypeOK
  <2> QED BY <1>0, <2>1, <2>2 DEF TypeOK
<1>7. ASSUME NEW r \in Run, NotAnswered(r) PROVE Shape'
  BY <1>6, <1>7 DEF NotAnswered
<1>8. ASSUME NEW r \in Run, Die(r) PROVE Shape'
  BY <1>6, <1>8 DEF Die
<1>9. ASSUME NEW r \in Run, Dismiss(r) PROVE Shape'
  BY <1>0, <1>9 DEF TypeOK, Dismiss, Goto, memories, answers, cooling, outcomes
<1>10. ASSUME NEW r \in Run, CheckCooldown(r) PROVE Shape'
  <2>1. \/ pc' = [pc EXCEPT ![r] = "remembering"] /\ silenced' = silenced \cup {r}
        \/ pc' = [pc EXCEPT ![r] = "pushing"] /\ silenced' = silenced
    BY <1>10 DEF CheckCooldown, Goto
  <2>2. pc[r] = "deciding"
        /\ UNCHANGED <<now, startedAt, family, memoryGone, unseen, pushed, written, unnoted>>
    BY <1>10 DEF CheckCooldown, memories
  <2>3. \A q \in Run : cooldownGone'[q] \subseteq written
    BY <1>10 DEF CheckCooldown, TypeOK
  <2> QED BY <1>0, <2>1, <2>2, <2>3 DEF TypeOK
<1>11. ASSUME NEW r \in Run, Broadcast(r) PROVE Shape'
  <2>1. \/ pushed' = pushed \cup {r} /\ unnoted' = unnoted \cup {r}
        \/ pushed' = pushed /\ unnoted' = unnoted
    BY <1>11 DEF Broadcast
  <2>2. pc[r] = "pushing" /\ pc' = [pc EXCEPT ![r] = "remembering"]
        /\ UNCHANGED <<now, startedAt, family, memoryGone, unseen, silenced, written,
                       cooldownGone>>
    BY <1>11 DEF Broadcast, Goto, memories
  <2> QED BY <1>0, <2>1, <2>2 DEF TypeOK
<1>12. ASSUME NEW r \in Run, PersistSighting(r) PROVE Shape'
  <2>1. pc[r] = "remembering"
        /\ pc' = [pc EXCEPT ![r] = IF r \in pushed THEN "cooling" ELSE "done"]
        /\ UNCHANGED <<now, startedAt, pushed, silenced, written, cooldownGone, unnoted>>
    BY <1>12 DEF PersistSighting, Goto, cooling, outcomes
  <2>2. FamilyOf(r) \in Run /\ FamilyOf(r) # NoRun
    BY SightingTyped, ReportAssumption
  <2>3. \A q \in Run :
           /\ startedAt'[q] <= now'
           /\ Active(q)' => startedAt'[q] = now'
           /\ q \in pushed' => pc'[q] \in {"remembering", "cooling", "done"}
           /\ pc'[q] = "cooling" => q \in pushed'
           /\ q \in silenced' => pc'[q] \in {"remembering", "done"} /\ q \notin pushed'
           /\ q \in written' => pc'[q] = "done"
    <3>1. pc \in [Run -> Working \cup {"off", "done"}]
      BY DEF TypeOK
    <3>2. CASE r \in pushed
      BY <1>0, <2>1, <3>1, <3>2
    <3>3. CASE r \notin pushed
      BY <1>0, <2>1, <3>1, <3>3
    <3> QED BY <3>2, <3>3
  <2>4. CASE /\ family' = [family EXCEPT ![r] = FamilyOf(r)]
             /\ memoryGone' = Misses(memoryGone, r)
             /\ unseen' = (unseen \ {r}) \cup memoryGone[r]
    <3>1. Sighted' = Sighted \cup {r}
      BY <2>2, <2>4 DEF TypeOK
    <3>2. \A q \in Run : memoryGone'[q] \subseteq Sighted'
      BY <2>4, <3>1 DEF Misses
    <3>3. unseen' \subseteq Sighted'
      BY <2>4, <3>1
    <3>4. \A q \in Run : family'[q] # NoRun => pc'[q] \in {"cooling", "done"}
      BY <2>1, <2>4 DEF TypeOK
    <3> QED BY <2>1, <2>3, <3>2, <3>3, <3>4
  <2>5. CASE memoryGone' = [memoryGone EXCEPT ![r] = {}] /\ UNCHANGED <<family, unseen>>
    <3>1. \A q \in Run : memoryGone'[q] \subseteq Sighted'
      BY <2>5 DEF TypeOK
    <3>2. \A q \in Run : family'[q] # NoRun => pc'[q] \in {"cooling", "done"}
      BY <2>1, <2>5 DEF TypeOK
    <3> QED BY <2>1, <2>3, <2>5, <3>1, <3>2
  <2> QED BY <1>12, <2>4, <2>5 DEF PersistSighting
<1>13. ASSUME NEW r \in Run, PersistCooldown(r) PROVE Shape'
  <2>1. pc[r] = "cooling" /\ r \in pushed /\ pc' = [pc EXCEPT ![r] = "done"]
        /\ UNCHANGED <<now, startedAt, family, memoryGone, unseen, pushed, silenced>>
    BY <1>13 DEF PersistCooldown, Goto, memories, outcomes
  <2>2. CASE /\ written' = written \cup {r}
             /\ cooldownGone' = Misses(cooldownGone, r)
             /\ unnoted' = (unnoted \ {r}) \cup cooldownGone[r]
    <3>1. \A q \in Run : cooldownGone'[q] \subseteq written'
      BY <2>2 DEF Misses
    <3>2. unnoted' \subseteq pushed /\ written' \subseteq pushed
      BY <2>1, <2>2
    <3>3. \A q \in Run : q \in written' => pc'[q] = "done"
      BY <2>1, <2>2 DEF TypeOK
    <3> QED BY <1>0, <2>1, <3>1, <3>2, <3>3 DEF TypeOK
  <2>3. CASE cooldownGone' = [cooldownGone EXCEPT ![r] = {}] /\ UNCHANGED <<written, unnoted>>
    BY <1>0, <2>1, <2>3 DEF TypeOK
  <2> QED BY <1>13, <2>2, <2>3 DEF PersistCooldown
<1> QED BY <1>1, <1>2, <1>3, <1>4, <1>5, <1>7, <1>8, <1>9, <1>10, <1>11, <1>12, <1>13
        DEF Next, RunStep

-----------------------------------------------------------------------------
(* What is behind a run does not change *)

Settled(r) == pc[r] \in {"remembering", "cooling", "done"}

\* Only the decision and the push of a run at work change, and nothing is unsaid.
LEMMA PastStays ==
    ASSUME TypeOK, Shape, MemoriesAreSound, [Next]_vars
    PROVE  /\ report' = report /\ now <= now' /\ pushed \subseteq pushed'
           /\ Sighted \subseteq Sighted'
           /\ \A r \in Run :
                 /\ Settled(r) => /\ startedAt'[r] = startedAt[r] /\ decision'[r] = decision[r]
                                  /\ (r \in pushed') = (r \in pushed)
                                  /\ Settled(r)'
                 /\ family[r] # NoRun => family'[r] = family[r]
<1> USE DEF Settled, Sighted
<1>0. now \in Nat
  BY DEF TypeOK
<1>1. CASE UNCHANGED vars
  BY <1>0, <1>1 DEF vars, control, memories, answers, cooling, outcomes
<1>2. CASE Tick
  BY <1>0, <1>2 DEF Tick, control, memories, answers, cooling, outcomes
<1>3. ASSUME NEW r \in Run, Start(r) \/ Consult(r) \/ Answered(r)
      PROVE  \A q \in Run : Settled(q) => /\ startedAt'[q] = startedAt[q]
                                         /\ decision'[q] = decision[q] /\ pc'[q] = pc[q]
  BY <1>3 DEF TypeOK, Start, Consult, Answered, Goto, answers
<1>4. ASSUME NEW r \in Run, Start(r) \/ Consult(r) \/ Answered(r)
      PROVE  UNCHANGED <<report, now, pushed, family>>
  BY <1>4 DEF Start, Consult, Answered, memories, outcomes
<1>5. ASSUME NEW r \in Run, NotAnswered(r) \/ Die(r) \/ Dismiss(r) \/ CheckCooldown(r)
      PROVE  UNCHANGED <<report, now, startedAt, pushed, family, decision>>
  BY <1>5 DEF NotAnswered, Die, EndRun, Dismiss, CheckCooldown, memories, answers, outcomes
<1>6. ASSUME NEW r \in Run, NotAnswered(r) \/ Die(r) \/ Dismiss(r) \/ CheckCooldown(r)
      PROVE  \A q \in Run : Settled(q) => Settled(q)'
  BY <1>6 DEF TypeOK, NotAnswered, Die, EndRun, Dismiss, CheckCooldown, Goto
<1>7. ASSUME NEW r \in Run, Broadcast(r)
      PROVE  /\ UNCHANGED <<report, now, startedAt, family, decision>>
             /\ pushed' \in {pushed, pushed \cup {r}} /\ pc[r] = "pushing"
             /\ pc' = [pc EXCEPT ![r] = "remembering"]
  BY <1>7 DEF Broadcast, memories, answers, Goto
<1>8. ASSUME NEW r \in Run, PersistSighting(r)
      PROVE  /\ UNCHANGED <<report, now, startedAt, pushed, decision>>
             /\ family' = family \/ family' = [family EXCEPT ![r] = FamilyOf(r)]
             /\ pc[r] = "remembering" /\ family[r] = NoRun
             /\ pc' = [pc EXCEPT ![r] = IF r \in pushed THEN "cooling" ELSE "done"]
  BY <1>8 DEF PersistSighting, answers, outcomes, Goto, Shape
<1>9. ASSUME NEW r \in Run, PersistCooldown(r)
      PROVE  /\ UNCHANGED <<report, now, startedAt, pushed, family, decision>>
             /\ pc' = [pc EXCEPT ![r] = "done"]
  BY <1>9 DEF PersistCooldown, memories, answers, outcomes, Goto
<1>10. ASSUME NEW r \in Run, RunStep(r) \/ Die(r)
       PROVE  /\ report' = report /\ now' = now
              /\ \A q \in Run : family[q] # NoRun => family'[q] = family[q]
  BY <1>4, <1>5, <1>7, <1>8, <1>9, <1>10 DEF RunStep, TypeOK
<1>11. ASSUME NEW r \in Run, RunStep(r) \/ Die(r)
       PROVE  /\ pushed \subseteq pushed'
              /\ \A q \in Run : Settled(q) =>
                    /\ startedAt'[q] = startedAt[q] /\ decision'[q] = decision[q]
                    /\ (q \in pushed') = (q \in pushed)
  BY <1>3, <1>4, <1>5, <1>7, <1>8, <1>9, <1>11 DEF RunStep
<1>12. ASSUME NEW r \in Run, RunStep(r) \/ Die(r)
       PROVE  \A q \in Run : Settled(q) => Settled(q)'
  BY <1>3, <1>6, <1>7, <1>8, <1>9, <1>12 DEF RunStep, TypeOK
<1>13. ASSUME NEW r \in Run, RunStep(r) \/ Die(r) PROVE Sighted \subseteq Sighted'
  BY <1>10, <1>13
<1> QED BY <1>0, <1>1, <1>2, <1>10, <1>11, <1>12, <1>13 DEF Next

-----------------------------------------------------------------------------
(* The memory *)

\* The only step that writes the memory, and the ones that read or drop a copy.
LEMMA MemoryMoves ==
    ASSUME TypeOK, [Next]_vars
    PROVE  /\ \/ memory' = memory
              \/ \E r \in Run : pc[r] = "remembering" /\ memory' = NextMemory(r)
                                /\ family' = [family EXCEPT ![r] = FamilyOf(r)]
           /\ \A q \in Run : memoryCopy'[q] \in {memoryCopy[q], memory, {}}
<1>1. CASE UNCHANGED vars
  BY <1>1 DEF vars, memories
<1>2. CASE Tick
  BY <1>2 DEF Tick, memories
<1>3. ASSUME NEW r \in Run, Start(r)
      PROVE  memory' = memory /\ \A q \in Run : memoryCopy'[q] \in {memoryCopy[q], memory, {}}
  BY <1>3 DEF Start, ReadMemory, TypeOK
<1>4. ASSUME NEW r \in Run, NotAnswered(r) \/ Die(r)
      PROVE  memory' = memory /\ \A q \in Run : memoryCopy'[q] \in {memoryCopy[q], memory, {}}
  BY <1>4 DEF NotAnswered, Die, EndRun, TypeOK
<1>5. ASSUME NEW r \in Run, PersistSighting(r)
      PROVE  /\ \/ memory' = memory
                \/ pc[r] = "remembering" /\ memory' = NextMemory(r)
                   /\ family' = [family EXCEPT ![r] = FamilyOf(r)]
             /\ \A q \in Run : memoryCopy'[q] \in {memoryCopy[q], memory, {}}
  BY <1>5 DEF PersistSighting, TypeOK
<1>6. ASSUME NEW r \in Run, \/ Consult(r) \/ Answered(r) \/ Dismiss(r) \/ CheckCooldown(r)
                            \/ Broadcast(r) \/ PersistCooldown(r)
      PROVE  UNCHANGED <<memory, memoryCopy>>
  BY <1>6 DEF Consult, Answered, Dismiss, CheckCooldown, Broadcast, PersistCooldown, memories
<1> QED BY <1>1, <1>2, <1>3, <1>4, <1>5, <1>6 DEF Next, RunStep

\* A sound blob stays sound.
LEMMA SightingsStaySound ==
    ASSUME TypeOK, Shape, MemoriesAreSound, [Next]_vars, NEW blob \in SUBSET Sighting,
           SoundSightings(blob, now, Sighted, pushed, startedAt, family)
    PROVE  SoundSightings(blob, now', Sighted', pushed', startedAt', family')
<1>1. /\ now <= now' /\ pushed \subseteq pushed' /\ Sighted \subseteq Sighted'
      /\ \A r \in pushed : startedAt'[r] = startedAt[r]
      /\ \A r \in Run : family[r] # NoRun => family'[r] = family[r]
  BY PastStays DEF Shape, Settled, TypeOK
<1>2. now \in Nat /\ now' \in Nat /\ \A s \in blob : s.seen \in Nat
  BY TypeNext DEF TypeOK, Sighting
<1>3. ASSUME NEW s \in blob PROVE s.seen <= now' /\ s.key \in Sighted'
  BY <1>1, <1>2 DEF SoundSightings
<1>4. ASSUME NEW s \in blob, s.told # Never
      PROVE  \E q \in pushed' : startedAt'[q] = s.told /\ family'[q] = s.key
  <2>1. PICK q \in pushed : startedAt[q] = s.told /\ family[q] = s.key
    BY <1>4 DEF SoundSightings
  <2>2. q \in Run /\ family[q] # NoRun
    BY <2>1, ReportAssumption DEF TypeOK, Sighting
  <2> QED BY <1>1, <2>1, <2>2
<1> QED BY <1>3, <1>4 DEF SoundSightings

\* What a run writes is sound.
LEMMA WrittenIsSound ==
    ASSUME TypeOK, Shape, MemoriesAreSound, NEW r \in Run, pc[r] = "remembering"
    PROVE  SoundSightings(NextMemory(r), now, Sighted \cup {r}, pushed, startedAt,
                          [family EXCEPT ![r] = FamilyOf(r)])
<1> DEFINE mine == SightingOf(r)
           kin == [family EXCEPT ![r] = FamilyOf(r)]
<1>1. /\ mine \in Sighting /\ mine.key = FamilyOf(r) /\ mine.seen = startedAt[r]
      /\ mine.told = ToldAt(r, IF Matched(r) THEN Newest(r).told ELSE Never)
  BY SightingTyped
<1>2. startedAt[r] = now /\ now \in Nat
  BY DEF Shape, Active, Working, TypeOK
<1>3. SoundMemory(memoryCopy[r])
  BY DEF MemoriesAreSound
<1>9. ASSUME NEW s \in memoryCopy[r], s.told # Never
      PROVE  \E q \in pushed : startedAt[q] = s.told /\ kin[q] = s.key
  <2>1. PICK q \in pushed : startedAt[q] = s.told /\ family[q] = s.key
    BY <1>3, <1>9 DEF SoundMemory, SoundSightings
  <2>2. q # r
    BY <2>1, ReportAssumption DEF TypeOK, Sighting, Shape
  <2> QED BY <2>1, <2>2 DEF TypeOK
<1>4. mine.key \in Sighted \cup {r}
  <2>1. CASE Matched(r)
    BY <1>1, <1>3, <2>1, MatchedIsCandidate DEF FamilyOf, SoundMemory, SoundSightings
  <2>2. CASE ~Matched(r)
    BY <1>1, <2>2 DEF FamilyOf
  <2> QED BY <2>1, <2>2
<1>5. mine.told # Never => \E q \in pushed : startedAt[q] = mine.told /\ kin[q] = mine.key
  <2>1. CASE r \in pushed
    <3>1. mine.told = startedAt[r]
      BY <1>1, <2>1 DEF ToldAt
    <3>2. kin[r] = mine.key
      BY <1>1 DEF TypeOK
    <3> QED BY <2>1, <3>1, <3>2
  <2>2. CASE r \notin pushed /\ Matched(r)
    <3>1. mine.told = Newest(r).told /\ Newest(r) \in memoryCopy[r]
      BY <1>1, <2>2, MatchedIsCandidate DEF ToldAt
    <3>2. mine.key = Newest(r).key
      BY <1>1, <2>2 DEF FamilyOf
    <3> QED BY <1>9, <3>1, <3>2
  <2>3. CASE r \notin pushed /\ ~Matched(r)
    BY <1>1, <2>3 DEF ToldAt
  <2> QED BY <2>1, <2>2, <2>3
<1> HIDE DEF mine, kin
<1>6. \A s \in NextMemory(r) : s = mine \/ (s \in memoryCopy[r] /\ s.key # mine.key)
  BY <1>1 DEF NextMemory, Current, mine
<1>7. ASSUME NEW s \in NextMemory(r)
      PROVE  /\ s.seen <= now /\ s.key \in Sighted \cup {r}
             /\ s.told # Never => \E q \in pushed : startedAt[q] = s.told /\ kin[q] = s.key
  <2>1. CASE s = mine
    BY <1>1, <1>2, <1>4, <1>5, <2>1
  <2>2. CASE s \in memoryCopy[r]
    <3>1. s.seen <= now /\ s.key \in Sighted \cup {r}
      BY <1>3, <2>2 DEF SoundMemory, SoundSightings
    <3> QED BY <1>9, <2>2, <3>1
  <2> QED BY <1>6, <2>1, <2>2
<1>8. ASSUME NEW s \in NextMemory(r), NEW t \in NextMemory(r), s.key = t.key PROVE s = t
  BY <1>3, <1>6, <1>8 DEF SoundMemory, SoundSightings
<1>10. SoundSightings(NextMemory(r), now, Sighted \cup {r}, pushed, startedAt, kin)
  BY <1>7, <1>8 DEF SoundSightings
<1> QED BY <1>10 DEF kin

LEMMA SoundNext ==
    ASSUME TypeOK, Shape, MemoriesAreSound, [Next]_vars
    PROVE  MemoriesAreSound'
<1>1. SoundSightings(memory, now', Sighted', pushed', startedAt', family')
  BY SightingsStaySound DEF MemoriesAreSound, SoundMemory, TypeOK
<1>2. \A q \in Run : SoundSightings(memoryCopy[q], now', Sighted', pushed', startedAt', family')
  BY SightingsStaySound DEF MemoriesAreSound, SoundMemory, TypeOK
<1>3. SoundSightings({}, now', Sighted', pushed', startedAt', family')
  BY DEF SoundSightings
<1>4. ASSUME NEW r \in Run, pc[r] = "remembering", memory' = NextMemory(r),
             family' = [family EXCEPT ![r] = FamilyOf(r)]
      PROVE  SoundSightings(memory', now', Sighted', pushed', startedAt', family')
  <2>1. Sighted' = Sighted \cup {r}
    BY <1>4, SightingTyped, ReportAssumption DEF Sighted, TypeOK
  <2>2. SoundSightings(memory', now, Sighted', pushed, startedAt, family')
    BY <1>4, <2>1, WrittenIsSound
  <2>3. /\ now <= now' /\ pushed \subseteq pushed' /\ now \in Nat /\ now' \in Nat
        /\ \A q \in pushed : startedAt'[q] = startedAt[q]
    BY PastStays, TypeNext DEF Shape, Settled, TypeOK
  <2>4. \A s \in memory' : s.seen \in Nat
    BY TypeNext DEF TypeOK, Sighting
  <2>5. ASSUME NEW s \in memory' PROVE s.seen <= now' /\ s.key \in Sighted'
    BY <2>2, <2>3, <2>4 DEF SoundSightings
  <2>6. ASSUME NEW s \in memory', s.told # Never
        PROVE  \E q \in pushed' : startedAt'[q] = s.told /\ family'[q] = s.key
    <3>1. PICK q \in pushed : startedAt[q] = s.told /\ family'[q] = s.key
      BY <2>2, <2>6 DEF SoundSightings
    <3> QED BY <2>3, <3>1
  <2> QED BY <2>2, <2>5, <2>6 DEF SoundSightings
<1>5. SoundSightings(memory', now', Sighted', pushed', startedAt', family')
  BY <1>1, <1>4, MemoryMoves
<1>6. \A q \in Run : SoundSightings(memoryCopy'[q], now', Sighted', pushed', startedAt', family')
  BY <1>1, <1>2, <1>3, MemoryMoves
<1> QED BY <1>5, <1>6 DEF MemoriesAreSound, SoundMemory

\* A sighting that the run has read survives what it writes.
LEMMA KeptThrough ==
    ASSUME TypeOK, Shape, MemoriesAreSound, NEW p \in Run, pc[p] = "remembering",
           NEW r \in Sighted, now - startedAt[r] < MemoryTTL, Kept(memoryCopy[p], r)
    PROVE  Kept(NextMemory(p), r)
<1> DEFINE mine == SightingOf(p)
<1>1. PICK s \in memoryCopy[p] : /\ s.key = family[r] /\ s.seen >= startedAt[r]
                                 /\ r \in pushed => s.told >= startedAt[r]
  BY DEF Kept
<1>2. startedAt[p] = now /\ family[p] = NoRun /\ startedAt[r] <= now
  BY DEF Shape, Active, Working, Sighted
<1>3. now \in Nat /\ startedAt[r] \in Nat /\ s.seen \in Nat /\ MemoryTTL \in Nat
  BY TimesAssumption DEF TypeOK, Sighting, Sighted
<1>4. s \in Current(memoryCopy[p], startedAt[p])
  BY <1>1, <1>2, <1>3 DEF Current
<1>5. CASE s.key # FamilyOf(p)
  BY <1>1, <1>4, <1>5 DEF NextMemory, Kept
<1>6. CASE s.key = FamilyOf(p)
  <2>1. SoundMemory(memoryCopy[p])
    BY DEF MemoriesAreSound
  <2>2. Matched(p)
    <3>1. s.key \in Sighted
      BY <2>1 DEF SoundMemory, SoundSightings
    <3> QED BY <1>2, <1>6, <3>1 DEF FamilyOf, Sighted
  <2>3. Newest(p) = s
    <3>1. Newest(p) \in memoryCopy[p]
      BY <2>2, MatchedIsCandidate
    <3> QED BY <1>6, <2>1, <2>2, <3>1 DEF FamilyOf, SoundMemory, SoundSightings
  <2>4. /\ mine.key = family[r] /\ mine.seen = now
        /\ mine.told = IF p \in pushed THEN now ELSE s.told
    BY <1>1, <1>2, <1>6, <2>2, <2>3, SightingTyped DEF ToldAt
  <2>5. mine \in NextMemory(p)
    BY DEF NextMemory
  <2> HIDE DEF mine
  <2>6. mine.seen >= startedAt[r] /\ (r \in pushed => mine.told >= startedAt[r])
    BY <1>1, <1>2, <1>3, <2>4
  <2> QED BY <2>4, <2>5, <2>6 DEF Kept
<1> QED BY <1>5, <1>6

\* Who writes the memory, and what becomes of the copies of the runs at work.
LEMMA MemoryStep ==
    ASSUME TypeOK, Shape, [Next]_vars
    PROVE  \/ UNCHANGED <<memory, family, unseen>>
           \/ \E p \in Run :
                 /\ pc[p] = "remembering" /\ pc'[p] \in {"cooling", "done"}
                 /\ memory' = NextMemory(p)
                 /\ family' = [family EXCEPT ![p] = FamilyOf(p)]
                 /\ memoryGone' = Misses(memoryGone, p)
                 /\ unseen' = (unseen \ {p}) \cup memoryGone[p]
                 /\ UNCHANGED <<now, startedAt, pushed>>
<1>1. CASE UNCHANGED vars
  BY <1>1 DEF vars, memories
<1>2. CASE Tick
  BY <1>2 DEF Tick, memories
<1>3. ASSUME NEW p \in Run, PersistSighting(p)
      PROVE  \/ UNCHANGED <<memory, family, unseen>>
             \/ /\ pc[p] = "remembering" /\ pc'[p] \in {"cooling", "done"}
                /\ memory' = NextMemory(p)
                /\ family' = [family EXCEPT ![p] = FamilyOf(p)]
                /\ memoryGone' = Misses(memoryGone, p)
                /\ unseen' = (unseen \ {p}) \cup memoryGone[p]
                /\ UNCHANGED <<now, startedAt, pushed>>
  BY <1>3 DEF PersistSighting, Goto, outcomes, TypeOK
<1>4. ASSUME NEW p \in Run, RunStep(p) \/ Die(p), ~PersistSighting(p)
      PROVE  UNCHANGED <<memory, family, unseen>>
  BY <1>4 DEF RunStep, Start, Consult, Answered, NotAnswered, Die, EndRun, Dismiss,
              CheckCooldown, Broadcast, PersistCooldown, memories
<1> QED BY <1>1, <1>2, <1>3, <1>4 DEF Next

LEMMA CopyStep ==
    ASSUME TypeOK, Shape, [Next]_vars, NEW q \in Run, Holding(q)'
    PROVE  \/ /\ Holding(q) /\ memoryCopy'[q] = memoryCopy[q]
              /\ memoryGone[q] \subseteq memoryGone'[q]
           \/ memoryCopy'[q] = memory /\ UNCHANGED <<memory, family, unseen>>
           \/ memoryGone'[q] = Sighted /\ UNCHANGED family
<1> USE DEF Holding
<1>1. CASE UNCHANGED vars
  BY <1>1 DEF vars, control, memories
<1>2. CASE Tick
  BY <1>2 DEF Tick, control, memories
<1>3. ASSUME NEW p \in Run, Start(p)
      PROVE  \/ Holding(q) /\ memoryCopy'[q] = memoryCopy[q] /\ memoryGone'[q] = memoryGone[q]
             \/ memoryCopy'[q] = memory /\ UNCHANGED <<memory, family, unseen>>
             \/ memoryGone'[q] = Sighted /\ UNCHANGED family
  BY <1>3 DEF Start, Goto, ReadMemory, TypeOK
<1>4. ASSUME NEW p \in Run, NotAnswered(p) \/ Die(p)
      PROVE  Holding(q) /\ memoryCopy'[q] = memoryCopy[q] /\ memoryGone'[q] = memoryGone[q]
  <2>1. /\ pc' = [pc EXCEPT ![p] = "done"] /\ memoryCopy' = [memoryCopy EXCEPT ![p] = {}]
        /\ memoryGone' = [memoryGone EXCEPT ![p] = {}]
    BY <1>4 DEF NotAnswered, Die, EndRun, Goto
  <2> QED BY <2>1 DEF TypeOK
<1>5. ASSUME NEW p \in Run, PersistSighting(p)
      PROVE  /\ Holding(q) /\ memoryCopy'[q] = memoryCopy[q]
             /\ memoryGone[q] \subseteq memoryGone'[q]
  <2>1. q # p /\ pc'[q] = pc[q] /\ memoryCopy'[q] = memoryCopy[q]
    BY <1>5 DEF PersistSighting, Goto, TypeOK
  <2>2. memoryGone[q] \subseteq memoryGone'[q]
    BY <1>5, <2>1 DEF PersistSighting, Misses, TypeOK
  <2> QED BY <2>1, <2>2
<1>6. ASSUME NEW p \in Run, \/ Consult(p) \/ Answered(p) \/ Dismiss(p) \/ CheckCooldown(p)
                            \/ Broadcast(p) \/ PersistCooldown(p)
      PROVE  Holding(q) /\ memoryCopy' = memoryCopy /\ memoryGone' = memoryGone
  BY <1>6 DEF Consult, Answered, Dismiss, CheckCooldown, Broadcast, PersistCooldown, memories,
              Goto, TypeOK
<1> QED BY <1>1, <1>2, <1>3, <1>4, <1>5, <1>6 DEF Next, RunStep

\* Sightings that every writer has read are in the memory, and in what a run holds
\* that could read them.
LEMMA WholeNext ==
    ASSUME TypeOK, Shape, MemoriesAreSound, MemoriesAreWhole, [Next]_vars
    PROVE  MemoriesAreWhole'
<1> SUFFICES ASSUME NEW r \in Sighted' \ unseen', now' - startedAt'[r] < MemoryTTL
             PROVE  /\ Kept(memory, r)'
                    /\ \A q \in Run : Holding(q)' /\ r \notin memoryGone'[q]
                                        => Kept(memoryCopy[q], r)'
  BY DEF MemoriesAreWhole, Kept
<1>0. r \in Run
  BY DEF Sighted
<1>1. CASE r \in Sighted
  <2>1. /\ family'[r] = family[r] /\ startedAt'[r] = startedAt[r]
        /\ (r \in pushed') = (r \in pushed) /\ now <= now'
    BY <1>0, <1>1, PastStays DEF Shape, Settled, Sighted
  <2>2. now - startedAt[r] < MemoryTTL
    <3>1. now \in Nat /\ now' \in Nat /\ startedAt[r] \in Nat /\ MemoryTTL \in Nat
      BY <1>0, TypeNext, TimesAssumption DEF TypeOK
    <3> QED BY <2>1, <3>1
  <2>3. r \notin unseen
    BY <1>1, MemoryStep DEF Shape, Sighted
  <2>4. /\ Kept(memory, r)
        /\ \A q \in Run : Holding(q) /\ r \notin memoryGone[q] => Kept(memoryCopy[q], r)
    BY <1>1, <2>2, <2>3 DEF MemoriesAreWhole
  <2>5. Kept(memory', r)
    <3>1. CASE memory' = memory
      BY <2>4, <3>1
    <3>2. ASSUME NEW p \in Run, pc[p] = "remembering", memory' = NextMemory(p),
                 unseen' = (unseen \ {p}) \cup memoryGone[p]
          PROVE  Kept(memory', r)
      <4>1. Kept(memoryCopy[p], r)
        BY <2>4, <3>2 DEF Holding
      <4> QED BY <1>1, <2>2, <3>2, <4>1, KeptThrough
    <3> QED BY <3>1, <3>2, MemoryStep
  <2>6. ASSUME NEW q \in Run, Holding(q)', r \notin memoryGone'[q]
        PROVE  Kept(memoryCopy'[q], r)
    BY <1>1, <2>4, <2>6, CopyStep
  <2> QED BY <2>1, <2>5, <2>6 DEF Kept
<1>2. CASE r \notin Sighted
  <2>1. /\ pc[r] = "remembering" /\ pc'[r] \in {"cooling", "done"}
        /\ memory' = NextMemory(r)
        /\ family' = [family EXCEPT ![r] = FamilyOf(r)]
        /\ memoryGone' = Misses(memoryGone, r)
        /\ UNCHANGED <<now, startedAt, pushed>>
    BY <1>0, <1>2, MemoryStep DEF Sighted, TypeOK
  <2>2. Kept(memory, r)'
    <3>1. family'[r] = FamilyOf(r) /\ SightingOf(r) \in memory'
      BY <1>0, <2>1 DEF NextMemory, TypeOK
    <3>2. /\ SightingOf(r).key = FamilyOf(r) /\ SightingOf(r).seen = startedAt[r]
          /\ r \in pushed => SightingOf(r).told = startedAt[r]
      BY <1>0, SightingTyped DEF ToldAt
    <3>3. startedAt[r] \in Nat
      BY <1>0 DEF TypeOK
    <3> QED BY <2>1, <3>1, <3>2, <3>3 DEF Kept
  <2>3. ASSUME NEW q \in Run, Holding(q)' PROVE r \in memoryGone'[q]
    <3>1. q # r /\ ~(memoryCopy'[q] = memory /\ UNCHANGED family)
          /\ ~(memoryGone'[q] = Sighted /\ UNCHANGED family)
      <4>1. family'[r] # family[r]
        BY <1>0, <1>2, <2>1, SightingTyped, ReportAssumption DEF Sighted, TypeOK
      <4> QED BY <2>1, <2>3, <4>1 DEF Holding
    <3>2. Holding(q)
      BY <2>3, <3>1, CopyStep
    <3> QED BY <2>1, <3>1, <3>2 DEF Misses, Holding, Active, Working
  <2> QED BY <2>2, <2>3
<1> QED BY <1>1, <1>2

-----------------------------------------------------------------------------
(* The answers *)

\* What is cached, and what is acted on, fits its question.
LEMMA AnswersNext ==
    ASSUME TypeOK, Shape, CacheFits, AnswerFitsQuestion, [Next]_vars
    PROVE  CacheFits' /\ AnswerFitsQuestion'
<1> DEFINE Fits(q) == (decision[q].verdict = "unasked") = (ContextOf(q) = {})
           Acting(q) == pc[q] \in {"deciding", "pushing", "remembering"}
<1>1. ASSUME NEW q \in Run, memoryCopy'[q] = memoryCopy[q], startedAt'[q] = startedAt[q],
             report' = report
      PROVE  ContextOf(q)' = ContextOf(q)
  BY <1>1 DEF ContextOf, Candidates, Current, Event, Km, Before, Within
<1>2. ASSUME NEW q \in Run, memoryCopy'[q] = memoryCopy[q], startedAt'[q] = startedAt[q],
             report' = report, decision'[q] = decision[q], Acting(q)
      PROVE  Fits(q)'
  BY <1>1, <1>2 DEF AnswerFitsQuestion
<1>3. CASE UNCHANGED vars
  BY <1>2, <1>3 DEF vars, control, memories, answers, CacheFits, AnswerFitsQuestion
<1>4. CASE Tick
  BY <1>2, <1>4 DEF Tick, control, memories, answers, CacheFits, AnswerFitsQuestion
<1>5. ASSUME NEW r \in Run, Start(r) PROVE CacheFits' /\ AnswerFitsQuestion'
  <2>1. ASSUME NEW q \in Run, Acting(q)'
        PROVE  /\ Acting(q) /\ memoryCopy'[q] = memoryCopy[q] /\ startedAt'[q] = startedAt[q]
               /\ report' = report /\ decision'[q] = decision[q]
    BY <1>5, <2>1 DEF Start, Goto, ReadMemory, TypeOK, answers
  <2>2. CacheFits'
    BY <1>5 DEF Start, answers, CacheFits
  <2> QED BY <1>2, <2>1, <2>2 DEF AnswerFitsQuestion
<1>6. ASSUME NEW r \in Run, Consult(r) PROVE CacheFits' /\ AnswerFitsQuestion'
  <2>1. CacheFits'
    BY <1>6 DEF Consult, CacheFits
  <2>2. ASSUME NEW q \in Run, q # r, Acting(q)' PROVE Fits(q)'
    <3>1. /\ Acting(q) /\ memoryCopy'[q] = memoryCopy[q] /\ startedAt'[q] = startedAt[q]
          /\ report' = report /\ decision'[q] = decision[q]
      BY <1>6, <2>2 DEF Consult, Goto, TypeOK, memories
    <3> QED BY <1>2, <3>1
  <2>3. ASSUME Acting(r)' PROVE Fits(r)'
    <3>1. PICK a \in Cached(r) : decision' = [decision EXCEPT ![r] = a.decision]
      BY <1>6, <2>3 DEF Consult, Goto, TypeOK
    <3>2. ContextOf(r)' = ContextOf(r)
      BY <1>1, <1>6 DEF Consult, memories
    <3>3. decision'[r] = a.decision /\ a.context = ContextOf(r) /\ a \in cache
      BY <3>1 DEF Cached, TypeOK
    <3> QED BY <3>2, <3>3 DEF CacheFits
  <2> QED BY <2>1, <2>2, <2>3 DEF AnswerFitsQuestion
<1>7. ASSUME NEW r \in Run, Answered(r) PROVE CacheFits' /\ AnswerFitsQuestion'
  <2>1. PICK d \in Valid(r) :
          /\ decision' = [decision EXCEPT ![r] = d]
          /\ cache' \subseteq cache \cup
                {[report |-> report[r], context |-> ContextOf(r), decision |-> d]}
    BY <1>7 DEF Answered
  <2>2. (d.verdict = "unasked") = (ContextOf(r) = {})
    BY DEF Valid
  <2>3. CacheFits'
    BY <2>1, <2>2 DEF CacheFits
  <2>4. ASSUME NEW q \in Run, q # r, Acting(q)' PROVE Fits(q)'
    <3>1. /\ Acting(q) /\ memoryCopy'[q] = memoryCopy[q] /\ startedAt'[q] = startedAt[q]
          /\ report' = report /\ decision'[q] = decision[q]
      BY <1>7, <2>4 DEF Answered, Goto, TypeOK, memories
    <3> QED BY <1>2, <3>1
  <2>5. Fits(r)'
    <3>1. ContextOf(r)' = ContextOf(r)
      BY <1>1, <1>7 DEF Answered, memories
    <3>2. decision'[r] = d
      BY <2>1 DEF TypeOK
    <3> QED BY <2>2, <3>1, <3>2
  <2> QED BY <2>3, <2>4, <2>5 DEF AnswerFitsQuestion
<1>8. ASSUME NEW r \in Run, NotAnswered(r) \/ Die(r) PROVE CacheFits' /\ AnswerFitsQuestion'
  <2>1. ASSUME NEW q \in Run, Acting(q)'
        PROVE  /\ Acting(q) /\ memoryCopy'[q] = memoryCopy[q] /\ startedAt'[q] = startedAt[q]
               /\ report' = report /\ decision'[q] = decision[q]
    BY <1>8, <2>1 DEF NotAnswered, Die, EndRun, Goto, TypeOK, answers
  <2>2. CacheFits'
    BY <1>8 DEF NotAnswered, Die, EndRun, answers, CacheFits
  <2> QED BY <1>2, <2>1, <2>2 DEF AnswerFitsQuestion
<1>9. ASSUME NEW r \in Run, Dismiss(r) \/ CheckCooldown(r) \/ Broadcast(r) \/ PersistCooldown(r)
      PROVE  CacheFits' /\ AnswerFitsQuestion'
  <2>1. UNCHANGED <<report, startedAt, memoryCopy, cache, decision>>
    BY <1>9 DEF Dismiss, CheckCooldown, Broadcast, PersistCooldown, memories, answers
  <2>2. ASSUME NEW q \in Run, Acting(q)' PROVE Acting(q)
    BY <1>9, <2>2 DEF Dismiss, CheckCooldown, Broadcast, PersistCooldown, Goto, TypeOK
  <2> QED BY <1>2, <2>1, <2>2 DEF AnswerFitsQuestion, CacheFits
<1>10. ASSUME NEW r \in Run, PersistSighting(r) PROVE CacheFits' /\ AnswerFitsQuestion'
  <2>1. UNCHANGED <<report, startedAt, cache, decision>>
    BY <1>10 DEF PersistSighting, answers
  <2>2. ASSUME NEW q \in Run, Acting(q)' PROVE Acting(q) /\ memoryCopy'[q] = memoryCopy[q]
    BY <1>10, <2>2 DEF PersistSighting, Goto, TypeOK
  <2> QED BY <1>2, <2>1, <2>2 DEF AnswerFitsQuestion, CacheFits
<1> QED BY <1>3, <1>4, <1>5, <1>6, <1>7, <1>8, <1>9, <1>10 DEF Next, RunStep

-----------------------------------------------------------------------------
(* The cooldown *)

LEMMA CooldownStep ==
    ASSUME TypeOK, Shape, [Next]_vars
    PROVE  \/ UNCHANGED <<cooldown, written>> /\ unnoted \subseteq unnoted'
           \/ \E p \in Run :
                 /\ pc[p] = "cooling" /\ pc'[p] = "done"
                 /\ cooldown' = NextCooldown(p)
                 /\ written' = written \cup {p}
                 /\ cooldownGone' = Misses(cooldownGone, p)
                 /\ unnoted' = (unnoted \ {p}) \cup cooldownGone[p]
                 /\ UNCHANGED <<now, startedAt, pushed, decision>>
<1>1. CASE UNCHANGED vars
  BY <1>1 DEF vars, cooling
<1>2. CASE Tick
  BY <1>2 DEF Tick, cooling
<1>3. ASSUME NEW p \in Run, PersistCooldown(p)
      PROVE  \/ UNCHANGED <<cooldown, written, unnoted>>
             \/ /\ pc[p] = "cooling" /\ pc'[p] = "done"
                /\ cooldown' = NextCooldown(p)
                /\ written' = written \cup {p}
                /\ cooldownGone' = Misses(cooldownGone, p)
                /\ unnoted' = (unnoted \ {p}) \cup cooldownGone[p]
                /\ UNCHANGED <<now, startedAt, pushed, decision>>
  BY <1>3 DEF PersistCooldown, Goto, answers, outcomes, TypeOK
<1>4. ASSUME NEW p \in Run, RunStep(p) \/ Die(p), ~PersistCooldown(p)
      PROVE  UNCHANGED <<cooldown, written>> /\ unnoted \subseteq unnoted'
  BY <1>4 DEF RunStep, Start, Consult, Answered, NotAnswered, Die, EndRun, Dismiss,
              CheckCooldown, Broadcast, PersistSighting, cooling
<1> QED BY <1>1, <1>2, <1>3, <1>4 DEF Next

LEMMA CooldownCopies ==
    ASSUME TypeOK, [Next]_vars
    PROVE  \A q \in Run : cooldownCopy'[q] \in {cooldownCopy[q], cooldown, {}}
<1>1. CASE UNCHANGED vars \/ Tick
  BY <1>1 DEF vars, Tick, cooling
<1>2. ASSUME NEW p \in Run, RunStep(p) \/ Die(p)
      PROVE  \A q \in Run : cooldownCopy'[q] \in {cooldownCopy[q], cooldown, {}}
  <2>1. CASE CheckCooldown(p)
    BY <2>1 DEF CheckCooldown, TypeOK
  <2>2. CASE NotAnswered(p) \/ Die(p)
    BY <2>2 DEF NotAnswered, Die, EndRun, TypeOK
  <2>3. CASE PersistCooldown(p)
    BY <2>3 DEF PersistCooldown, TypeOK
  <2>4. CASE \/ Start(p) \/ Consult(p) \/ Answered(p) \/ Dismiss(p) \/ Broadcast(p)
             \/ PersistSighting(p)
    BY <2>4 DEF Start, Consult, Answered, Dismiss, Broadcast, PersistSighting, cooling
  <2> QED BY <1>2, <2>1, <2>2, <2>3, <2>4 DEF RunStep
<1> QED BY <1>1, <1>2 DEF Next

\* Sound notes stay sound, and those a run writes are.
LEMMA NotesNext ==
    ASSUME TypeOK, Shape, MemoriesAreSound, CooldownsAreSound, [Next]_vars
    PROVE  CooldownsAreSound'
<1>1. /\ pushed \subseteq pushed' /\ report' = report
      /\ \A q \in pushed : startedAt'[q] = startedAt[q] /\ decision'[q] = decision[q]
  BY PastStays DEF Shape, Settled, TypeOK
<1>2. ASSUME NEW blob, SoundNotes(blob, pushed, startedAt, decision)
      PROVE  SoundNotes(blob, pushed', startedAt', decision')
  BY <1>1, <1>2 DEF SoundNotes
<1>3. ASSUME NEW p \in Run, pc[p] = "cooling"
      PROVE  SoundNotes(NextCooldown(p), pushed, startedAt, decision)
  <2>1. SoundNotes(cooldownCopy[p], pushed, startedAt, decision) /\ p \in pushed
    BY <1>3 DEF CooldownsAreSound, SoundCooldown, Shape
  <2>2. Others(p) \subseteq AliveFor(p)
    BY DEF Others
  <2>3. ASSUME NEW n \in Others(p)
        PROVE  /\ \E q \in pushed : Km(q) = n.km /\ startedAt[q] = n.at
               /\ n.max = "HIGH" => \E q \in pushed : decision[q].impact = "HIGH"
    BY <2>1, <2>2, CooldownWritten DEF SoundNotes
  <2>4. \E q \in pushed : Km(q) = NoteOf(p).km /\ startedAt[q] = NoteOf(p).at
    BY <2>1, CooldownWritten
  <2>5. ASSUME NoteOf(p).max = "HIGH" PROVE \E q \in pushed : decision[q].impact = "HIGH"
    <3>1. CASE decision[p].impact = "HIGH"
      BY <2>1, <3>1
    <3>2. ASSUME NEW n \in AliveFor(p), n.max = "HIGH"
          PROVE  \E q \in pushed : decision[q].impact = "HIGH"
      BY <2>1, <3>2, CooldownWritten DEF SoundNotes
    <3> QED BY <2>5, <3>1, <3>2, CooldownWritten
  <2> QED BY <2>3, <2>4, <2>5, CooldownWritten DEF SoundNotes
<1>4. SoundNotes(cooldown', pushed', startedAt', decision')
  BY <1>2, <1>3, CooldownStep DEF CooldownsAreSound, SoundCooldown
<1>5. \A q \in Run : SoundNotes(cooldownCopy'[q], pushed', startedAt', decision')
  <2>1. SoundNotes({}, pushed', startedAt', decision')
    BY DEF SoundNotes
  <2>2. /\ SoundNotes(cooldown, pushed', startedAt', decision')
        /\ \A q \in Run : SoundNotes(cooldownCopy[q], pushed', startedAt', decision')
    BY <1>2 DEF CooldownsAreSound, SoundCooldown
  <2> QED BY <2>1, <2>2, CooldownCopies
<1>6. SoundCooldown(cooldown)'
  BY <1>1, <1>4 DEF SoundCooldown, SoundNotes, Km
<1>7. \A q \in Run : SoundCooldown(cooldownCopy[q])'
  BY <1>1, <1>5 DEF SoundCooldown, SoundNotes, Km
<1> QED BY <1>6, <1>7 DEF CooldownsAreSound

\* Who is silenced has a push to be silenced by, and keeps it.
LEMMA SilenceNext ==
    ASSUME TypeOK, Shape, MemoriesAreSound, CooldownsAreSound, SilencedWithReason, [Next]_vars
    PROVE  SilencedWithReason'
<1>1. /\ pushed \subseteq pushed' /\ report' = report
      /\ \A q \in pushed \cup silenced : startedAt'[q] = startedAt[q] /\ decision'[q] = decision[q]
  BY PastStays DEF Shape, Settled, TypeOK
<1>2. \A q, r \in Run : Near(q, r)' = Near(q, r)
  BY <1>1 DEF Near, Km, Within
<1>3. pushed \subseteq Run /\ silenced \subseteq Run
  BY DEF TypeOK
<1>4. ASSUME NEW r \in silenced
      PROVE  (\E q \in pushed :
                /\ Near(q, r) /\ startedAt[r] - startedAt[q] <= Window
                /\ decision[r].impact = "HIGH" =>
                      \E p \in pushed : decision[p].impact = "HIGH")'
  <2>1. PICK q \in pushed :
          /\ Near(q, r) /\ startedAt[r] - startedAt[q] <= Window
          /\ decision[r].impact = "HIGH" => \E p \in pushed : decision[p].impact = "HIGH"
    BY DEF SilencedWithReason
  <2> QED BY <1>1, <1>2, <1>3, <2>1
<1>5. ASSUME NEW r \in Run, CheckCooldown(r),
             Blocked(cooldownCopy'[r], Km(r), startedAt[r], decision[r].impact)
      PROVE  \E q \in pushed :
                /\ Near(q, r) /\ startedAt[r] - startedAt[q] <= Window
                /\ decision[r].impact = "HIGH" => \E p \in pushed : decision[p].impact = "HIGH"
  <2> DEFINE blob == cooldownCopy'[r]
             n == FirstMatch(blob, Km(r))
  <2>1. blob \subseteq Notice /\ SoundNotes(blob, pushed, startedAt, decision)
    <3>1. SoundNotes({}, pushed, startedAt, decision)
      BY DEF SoundNotes
    <3> QED BY <3>1, CooldownCopies, TypeNext DEF CooldownsAreSound, SoundCooldown, TypeOK
  <2>2. n \in Matches(blob, Km(r))
    BY <1>5, <2>1, FirstMatches DEF Blocked
  <2>3. n \in blob /\ Within(n.km, Km(r), CooldownRange)
    BY <2>2 DEF Matches
  <2>4. startedAt[r] - n.at <= Window /\ (decision[r].impact = "HIGH" => n.max # "LOW")
    BY <1>5 DEF Blocked
  <2>5. n.max \in Impact
    BY <2>1, <2>3 DEF Notice
  <2> HIDE DEF n, blob
  <2>6. PICK q \in pushed : Km(q) = n.km /\ startedAt[q] = n.at
    BY <2>1, <2>3 DEF SoundNotes
  <2>7. decision[r].impact = "HIGH" => \E p \in pushed : decision[p].impact = "HIGH"
    BY <2>1, <2>3, <2>4, <2>5 DEF SoundNotes, Impact
  <2> QED BY <2>3, <2>4, <2>6, <2>7 DEF Near
<1>6. \/ silenced' = silenced
      \/ \E r \in Run :
            /\ CheckCooldown(r) /\ silenced' = silenced \cup {r}
            /\ Blocked(cooldownCopy'[r], Km(r), startedAt[r], decision[r].impact)
  <2>1. ASSUME NEW r \in Run, CheckCooldown(r)
        PROVE  \/ silenced' = silenced
               \/ /\ silenced' = silenced \cup {r}
                  /\ Blocked(cooldownCopy'[r], Km(r), startedAt[r], decision[r].impact)
    BY <2>1 DEF CheckCooldown
  <2>2. ASSUME NEW r \in Run, RunStep(r) \/ Die(r), ~CheckCooldown(r)
        PROVE  silenced' = silenced
    BY <2>2 DEF RunStep, Start, Consult, Answered, NotAnswered, Die, EndRun, Dismiss,
                Broadcast, PersistSighting, PersistCooldown, outcomes
  <2>3. CASE UNCHANGED vars \/ Tick
    BY <2>3 DEF vars, Tick, outcomes
  <2> QED BY <2>1, <2>2, <2>3 DEF Next
<1>7. ASSUME NEW r \in Run, CheckCooldown(r), silenced' = silenced \cup {r},
             Blocked(cooldownCopy'[r], Km(r), startedAt[r], decision[r].impact)
      PROVE  SilencedWithReason'
  <2>1. UNCHANGED <<startedAt, decision, pushed>>
    BY <1>7 DEF CheckCooldown, answers
  <2>2. (\E q \in pushed :
            /\ Near(q, r) /\ startedAt[r] - startedAt[q] <= Window
            /\ decision[r].impact = "HIGH" =>
                  \E p \in pushed : decision[p].impact = "HIGH")'
    BY <1>2, <1>3, <1>5, <1>7, <2>1
  <2> QED BY <1>4, <1>7, <2>2 DEF SilencedWithReason
<1>8. CASE silenced' = silenced
  BY <1>4, <1>8 DEF SilencedWithReason
<1> QED BY <1>6, <1>7, <1>8

-----------------------------------------------------------------------------
(* The invariant *)

IInv ==
    /\ TypeOK /\ Shape
    /\ MemoriesAreSound /\ MemoriesAreWhole
    /\ CooldownsAreSound /\ SilencedWithReason
    /\ CacheFits /\ AnswerFitsQuestion

LEMMA Initially == Init => IInv
<1> SUFFICES ASSUME Init PROVE IInv OBVIOUS
<1> USE DEF Init
<1>1. TypeOK
  <2>1. Quiet \in Decision
    BY DEF Quiet, Decision, Impact, Verdict
  <2> QED BY <2>1 DEF TypeOK, Working
<1>2. Shape
  BY DEF Shape, Active, Working, Sighted
<1>3. MemoriesAreSound
  BY DEF MemoriesAreSound, SoundMemory, SoundSightings
<1>4. MemoriesAreWhole
  BY DEF MemoriesAreWhole, Sighted
<1>5. CooldownsAreSound /\ SilencedWithReason
  BY DEF CooldownsAreSound, SoundCooldown, SoundNotes, SilencedWithReason
<1>6. CacheFits /\ AnswerFitsQuestion
  BY DEF CacheFits, AnswerFitsQuestion
<1> QED BY <1>1, <1>2, <1>3, <1>4, <1>5, <1>6 DEF IInv

LEMMA Inductive == IInv /\ [Next]_vars => IInv'
<1> SUFFICES ASSUME IInv, [Next]_vars PROVE IInv' OBVIOUS
<1>1. TypeOK' /\ Shape' /\ MemoriesAreSound'
  BY TypeNext, ShapeNext, SoundNext DEF IInv
<1>2. MemoriesAreWhole'
  BY WholeNext DEF IInv
<1>3. CooldownsAreSound' /\ SilencedWithReason'
  BY NotesNext, SilenceNext DEF IInv
<1>4. CacheFits' /\ AnswerFitsQuestion'
  BY AnswersNext DEF IInv
<1> QED BY <1>1, <1>2, <1>3, <1>4 DEF IInv

LEMMA Invariant == Spec => []IInv
  BY Initially, Inductive, PTL DEF Spec

\* Every variable of runAiDecisionPath stays in its set.
THEOREM TypeCorrect == Spec => []TypeOK
<1>1. IInv => TypeOK
  BY DEF IInv
<1> QED BY <1>1, Invariant, PTL

\* The answer acted on, cached or not, fits the question (resolveAiDecision).
THEOREM AnswersFit == Spec => []AnswerFitsQuestion
<1>1. IInv => AnswerFitsQuestion
  BY DEF IInv
<1> QED BY <1>1, Invariant, PTL

\* The cooldown stops nobody without a push near by, within the hour
\* (evaluatePositionCooldown), however consumers overlap and whatever fails.
THEOREM SilenceHasReason == Spec => []SilencedWithReason
<1>1. IInv => SilencedWithReason
  BY DEF IInv
<1> QED BY <1>1, Invariant, PTL

\* No lastNotifiedAt without a notification (buildIncidentMemoryUpdate).
THEOREM ToldWasPushed == Spec => []NotifiedWasPushed
<1>1. IInv => NotifiedWasPushed
  BY DEF IInv, MemoriesAreSound, SoundMemory, SoundSightings, NotifiedWasPushed
<1> QED BY <1>1, Invariant, PTL

\* A sighting that every writer had read is in the memory, for its eight hours.
THEOREM SightingsAreKept == Spec => []SightingsKept
<1>1. IInv => SightingsKept
  BY DEF IInv, MemoriesAreWhole, Kept, SightingsKept, Sighted
<1> QED BY <1>1, Invariant, PTL

-----------------------------------------------------------------------------
(* Repeats, where the places of reports fall into clusters *)

\* Being within range is transitive among the places that reports name.
Clustered ==
    \A p, q, s \in Report :
        Within(KmOf[p], KmOf[q], CooldownRange) /\ Within(KmOf[q], KmOf[s], CooldownRange)
            => Within(KmOf[p], KmOf[s], CooldownRange)

OnePerPlace(blob) == \A m, n \in blob : Within(m.km, n.km, CooldownRange) => m = n

\* The push of q is on record in the blob, by its own note or a later one of its place.
Noted(blob, q) ==
    \E n \in blob :
        /\ Within(n.km, Km(q), CooldownRange) /\ n.at >= startedAt[q]
        /\ decision[q].impact = "HIGH" => n.max = "HIGH"

\* A run that has read the cooldown, and not yet written it back.
Checked(r) == pc[r] = "pushing" \/ (pc[r] \in {"remembering", "cooling"} /\ r \in pushed)

CooldownsAreWhole ==
    /\ pushed \subseteq unnoted \cup written
    /\ OnePerPlace(cooldown) /\ \A r \in Run : OnePerPlace(cooldownCopy[r])
    /\ \A q \in pushed \ unnoted :
          Km(q) # NoKm /\ now - startedAt[q] < CooldownTTL =>
              /\ Noted(cooldown, q)
              /\ \A r \in Run : Checked(r) /\ q \notin cooldownGone[r]
                                  => Noted(cooldownCopy[r], q)
    /\ \A r \in Run : pc[r] = "pushing" =>
          ~Blocked(cooldownCopy[r], Km(r), startedAt[r], decision[r].impact)

LEMMA WithinIsSymmetric ==
    ASSUME NEW a \in Place, NEW b \in Place, Within(a, b, CooldownRange)
    PROVE  Within(b, a, CooldownRange)
  BY DEF Within, Place

LEMMA WithinItself ==
    ASSUME NEW a \in Place, a # NoKm
    PROVE  Within(a, a, CooldownRange)
  BY TimesAssumption DEF Within, Place

LEMMA WithinIsTransitive ==
    ASSUME Clustered, NEW a, NEW b, NEW c, a \in {KmOf[p] : p \in Report},
           b \in {KmOf[p] : p \in Report}, c \in {KmOf[p] : p \in Report},
           Within(a, b, CooldownRange), Within(b, c, CooldownRange)
    PROVE  Within(a, c, CooldownRange)
  BY DEF Clustered

\* Notes are of places that reports name.
LEMMA NotePlaces ==
    ASSUME TypeOK, CooldownsAreSound, NEW r \in Run
    PROVE  /\ Km(r) \in {KmOf[p] : p \in Report}
           /\ \A n \in cooldownCopy[r] : n.km \in {KmOf[p] : p \in Report}
           /\ {KmOf[p] : p \in Report} \subseteq Place
<1>1. \A q \in Run : Km(q) \in {KmOf[p] : p \in Report}
  BY DEF Km, TypeOK
<1>2. \A n \in cooldownCopy[r] : n.km \in {KmOf[p] : p \in Report}
  BY <1>1 DEF CooldownsAreSound, SoundCooldown, SoundNotes, TypeOK
<1>3. {KmOf[p] : p \in Report} \subseteq Place
  BY ReportAssumption DEF Place
<1> QED BY <1>1, <1>2, <1>3

\* What a run writes has one note per place.
LEMMA WrittenOnePerPlace ==
    ASSUME Clustered, TypeOK, CooldownsAreSound, NEW r \in Run, OnePerPlace(cooldownCopy[r])
    PROVE  OnePerPlace(NextCooldown(r))
<1> DEFINE old == FirstMatch(AliveFor(r), Km(r))
           mine == NoteOf(r)
           kms == {KmOf[p] : p \in Report}
<1>1. /\ NextCooldown(r) = Others(r) \cup {mine} /\ mine.km = Km(r)
      /\ AliveFor(r) \subseteq cooldownCopy[r]
      /\ MatchedBy(r) # {} => old \in MatchedBy(r)
  BY CooldownWritten
<1>2. /\ Km(r) \in kms /\ kms \subseteq Place
      /\ \A n \in AliveFor(r) : n.km \in kms
  BY <1>1, NotePlaces
<1>3. Others(r) \subseteq AliveFor(r) /\ (MatchedBy(r) # {} => old \notin Others(r))
  BY DEF Others
<1> HIDE DEF mine, old, kms
<1>4. ASSUME NEW m \in Others(r) PROVE ~Within(m.km, Km(r), CooldownRange)
  <2> SUFFICES ASSUME Within(m.km, Km(r), CooldownRange) PROVE FALSE
    OBVIOUS
  <2>1. m \in AliveFor(r) /\ m \in MatchedBy(r)
    BY <1>3 DEF MatchedBy, Matches
  <2>2. old \in AliveFor(r) /\ Within(old.km, Km(r), CooldownRange)
    BY <1>1, <2>1 DEF MatchedBy, Matches
  <2>3. Within(Km(r), old.km, CooldownRange)
    BY <1>2, <2>2, WithinIsSymmetric
  <2>4. Within(m.km, old.km, CooldownRange)
    BY <1>2, <2>1, <2>2, <2>3, WithinIsTransitive DEF kms
  <2> QED BY <1>1, <1>3, <2>1, <2>2, <2>4 DEF OnePerPlace
<1>5. ASSUME NEW m \in Others(r) PROVE ~Within(Km(r), m.km, CooldownRange)
  BY <1>2, <1>3, <1>4, WithinIsSymmetric
<1> QED BY <1>1, <1>3, <1>4, <1>5 DEF OnePerPlace

\* A push that a run has read of is on record in what it writes.
LEMMA NotedThrough ==
    ASSUME Clustered, TypeOK, Shape, CooldownsAreSound, NEW r \in Run, pc[r] = "cooling",
           NEW q \in pushed, now - startedAt[q] < CooldownTTL, Noted(cooldownCopy[r], q)
    PROVE  Noted(NextCooldown(r), q)
<1> DEFINE old == FirstMatch(AliveFor(r), Km(r))
           mine == NoteOf(r)
           kms == {KmOf[p] : p \in Report}
<1>1. PICK n \in cooldownCopy[r] :
        /\ Within(n.km, Km(q), CooldownRange) /\ n.at >= startedAt[q]
        /\ decision[q].impact = "HIGH" => n.max = "HIGH"
  BY DEF Noted
<1>2. /\ NextCooldown(r) = Others(r) \cup {mine} /\ mine.km = Km(r) /\ mine.at = startedAt[r]
      /\ MatchedBy(r) # {} =>
            old \in MatchedBy(r) /\ (old.max = "HIGH" => mine.max = "HIGH")
      /\ cooldownCopy[r] \subseteq Notice
  BY CooldownWritten
<1>3. q \in Run /\ startedAt[r] = now /\ startedAt[q] <= now
  BY DEF Shape, Active, Working, TypeOK
<1>4. now \in Nat /\ startedAt[q] \in Nat /\ n.at \in Nat /\ CooldownTTL \in Nat
  BY <1>2, <1>3, TimesAssumption DEF TypeOK, Notice
<1>5. n \in AliveFor(r)
  BY <1>1, <1>3, <1>4 DEF AliveFor, Alive
<1>6. CASE n \in Others(r)
  BY <1>1, <1>2, <1>6 DEF Noted
<1>7. CASE n \notin Others(r)
  <2>1. MatchedBy(r) # {} /\ n = old
    BY <1>5, <1>7 DEF Others
  <2>2. Within(n.km, Km(r), CooldownRange)
    BY <1>2, <2>1 DEF MatchedBy, Matches
  <2>3. Km(r) \in kms /\ Km(q) \in kms /\ n.km \in kms /\ kms \subseteq Place
    BY <1>3, NotePlaces
  <2> HIDE DEF mine, old, kms
  <2>4. Within(Km(r), n.km, CooldownRange)
    BY <2>2, <2>3, WithinIsSymmetric
  <2>5. Within(Km(r), Km(q), CooldownRange)
    BY <1>1, <2>3, <2>4, WithinIsTransitive DEF kms
  <2>6. mine.at >= startedAt[q]
    BY <1>2, <1>3, <1>4
  <2>7. decision[q].impact = "HIGH" => mine.max = "HIGH"
    BY <1>1, <1>2, <2>1
  <2> QED BY <1>2, <2>5, <2>6, <2>7 DEF Noted
<1> QED BY <1>6, <1>7

LEMMA CheckedStep ==
    ASSUME TypeOK, Shape, [Next]_vars, NEW r \in Run, Checked(r)'
    PROVE  \/ /\ Checked(r) /\ cooldownCopy'[r] = cooldownCopy[r]
              /\ cooldownGone[r] \subseteq cooldownGone'[r]
           \/ cooldownCopy'[r] = cooldown /\ UNCHANGED <<cooldown, unnoted, pushed>>
           \/ cooldownGone'[r] = written /\ UNCHANGED <<cooldown, unnoted, pushed>>
<1> USE DEF Checked
<1>1. CASE UNCHANGED vars \/ Tick
  BY <1>1 DEF vars, Tick, control, cooling, outcomes
<1>2. ASSUME NEW p \in Run, \/ Start(p) \/ Consult(p) \/ Answered(p) \/ Dismiss(p)
                            \/ PersistSighting(p)
      PROVE  Checked(r) /\ UNCHANGED <<cooldownCopy, cooldownGone>>
  <2>1. UNCHANGED <<cooldownCopy, cooldownGone, pushed>>
    BY <1>2 DEF Start, Consult, Answered, Dismiss, PersistSighting, cooling, outcomes
  <2>2. CASE Start(p) \/ Consult(p) \/ Answered(p)
    BY <2>1, <2>2 DEF Start, Consult, Answered, Goto, TypeOK
  <2>3. CASE Dismiss(p)
    <3>1. pc[p] = "deciding" /\ pc' = [pc EXCEPT ![p] = "remembering"] /\ p \notin pushed
      BY <2>3 DEF Dismiss, Goto, Shape
    <3> QED BY <2>1, <3>1 DEF TypeOK
  <2>4. CASE PersistSighting(p)
    <3>1. pc[p] = "remembering"
          /\ pc' = [pc EXCEPT ![p] = IF p \in pushed THEN "cooling" ELSE "done"]
      BY <2>4 DEF PersistSighting, Goto
    <3> QED BY <2>1, <3>1 DEF TypeOK
  <2> QED BY <1>2, <2>1, <2>2, <2>3, <2>4
<1>3. ASSUME NEW p \in Run, NotAnswered(p) \/ Die(p)
      PROVE  /\ Checked(r) /\ cooldownCopy'[r] = cooldownCopy[r]
             /\ cooldownGone'[r] = cooldownGone[r]
  <2>1. /\ pc' = [pc EXCEPT ![p] = "done"] /\ cooldownCopy' = [cooldownCopy EXCEPT ![p] = {}]
        /\ cooldownGone' = [cooldownGone EXCEPT ![p] = {}] /\ pushed' = pushed
    BY <1>3 DEF NotAnswered, Die, EndRun, Goto, outcomes
  <2> QED BY <2>1 DEF TypeOK
<1>4. ASSUME NEW p \in Run, CheckCooldown(p)
      PROVE  \/ /\ Checked(r) /\ cooldownCopy'[r] = cooldownCopy[r]
                /\ cooldownGone'[r] = cooldownGone[r]
             \/ cooldownCopy'[r] = cooldown /\ UNCHANGED <<cooldown, unnoted, pushed>>
             \/ cooldownGone'[r] = written /\ UNCHANGED <<cooldown, unnoted, pushed>>
  <2>1. UNCHANGED <<cooldown, unnoted, pushed>>
    BY <1>4 DEF CheckCooldown
  <2>2. CASE r = p
    BY <1>4, <2>1, <2>2 DEF CheckCooldown, TypeOK
  <2>3. CASE r # p
    BY <1>4, <2>1, <2>3 DEF CheckCooldown, Goto, TypeOK
  <2> QED BY <2>2, <2>3
<1>5. ASSUME NEW p \in Run, Broadcast(p)
      PROVE  Checked(r) /\ UNCHANGED <<cooldownCopy, cooldownGone>>
  <2>1. /\ pc[p] = "pushing" /\ pc' = [pc EXCEPT ![p] = "remembering"]
        /\ pushed' \subseteq pushed \cup {p} /\ UNCHANGED <<cooldownCopy, cooldownGone>>
    BY <1>5 DEF Broadcast, Goto
  <2> QED BY <2>1 DEF TypeOK
<1>6. ASSUME NEW p \in Run, PersistCooldown(p)
      PROVE  /\ Checked(r) /\ cooldownCopy'[r] = cooldownCopy[r]
             /\ cooldownGone[r] \subseteq cooldownGone'[r]
  <2>1. r # p /\ pc'[r] = pc[r] /\ cooldownCopy'[r] = cooldownCopy[r] /\ pushed' = pushed
    BY <1>6 DEF PersistCooldown, Goto, TypeOK, outcomes
  <2>2. cooldownGone[r] \subseteq cooldownGone'[r]
    BY <1>6, <2>1 DEF PersistCooldown, Misses, TypeOK
  <2> QED BY <2>1, <2>2
<1> QED BY <1>1, <1>2, <1>3, <1>4, <1>5, <1>6 DEF Next, RunStep

\* Who is pushed is not yet noted.
LEMMA PushStep ==
    ASSUME TypeOK, [Next]_vars, NEW q \in pushed', q \notin pushed
    PROVE  /\ q \in unnoted' /\ pc[q] = "pushing"
           /\ UNCHANGED <<startedAt, decision, report, cooldownCopy, cooldownGone>>
<1>1. CASE UNCHANGED vars \/ Tick
  BY <1>1 DEF vars, Tick, outcomes
<1>2. ASSUME NEW p \in Run, Broadcast(p)
      PROVE  /\ q \in unnoted' /\ pc[q] = "pushing"
             /\ UNCHANGED <<startedAt, decision, report, cooldownCopy, cooldownGone>>
  BY <1>2 DEF Broadcast, answers
<1>3. ASSUME NEW p \in Run, RunStep(p) \/ Die(p) PROVE Broadcast(p)
  BY <1>3 DEF RunStep, Start, Consult, Answered, NotAnswered, Die, EndRun, Dismiss,
              CheckCooldown, PersistSighting, PersistCooldown, outcomes
<1> QED BY <1>1, <1>2, <1>3 DEF Next

\* A run that comes to push, or stays there, is not blocked by what it has read.
LEMMA PushingIsFree ==
    ASSUME TypeOK, Shape, CooldownsAreWhole, [Next]_vars, NEW r \in Run, pc'[r] = "pushing"
    PROVE  ~Blocked(cooldownCopy'[r], Km(r)', startedAt'[r], decision'[r].impact)
<1>1. CASE CheckCooldown(r)
  <2>1. ~Blocked(cooldownCopy'[r], Km(r), startedAt[r], decision[r].impact)
    BY <1>1 DEF CheckCooldown, Goto, TypeOK
  <2>2. UNCHANGED <<report, startedAt, decision>>
    BY <1>1 DEF CheckCooldown, answers
  <2> QED BY <2>1, <2>2 DEF Km
<1>2. CASE ~CheckCooldown(r)
  <2>1. /\ pc[r] = "pushing" /\ cooldownCopy'[r] = cooldownCopy[r] /\ report' = report
        /\ startedAt'[r] = startedAt[r] /\ decision'[r] = decision[r]
    <3>1. CASE UNCHANGED vars \/ Tick
      BY <3>1 DEF vars, Tick, control, cooling, answers
    <3>2. ASSUME NEW p \in Run, Start(p) \/ Consult(p) \/ Answered(p)
          PROVE  /\ pc[r] = "pushing" /\ cooldownCopy'[r] = cooldownCopy[r] /\ report' = report
                 /\ startedAt'[r] = startedAt[r] /\ decision'[r] = decision[r]
      BY <3>2 DEF Start, Consult, Answered, Goto, TypeOK, cooling, answers
    <3>3. ASSUME NEW p \in Run, \/ NotAnswered(p) \/ Die(p) \/ Dismiss(p) \/ Broadcast(p)
                                \/ PersistSighting(p) \/ PersistCooldown(p)
          PROVE  pc[r] = "pushing" /\ r # p
      BY <3>3 DEF NotAnswered, Die, EndRun, Dismiss, Broadcast, PersistSighting,
                  PersistCooldown, Goto, TypeOK
    <3>4. ASSUME NEW p \in Run, r # p, NotAnswered(p) \/ Die(p)
          PROVE  cooldownCopy'[r] = cooldownCopy[r] /\ UNCHANGED <<report, startedAt, decision>>
      BY <3>4 DEF NotAnswered, Die, EndRun, TypeOK, answers
    <3>5. ASSUME NEW p \in Run, r # p,
                 \/ Dismiss(p) \/ Broadcast(p) \/ PersistSighting(p) \/ PersistCooldown(p)
          PROVE  cooldownCopy'[r] = cooldownCopy[r] /\ UNCHANGED <<report, startedAt, decision>>
      BY <3>5 DEF Dismiss, Broadcast, PersistSighting, PersistCooldown, TypeOK, answers, cooling
    <3>6. ASSUME NEW p \in Run, r # p, CheckCooldown(p)
          PROVE  /\ pc[r] = "pushing" /\ cooldownCopy'[r] = cooldownCopy[r]
                 /\ UNCHANGED <<report, startedAt, decision>>
      BY <3>6 DEF CheckCooldown, Goto, TypeOK, answers
    <3> QED BY <1>2, <3>1, <3>2, <3>3, <3>4, <3>5, <3>6 DEF Next, RunStep
  <2>2. ~Blocked(cooldownCopy[r], Km(r), startedAt[r], decision[r].impact)
    BY <2>1 DEF CooldownsAreWhole
  <2> QED BY <2>1, <2>2 DEF Km
<1> QED BY <1>1, <1>2

\* Pushes that every writer has read of are on record, in the cooldown and in what a
\* run holds that could read of them.
LEMMA CooldownsWholeNext ==
    ASSUME Clustered, TypeOK, Shape, MemoriesAreSound, CooldownsAreSound, CooldownsAreWhole,
           [Next]_vars
    PROVE  CooldownsAreWhole'
<1>1. OnePerPlace(cooldown)'
  <2>1. OnePerPlace(cooldown')
    BY CooldownStep, WrittenOnePerPlace DEF CooldownsAreWhole
  <2> QED BY <2>1 DEF OnePerPlace
<1>2. \A r \in Run : OnePerPlace(cooldownCopy[r])'
  <2>1. OnePerPlace({})
    BY DEF OnePerPlace
  <2>2. \A r \in Run : OnePerPlace(cooldownCopy'[r])
    BY <2>1, CooldownCopies DEF CooldownsAreWhole
  <2> QED BY <2>2 DEF OnePerPlace
<1>3. (\A r \in Run : pc[r] = "pushing" =>
          ~Blocked(cooldownCopy[r], Km(r), startedAt[r], decision[r].impact))'
  <2>1. \A r \in Run : pc'[r] = "pushing" =>
            ~Blocked(cooldownCopy'[r], Km(r)', startedAt'[r], decision'[r].impact)
    BY PushingIsFree
  <2> QED BY <2>1 DEF Blocked, Matches, FirstMatch, Within, Km
<1>4. pushed' \subseteq unnoted' \cup written'
  <2> SUFFICES ASSUME NEW q \in pushed' PROVE q \in unnoted' \cup written'
    OBVIOUS
  <2>1. CASE q \in pushed
    BY <2>1, CooldownStep DEF CooldownsAreWhole
  <2>2. CASE q \notin pushed
    BY <2>2, PushStep
  <2> QED BY <2>1, <2>2
<1>5. ASSUME NEW q \in pushed', q \notin unnoted', Km(q)' # NoKm,
             now' - startedAt'[q] < CooldownTTL
      PROVE  /\ Noted(cooldown, q)'
             /\ \A r \in Run : Checked(r)' /\ q \notin cooldownGone'[r]
                                  => Noted(cooldownCopy[r], q)'
  <2>1. q \in pushed
    BY <1>5, PushStep
  <2>2. /\ q \in Run /\ Km(q)' = Km(q) /\ now <= now'
        /\ startedAt'[q] = startedAt[q] /\ decision'[q] = decision[q]
    BY <2>1, PastStays DEF Shape, Settled, TypeOK, Km
  <2>3. now - startedAt[q] < CooldownTTL
    <3>1. now \in Nat /\ now' \in Nat /\ startedAt[q] \in Nat /\ CooldownTTL \in Nat
      BY <2>2, TypeNext, TimesAssumption DEF TypeOK
    <3> QED BY <1>5, <2>2, <3>1
  <2>4. ASSUME NEW blob, Noted(blob, q)
        PROVE  \E n \in blob :
                  /\ Within(n.km, Km(q)', CooldownRange) /\ n.at >= startedAt'[q]
                  /\ decision'[q].impact = "HIGH" => n.max = "HIGH"
    BY <2>2, <2>4 DEF Noted
  <2>5. CASE q \notin unnoted
    <3>1. /\ Noted(cooldown, q)
          /\ \A r \in Run : Checked(r) /\ q \notin cooldownGone[r] => Noted(cooldownCopy[r], q)
      BY <1>5, <2>1, <2>2, <2>3, <2>5 DEF CooldownsAreWhole
    <3>2. Noted(cooldown', q)
      <4>1. ASSUME NEW p \in Run, pc[p] = "cooling", cooldown' = NextCooldown(p),
                   unnoted' = (unnoted \ {p}) \cup cooldownGone[p]
            PROVE  Noted(cooldown', q)
        <5>1. Noted(cooldownCopy[p], q)
          BY <1>5, <3>1, <4>1 DEF Checked, Shape
        <5> QED BY <2>1, <2>3, <4>1, <5>1, NotedThrough
      <4> QED BY <3>1, <4>1, CooldownStep
    <3>3. ASSUME NEW r \in Run, Checked(r)', q \notin cooldownGone'[r]
          PROVE  Noted(cooldownCopy'[r], q)
      <4>1. q \in written
        BY <2>1, <2>5 DEF CooldownsAreWhole
      <4> QED BY <3>1, <3>3, <4>1, CheckedStep
    <3>4. Noted(cooldown, q)'
      BY <2>4, <3>2 DEF Noted
    <3>5. \A r \in Run : Checked(r)' /\ q \notin cooldownGone'[r] => Noted(cooldownCopy[r], q)'
      BY <2>4, <3>3 DEF Noted
    <3> QED BY <3>4, <3>5
  <2>6. CASE q \in unnoted
    <3>1. /\ pc[q] = "cooling" /\ pc'[q] = "done" /\ cooldown' = NextCooldown(q)
          /\ cooldownGone' = Misses(cooldownGone, q)
          /\ unnoted' = (unnoted \ {q}) \cup cooldownGone[q]
          /\ UNCHANGED pushed
      BY <1>5, <2>6, CooldownStep
    <3>2. Noted(cooldown', q)
      <4>1. NoteOf(q) \in cooldown' /\ NoteOf(q).km = Km(q) /\ NoteOf(q).at = startedAt[q]
            /\ (decision[q].impact = "HIGH" => NoteOf(q).max = "HIGH")
        BY <2>2, <3>1, CooldownWritten
      <4>2. Within(Km(q), Km(q), CooldownRange) /\ startedAt[q] \in Nat
        BY <1>5, <2>2, ReportTyped, WithinItself
      <4> QED BY <4>1, <4>2 DEF Noted
    <3>3. ASSUME NEW r \in Run, Checked(r)' PROVE q \in cooldownGone'[r]
      <4>1. r # q
        BY <3>1, <3>3 DEF Checked
      <4>2. Checked(r)
        BY <1>5, <2>6, <3>3, CheckedStep
      <4> QED BY <3>1, <4>1, <4>2 DEF Misses, Checked, Active, Working
    <3>4. Noted(cooldown, q)'
      BY <2>4, <3>2 DEF Noted
    <3> QED BY <3>3, <3>4
  <2> QED BY <2>5, <2>6
<1> QED BY <1>1, <1>2, <1>3, <1>4, <1>5 DEF CooldownsAreWhole

\* A push that goes out has no unexplained forerunner.
LEMMA PushIsNoRepeat ==
    ASSUME Clustered, IInv, CooldownsAreWhole, [Next]_vars,
           NEW r \in pushed' \ pushed, NEW q \in Run, Repeats(r, q)
    PROVE  q \in unnoted \cup cooldownGone[r]
<1> SUFFICES ASSUME q \notin unnoted, q \notin cooldownGone[r] PROVE FALSE
  OBVIOUS
<1> USE DEF IInv
<1>1. r \in Run /\ pc[r] = "pushing"
  BY PushStep, TypeNext DEF TypeOK
<1>2. /\ ~Blocked(cooldownCopy[r], Km(r), startedAt[r], decision[r].impact)
      /\ OnePerPlace(cooldownCopy[r])
  BY <1>1 DEF CooldownsAreWhole
<1>3. /\ q \in pushed /\ Within(Km(q), Km(r), CooldownRange)
      /\ startedAt[r] - startedAt[q] <= Window
      /\ ~(decision[r].impact = "HIGH" /\ decision[q].impact = "LOW")
  BY DEF Repeats, Near
<1>4. startedAt[r] = now /\ now \in Nat /\ startedAt[q] \in Nat
      /\ decision[q].impact \in {"LOW", "HIGH"}
      /\ Window \in Nat /\ CooldownTTL \in Nat /\ Window < CooldownTTL
  BY <1>1, ReportTyped, TimesAssumption DEF Shape, Active, Working, TypeOK, Impact
<1>5. Noted(cooldownCopy[r], q)
  <2>1. Km(q) # NoKm /\ now - startedAt[q] < CooldownTTL
    BY <1>3, <1>4 DEF Within
  <2> QED BY <1>1, <1>3, <2>1 DEF CooldownsAreWhole, Checked
<1>6. PICK n \in cooldownCopy[r] :
        /\ Within(n.km, Km(q), CooldownRange) /\ n.at >= startedAt[q]
        /\ decision[q].impact = "HIGH" => n.max = "HIGH"
  BY <1>5 DEF Noted
<1>7. /\ cooldownCopy[r] \subseteq Notice /\ n.at \in Nat
      /\ \A m \in cooldownCopy[r] : m.km \in {KmOf[p] : p \in Report}
      /\ Km(r) \in {KmOf[p] : p \in Report} /\ Km(q) \in {KmOf[p] : p \in Report}
      /\ {KmOf[p] : p \in Report} \subseteq Place
  BY <1>1, NotePlaces DEF TypeOK, Notice
<1>8. n \in Matches(cooldownCopy[r], Km(r))
  <2>1. Within(n.km, Km(r), CooldownRange)
    BY <1>3, <1>6, <1>7, WithinIsTransitive
  <2> QED BY <2>1 DEF Matches
<1>9. FirstMatch(cooldownCopy[r], Km(r)) = n
  <2> DEFINE m == FirstMatch(cooldownCopy[r], Km(r))
  <2>1. m \in Matches(cooldownCopy[r], Km(r))
    BY <1>7, <1>8, FirstMatches
  <2> HIDE DEF m
  <2>2. m \in cooldownCopy[r] /\ Within(m.km, Km(r), CooldownRange)
    BY <2>1 DEF Matches
  <2>3. Within(Km(r), n.km, CooldownRange)
    BY <1>7, <1>8, WithinIsSymmetric DEF Matches
  <2>4. Within(m.km, n.km, CooldownRange)
    BY <1>7, <2>2, <2>3, WithinIsTransitive
  <2>5. m = n
    BY <1>2, <2>2, <2>4 DEF OnePerPlace
  <2> QED BY <2>5 DEF m
<1>10. startedAt[r] - n.at <= Window
  BY <1>3, <1>4, <1>6, <1>7
<1>11. ~(decision[r].impact = "HIGH" /\ n.max = "LOW")
  BY <1>3, <1>4, <1>6
<1> QED BY <1>2, <1>8, <1>9, <1>10, <1>11 DEF Blocked

\* Where places fall into clusters, a place is told twice within the hour only after a
\* lost note, whatever the AI says (evaluatePositionCooldown).
THEOREM RepeatsAreCaused == Clustered => (Spec => RepeatsHaveACause)
<1> SUFFICES ASSUME Clustered PROVE Spec => RepeatsHaveACause
  OBVIOUS
<1>1. Init => CooldownsAreWhole
  BY DEF Init, CooldownsAreWhole, OnePerPlace
<1>2. IInv /\ CooldownsAreWhole /\ [Next]_vars => CooldownsAreWhole'
  BY CooldownsWholeNext DEF IInv
<1>3. IInv /\ CooldownsAreWhole /\ [Next]_vars =>
          [\A r \in pushed' \ pushed, q \in Run :
              Repeats(r, q) => q \in unnoted \cup cooldownGone[r]]_vars
  BY PushIsNoRepeat
<1> QED BY <1>1, <1>2, <1>3, Invariant, PTL DEF Spec, RepeatsHaveACause

=============================================================================
