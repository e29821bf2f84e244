------------------------------ MODULE Subscriptions ------------------------------
(***************************************************************************)
(* Who is told: one KV blob with the switch of every user and group, read  *)
(* whole and written back whole by LINE webhook calls and, while entries   *)
(* of the old format are left, by the cron run.                            *)
(*                                                                         *)
(* A session is one webhook call or one cron run, cut at its awaits.  The  *)
(* clock enabledAt is data of the legacy broadcast and is left out.        *)
(***************************************************************************)
EXTENDS Integers

CONSTANTS
    Session,  \* webhook calls and cron runs
    Target,   \* users and groups
    NoCommand,
    Faults,   \* the kinds of fault that may happen
    MaxFaults \* bound: how many faults happen in a behaviour

VARIABLES
    pc,       \* pc[s]: where session s is
    faults,   \* faults that have happened
    subs,     \* the switches, as stored
    subsCopy, \* subsCopy[s]: the switches as session s has read them
    command,  \* command[s]: what the user of webhook call s wants
    said,     \* history: said[t]: the last answer t got
    missed,   \* history: missed[s]: targets switched since s has read
    unsure    \* history: targets for which a fault or an overlap happened

-----------------------------------------------------------------------------
(* State *)

\* "legacy": a bare `true`, from before enabledAt.
Switch == {"never", "legacy", "on", "off"}
Enabled(switch) == switch \in {"legacy", "on"}

\* normalizeEntry.
Normal(switch) == IF switch = "legacy" THEN "on" ELSE switch

Command == [target : Target, switch : {"on", "off"}]
TargetOf(s) == command[s].target

SubsTypeOK ==
    /\ faults \in 0..MaxFaults
    /\ subs \in [Target -> Switch]
    /\ subsCopy \in [Session -> [Target -> Switch \ {"legacy"}]]
    /\ command \in [Session -> Command \cup {NoCommand}]
    /\ said \in [Target -> BOOLEAN]
    /\ missed \in [Session -> SUBSET Target] /\ unsure \subseteq Target

NoSubs == [t \in Target |-> "never"]

SubsInit ==
    /\ subs \in [Target -> {"never", "legacy"}]
    /\ subsCopy = [s \in Session |-> NoSubs]
    /\ command = [s \in Session |-> NoCommand]
    /\ said = [t \in Target |-> Enabled(subs[t])]
    /\ missed = [s \in Session |-> {}] /\ unsure = {}

Goto(s, place) == pc' = [pc EXCEPT ![s] = place]

Fault(kind) ==
    /\ kind \in Faults
    /\ faults < MaxFaults
    /\ faults' = faults + 1

\* What a session has read is gone once it has no more use for it.
ForgetSubs(s) ==
    /\ subsCopy' = [subsCopy EXCEPT ![s] = NoSubs]
    /\ missed' = [missed EXCEPT ![s] = {}]

Commanding(s) == pc[s] \in {"switching", "answering"}
Reading(s)    == pc[s] \in {"switching", "migrating"}

-----------------------------------------------------------------------------
(* Webhook calls: handleSingleEvent *)

\* readSubscriptions.
ReadSubs(s) == subsCopy' = [subsCopy EXCEPT ![s] = [t \in Target |-> Normal(subs[t])]]

\* A message "enable" or "disable" arrives and setEnabled reads the blob; when
\* that fails nothing is stored, and the answer is the same.
Ask(s) ==
    /\ pc[s] = "off"
    /\ \E c \in Command :
          LET rivals == {q \in Session : Commanding(q) /\ TargetOf(q) = c.target}
          IN  /\ command' = [command EXCEPT ![s] = c]
              /\ \/ /\ ReadSubs(s)
                    /\ Goto(s, "switching")
                    /\ unsure' = unsure \cup {TargetOf(q) : q \in rivals}
                    /\ UNCHANGED faults
                 \/ /\ Fault("read")
                    /\ Goto(s, "answering")
                    /\ unsure' = unsure \cup {c.target}
                    /\ UNCHANGED subsCopy
    /\ UNCHANGED <<subs, said, missed>>

\* Mutant: the entries of the other targets are left out.
OnlyOne(s) == [NoSubs EXCEPT ![TargetOf(s)] = command[s].switch]

Switched(s) == [subsCopy[s] EXCEPT ![TargetOf(s)] = command[s].switch]

\* persistSubscriptions; a failed put is not looked at by the webhook.
Store(s) ==
    /\ pc[s] = "switching"
    /\ \/ /\ subs' = Switched(s)
          /\ unsure' = unsure \cup missed[s]
          /\ missed' = [q \in Session |->
                            IF q = s THEN {}
                            ELSE IF Reading(q) THEN missed[q] \cup {TargetOf(s)} ELSE missed[q]]
          /\ subsCopy' = [subsCopy EXCEPT ![s] = NoSubs]
          /\ UNCHANGED faults
       \/ /\ Fault("write")
          /\ unsure' = unsure \cup {TargetOf(s)}
          /\ ForgetSubs(s)
          /\ UNCHANGED subs
    /\ Goto(s, "answering")
    /\ UNCHANGED <<command, said>>

\* replyLineMessage, whatever became of the put.
Answer(s) ==
    /\ pc[s] = "answering"
    /\ \/ /\ said' = [said EXCEPT ![TargetOf(s)] = (command[s].switch = "on")]
          /\ UNCHANGED <<unsure, faults>>
       \/ /\ Fault("reply")
          /\ unsure' = unsure \cup {TargetOf(s)}
          /\ UNCHANGED said
    /\ Goto(s, "done")
    /\ command' = [command EXCEPT ![s] = NoCommand]
    /\ UNCHANGED <<subs, subsCopy, missed>>

-----------------------------------------------------------------------------
(* The cron run: the migration in runLineBroadcast *)

\* The run then comes to the shared feed, with or without a migration.
CronReads(s) ==
    /\ pc[s] = "off"
    /\ \/ /\ \E t \in Target : subs[t] = "legacy"
          /\ ReadSubs(s)
          /\ Goto(s, "migrating")
          /\ UNCHANGED faults
       \/ /\ \/ (\A t \in Target : subs[t] # "legacy") /\ UNCHANGED faults
             \/ Fault("read")
          /\ Goto(s, "feeding")
          /\ UNCHANGED subsCopy
    /\ UNCHANGED <<subs, command, said, missed, unsure>>

Migrate(s) ==
    /\ pc[s] = "migrating"
    /\ \/ /\ subs' = subsCopy[s]
          /\ unsure' = unsure \cup missed[s]
          /\ UNCHANGED faults
       \/ Fault("write") /\ UNCHANGED <<subs, unsure>>
    /\ ForgetSubs(s)
    /\ Goto(s, "feeding")
    /\ UNCHANGED <<command, said>>

\* An invocation is lost; a command that was stored goes unanswered.
DieInSubs(s) ==
    /\ Commanding(s) \/ pc[s] = "migrating"
    /\ Fault("die")
    /\ Goto(s, "done")
    /\ unsure' = IF pc[s] = "answering" THEN unsure \cup {TargetOf(s)} ELSE unsure
    /\ command' = [command EXCEPT ![s] = NoCommand]
    /\ ForgetSubs(s)
    /\ UNCHANGED <<subs, said>>

SubsStep(s) ==
    \/ Ask(s) \/ Store(s) \/ Answer(s)
    \/ CronReads(s) \/ Migrate(s) \/ DieInSubs(s)

-----------------------------------------------------------------------------
(* Properties *)

\* A target is switched the way it was last told, and stays so through the commands
\* of others and the migration of the old format, unless a fault hit its own command
\* or a session that had not read its switch wrote the blob.
SwitchedAsAnswered ==
    \A t \in Target \ unsure :
        (\A s \in Session : ~(Commanding(s) /\ TargetOf(s) = t))
            => Enabled(subs[t]) = said[t]

=============================================================================
