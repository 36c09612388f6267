---------------------------- MODULE RecordUpdates ----------------------------
(***************************************************************************)
(* The tools of tools.rs that change named fields of a controller record:  *)
(* wlans_update, port_forwards_update, firewall_policies_update and        *)
(* protect_devices_settings_update.  A tool previews unless confirmed,     *)
(* reads the record, writes, and reads it back inside a budget that leaves *)
(* a reserve for the answer (mutation.rs judges the result).  They differ  *)
(* in what they send and in what they look for afterwards.                 *)
(*                                                                         *)
(* The controller is external.  It may acknowledge a write and keep, drop  *)
(* or rewrite each of its fields and change others along the way; it may   *)
(* apply a write whose sender has gone; somebody else may edit the record. *)
(***************************************************************************)
EXTENDS ToolCalls

CONSTANTS
    Updaters,        \* the tools a run considers
    Requests,        \* requested changes: functions from fields to values
    Reserve,         \* ..._RESPONSE_RESERVE, in ticks
    Budget,          \* ..._READBACK_BUDGET, in ticks
    MaxEdits,        \* bound: edits by somebody else
    Nothing          \* no write under way, no verdict

Fields == {"enabled", "logging"}
Values == {"off", "on"}
Rewritten == "rewritten"           \* a value nobody asked for
Records == [Fields -> Values \cup {Rewritten}]
Changes == UNION {[S -> Values] : S \in SUBSET Fields}
Bodies == UNION {[S -> Values \cup {Rewritten}] : S \in SUBSET Fields}

\* How the tools differ: whether a change of "enabled" resends the whole
\* record as it was just read (and a change of "logging" alone is patched),
\* whether a record that already holds the values is left alone, and
\* whether unrequested changes are looked for.

WlansUpdate == [replaces |-> FALSE, skips |-> FALSE, compares |-> TRUE]
PortForwardsUpdate == [replaces |-> FALSE, skips |-> FALSE, compares |-> TRUE]
FirewallPoliciesUpdate == [replaces |-> TRUE, skips |-> TRUE, compares |-> TRUE]
ProtectDevicesSettingsUpdate == [replaces |-> FALSE, skips |-> FALSE, compares |-> FALSE]

ASSUME RecordUpdatesAssumption ==
    /\ Updaters \subseteq {WlansUpdate, PortForwardsUpdate, FirewallPoliciesUpdate,
                         ProtectDevicesSettingsUpdate}
    /\ Requests \subseteq Changes
    /\ Reserve \in Nat /\ Budget \in Nat /\ MaxEdits \in Nat
    /\ Nothing \notin Bodies

VARIABLES
    updater,     \* the tool that is called
    record,      \* the record on the controller
    at,          \* where the tool of a running call is
    changes,     \* input.changes
    before,      \* the record as the tool read it
    until,       \* ticks at which the read-back times out
    wire,        \* the write on its way to the controller
    verdict,     \* what the read-back concluded
    warned,      \* calls whose answer carries the overwrite warning
    edits,       \* edits so far
    \* history
    sent,        \* calls that sent a write
    landed,      \* calls whose write the controller carried out
    acked,       \* calls whose caller waited when the acknowledgement came
    treatment,   \* what the controller did with each field of the write
    disturbed,   \* calls between whose readings somebody else wrote
    overwritten  \* unrequested fields in which a write undid an edit

tool == <<at, changes, before, until, verdict, warned, sent, acked>>
ctrl == <<record, wire, edits, landed, treatment, disturbed, overwritten>>
vars == <<shell, updater, tool, ctrl>>

Treatments == {"kept", "dropped", "rewritten"}
Statuses == {"persisted", "dropped", "coerced"}
Verdicts == [verified : BOOLEAN,
             fields : UNION {[S -> Statuses] : S \in SUBSET Fields},
             unexpected : SUBSET Fields]

ToolAnswers == {"invalid", "preview", "unchanged", "error", "applied"}

TypeOK ==
    /\ ShellTypeOK(ToolAnswers)
    /\ updater \in Updaters
    /\ record \in Records
    /\ at \in [Calls -> {"start", "snapshot", "write", "readback", "end"}]
    /\ changes \in [Calls -> Changes]
    /\ before \in [Calls -> Records]
    /\ until \in [Calls -> 0..RequestTimeout]
    /\ wire \in [Calls -> Bodies \cup {Nothing}]
    /\ verdict \in [Calls -> Verdicts \cup {Nothing}]
    /\ edits \in 0..MaxEdits
    /\ {warned, sent, landed, acked, disturbed} \subseteq SUBSET Calls
    /\ treatment \in [Calls -> [Fields -> Treatments]]
    /\ overwritten \in [Calls -> SUBSET Fields]

Init ==
    /\ ShellInit
    /\ updater \in Updaters
    /\ record = [f \in Fields |-> "off"]
    /\ at = [c \in Calls |-> "start"]
    /\ changes = [c \in Calls |-> [f \in {} |-> "off"]]
    /\ before = [c \in Calls |-> record]
    /\ until = [c \in Calls |-> 0]
    /\ wire = [c \in Calls |-> Nothing]
    /\ verdict = [c \in Calls |-> Nothing]
    /\ warned = {} /\ sent = {} /\ landed = {} /\ acked = {} /\ disturbed = {}
    /\ edits = 0
    /\ treatment = [c \in Calls |-> [f \in Fields |-> "kept"]]
    /\ overwritten = [c \in Calls |-> {}]

At(c, place) == stage[c] = "running" /\ at[c] = place
GoTo(c, place) == at' = [at EXCEPT ![c] = place]
Monus(a, b) == IF a < b THEN 0 ELSE a - b
Lesser(a, b) == IF a < b THEN a ELSE b

-----------------------------------------------------------------------------
\* A confirmed "enabled" that the policy does not hold.
EnabledChanges(request, current) ==
    "enabled" \in DOMAIN request /\ request["enabled"] # current["enabled"]

\* The record as it was read, with the requested values put in.
Merged(request, current) ==
    [f \in Fields |-> IF f \in DOMAIN request THEN request[f] ELSE current[f]]

\* What a confirmed call sends.
WriteBody(request, current) ==
    IF ~updater.replaces THEN request
    ELSE IF EnabledChanges(request, current) THEN Merged(request, current)
    ELSE [f \in {"logging"} |-> request[f]]

\* Mutant: only disabling a policy is warned about.
WarnsWhenDisabling(request, current) ==
    updater.replaces /\ EnabledChanges(request, current) /\ request["enabled"] = "off"

\* firewall_policy_warnings: the caller is told that the whole policy is
\* resent.
Warns(request, current) == updater.replaces /\ EnabledChanges(request, current)

\* Mutant: the time already spent is not taken off the budget.
ReadbackBudgetFixed(elapsed) == Budget
\* Mutant: nothing is kept back for the answer.
ReadbackBudgetAll(elapsed) == Lesser(Monus(RequestTimeout, elapsed), Budget)
\* The time the read-back may take.
ReadbackBudget(elapsed) ==
    Lesser(Monus(Monus(RequestTimeout, elapsed), Reserve), Budget)

\* mutation::verify.
FieldStatus(wanted, previous, observed) ==
    IF observed = wanted THEN "persisted"
    ELSE IF observed = previous THEN "dropped"
    ELSE "coerced"

\* unrequested_changes: properties that moved and were not asked for.
\* protect_devices_settings_update does not look for them.
UnrequestedChanges(c, after) ==
    IF ~updater.compares THEN {}
    ELSE {f \in Fields \ DOMAIN changes[c] : after[f] # before[c][f]}

\* Mutant: only the requested fields count.
JudgeRequestedOnly(c, after) ==
    LET fields == [f \in DOMAIN changes[c] |->
                      FieldStatus(changes[c][f], before[c][f], after[f])]
    IN  [verified |-> \A f \in DOMAIN fields : fields[f] = "persisted",
         fields |-> fields, unexpected |-> {}]

\* The verdict on a reading of the record after the write.  Of a device's
\* settings the tool reports no more than whether all of them hold.
Judge(c, after) ==
    LET fields == [f \in DOMAIN changes[c] |->
                      FieldStatus(changes[c][f], before[c][f], after[f])]
        unexpected == UnrequestedChanges(c, after)
    IN  [verified |-> unexpected = {} /\ \A f \in DOMAIN fields : fields[f] = "persisted",
         fields |-> fields, unexpected |-> unexpected]

-----------------------------------------------------------------------------
\* The tool parses its input; changes that name no field are refused.
Validate(c) ==
    /\ At(c, "start")
    /\ \/ Answer(c, "invalid") /\ GoTo(c, "end") /\ UNCHANGED changes
       \/ /\ \E r \in Requests : changes' = [changes EXCEPT ![c] = r]
          /\ GoTo(c, "snapshot")
          /\ UNCHANGED shell
    /\ UNCHANGED <<updater, before, until, verdict, warned, sent, acked, ctrl>>

\* The record is read.  Without confirm the tool answers with the plan; a
\* policy that already holds the values is left alone; otherwise the write
\* goes out.
Snapshot(c) ==
    /\ At(c, "snapshot")
    /\ before' = [before EXCEPT ![c] = record]
    /\ warned' = IF Warns(changes[c], record) THEN warned \cup {c} ELSE warned
    /\ \/ /\ Answer(c, "preview")
          /\ GoTo(c, "end") /\ UNCHANGED <<sent, wire>>
       \/ /\ updater.skips
          /\ \A f \in DOMAIN changes[c] : record[f] = changes[c][f]
          /\ Answer(c, "unchanged")
          /\ GoTo(c, "end") /\ UNCHANGED <<sent, wire>>
       \/ /\ updater.skips => \E f \in DOMAIN changes[c] : record[f] # changes[c][f]
          /\ wire' = [wire EXCEPT ![c] = WriteBody(changes[c], record)]
          /\ sent' = sent \cup {c}
          /\ GoTo(c, "write") /\ UNCHANGED shell
    /\ UNCHANGED <<updater, changes, until, verdict, acked, record, edits, landed,
                   treatment, disturbed, overwritten>>

\* A read before the write fails (the site, the capability or the record).
SnapshotFails(c) ==
    /\ At(c, "snapshot")
    /\ Answer(c, "error") /\ GoTo(c, "end")
    /\ UNCHANGED <<updater, changes, before, until, verdict, warned, sent, acked, ctrl>>

\* The controller acknowledges the write: read back, or answer at once when
\* the deadline is near.
WriteAcknowledged(c) ==
    /\ At(c, "write") /\ c \in landed
    /\ acked' = IF answer[c] = "none" THEN acked \cup {c} ELSE acked
    /\ IF ReadbackBudget(spent[c]) = 0
       THEN Answer(c, "applied") /\ GoTo(c, "end") /\ UNCHANGED until
       ELSE /\ until' = [until EXCEPT ![c] = spent[c] + ReadbackBudget(spent[c])]
            /\ GoTo(c, "readback") /\ UNCHANGED shell
    /\ UNCHANGED <<updater, changes, before, verdict, warned, sent, ctrl>>

\* The write is rejected, or its answer is lost: the controller may have
\* carried it out, may never, or may do so later.
WriteFails(c) ==
    /\ At(c, "write")
    /\ Answer(c, "error") /\ GoTo(c, "end")
    /\ wire' \in {wire, [wire EXCEPT ![c] = Nothing]}
    /\ UNCHANGED <<updater, changes, before, until, verdict, warned, sent, acked, record,
                   edits, landed, treatment, disturbed, overwritten>>

\* The record is read back and judged.
Readback(c) ==
    /\ At(c, "readback")
    /\ verdict' = [verdict EXCEPT ![c] = Judge(c, record)]
    /\ Answer(c, "applied") /\ GoTo(c, "end")
    /\ UNCHANGED <<updater, changes, before, until, warned, sent, acked, ctrl>>

\* The read-back fails, names another record, or its budget is used up: the
\* write is reported without a verdict.
ReadbackFails(c) ==
    /\ At(c, "readback")
    /\ Answer(c, "applied") /\ GoTo(c, "end")
    /\ UNCHANGED <<updater, changes, before, until, verdict, warned, sent, acked, ctrl>>

-----------------------------------------------------------------------------
\* Calls between whose two readings a change of the record falls.
Watching == {c \in Calls : At(c, "write") \/ At(c, "readback")}

\* The controller carries out a write, now or after its sender has gone.
Land(c) ==
    /\ wire[c] # Nothing
    /\ \E how \in [Fields -> Treatments] :
          LET body == wire[c]
              result == [f \in Fields |->
                            CASE how[f] = "rewritten" -> Rewritten
                              [] how[f] = "kept" /\ f \in DOMAIN body -> body[f]
                              [] OTHER -> record[f]]
          IN  /\ \A f \in Fields \ DOMAIN body : how[f] # "dropped"
              /\ record' = result
              /\ treatment' = [treatment EXCEPT ![c] = how]
              /\ overwritten' = [overwritten EXCEPT ![c] =
                    {f \in DOMAIN body \ DOMAIN changes[c] :
                        how[f] = "kept" /\ record[f] # before[c][f]}]
    /\ wire' = [wire EXCEPT ![c] = Nothing]
    /\ landed' = landed \cup {c}
    /\ disturbed' = disturbed \cup (Watching \ {c})
    /\ UNCHANGED <<shell, updater, tool, edits>>

\* Somebody else edits a field while a tool relies on what it has read.
Edit ==
    /\ edits < MaxEdits /\ Watching # {}
    /\ \E f \in Fields, v \in Values :
          record[f] # v /\ record' = [record EXCEPT ![f] = v]
    /\ edits' = edits + 1
    /\ disturbed' = disturbed \cup Watching
    /\ UNCHANGED <<shell, updater, tool, wire, landed, treatment, overwritten>>

\* A tool is dropped where it waits, or goes on; a write that is out stays
\* out.
Drops(c) ==
    /\ at' = [at EXCEPT ![c] = IF stage'[c] = "done" THEN "end" ELSE @]
    /\ UNCHANGED <<updater, changes, before, until, verdict, warned, sent, acked, ctrl>>

Deadline(c) == (HttpTimeout(c) \/ HandlerTimeout(c)) /\ Drops(c)

CallerLeaves(c) == HangUp(c) /\ Drops(c)

Tick ==
    /\ \A c \in Calls : At(c, "readback") => spent[c] < until[c]
    /\ ShellTick
    /\ UNCHANGED <<updater, tool, ctrl>>

Enter(c) ==
    /\ Arrive(c) \/ TakeSlot(c) \/ Reject(c) \/ Admit(c)
    /\ UNCHANGED <<updater, tool, ctrl>>

Work(c) == Validate(c) \/ Snapshot(c) \/ SnapshotFails(c) \/ WriteAcknowledged(c)
             \/ WriteFails(c) \/ Readback(c) \/ ReadbackFails(c)

Next ==
    \/ \E c \in Calls : Enter(c) \/ Work(c) \/ Deadline(c) \/ CallerLeaves(c) \/ Land(c)
    \/ Edit \/ Tick

Spec == Init /\ [][Next]_vars

\* Time passes, the runtime polls what is ready and timers fire.  Nothing
\* is asked of the controller, the network, the key server or the callers.
Fairness ==
    /\ WF_vars(Tick)
    /\ \A c \in Calls :
          /\ WF_vars(Deadline(c))
          /\ WF_vars(Admit(c) /\ transport = "stdio" /\ UNCHANGED <<updater, tool, ctrl>>)
          /\ WF_vars(ReadbackFails(c))

FairSpec == Spec /\ Fairness

-----------------------------------------------------------------------------
\* A caller who waits while the controller acknowledges the write, and does
\* not hang up afterwards, is told that it was applied, however slow the
\* read-back is ("an accepted patch remains reportable", tools.rs): the
\* deadline does not eat the answer.
AcknowledgedIsReported ==
    \A c \in acked : answer[c] # "none" => answer[c] \in {"applied", "hung_up"}

\* A write undoes somebody else's edit of a field it was not asked to change
\* only when the answer of that call warns of it (firewall_policies_update).
OverwriteIsDisclosed == \A c \in Calls : overwritten[c] # {} => c \in warned

\* What became of the requested field f on the controller.
Fate(c, f) ==
    IF treatment[c][f] = "rewritten" /\ before[c][f] # Rewritten THEN "coerced"
    ELSE IF treatment[c][f] # "kept" /\ before[c][f] # changes[c][f] THEN "dropped"
    ELSE "persisted"

\* The verdict is what the controller did: each field's status, and
\* "verified" exactly when all was stored as asked and (but for Protect
\* devices) nothing else was touched.
VerdictIsRight(c) ==
    LET asked == DOMAIN changes[c]
        collateral == {f \in Fields \ asked :
                          treatment[c][f] = "rewritten" /\ before[c][f] # Rewritten}
    IN  /\ verdict[c].fields = [f \in asked |-> Fate(c, f)]
        /\ verdict[c].verified <=>
              /\ \A f \in asked : Fate(c, f) = "persisted"
              /\ ~updater.compares \/ collateral = {}

\* Answers that deny having acted.
Denials == {"rejected", "busy", "invalid", "preview", "unchanged"}

\* What a call reports is true.  The verdict is right when nobody else wrote
\* between the two readings.  And an answer that denies having acted ("no
\* tool action was started") stays true: nothing of that call is on its way
\* to the controller.
ReportIsTrue ==
    \A c \in Calls :
        /\ verdict[c] # Nothing /\ c \notin disturbed => VerdictIsRight(c)
        /\ answer[c] \in Denials => c \notin sent /\ wire[c] = Nothing

-----------------------------------------------------------------------------
\* A tool starts at its beginning.
EntryInv(c) == stage[c] \in {"new", "queued", "ingress"} => at[c] = "start"

\* A read-back ends before the reserve begins.
BudgetInv(c) ==
    At(c, "readback") => spent[c] <= until[c] /\ until[c] + Reserve <= RequestTimeout

\* An acknowledged write is being read back until its caller hears of it or
\* leaves.
AckedInv(c) ==
    c \in acked => IF answer[c] = "none" THEN At(c, "readback")
                   ELSE answer[c] \in {"applied", "hung_up"}

CallInv(c) == EntryInv(c) /\ BudgetInv(c) /\ AckedInv(c)

\* What the report of an acknowledged write rests on.
ReportInv == ShellInv /\ \A c \in Calls : CallInv(c)
-----------------------------------------------------------------------------
\* A body holds the requested values, and for the rest what was read; what
\* was asked for and is not sent is so already.
FaithfulBody(body, request, current) ==
    /\ \A f \in DOMAIN body :
          body[f] = IF f \in DOMAIN request THEN request[f] ELSE current[f]
    /\ \A f \in DOMAIN request \ DOMAIN body : current[f] = request[f]

\* What follows from how far a call got.  A denial is final; a call acts
\* only after the snapshot, has one write, and judges it once it has landed.
ProgressInv(c) ==
    /\ EntryInv(c)
    /\ answer[c] \in Denials => stage[c] = "done" /\ c \notin sent
    /\ at[c] \in {"start", "snapshot"} => c \notin sent
    /\ c \notin sent => wire[c] = Nothing /\ c \notin landed
    /\ c \in landed => wire[c] = Nothing
    /\ At(c, "readback") => c \in landed
    /\ verdict[c] # Nothing => c \in landed /\ at[c] = "end"

\* What is on its way to the controller, and what that may do there: fields
\* nobody asked to change are sent only with a warning.
WireInv(c) ==
    /\ wire[c] # Nothing =>
          /\ FaithfulBody(wire[c], changes[c], before[c])
          /\ DOMAIN wire[c] \subseteq DOMAIN changes[c] \/ c \in warned
    /\ overwritten[c] # {} => c \in warned

\* What the controller makes of the write of c when nobody else writes.
Outcome(c) ==
    [f \in Fields |->
        CASE treatment[c][f] = "rewritten" -> Rewritten
          [] treatment[c][f] = "kept" /\ f \in DOMAIN changes[c] -> changes[c][f]
          [] OTHER -> before[c][f]]

\* Between the readings of a call that nobody disturbs, the record is what
\* was read until the write lands, and then what became of the write.
RecordInv(c) ==
    c \notin disturbed =>
        /\ At(c, "write") /\ c \notin landed => record = before[c]
        /\ (At(c, "write") \/ At(c, "readback")) /\ c \in landed => record = Outcome(c)
        /\ verdict[c] # Nothing => VerdictIsRight(c)

\* What the truth of a report rests on.
TruthInv == \A c \in Calls : ProgressInv(c) /\ WireInv(c) /\ RecordInv(c)
=============================================================================
