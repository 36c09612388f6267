------------------------- MODULE RecordUpdatesProofs -------------------------
(***************************************************************************)
(* Theorems about the call path and the updating tools, for every number   *)
(* of calls, every bound and every deadline.                               *)
(***************************************************************************)
EXTENDS RecordUpdates, ToolCallsProofs

-----------------------------------------------------------------------------
(***************************************************************************)
(* The tools.                                                              *)
(***************************************************************************)
LEMMA StepIsShellStep ==
    ASSUME [Next]_vars
    PROVE  ShellStep(ToolAnswers)
<1>1. ASSUME NEW c \in Calls, Enter(c)
      PROVE  ShellStep(ToolAnswers)
    BY <1>1 DEF Enter, ShellStep
<1>2. ASSUME NEW c \in Calls, Work(c)
      PROVE  ShellStep(ToolAnswers)
    <2>1. CASE Validate(c)
        BY <2>1 DEF Validate, At, ShellStep, ToolAnswers
    <2>2. CASE Snapshot(c)
        BY <2>2 DEF Snapshot, At, ShellStep, ToolAnswers
    <2>3. CASE SnapshotFails(c)
        BY <2>3 DEF SnapshotFails, At, ShellStep, ToolAnswers
    <2>4. CASE WriteAcknowledged(c)
        BY <2>4 DEF WriteAcknowledged, At, ShellStep, ToolAnswers
    <2>5. CASE WriteFails(c)
        BY <2>5 DEF WriteFails, At, ShellStep, ToolAnswers
    <2>6. CASE Readback(c) \/ ReadbackFails(c)
        BY <2>6 DEF Readback, ReadbackFails, At, ShellStep, ToolAnswers
    <2> QED
        BY <1>2, <2>1, <2>2, <2>3, <2>4, <2>5, <2>6 DEF Work
<1>3. ASSUME NEW c \in Calls, Deadline(c) \/ CallerLeaves(c)
      PROVE  ShellStep(ToolAnswers)
    BY <1>3 DEF Deadline, CallerLeaves, ShellStep
<1>4. ASSUME NEW c \in Calls, Land(c)
      PROVE  ShellStep(ToolAnswers)
    BY <1>4 DEF Land, ShellStep
<1>5. CASE Edit
    BY <1>5 DEF Edit, ShellStep
<1>6. CASE Tick
    BY <1>6 DEF Tick, ShellStep
<1>7. CASE UNCHANGED vars
    BY <1>7 DEF vars, ShellStep
<1> QED
    BY <1>1, <1>2, <1>3, <1>4, <1>5, <1>6, <1>7 DEF Next

\* For every number of calls and every bound, the call path keeps its
\* invariant (the layers of build_router and call_tool).
THEOREM ShellCorrect == Spec => [](ShellTypeOK(ToolAnswers) /\ ShellInv)
<1>1. Init => ShellTypeOK(ToolAnswers) /\ ShellInv
    BY ShellStarts DEF Init
<1>2. ShellTypeOK(ToolAnswers) /\ ShellInv /\ [Next]_vars
        => (ShellTypeOK(ToolAnswers) /\ ShellInv)'
    <2> SUFFICES ASSUME ShellTypeOK(ToolAnswers), ShellInv, [Next]_vars
                 PROVE  ShellTypeOK(ToolAnswers)' /\ ShellInv'
        OBVIOUS
    <2>1. ShellStep(ToolAnswers) /\ "none" \notin ToolAnswers
        BY StepIsShellStep DEF ToolAnswers
    <2> QED
        BY <2>1, ShellTypesKept, ShellInvKept
<1> QED
    BY <1>1, <1>2, PTL DEF Spec

\* For every number of calls, permits and slots belong to calls that are
\* under way and neither bound is exceeded (call_tool's _permit and
\* ConcurrencyLimitLayer).
THEOREM BoundsKept == Spec => []BoundsAreKept
<1>1. ShellInv => BoundsAreKept
    BY DEF ShellInv
<1> QED
    BY <1>1, ShellCorrect, PTL

\* Over HTTP the handler calls itself busy only while a call whose caller
\* was told 408 or has hung up holds a permit (with_request_limits and
\* ConcurrencyLimitLayer take the same bound).
THEOREM BusyBehindDetached == Spec => BusyOnlyBehindDetached
<1>1. ShellTypeOK(ToolAnswers) /\ ShellInv /\ [Next]_vars =>
        [\A c \in Calls :
            transport = "http" /\ answer[c] # "busy" /\ answer'[c] = "busy" =>
                \E d \in Calls : Detached(d)]_shell
    <2> SUFFICES ASSUME ShellTypeOK(ToolAnswers), ShellInv, [Next]_vars,
                        NEW c \in Calls, transport = "http",
                        answer[c] # "busy", answer'[c] = "busy"
                 PROVE  \E d \in Calls : Detached(d)
        OBVIOUS
    <2>1. ShellStep(ToolAnswers)
        BY StepIsShellStep
    <2>2. PICK e \in Calls : Admit(e) /\ ~(Cardinality(permits) < MaxRequests)
        BY <2>1 DEF ShellStep, Arrive, TakeSlot, Reject, Admit, HttpTimeout, HangUp, GiveUp,
                    HandlerTimeout, Answer, ShellTick, shell, ShellTypeOK, ToolAnswers
    <2> QED
        BY <2>2, FullHandlerHasDetached DEF Admit
<1> QED
    BY <1>1, ShellCorrect, PTL DEF Spec, BusyOnlyBehindDetached

-----------------------------------------------------------------------------
(***************************************************************************)
(* Type correctness of the tools.                                          *)
(***************************************************************************)
\* What a tool sends is a body: the expect("validated logging change") of
\* firewall_policies_update never fails.
LEMMA WriteBodyType ==
    ASSUME NEW request \in Changes, NEW current \in Records, updater \in Updaters,
           updater.skips => \E f \in DOMAIN request : current[f] # request[f]
    PROVE  WriteBody(request, current) \in Bodies
<1>1. PICK S \in SUBSET Fields : request \in [S -> Values]
    BY DEF Changes
<1>2. CASE ~updater.replaces
    BY <1>1, <1>2 DEF WriteBody, Bodies
<1>3. CASE updater.replaces /\ EnabledChanges(request, current)
    <2>1. Merged(request, current) \in [Fields -> Values \cup {Rewritten}]
        BY <1>1 DEF Merged, Records
    <2> QED
        BY <1>3, <2>1 DEF WriteBody, Bodies
<1>4. CASE updater.replaces /\ ~EnabledChanges(request, current)
    <2>1. updater.skips
        BY <1>4, RecordUpdatesAssumption
        DEF WlansUpdate, PortForwardsUpdate, FirewallPoliciesUpdate,
            ProtectDevicesSettingsUpdate
    <2>2. "logging" \in S
        BY <1>1, <1>4, <2>1 DEF EnabledChanges, Fields
    <2>3. [f \in {"logging"} |-> request[f]] \in [{"logging"} -> Values \cup {Rewritten}]
        BY <1>1, <2>2
    <2> QED
        BY <1>4, <2>3 DEF WriteBody, Bodies, Fields
<1> QED
    BY <1>2, <1>3, <1>4

LEMMA JudgeType ==
    ASSUME NEW c \in Calls, NEW after, changes[c] \in Changes
    PROVE  Judge(c, after) \in Verdicts
<1> DEFINE fields == [f \in DOMAIN changes[c] |->
                         FieldStatus(changes[c][f], before[c][f], after[f])]
           unexpected == UnrequestedChanges(c, after)
<1>1. DOMAIN changes[c] \in SUBSET Fields
    BY DEF Changes
<1>2. fields \in [DOMAIN changes[c] -> Statuses]
    BY DEF FieldStatus, Statuses
<1>3. unexpected \in SUBSET Fields
    BY DEF UnrequestedChanges
<1>4. fields \in UNION {[S -> Statuses] : S \in SUBSET Fields}
    <2> HIDE DEF fields
    <2> QED BY <1>1, <1>2
<1>5. (unexpected = {} /\ \A f \in DOMAIN fields : fields[f] = "persisted") \in BOOLEAN
    OBVIOUS
<1> HIDE DEF fields, unexpected
<1>6. [verified |-> unexpected = {} /\ \A f \in DOMAIN fields : fields[f] = "persisted",
       fields |-> fields, unexpected |-> unexpected] \in Verdicts
    BY <1>3, <1>4, <1>5 DEF Verdicts
<1> QED
    BY <1>6 DEF Judge, fields, unexpected

LEMMA BudgetIsShort ==
    ASSUME NEW elapsed \in 0..RequestTimeout, ReadbackBudget(elapsed) # 0
    PROVE  /\ ReadbackBudget(elapsed) \in Nat
           /\ elapsed + ReadbackBudget(elapsed) + Reserve <= RequestTimeout
<1> QED
    BY ToolCallsAssumption, RecordUpdatesAssumption DEF ReadbackBudget, Lesser, Monus

LEMMA TypesKept ==
    ASSUME TypeOK, [Next]_vars
    PROVE  TypeOK'
<1> USE DEF TypeOK
<1>1. ShellTypeOK(ToolAnswers)'
    BY StepIsShellStep, ShellTypesKept
<1> DEFINE Rest == /\ updater \in Updaters
                   /\ record \in Records
                   /\ at \in [Calls -> {"start", "snapshot", "write", "readback", "end"}]
                   /\ changes \in [Calls -> Changes]
                   /\ before \in [Calls -> Records]
                   /\ until \in [Calls -> 0..RequestTimeout]
                   /\ wire \in [Calls -> Bodies \cup {Nothing}]
                   /\ verdict \in [Calls -> Verdicts \cup {Nothing}]
                   /\ edits \in 0..MaxEdits
                   /\ {warned, sent, landed, acked, disturbed} \subseteq SUBSET Calls
                   /\ treatment \in [Calls -> [Fields -> Treatments]]
                   /\ overwritten \in [Calls -> SUBSET Fields]
<1>2. ASSUME NEW c \in Calls, Enter(c)
      PROVE  Rest'
    BY <1>2 DEF Enter, tool, ctrl
<1>3. ASSUME NEW c \in Calls, Validate(c)
      PROVE  Rest'
    BY <1>3, RecordUpdatesAssumption DEF Validate, GoTo, ctrl
<1>4. ASSUME NEW c \in Calls, Snapshot(c)
      PROVE  Rest'
    <2>1. wire' \in [Calls -> Bodies \cup {Nothing}]
        BY <1>4, WriteBodyType DEF Snapshot
    <2>2. /\ at' \in [Calls -> {"start", "snapshot", "write", "readback", "end"}]
          /\ before' \in [Calls -> Records]
          /\ warned' \in SUBSET Calls /\ sent' \in SUBSET Calls
        BY <1>4 DEF Snapshot, GoTo
    <2> QED
        BY <1>4, <2>1, <2>2 DEF Snapshot
<1>5. ASSUME NEW c \in Calls, SnapshotFails(c) \/ ReadbackFails(c)
      PROVE  Rest'
    BY <1>5 DEF SnapshotFails, ReadbackFails, GoTo, ctrl
<1>6. ASSUME NEW c \in Calls, WriteAcknowledged(c)
      PROVE  Rest'
    <2>1. until' \in [Calls -> 0..RequestTimeout]
        <3>1. CASE ReadbackBudget(spent[c]) = 0
            BY <1>6, <3>1 DEF WriteAcknowledged
        <3>2. CASE ReadbackBudget(spent[c]) # 0
            <4>1. spent[c] \in 0..RequestTimeout
                BY DEF ShellTypeOK
            <4>2. spent[c] + ReadbackBudget(spent[c]) \in 0..RequestTimeout
                BY <3>2, <4>1, BudgetIsShort, ToolCallsAssumption, RecordUpdatesAssumption
            <4> QED
                BY <1>6, <3>2, <4>2 DEF WriteAcknowledged
        <3> QED
            BY <3>1, <3>2
    <2> QED
        BY <1>6, <2>1 DEF WriteAcknowledged, GoTo, ctrl
<1>7. ASSUME NEW c \in Calls, WriteFails(c)
      PROVE  Rest'
    BY <1>7 DEF WriteFails, GoTo
<1>8. ASSUME NEW c \in Calls, Readback(c)
      PROVE  Rest'
    BY <1>8, JudgeType DEF Readback, GoTo, ctrl
<1>9. ASSUME NEW c \in Calls, Land(c)
      PROVE  Rest'
    <2>1. wire[c] \in Bodies
        BY <1>9 DEF Land
    <2>2. PICK S \in SUBSET Fields : wire[c] \in [S -> Values \cup {Rewritten}]
        BY <2>1 DEF Bodies
    <2>3. /\ record' \in Records
          /\ treatment' \in [Calls -> [Fields -> Treatments]]
          /\ overwritten' \in [Calls -> SUBSET Fields]
        BY <1>9, <2>2 DEF Land, Records
    <2>4. /\ wire' \in [Calls -> Bodies \cup {Nothing}]
          /\ landed' \in SUBSET Calls /\ disturbed' \in SUBSET Calls
        BY <1>9 DEF Land, Watching
    <2> QED
        BY <1>9, <2>3, <2>4 DEF Land, tool
<1>10. ASSUME Edit
       PROVE  Rest'
    BY <1>10, RecordUpdatesAssumption DEF Edit, tool, Records, Watching
<1>11. ASSUME NEW c \in Calls, Deadline(c) \/ CallerLeaves(c)
       PROVE  Rest'
    BY <1>11 DEF Deadline, CallerLeaves, Drops, ctrl
<1>12. ASSUME Tick
       PROVE  Rest'
    BY <1>12 DEF Tick, tool, ctrl
<1>13. ASSUME UNCHANGED vars
       PROVE  Rest'
    BY <1>13 DEF vars, tool, ctrl
<1>14. Rest'
    BY <1>2, <1>3, <1>4, <1>5, <1>6, <1>7, <1>8, <1>9, <1>10, <1>11, <1>12, <1>13
    DEF Next, Work
<1> QED
    BY <1>1, <1>14

\* Every reachable state is well typed, for all calls, deadlines and bounds:
\* a policy is never patched without a logging value, and no read-back is
\* scheduled past the deadline (firewall_policies_update).
THEOREM UpdatesTypeCorrect == Spec => []TypeOK
<1>1. Init => TypeOK
    <2> SUFFICES ASSUME Init PROVE TypeOK
        OBVIOUS
    <2>1. ShellTypeOK(ToolAnswers)
        BY ShellStarts DEF Init
    <2>2. record \in Records /\ [f \in {} |-> "off"] \in Changes
        <3>1. [f \in {} |-> "off"] \in [{} -> Values]
            OBVIOUS
        <3> QED
            BY <3>1 DEF Init, Records, Values, Changes
    <2> QED
        BY <2>1, <2>2, ToolCallsAssumption, RecordUpdatesAssumption
        DEF Init, TypeOK, Treatments
<1>2. TypeOK /\ [Next]_vars => TypeOK'
    BY TypesKept
<1> QED
    BY <1>1, <1>2, PTL DEF Spec

-----------------------------------------------------------------------------
(***************************************************************************)
(* The report of an acknowledged write.                                    *)
(***************************************************************************)
\* A deadline never strikes an acknowledged write that is being read back:
\* the read-back is over before the reserve, and the HTTP clock is ahead by
\* less than the reserve.
LEMMA NoDeadlineInReadback ==
    ASSUME MaxIngress < Reserve, TypeOK, ReportInv,
           NEW c \in Calls, At(c, "readback"), answer[c] = "none"
    PROVE  ~Deadline(c)
<1>1. /\ spent[c] \in Nat /\ age[c] \in Nat /\ until[c] \in Nat
      /\ spent[c] + Reserve <= RequestTimeout
    BY ToolCallsAssumption, RecordUpdatesAssumption
    DEF TypeOK, ShellTypeOK, ReportInv, CallInv, BudgetInv
<1>2. transport = "http" => age[c] <= spent[c] + MaxIngress
    BY DEF ReportInv, ShellInv, ClocksInv, At
<1> QED
    BY <1>1, <1>2, ToolCallsAssumption, RecordUpdatesAssumption
    DEF Deadline, HttpTimeout, HandlerTimeout

\* The part of the state that the report of call c depends on stays.
Same(c) ==
    /\ stage'[c] = stage[c] /\ answer'[c] = answer[c] /\ spent'[c] = spent[c]
    /\ at'[c] = at[c] /\ until'[c] = until[c]
    /\ c \in acked' <=> c \in acked

LEMMA SameKeeps ==
    ASSUME NEW c \in Calls, CallInv(c), Same(c)
    PROVE  CallInv(c)'
<1> QED
    BY DEF CallInv, EntryInv, BudgetInv, AckedInv, At, Same

\* A step of one call leaves the others alone.
LEMMA StepsAreLocal ==
    ASSUME TypeOK, NEW c \in Calls, Enter(c) \/ Work(c) \/ Deadline(c) \/ CallerLeaves(c),
           NEW d \in Calls, d # c
    PROVE  Same(d)
<1> USE DEF TypeOK, ShellTypeOK, Same
<1>1. CASE Enter(c)
    BY <1>1 DEF Enter, tool, Arrive, TakeSlot, Reject, Admit, Answer
<1>2. CASE Deadline(c) \/ CallerLeaves(c)
    BY <1>2 DEF Deadline, CallerLeaves, Drops, HttpTimeout, HangUp, GiveUp, HandlerTimeout, Answer
<1>3. CASE Validate(c) \/ SnapshotFails(c) \/ ReadbackFails(c)
    BY <1>3 DEF Validate, SnapshotFails, ReadbackFails, Answer, GoTo, shell
<1>4. CASE Snapshot(c)
    BY <1>4 DEF Snapshot, Answer, GoTo, shell
<1>5. CASE WriteFails(c) \/ Readback(c)
    BY <1>5 DEF WriteFails, Readback, Answer, GoTo, shell
<1>6. CASE WriteAcknowledged(c)
    BY <1>6 DEF WriteAcknowledged, Answer, GoTo, shell
<1> QED
    BY <1>1, <1>2, <1>3, <1>4, <1>5, <1>6 DEF Work

\* A step of a call keeps its own part of the invariant.
LEMMA OwnStepKeeps ==
    ASSUME MaxIngress < Reserve, TypeOK, ReportInv,
           NEW c \in Calls, Enter(c) \/ Work(c) \/ Deadline(c) \/ CallerLeaves(c)
    PROVE  CallInv(c)'
<1> USE DEF TypeOK, ShellTypeOK
<1>0. CallInv(c)
    BY DEF ReportInv
<1>1. CASE Enter(c)
    <2>1. /\ stage[c] \in {"new", "queued", "ingress"} /\ at[c] = "start"
          /\ UNCHANGED <<at, until, acked>>
        BY <1>0, <1>1
        DEF Enter, tool, Arrive, TakeSlot, Reject, Admit, CallInv, EntryInv
    <2>2. c \in acked => answer[c] \in {"applied", "hung_up"}
        BY <1>0, <2>1 DEF CallInv, AckedInv, At
    <2>3. answer[c] # "none" => answer'[c] = answer[c]
        BY <1>1 DEF Enter, Arrive, TakeSlot, Reject, Admit, Answer
    <2> QED
        BY <2>1, <2>2, <2>3 DEF CallInv, EntryInv, BudgetInv, AckedInv, At
<1>2. CASE Deadline(c) \/ CallerLeaves(c)
    <2>1. /\ stage'[c] \in {stage[c], "done"}
          /\ stage'[c] # "done" => /\ at'[c] = at[c] /\ spent'[c] = spent[c]
                                  /\ until'[c] = until[c]
          /\ stage[c] = "done" => FALSE
          /\ UNCHANGED acked
        BY <1>2 DEF Deadline, CallerLeaves, Drops, HttpTimeout, HangUp, GiveUp, HandlerTimeout,
                    Unanswered, Answer
    <2>2. answer[c] # "none" => answer'[c] = answer[c]
        BY <1>2 DEF Deadline, CallerLeaves, HttpTimeout, HangUp, GiveUp, HandlerTimeout,
                    Unanswered, Answer
    <2>3. c \in acked => answer'[c] \in {"applied", "hung_up"}
        <3>1. CASE Deadline(c)
            BY <1>0, <2>2, <3>1, NoDeadlineInReadback DEF CallInv, AckedInv
        <3>2. CASE CallerLeaves(c)
            BY <3>2 DEF CallerLeaves, HangUp, GiveUp, Answer, Unanswered
        <3> QED
            BY <1>2, <3>1, <3>2
    <2>4. stage'[c] \in {"new", "queued", "ingress"} => at'[c] = "start"
        BY <1>0, <2>1 DEF CallInv, EntryInv
    <2>5. BudgetInv(c)'
        BY <1>0, <2>1 DEF CallInv, BudgetInv, At
    <2> QED
        BY <2>1, <2>2, <2>3, <2>4, <2>5 DEF CallInv, EntryInv, AckedInv
<1>3. CASE Validate(c) \/ Snapshot(c) \/ SnapshotFails(c) \/ WriteFails(c)
    <2>1. /\ stage[c] = "running" /\ at[c] # "readback"
          /\ stage'[c] \in {"running", "done"} /\ at'[c] # "readback"
          /\ UNCHANGED acked
        BY <1>3 DEF Validate, Snapshot, SnapshotFails, WriteFails, At, GoTo, Answer, shell
    <2>2. c \in acked => answer[c] \in {"applied", "hung_up"}
        BY <1>0, <2>1 DEF CallInv, AckedInv, At
    <2>3. answer[c] # "none" => answer'[c] = answer[c]
        BY <1>3 DEF Validate, Snapshot, SnapshotFails, WriteFails, Answer, shell
    <2> QED
        BY <2>1, <2>2, <2>3 DEF CallInv, EntryInv, BudgetInv, AckedInv, At
<1>4. CASE WriteAcknowledged(c)
    <2>1. CASE ReadbackBudget(spent[c]) = 0
        BY <1>0, <1>4, <2>1
        DEF WriteAcknowledged, Answer, GoTo, CallInv, EntryInv, BudgetInv, AckedInv, At
    <2>2. CASE ReadbackBudget(spent[c]) # 0
        <3>1. /\ ReadbackBudget(spent[c]) \in Nat /\ spent[c] \in Nat
              /\ spent[c] + ReadbackBudget(spent[c]) + Reserve <= RequestTimeout
            BY <2>2, BudgetIsShort, ToolCallsAssumption
        <3>2. /\ stage'[c] = "running" /\ at'[c] = "readback"
              /\ spent'[c] = spent[c] /\ answer'[c] = answer[c]
              /\ until'[c] = spent[c] + ReadbackBudget(spent[c])
              /\ stage[c] = "running" /\ at[c] = "write"
              /\ acked' = IF answer[c] = "none" THEN acked \cup {c} ELSE acked
            BY <1>4, <2>2 DEF WriteAcknowledged, GoTo, At, shell
        <3>3. BudgetInv(c)'
            BY <3>1, <3>2 DEF BudgetInv
        <3>4. AckedInv(c)' /\ EntryInv(c)'
            BY <1>0, <3>2 DEF CallInv, AckedInv, EntryInv, At
        <3> QED
            BY <3>3, <3>4 DEF CallInv
    <2> QED
        BY <2>1, <2>2
<1>5. CASE Readback(c) \/ ReadbackFails(c)
    BY <1>0, <1>5
    DEF Readback, ReadbackFails, Answer, GoTo, CallInv, EntryInv, BudgetInv, AckedInv, At
<1> QED
    BY <1>1, <1>2, <1>3, <1>4, <1>5 DEF Work

LEMMA ReportInvKept ==
    ASSUME MaxIngress < Reserve, TypeOK, ReportInv, [Next]_vars
    PROVE  ReportInv'
<1>1. ShellInv'
    BY StepIsShellStep, ShellInvKept DEF ReportInv, ToolAnswers, TypeOK
<1>2. SUFFICES ASSUME NEW d \in Calls
               PROVE  CallInv(d)'
    BY <1>1 DEF ReportInv
<1>3. CallInv(d)
    BY DEF ReportInv
<1>4. ASSUME NEW c \in Calls, Enter(c) \/ Work(c) \/ Deadline(c) \/ CallerLeaves(c)
      PROVE  CallInv(d)'
    <2>1. CASE c = d
        BY <1>4, <2>1, OwnStepKeeps
    <2>2. CASE c # d
        BY <1>3, <1>4, <2>2, StepsAreLocal, SameKeeps
    <2> QED
        BY <2>1, <2>2
<1>5. ASSUME NEW c \in Calls, Land(c)
      PROVE  CallInv(d)'
    BY <1>3, <1>5, SameKeeps DEF Land, tool, shell, Same
<1>6. CASE Edit
    BY <1>3, <1>6, SameKeeps DEF Edit, tool, shell, Same
<1>7. CASE Tick
    <2>1. /\ stage' = stage /\ answer' = answer /\ at' = at /\ until' = until /\ acked' = acked
          /\ At(d, "readback") => spent[d] < until[d] /\ spent'[d] = spent[d] + 1
        BY <1>7 DEF Tick, ShellTick, tool, At
    <2>2. spent[d] \in Nat /\ until[d] \in Nat
        BY ToolCallsAssumption DEF TypeOK, ShellTypeOK
    <2>3. BudgetInv(d)'
        BY <1>3, <2>1, <2>2 DEF CallInv, BudgetInv, At
    <2> QED
        BY <1>3, <2>1, <2>3 DEF CallInv, EntryInv, AckedInv, At
<1>8. CASE UNCHANGED vars
    BY <1>3, <1>8, SameKeeps DEF vars, tool, shell, Same
<1> QED
    BY <1>4, <1>5, <1>6, <1>7, <1>8 DEF Next

\* For all deadlines, budgets and numbers of calls: when the way in takes
\* less than the reserve, a caller who waits while the controller
\* acknowledges a write, and does not hang up afterwards, is told that it
\* was applied, over stdio and HTTP (the ..._RESPONSE_RESERVE of the
\* updating tools).
THEOREM AcknowledgedReported ==
    MaxIngress < Reserve => (Spec => []AcknowledgedIsReported)
<1> SUFFICES ASSUME MaxIngress < Reserve
             PROVE  Spec => []AcknowledgedIsReported
    OBVIOUS
<1>1. Init => ReportInv
    <2> SUFFICES ASSUME Init PROVE ReportInv
        OBVIOUS
    <2>1. ShellInv
        BY ShellStarts DEF Init
    <2> QED
        BY <2>1 DEF Init, ShellInit, ReportInv, CallInv, EntryInv, BudgetInv, AckedInv, At
<1>2. TypeOK /\ ReportInv /\ [Next]_vars => ReportInv'
    BY ReportInvKept
<1>3. TypeOK /\ ReportInv => AcknowledgedIsReported
    BY DEF TypeOK, ReportInv, CallInv, AckedInv, AcknowledgedIsReported
<1> QED
    BY <1>1, <1>2, <1>3, UpdatesTypeCorrect, PTL DEF Spec

-----------------------------------------------------------------------------
(***************************************************************************)
(* The truth of a report.                                                  *)
(***************************************************************************)
CallTruth(c) == ProgressInv(c) /\ WireInv(c) /\ RecordInv(c)

\* All that the truth of the report of call c depends on, but for the record.
Untouched(c) ==
    /\ updater' = updater
    /\ stage'[c] = stage[c] /\ answer'[c] = answer[c] /\ at'[c] = at[c]
    /\ changes'[c] = changes[c] /\ before'[c] = before[c] /\ wire'[c] = wire[c]
    /\ verdict'[c] = verdict[c] /\ treatment'[c] = treatment[c]
    /\ overwritten'[c] = overwritten[c]
    /\ c \in sent' <=> c \in sent
    /\ c \in landed' <=> c \in landed
    /\ c \in warned' <=> c \in warned
    /\ c \in disturbed => c \in disturbed'

\* A change of the record leaves the truth alone when the call is not
\* between its readings, or counts as disturbed.
LEMMA UntouchedKeeps ==
    ASSUME NEW c \in Calls, CallTruth(c), Untouched(c),
           record' = record \/ c \in disturbed' \/ c \notin Watching
    PROVE  CallTruth(c)'
<1>1. ProgressInv(c)'
    BY DEF CallTruth, ProgressInv, EntryInv, At, Untouched
<1>2. WireInv(c)'
    BY DEF CallTruth, WireInv, FaithfulBody, Untouched
<1>3. ASSUME c \notin disturbed'
      PROVE  /\ (At(c, "write") /\ c \notin landed => record = before[c])'
             /\ ((At(c, "write") \/ At(c, "readback")) /\ c \in landed => record = Outcome(c))'
    <2>1. Outcome(c)' = Outcome(c)
        BY DEF Outcome, Untouched
    <2>2. \A place : At(c, place)' <=> At(c, place)
        BY DEF At, Untouched
    <2> QED
        BY <1>3, <2>1, <2>2 DEF CallTruth, RecordInv, Untouched, Watching
<1>4. ASSUME c \notin disturbed', verdict'[c] # Nothing
      PROVE  VerdictIsRight(c)'
    BY <1>4 DEF CallTruth, RecordInv, Untouched, VerdictIsRight, Fate
<1> QED
    BY <1>1, <1>2, <1>3, <1>4 DEF CallTruth, RecordInv

\* A step of one call does not touch the others, and no tool changes the
\* record itself.
LEMMA OthersUntouched ==
    ASSUME TypeOK, NEW c \in Calls, Enter(c) \/ Work(c) \/ Deadline(c) \/ CallerLeaves(c),
           NEW d \in Calls, d # c
    PROVE  Untouched(d) /\ record' = record
<1>1. Same(d)
    BY StepsAreLocal
<1>2. CASE Enter(c)
    BY <1>1, <1>2 DEF Enter, tool, ctrl, Same, Untouched
<1>3. CASE Deadline(c) \/ CallerLeaves(c)
    BY <1>1, <1>3 DEF Deadline, CallerLeaves, Drops, ctrl, Same, Untouched
<1>4. CASE Validate(c) \/ SnapshotFails(c) \/ ReadbackFails(c)
    BY <1>1, <1>4 DEF Validate, SnapshotFails, ReadbackFails, ctrl, Same, Untouched, TypeOK
<1>5. CASE Snapshot(c)
    BY <1>1, <1>5 DEF Snapshot, Same, Untouched, TypeOK
<1>6. CASE WriteFails(c) \/ Readback(c)
    BY <1>1, <1>6 DEF WriteFails, Readback, ctrl, Same, Untouched, TypeOK
<1>7. CASE WriteAcknowledged(c)
    BY <1>1, <1>7 DEF WriteAcknowledged, ctrl, Same, Untouched
<1> QED
    BY <1>2, <1>3, <1>4, <1>5, <1>6, <1>7 DEF Work

\* What a confirmed call sends is faithful to what was asked and read, and
\* goes beyond what was asked only when the caller is warned.
LEMMA BodyIsFaithful ==
    ASSUME NEW request \in Changes, NEW current \in Records, updater \in Updaters,
           updater.skips => \E f \in DOMAIN request : current[f] # request[f]
    PROVE  /\ FaithfulBody(WriteBody(request, current), request, current)
           /\ \/ DOMAIN WriteBody(request, current) \subseteq DOMAIN request
              \/ Warns(request, current)
<1>1. PICK S \in SUBSET Fields : request \in [S -> Values]
    BY DEF Changes
<1>2. CASE ~updater.replaces
    BY <1>2 DEF WriteBody, FaithfulBody
<1>3. CASE updater.replaces /\ EnabledChanges(request, current)
    BY <1>1, <1>3 DEF WriteBody, FaithfulBody, Merged, Warns
<1>4. CASE updater.replaces /\ ~EnabledChanges(request, current)
    <2>1. updater.skips
        BY <1>4, RecordUpdatesAssumption
        DEF WlansUpdate, PortForwardsUpdate, FirewallPoliciesUpdate,
            ProtectDevicesSettingsUpdate
    <2>2. "logging" \in S
        BY <1>1, <1>4, <2>1 DEF EnabledChanges, Fields
    <2> DEFINE body == [f \in {"logging"} |-> request[f]]
    <2>3. WriteBody(request, current) = body
        BY <1>4 DEF WriteBody
    <2>4. DOMAIN body \subseteq DOMAIN request
        BY <1>1, <2>2
    <2>5. \A f \in DOMAIN request \ DOMAIN body : current[f] = request[f]
        BY <1>1, <1>4 DEF EnabledChanges, Fields
    <2> QED
        BY <2>3, <2>4, <2>5 DEF FaithfulBody
<1> QED
    BY <1>2, <1>3, <1>4

\* The write of an undisturbed call makes of what was read its outcome.
LEMMA LandingIsOutcome ==
    ASSUME NEW body, NEW request, NEW current \in Records,
           NEW how \in [Fields -> Treatments],
           FaithfulBody(body, request, current), NEW f \in Fields
    PROVE  (CASE how[f] = "rewritten" -> Rewritten
              [] how[f] = "kept" /\ f \in DOMAIN body -> body[f]
              [] OTHER -> current[f])
           = (CASE how[f] = "rewritten" -> Rewritten
                [] how[f] = "kept" /\ f \in DOMAIN request -> request[f]
                [] OTHER -> current[f])
<1> QED
    BY DEF FaithfulBody

\* A reading that is the outcome of the write is judged by what became of it.
LEMMA OutcomeIsJudged ==
    ASSUME TypeOK, NEW c \in Calls, NEW f \in DOMAIN changes[c]
    PROVE  FieldStatus(changes[c][f], before[c][f], Outcome(c)[f]) = Fate(c, f)
<1>1. changes[c] \in Changes /\ before[c] \in Records /\ treatment[c] \in [Fields -> Treatments]
    BY DEF TypeOK
<1>2. f \in Fields /\ changes[c][f] \in Values /\ treatment[c][f] \in Treatments
    BY <1>1 DEF Changes
<1>3. changes[c][f] # Rewritten
    BY <1>2 DEF Values, Rewritten
<1>4. Outcome(c)[f] = (CASE treatment[c][f] = "rewritten" -> Rewritten
                         [] treatment[c][f] = "kept" /\ f \in DOMAIN changes[c] -> changes[c][f]
                         [] OTHER -> before[c][f])
    BY <1>2 DEF Outcome
<1>5. CASE treatment[c][f] = "rewritten"
    <2>1. Outcome(c)[f] = Rewritten
        BY <1>4, <1>5
    <2> QED BY <1>3, <1>5, <2>1 DEF FieldStatus, Fate
<1>6. CASE treatment[c][f] = "kept"
    <2>1. Outcome(c)[f] = changes[c][f]
        BY <1>4, <1>6
    <2> QED BY <1>6, <2>1 DEF FieldStatus, Fate
<1>7. CASE treatment[c][f] = "dropped"
    <2>1. Outcome(c)[f] = before[c][f]
        BY <1>4, <1>7
    <2> QED BY <1>7, <2>1 DEF FieldStatus, Fate
<1> QED
    BY <1>2, <1>5, <1>6, <1>7 DEF Treatments

\* What the read-back of an undisturbed call concludes is right.
LEMMA JudgmentIsRight ==
    ASSUME TypeOK, NEW c \in Calls, record = Outcome(c), Readback(c)
    PROVE  VerdictIsRight(c)'
<1> DEFINE asked == DOMAIN changes[c]
           fields == [f \in asked |-> FieldStatus(changes[c][f], before[c][f], record[f])]
           unexpected == UnrequestedChanges(c, record)
           collateral == {f \in Fields \ asked :
                             treatment[c][f] = "rewritten" /\ before[c][f] # Rewritten}
<1>1. /\ updater' = updater /\ changes' = changes /\ before' = before
      /\ treatment' = treatment
      /\ verdict'[c] = Judge(c, record)
    BY DEF Readback, ctrl, TypeOK
<1>2. fields = [f \in asked |-> Fate(c, f)]
    BY OutcomeIsJudged
<1>3. unexpected = IF updater.compares THEN collateral ELSE {}
    <2>1. ASSUME NEW f \in Fields \ asked
          PROVE  record[f] # before[c][f] <=>
                    treatment[c][f] = "rewritten" /\ before[c][f] # Rewritten
        BY DEF Outcome
    <2> QED
        <3>1. CASE updater.compares
            <4>1. unexpected = {f \in Fields \ asked : record[f] # before[c][f]}
                BY <3>1 DEF UnrequestedChanges
            <4> HIDE DEF unexpected
            <4> QED BY <2>1, <3>1, <4>1
        <3>2. CASE ~updater.compares
            BY <3>2 DEF UnrequestedChanges
        <3> QED BY <3>1, <3>2
<1>4. /\ verdict'[c].fields = fields
      /\ verdict'[c].verified <=> unexpected = {} /\ \A f \in DOMAIN fields : fields[f] = "persisted"
    <2> DEFINE good == unexpected = {} /\ \A f \in DOMAIN fields : fields[f] = "persisted"
    <2>1. Judge(c, record) = [verified |-> good, fields |-> fields, unexpected |-> unexpected]
        BY DEF Judge
    <2> HIDE DEF fields, unexpected, good
    <2>2. verdict'[c].fields = fields /\ verdict'[c].verified = good
        BY <1>1, <2>1
    <2> QED BY <2>2 DEF good
<1>5. \A f : Fate(c, f)' = Fate(c, f)
    BY <1>1 DEF Fate
<1>6. verdict'[c].fields = [f \in asked |-> Fate(c, f)]
    BY <1>2, <1>4
<1>7. verdict'[c].verified <=> /\ \A f \in asked : Fate(c, f) = "persisted"
                               /\ ~updater.compares \/ collateral = {}
    BY <1>2, <1>3, <1>4
<1> QED
    BY <1>1, <1>5, <1>6, <1>7 DEF VerdictIsRight, Fate

\* The call enters.
LEMMA EnterKeepsTruth ==
    ASSUME TypeOK, NEW c \in Calls, CallTruth(c), Enter(c)
    PROVE  CallTruth(c)'
<1>1. /\ stage[c] \in {"new", "queued", "ingress"} /\ at[c] = "start"
      /\ c \notin sent /\ wire[c] = Nothing /\ c \notin landed /\ verdict[c] = Nothing
    BY DEF CallTruth, ProgressInv, EntryInv, Enter, Arrive, TakeSlot, Reject, Admit
<1>2. UNCHANGED <<updater, at, changes, before, verdict, warned, sent, record, wire, landed,
                  treatment, disturbed, overwritten>>
    BY DEF Enter, tool, ctrl
<1>3. answer[c] \notin Denials
    BY <1>1 DEF CallTruth, ProgressInv
<1>4. answer'[c] # answer[c] => stage'[c] = "done"
    BY DEF Enter, Arrive, TakeSlot, Reject, Admit, Answer, TypeOK, ShellTypeOK
<1>5. ProgressInv(c)'
    BY <1>1, <1>2, <1>3, <1>4 DEF ProgressInv, EntryInv, At
<1>6. WireInv(c)'
    BY <1>1, <1>2 DEF CallTruth, WireInv
<1>7. RecordInv(c)'
    BY <1>1, <1>2 DEF RecordInv, At
<1> QED
    BY <1>5, <1>6, <1>7 DEF CallTruth

\* A deadline strikes, or the caller hangs up.
LEMMA DeadlineKeepsTruth ==
    ASSUME TypeOK, NEW c \in Calls, CallTruth(c), Deadline(c) \/ CallerLeaves(c)
    PROVE  CallTruth(c)'
<1>1. UNCHANGED <<updater, changes, before, verdict, warned, sent, record, wire, landed,
                  treatment, disturbed, overwritten>>
    BY DEF Deadline, CallerLeaves, Drops, ctrl
<1>2. /\ stage[c] # "done" /\ stage'[c] \in {stage[c], "done"}
      /\ at'[c] = (IF stage'[c] = "done" THEN "end" ELSE at[c])
      /\ answer'[c] \in {answer[c], "http_timeout", "timed_out", "hung_up"}
    BY DEF Deadline, CallerLeaves, Drops, HttpTimeout, HangUp, GiveUp, HandlerTimeout,
           Unanswered, Answer, TypeOK, ShellTypeOK
<1>3. answer'[c] \notin Denials
    BY <1>2 DEF CallTruth, ProgressInv, Denials
<1>4. ProgressInv(c)'
    BY <1>1, <1>2, <1>3 DEF CallTruth, ProgressInv, EntryInv, At
<1>5. WireInv(c)'
    BY <1>1 DEF CallTruth, WireInv, FaithfulBody
<1>6. RecordInv(c)'
    <2>1. \A place \in {"write", "readback"} : At(c, place)' => At(c, place)
        BY <1>2 DEF At
    <2>2. Outcome(c)' = Outcome(c) /\ (VerdictIsRight(c)' <=> VerdictIsRight(c))
        BY <1>1 DEF Outcome, VerdictIsRight, Fate
    <2> QED
        BY <1>1, <2>1, <2>2 DEF CallTruth, RecordInv
<1> QED
    BY <1>4, <1>5, <1>6 DEF CallTruth

\* A call that has not sent anything goes on, or answers.
LEMMA EarlyStepKeepsTruth ==
    ASSUME TypeOK, NEW c \in Calls, CallTruth(c), Validate(c) \/ SnapshotFails(c)
    PROVE  CallTruth(c)'
<1>1. /\ stage[c] = "running" /\ at[c] \in {"start", "snapshot"}
      /\ c \notin sent /\ wire[c] = Nothing /\ c \notin landed /\ verdict[c] = Nothing
    BY DEF CallTruth, ProgressInv, Validate, SnapshotFails, At
<1>2. UNCHANGED <<updater, before, verdict, warned, sent, record, wire, landed,
                  treatment, disturbed, overwritten>>
    BY DEF Validate, SnapshotFails, ctrl
<1>3. /\ stage'[c] \in {"running", "done"} /\ at'[c] \in {"snapshot", "end"}
      /\ answer'[c] # answer[c] => stage'[c] = "done"
    BY DEF Validate, SnapshotFails, GoTo, Answer, TypeOK, ShellTypeOK, shell, At
<1>4. answer[c] \notin Denials
    BY <1>1 DEF CallTruth, ProgressInv
<1>5. ProgressInv(c)'
    BY <1>1, <1>2, <1>3, <1>4 DEF ProgressInv, EntryInv, At
<1>6. WireInv(c)'
    BY <1>1, <1>2 DEF CallTruth, WireInv
<1>7. RecordInv(c)'
    BY <1>1, <1>2, <1>3 DEF RecordInv, At
<1> QED
    BY <1>5, <1>6, <1>7 DEF CallTruth

\* The snapshot is taken.
LEMMA SnapshotKeepsTruth ==
    ASSUME TypeOK, NEW c \in Calls, CallTruth(c), Snapshot(c)
    PROVE  CallTruth(c)'
<1>1. /\ stage[c] = "running" /\ at[c] = "snapshot" /\ answer[c] \notin Denials
      /\ c \notin sent /\ wire[c] = Nothing /\ c \notin landed /\ verdict[c] = Nothing
    BY DEF CallTruth, ProgressInv, Snapshot, At
<1>2. /\ UNCHANGED <<updater, changes, verdict, record, landed, disturbed, overwritten>>
      /\ before'[c] = record
      /\ warned \subseteq warned'
    BY DEF Snapshot, TypeOK
<1>3. CASE stage'[c] = "done"
    <2>1. at'[c] = "end" /\ sent' = sent /\ wire' = wire
        BY <1>1, <1>3 DEF Snapshot, GoTo, TypeOK, ShellTypeOK, shell
    <2>2. ProgressInv(c)'
        BY <1>1, <1>2, <1>3, <2>1 DEF ProgressInv, EntryInv, At
    <2>3. WireInv(c)'
        BY <1>1, <1>2, <2>1 DEF CallTruth, WireInv
    <2>4. RecordInv(c)'
        BY <1>1, <1>2, <2>1 DEF RecordInv, At
    <2> QED BY <2>2, <2>3, <2>4 DEF CallTruth
<1>4. CASE stage'[c] # "done"
    <2>1. /\ updater.skips => \E f \in DOMAIN changes[c] : record[f] # changes[c][f]
          /\ wire'[c] = WriteBody(changes[c], record) /\ sent' = sent \cup {c}
          /\ at'[c] = "write" /\ stage'[c] = stage[c] /\ answer'[c] = answer[c]
        BY <1>4 DEF Snapshot, GoTo, Answer, shell, TypeOK, ShellTypeOK
    <2>2. Warns(changes[c], record) => c \in warned'
        BY DEF Snapshot
    <2>3. changes[c] \in Changes /\ record \in Records /\ updater \in Updaters
        BY DEF TypeOK
    <2>4. /\ FaithfulBody(WriteBody(changes[c], record), changes[c], record)
          /\ \/ DOMAIN WriteBody(changes[c], record) \subseteq DOMAIN changes[c]
             \/ Warns(changes[c], record)
        BY <2>1, <2>3, BodyIsFaithful
    <2>5. ProgressInv(c)'
        BY <1>1, <1>2, <2>1 DEF ProgressInv, EntryInv, At
    <2>6. WireInv(c)'
        BY <1>2, <2>1, <2>2, <2>4 DEF CallTruth, WireInv, FaithfulBody
    <2>7. RecordInv(c)'
        BY <1>1, <1>2, <2>1 DEF RecordInv, At
    <2> QED BY <2>5, <2>6, <2>7 DEF CallTruth
<1> QED
    BY <1>3, <1>4

\* The write is acknowledged, fails, or its read-back does.
LEMMA LateStepKeepsTruth ==
    ASSUME TypeOK, NEW c \in Calls, CallTruth(c),
           WriteAcknowledged(c) \/ WriteFails(c) \/ ReadbackFails(c)
    PROVE  CallTruth(c)'
<1>1. /\ stage[c] = "running" /\ at[c] \in {"write", "readback"}
      /\ answer[c] \notin Denials /\ verdict[c] = Nothing
    BY DEF CallTruth, ProgressInv, WriteAcknowledged, WriteFails, ReadbackFails, At
<1>2. /\ UNCHANGED <<updater, changes, before, verdict, warned, sent, record, landed,
                     treatment, disturbed, overwritten>>
      /\ wire'[c] \in {wire[c], Nothing}
    BY DEF WriteAcknowledged, WriteFails, ReadbackFails, ctrl, TypeOK
<1>3. /\ stage'[c] \in {"running", "done"} /\ at'[c] \in {"readback", "end"}
      /\ at'[c] = "readback" => c \in landed
      /\ answer'[c] \in {answer[c], "applied", "error"}
    BY <1>1 DEF WriteAcknowledged, WriteFails, ReadbackFails, GoTo, Answer, shell, TypeOK, ShellTypeOK
<1>4. answer'[c] \notin Denials
    BY <1>1, <1>3 DEF Denials
<1>5. ProgressInv(c)'
    BY <1>1, <1>2, <1>3, <1>4 DEF CallTruth, ProgressInv, EntryInv, At
<1>6. WireInv(c)'
    BY <1>2 DEF CallTruth, WireInv, FaithfulBody
<1>7. RecordInv(c)'
    <2>1. Outcome(c)' = Outcome(c)
        BY <1>2 DEF Outcome
    <2> QED
        BY <1>1, <1>2, <1>3, <2>1 DEF CallTruth, RecordInv, At
<1> QED
    BY <1>5, <1>6, <1>7 DEF CallTruth

\* The record is read back and judged.
LEMMA ReadbackKeepsTruth ==
    ASSUME TypeOK, NEW c \in Calls, CallTruth(c), Readback(c)
    PROVE  CallTruth(c)'
<1>1. /\ stage[c] = "running" /\ at[c] = "readback" /\ c \in landed
      /\ answer[c] \notin Denials
    BY DEF CallTruth, ProgressInv, Readback, At
<1>2. UNCHANGED <<updater, changes, before, warned, sent, record, wire, landed,
                  treatment, disturbed, overwritten>>
    BY DEF Readback, ctrl
<1>3. stage'[c] = "done" /\ at'[c] = "end" /\ answer'[c] \in {answer[c], "applied"}
    BY DEF Readback, GoTo, Answer, TypeOK, ShellTypeOK
<1>4. answer'[c] \notin Denials
    BY <1>1, <1>3 DEF Denials
<1>5. ProgressInv(c)'
    BY <1>1, <1>2, <1>3, <1>4 DEF CallTruth, ProgressInv, EntryInv, At
<1>6. WireInv(c)'
    BY <1>2 DEF CallTruth, WireInv, FaithfulBody
<1>7. RecordInv(c)'
    <2>1. c \notin disturbed => record = Outcome(c)
        BY <1>1 DEF CallTruth, RecordInv, At
    <2>2. c \notin disturbed => VerdictIsRight(c)'
        BY <2>1, JudgmentIsRight
    <2> QED
        BY <1>2, <1>3, <2>2 DEF RecordInv, At
<1> QED
    BY <1>5, <1>6, <1>7 DEF CallTruth

\* The controller carries out the write of the call.
LEMMA LandKeepsTruth ==
    ASSUME TypeOK, NEW c \in Calls, CallTruth(c), Land(c)
    PROVE  CallTruth(c)'
<1>1. /\ wire[c] # Nothing /\ c \notin landed /\ c \in sent /\ verdict[c] = Nothing
      /\ ~At(c, "readback")
      /\ FaithfulBody(wire[c], changes[c], before[c])
      /\ DOMAIN wire[c] \subseteq DOMAIN changes[c] \/ c \in warned
    BY DEF Land, CallTruth, ProgressInv, WireInv
<1>2. /\ UNCHANGED <<updater, stage, answer, at, changes, before, verdict, warned, sent>>
      /\ wire'[c] = Nothing /\ c \in landed'
      /\ c \in disturbed' <=> c \in disturbed
    BY DEF Land, shell, tool, TypeOK
<1>3. PICK how \in [Fields -> Treatments] :
        /\ record' = [f \in Fields |->
                        CASE how[f] = "rewritten" -> Rewritten
                          [] how[f] = "kept" /\ f \in DOMAIN wire[c] -> wire[c][f]
                          [] OTHER -> record[f]]
        /\ treatment' = [treatment EXCEPT ![c] = how]
        /\ overwritten' = [overwritten EXCEPT ![c] =
              {f \in DOMAIN wire[c] \ DOMAIN changes[c] :
                  how[f] = "kept" /\ record[f] # before[c][f]}]
    BY DEF Land
<1>4. /\ treatment'[c] = how
      /\ overwritten'[c] \subseteq DOMAIN wire[c] \ DOMAIN changes[c]
    BY <1>3 DEF TypeOK
<1>5. ProgressInv(c)'
    BY <1>1, <1>2 DEF CallTruth, ProgressInv, EntryInv, At
<1>6. WireInv(c)'
    BY <1>1, <1>2, <1>4 DEF WireInv
<1>7. ASSUME c \notin disturbed', At(c, "write")
      PROVE  record' = Outcome(c)'
    <2>1. record = before[c] /\ before[c] \in Records
        BY <1>1, <1>2, <1>7 DEF CallTruth, RecordInv, TypeOK
    <2>2. Outcome(c)' = [f \in Fields |->
                           CASE how[f] = "rewritten" -> Rewritten
                             [] how[f] = "kept" /\ f \in DOMAIN changes[c] -> changes[c][f]
                             [] OTHER -> before[c][f]]
        BY <1>2, <1>4 DEF Outcome
    <2>3. \A f \in Fields :
             (CASE how[f] = "rewritten" -> Rewritten
                [] how[f] = "kept" /\ f \in DOMAIN wire[c] -> wire[c][f]
                [] OTHER -> before[c][f])
             = (CASE how[f] = "rewritten" -> Rewritten
                  [] how[f] = "kept" /\ f \in DOMAIN changes[c] -> changes[c][f]
                  [] OTHER -> before[c][f])
        BY <1>1, <2>1, LandingIsOutcome
    <2> QED
        BY <1>3, <2>1, <2>2, <2>3
<1>8. RecordInv(c)'
    BY <1>1, <1>2, <1>7 DEF RecordInv, At
<1> QED
    BY <1>5, <1>6, <1>8 DEF CallTruth

LEMMA TruthKept ==
    ASSUME TypeOK, TruthInv, [Next]_vars
    PROVE  TruthInv'
<1>1. SUFFICES ASSUME NEW d \in Calls
               PROVE  CallTruth(d)'
    BY DEF TruthInv, CallTruth
<1>2. CallTruth(d)
    BY DEF TruthInv, CallTruth
<1>3. ASSUME NEW c \in Calls, Enter(c) \/ Work(c) \/ Deadline(c) \/ CallerLeaves(c)
      PROVE  CallTruth(d)'
    <2>1. CASE c = d
        BY <1>2, <1>3, <2>1, EnterKeepsTruth, DeadlineKeepsTruth, EarlyStepKeepsTruth,
           SnapshotKeepsTruth, LateStepKeepsTruth, ReadbackKeepsTruth DEF Work
    <2>2. CASE c # d
        BY <1>2, <1>3, <2>2, OthersUntouched, UntouchedKeeps
    <2> QED BY <2>1, <2>2
<1>4. ASSUME NEW c \in Calls, Land(c)
      PROVE  CallTruth(d)'
    <2>1. CASE c = d
        BY <1>2, <1>4, <2>1, LandKeepsTruth
    <2>2. CASE c # d
        <3>1. Untouched(d) /\ (d \in Watching => d \in disturbed')
            BY <1>4, <2>2 DEF Land, shell, tool, Untouched, TypeOK
        <3> QED BY <1>2, <3>1, UntouchedKeeps
    <2> QED BY <2>1, <2>2
<1>5. CASE Edit
    <2>1. Untouched(d) /\ (d \in Watching => d \in disturbed')
        BY <1>5 DEF Edit, shell, tool, Untouched
    <2> QED BY <1>2, <2>1, UntouchedKeeps
<1>6. CASE Tick
    <2>1. Untouched(d) /\ record' = record
        BY <1>6 DEF Tick, ShellTick, tool, ctrl, Untouched
    <2> QED BY <1>2, <2>1, UntouchedKeeps
<1>7. CASE UNCHANGED vars
    <2>1. Untouched(d) /\ record' = record
        BY <1>7 DEF vars, shell, tool, ctrl, Untouched
    <2> QED BY <1>2, <2>1, UntouchedKeeps
<1> QED
    BY <1>3, <1>4, <1>5, <1>6, <1>7 DEF Next

\* What the truth of a report rests on holds in every reachable state.
THEOREM TruthAlways == Spec => []TruthInv
<1>1. Init => TruthInv
    BY DEF Init, ShellInit, TruthInv, ProgressInv, EntryInv, WireInv, RecordInv, At, Denials
<1>2. TypeOK /\ TruthInv /\ [Next]_vars => TruthInv'
    BY TruthKept
<1> QED
    BY <1>1, <1>2, UpdatesTypeCorrect, PTL DEF Spec

\* For all requests, calls and interleavings: when nobody else writes between
\* the two readings of a call, what mutation::verify and unrequested_changes
\* conclude is what the controller did, and a call that denies having acted
\* has nothing on its way.
THEOREM ReportsTrue == Spec => []ReportIsTrue
<1>1. TruthInv => ReportIsTrue
    BY DEF TruthInv, ProgressInv, RecordInv, ReportIsTrue
<1> QED
    BY <1>1, TruthAlways, PTL

\* For all requests, calls and interleavings: a write undoes somebody else's
\* edit of a field it was not asked to change only when the answer of the
\* call warns of it (firewall_policy_warnings).
THEOREM OverwritesDisclosed == Spec => []OverwriteIsDisclosed
<1>1. TruthInv => OverwriteIsDisclosed
    BY DEF TruthInv, WireInv, OverwriteIsDisclosed
<1> QED
    BY <1>1, TruthAlways, PTL
=============================================================================
