------------------------ MODULE ResourceWritesProofs -------------------------
(***************************************************************************)
(* Theorems about the tools that create, replace, delete or act, for every *)
(* number of calls, every tool of the kind ResourceWritesAssumption        *)
(* describes, every deadline and every size of a batch.                    *)
(***************************************************************************)
EXTENDS ResourceWrites, ToolCallsProofs, InductionLemmas

-----------------------------------------------------------------------------
(***************************************************************************)
(* Shapes.                                                                 *)
(***************************************************************************)
LEMMA ToolShape ==
    ASSUME tool \in Tools
    PROVE  /\ tool.batch \in BOOLEAN
           /\ tool.judge \in [Views -> Verdicts]
           /\ tool.goal \in SUBSET Conditions
           /\ tool.looks \in Seq(RequestRecord) /\ tool.finds \in Seq(RequestRecord)
           /\ WritesOnce(tool) /\ JudgesByGoal(tool.judge, tool.goal) /\ JudgesBatches(tool)
<1> QED
    BY ResourceWritesAssumption DEF ToolRecord

\* A guest is judged by the grant that the reply states.
LEMMA GrantedTells ==
    ASSUME NEW g \in Grants
    PROVE  /\ Granted(g) \in [Views -> Verdicts]
           /\ JudgesByGoal(Granted(g), {g})
<1>1. /\ Granted(g) \in [Views -> Verdicts]
      /\ \A v \in Views : Granted(g)[v] = (CASE v = g -> "yes"
                                             [] v \in {"another", "missing"} -> "none"
                                             [] OTHER -> "no")
    BY DEF Granted, Verdicts
<1>2. g \in {"old", "asked", "other"}
    BY DEF Grants, Conditions
<1> QED
    BY <1>1, <1>2 DEF JudgesByGoal, ViewOf, Conditions, Views

\* Whatever a call's readings are held against, they are judged by it; and
\* in a batch that is what the tool promises.
LEMMA JudgeFits ==
    ASSUME TypeOK, NEW c \in Calls
    PROVE  /\ Judge(c) \in [Views -> Verdicts]
           /\ JudgesByGoal(Judge(c), Goal(c))
           /\ tool.batch => /\ Judge(c) = tool.judge /\ Goal(c) = tool.goal
                            /\ \A k \in Conditions : Judge(c)[ViewOf(k)] # "none"
<1>1. /\ tool.judge \in [Views -> Verdicts]
      /\ JudgesByGoal(tool.judge, tool.goal) /\ JudgesBatches(tool)
    BY ToolShape DEF TypeOK
<1>2. CASE tool.ack = "grants"
    <2>1. granted[c] \in Grants /\ ~tool.batch
        BY <1>1, <1>2 DEF TypeOK, JudgesBatches
    <2>2. Judge(c) = Granted(granted[c]) /\ Goal(c) = {granted[c]}
        BY <1>2 DEF Judge, Goal
    <2> QED BY <2>1, <2>2, GrantedTells
<1>3. CASE tool.ack # "grants"
    <2>1. Judge(c) = tool.judge /\ Goal(c) = tool.goal
        BY <1>3 DEF Judge, Goal
    <2> QED BY <1>1, <2>1 DEF JudgesBatches
<1> QED BY <1>2, <1>3

\* How many resources a call is about.
LEMMA ItemsShape ==
    ASSUME tool \in Tools
    PROVE  /\ Items \subseteq Names /\ 1 \in Items
           /\ Nameless \notin Items
           /\ IsFiniteSet(Items)
           /\ ~tool.batch => Cardinality(Items) = 1
           /\ tool.batch => Cardinality(Items) = BatchSize
<1>1. BatchSize \in Nat \ {0}
    BY ResourceWritesAssumption
<1>2. IsFiniteSet(1..BatchSize) /\ Cardinality(1..BatchSize) = BatchSize
    BY <1>1, FS_Interval
<1>3. IsFiniteSet({1}) /\ Cardinality({1}) = 1
    BY FS_Singleton
<1>4. tool.batch \in BOOLEAN
    BY ToolShape
<1> QED
    BY <1>1, <1>2, <1>3, <1>4 DEF Items, Names, Nameless

LEMMA ReplyShape ==
    ASSUME tool \in Tools, NEW r \in Replies
    PROVE  /\ r \in Seq(Names) /\ Len(r) <= BatchSize
           /\ tool.batch => \A i \in DOMAIN r : r[i] \in Items \cup {Nameless}
<1>1. BatchSize \in Nat \ {0}
    BY ResourceWritesAssumption
<1>2. Items \subseteq Names /\ Nameless \in Names /\ Stranger \in Names /\ 1 \in Names
    BY <1>1, ItemsShape DEF Names, Nameless, Stranger
<1>3. CASE tool.batch
    <2>1. PICK n \in 0..BatchSize : r \in [1..n -> Items \cup {Nameless}]
        BY <1>3 DEF Replies
    <2>2. r \in Seq(Items \cup {Nameless}) /\ Len(r) = n /\ DOMAIN r = 1..n
        BY <1>1, <2>1
    <2>3. r \in Seq(Names)
        BY <1>2, <2>2
    <2> QED BY <1>1, <2>1, <2>2, <2>3
<1>4. CASE ~tool.batch
    <2>1. r \in {<<1>>, <<Nameless>>, <<Stranger>>}
        BY <1>4 DEF Replies
    <2>2. /\ <<1>> \in Seq(Names) /\ Len(<<1>>) = 1
          /\ <<Nameless>> \in Seq(Names) /\ Len(<<Nameless>>) = 1
          /\ <<Stranger>> \in Seq(Names) /\ Len(<<Stranger>>) = 1
        BY <1>2
    <2>3. r \in Seq(Names) /\ Len(r) = 1
        <3>1. CASE r = <<1>>
            BY <2>2, <3>1
        <3>2. CASE r = <<Nameless>>
            BY <2>2, <3>2
        <3>3. CASE r = <<Stranger>>
            BY <2>2, <3>3
        <3> QED BY <2>1, <3>1, <3>2, <3>3
    <2> QED BY <1>1, <1>4, <2>3
<1> QED BY <1>3, <1>4

LEMMA ConcludeShape ==
    ASSUME NEW c \in Calls, NEW a, NEW kinds, DOMAIN shown = Calls, Conclude(c, a, kinds)
    PROVE  /\ Answer(c, a) /\ GoTo(c, "end")
           /\ DOMAIN shown' = Calls /\ shown'[c].had \in SUBSET FieldNames
           /\ \A d \in Calls : d # c => shown'[d] = shown[d]
<1> DEFINE had == kinds \cap FieldNames
<1>1. PICK output \in [had -> Sizes] :
        /\ shown' = [shown EXCEPT ![c] = [had |-> had, laid |-> Render(tool.layout, output)]]
        /\ Answer(c, a) /\ GoTo(c, "end")
    BY DEF Conclude
<1>2. shown'[c] = [had |-> had, laid |-> Render(tool.layout, output)]
    BY <1>1
<1>3. shown'[c].had = had
    BY <1>2
<1> QED BY <1>1, <1>3

LEMMA BudgetIsShort ==
    ASSUME NEW elapsed \in 0..RequestTimeout
    PROVE  /\ ReadbackBudget(elapsed) \in Nat
           /\ elapsed + ReadbackBudget(elapsed) <= RequestTimeout
           /\ ReadbackBudget(elapsed) # 0 =>
                 elapsed + ReadbackBudget(elapsed) + Reserve <= RequestTimeout
<1> QED
    BY ToolCallsAssumption, ResourceWritesAssumption DEF ReadbackBudget, Lesser, Monus

\* The pending request of a call.
LEMMA PendingShape ==
    ASSUME TypeOK, NEW c \in Calls, Waits(c)
    PROVE  /\ at[c] \in {"look", "find"} => Pending(c).method = "GET"
           /\ at[c] = "write" => ~Retried(Pending(c))
           /\ at[c] = "readback" /\ tool.back # Nothing => Pending(c).method = "GET"
<1>1. WritesOnce(tool) /\ tool.looks \in Seq(RequestRecord) /\ tool.finds \in Seq(RequestRecord)
    BY ToolShape DEF TypeOK
<1>2. pos[c] \in Nat \ {0}
    BY DEF TypeOK
<1>3. ASSUME at[c] \in {"look", "find"}
      PROVE  Pending(c).method = "GET"
    <2>1. pos[c] <= Len(Reads(c)) /\ Pending(c) = Reads(c)[pos[c]]
        BY <1>3 DEF Waits, Pending
    <2>2. CASE at[c] = "look"
        BY <1>1, <1>2, <2>1, <2>2 DEF WritesOnce, Reads
    <2>3. CASE at[c] = "find"
        BY <1>1, <1>2, <2>1, <2>3 DEF WritesOnce, Reads
    <2> QED BY <1>3, <2>2, <2>3
<1>4. ASSUME at[c] = "write"
      PROVE  ~Retried(Pending(c))
    <2>1. Pending(c) = tool.write
        BY <1>4 DEF Pending
    <2> QED BY <1>1, <2>1 DEF WritesOnce, Retried
<1>5. ASSUME at[c] = "readback", tool.back # Nothing
      PROVE  Pending(c).method = "GET"
    <2>1. Pending(c) = tool.back
        BY <1>5 DEF Pending
    <2> QED BY <1>1, <1>5, <2>1 DEF WritesOnce
<1> QED BY <1>3, <1>4, <1>5

-----------------------------------------------------------------------------
(***************************************************************************)
(* Type correctness.                                                       *)
(***************************************************************************)
\* To the call path, a step of a tool is an answer or nothing.
LEMMA StepIsShellStep ==
    ASSUME TypeOK, [Next]_vars
    PROVE  ShellStep(ToolAnswers)
<1>0. ASSUME NEW c \in Calls, NEW a, NEW kinds, Conclude(c, a, kinds)
      PROVE  Answer(c, a)
    BY <1>0, ConcludeShape DEF TypeOK
<1>1. ASSUME NEW c \in Calls, Enter(c)
      PROVE  ShellStep(ToolAnswers)
    BY <1>1 DEF Enter, ShellStep
<1>2. ASSUME NEW c \in Calls, Validate(c) \/ ReadFails(c) \/ WriteUndecodable(c) \/ WriteFails(c)
      PROVE  ShellStep(ToolAnswers)
    BY <1>2
    DEF Validate, ReadFails, WriteUndecodable, WriteFails, Refuse, At, Waits, ShellStep, ToolAnswers
<1>3. ASSUME NEW c \in Calls, ReadDone(c) \/ Throttled(c) \/ Send(c) \/ SkipVoucher(c)
                                \/ ReadVoucher(c) \/ ReadVoucherFails(c)
      PROVE  ShellStep(ToolAnswers)
    BY <1>3 DEF ReadDone, Throttled, Send, SkipVoucher, ReadVoucher, ReadVoucherFails, ShellStep
<1>4. ASSUME NEW c \in Calls, Plan(c)
      PROVE  ShellStep(ToolAnswers)
    BY <1>0, <1>4 DEF Plan, At, ShellStep, ToolAnswers
<1>5. ASSUME NEW c \in Calls, WriteAcknowledged(c)
      PROVE  ShellStep(ToolAnswers)
    BY <1>0, <1>5 DEF WriteAcknowledged, At, ShellStep, ToolAnswers
<1>6. ASSUME NEW c \in Calls, Readback(c) \/ ReadbackFails(c) \/ VouchersCutOff(c) \/ VouchersDone(c)
      PROVE  ShellStep(ToolAnswers)
    <2>1. stage[c] = "running" /\ Answer(c, "applied")
        BY <1>0, <1>6 DEF Readback, ReadbackFails, VouchersCutOff, VouchersDone, InBatch, At
    <2> QED BY <2>1 DEF ShellStep, ToolAnswers
<1>7. ASSUME NEW c \in Calls, Deadline(c) \/ CallerLeaves(c)
      PROVE  ShellStep(ToolAnswers)
    BY <1>7 DEF Deadline, CallerLeaves, ShellStep
<1>8. ASSUME NEW c \in Calls, Land(c) \/ Edit(c)
      PROVE  ShellStep(ToolAnswers)
    BY <1>8 DEF Land, Edit, ShellStep
<1>9. CASE Tick
    BY <1>9 DEF Tick, ShellStep
<1>10. CASE UNCHANGED vars
    BY <1>10 DEF vars, ShellStep
<1> QED
    BY <1>1, <1>2, <1>3, <1>4, <1>5, <1>6, <1>7, <1>8, <1>9, <1>10 DEF Next, Work

\* What a tool keeps, well typed.
WorkTypeOK ==
    /\ at \in [Calls -> {"start", "look", "find", "write", "readback", "end"}]
    /\ pos \in [Calls -> Nat \ {0}]
    /\ tries \in [Calls -> 0..1]
    /\ until \in [Calls -> 0..RequestTimeout]
    /\ reply \in [Calls -> Seq(Names)]
    /\ \A c \in Calls : Len(reply[c]) <= BatchSize
    /\ verdict \in [Calls -> Verdicts]
    /\ DOMAIN shown = Calls
    /\ \A c \in Calls : shown[c].had \in SUBSET FieldNames
    /\ {acked, doubtful} \subseteq SUBSET Calls

\* What is known of the controller, well typed.
ControllerTypeOK ==
    /\ {world, effect} \subseteq [Calls -> [Items -> Conditions]]
    /\ granted \in [Calls -> Grants]
    /\ edits \in 0..MaxEdits
    /\ writes \in [Calls -> Nat]
    /\ {wire, landed, disturbed} \subseteq SUBSET Calls

LEMMA TypesSplit ==
    TypeOK <=> /\ ShellTypeOK(ToolAnswers) /\ tool \in Tools
               /\ WorkTypeOK /\ ControllerTypeOK
<1> QED
    BY DEF TypeOK, WorkTypeOK, ControllerTypeOK

LEMMA SameWork ==
    ASSUME WorkTypeOK, UNCHANGED <<tool, work>>
    PROVE  WorkTypeOK'
<1>1. FieldNames' = FieldNames /\ Names' = Names
    BY DEF FieldNames, Names
<1> QED
    BY <1>1 DEF WorkTypeOK, work

LEMMA SameController ==
    ASSUME ControllerTypeOK, UNCHANGED <<tool, ctrl>>
    PROVE  ControllerTypeOK'
<1> QED
    BY DEF ControllerTypeOK, ctrl, Items

\* A request that leaves keeps the controller's part well typed.
LEMMA EmitTypes ==
    ASSUME ControllerTypeOK, NEW c \in Calls, NEW request, Emit(c, request),
           UNCHANGED <<tool, world, granted, edits, effect, landed, disturbed>>
    PROVE  ControllerTypeOK'
<1>1. wire' \in SUBSET Calls /\ writes' \in [Calls -> Nat]
    BY DEF Emit, ControllerTypeOK
<1> QED
    BY <1>1 DEF ControllerTypeOK, Items

LEMMA ControllerTypesKept ==
    ASSUME TypeOK, [Next]_vars
    PROVE  ControllerTypeOK'
<1>0. ControllerTypeOK
    BY TypesSplit
<1>1. ASSUME NEW c \in Calls, Enter(c) \/ Deadline(c) \/ CallerLeaves(c)
      PROVE  ControllerTypeOK'
    BY <1>0, <1>1, SameController DEF Enter, Deadline, CallerLeaves, Drops
<1>2. ASSUME NEW c \in Calls, Validate(c) \/ ReadDone(c) \/ ReadFails(c) \/ Plan(c)
                                \/ WriteAcknowledged(c) \/ WriteUndecodable(c)
      PROVE  ControllerTypeOK'
    BY <1>0, <1>2, SameController
    DEF Validate, ReadDone, ReadFails, Plan, WriteAcknowledged, WriteUndecodable
<1>3. ASSUME NEW c \in Calls, Readback(c) \/ ReadbackFails(c) \/ SkipVoucher(c) \/ ReadVoucher(c)
                                \/ ReadVoucherFails(c) \/ VouchersCutOff(c) \/ VouchersDone(c)
      PROVE  ControllerTypeOK'
    BY <1>0, <1>3, SameController
    DEF Readback, ReadbackFails, SkipVoucher, ReadVoucher, ReadVoucherFails, VouchersCutOff,
        VouchersDone
<1>4. ASSUME NEW c \in Calls, Throttled(c) \/ Send(c)
      PROVE  ControllerTypeOK'
    BY <1>0, <1>4, EmitTypes DEF Throttled, Send
<1>5. ASSUME NEW c \in Calls, WriteFails(c)
      PROVE  ControllerTypeOK'
    BY <1>0, <1>5 DEF WriteFails, ControllerTypeOK, Items
<1>6. ASSUME NEW c \in Calls, Land(c)
      PROVE  ControllerTypeOK'
    BY <1>0, <1>6 DEF Land, ControllerTypeOK, Items
<1>7. ASSUME NEW c \in Calls, Edit(c)
      PROVE  ControllerTypeOK'
    <2>1. PICK i \in Items, v \in Conditions : world' = [world EXCEPT ![c][i] = v]
        BY <1>7 DEF Edit
    <2>2. world[c] \in [Items -> Conditions]
        BY <1>0 DEF ControllerTypeOK
    <2>3. [world[c] EXCEPT ![i] = v] \in [Items -> Conditions]
        BY <2>2
    <2>4. world' \in [Calls -> [Items -> Conditions]]
        BY <1>0, <2>1, <2>3 DEF ControllerTypeOK
    <2>5. edits' \in 0..MaxEdits /\ disturbed' \in SUBSET Calls
        BY <1>0, <1>7, ResourceWritesAssumption DEF Edit, ControllerTypeOK
    <2> QED BY <1>0, <1>7, <2>4, <2>5 DEF Edit, ControllerTypeOK, Items
<1>8. CASE Tick \/ UNCHANGED vars
    BY <1>0, <1>8, SameController DEF Tick, vars
<1> QED
    BY <1>1, <1>2, <1>3, <1>4, <1>5, <1>6, <1>7, <1>8 DEF Next, Work

\* Where a call goes is a place.
LEMMA GoToTypes ==
    ASSUME WorkTypeOK, NEW c \in Calls, NEW place \in {"look", "find", "write", "readback", "end"},
           GoTo(c, place)
    PROVE  /\ at' \in [Calls -> {"start", "look", "find", "write", "readback", "end"}]
           /\ pos' \in [Calls -> Nat \ {0}]
           /\ at'[c] = place /\ pos'[c] = 1
<1> QED
    BY DEF WorkTypeOK, GoTo

\* The end of a tool, with or without an answer that is laid out.
LEMMA EndTypes ==
    ASSUME WorkTypeOK, NEW c \in Calls, NEW a, UNCHANGED tool,
           Refuse(c, a) \/ \E kinds : Conclude(c, a, kinds)
    PROVE  /\ at' \in [Calls -> {"start", "look", "find", "write", "readback", "end"}]
           /\ pos' \in [Calls -> Nat \ {0}]
           /\ at'[c] = "end" /\ Answer(c, a)
           /\ (DOMAIN shown = Calls /\ \A d \in Calls : shown[d].had \in SUBSET FieldNames)'
<1>0. FieldNames' = FieldNames
    BY DEF FieldNames
<1>1. CASE Refuse(c, a)
    BY <1>0, <1>1, GoToTypes DEF Refuse, WorkTypeOK
<1>2. ASSUME NEW kinds, Conclude(c, a, kinds)
      PROVE  /\ at' \in [Calls -> {"start", "look", "find", "write", "readback", "end"}]
             /\ pos' \in [Calls -> Nat \ {0}]
             /\ at'[c] = "end" /\ Answer(c, a)
             /\ (DOMAIN shown = Calls /\ \A d \in Calls : shown[d].had \in SUBSET FieldNames)'
    <2>1. /\ Answer(c, a) /\ GoTo(c, "end")
          /\ DOMAIN shown' = Calls /\ shown'[c].had \in SUBSET FieldNames
          /\ \A d \in Calls : d # c => shown'[d] = shown[d]
        BY <1>2, ConcludeShape DEF WorkTypeOK
    <2> QED BY <1>0, <2>1, GoToTypes DEF WorkTypeOK
<1> QED BY <1>1, <1>2

\* What an ended or continuing call leaves alone keeps its type.
LEMMA WorkTypesFrom ==
    ASSUME WorkTypeOK, UNCHANGED tool,
           at' \in [Calls -> {"start", "look", "find", "write", "readback", "end"}],
           pos' \in [Calls -> Nat \ {0}],
           tries' \in [Calls -> 0..1],
           until' \in [Calls -> 0..RequestTimeout],
           reply' \in [Calls -> Seq(Names)],
           \A c \in Calls : Len(reply'[c]) <= BatchSize,
           verdict' \in [Calls -> Verdicts],
           \/ UNCHANGED shown
           \/ (DOMAIN shown = Calls /\ \A d \in Calls : shown[d].had \in SUBSET FieldNames)',
           {acked', doubtful'} \subseteq SUBSET Calls
    PROVE  WorkTypeOK'
<1>1. FieldNames' = FieldNames /\ Names' = Names
    BY DEF FieldNames, Names
<1>2. (DOMAIN shown = Calls /\ \A d \in Calls : shown[d].had \in SUBSET FieldNames)'
    BY <1>1 DEF WorkTypeOK
<1> QED
    BY <1>1, <1>2 DEF WorkTypeOK

LEMMA ConclusionType ==
    ASSUME TypeOK, NEW c \in Calls, NEW i \in Items, NEW view \in ViewsOf(c, i)
    PROVE  view \in Views /\ Conclusion(c, view) \in Verdicts
<1>1. Judge(c) \in [Views -> Verdicts]
    BY JudgeFits
<1>2. world[c][i] \in Conditions
    BY DEF TypeOK
<1>3. view \in Views
    BY <1>2 DEF ViewsOf, Views, Conditions
<1> QED
    BY <1>1, <1>3 DEF Conclusion, Verdicts

LEMMA AcknowledgedTypes ==
    ASSUME TypeOK, NEW c \in Calls, WriteAcknowledged(c)
    PROVE  WorkTypeOK'
<1>0. WorkTypeOK /\ UNCHANGED tool /\ tool \in Tools
    BY TypesSplit DEF WriteAcknowledged
<1>1. PICK r \in Replies :
          /\ reply' = [reply EXCEPT ![c] = r]
          /\ verdict' = [verdict EXCEPT ![c] = FirstVerdict(r)]
          /\ doubtful' = IF Faithful(r) THEN doubtful ELSE doubtful \cup {c}
          /\ \/ /\ until' = [until EXCEPT ![c] = spent[c] + ReadbackBudget(spent[c])]
                /\ GoTo(c, "readback") /\ UNCHANGED <<shell, shown>>
             \/ \E kinds : Conclude(c, "applied", kinds) /\ UNCHANGED until
    BY DEF WriteAcknowledged
<1>2. r \in Seq(Names) /\ Len(r) <= BatchSize
    BY <1>0, ReplyShape
<1>3. /\ reply' \in [Calls -> Seq(Names)]
      /\ \A d \in Calls : Len(reply'[d]) <= BatchSize
    BY <1>0, <1>1, <1>2 DEF WorkTypeOK
<1>4. FirstVerdict(r) \in Verdicts
    BY DEF FirstVerdict, Verdicts
<1>5. verdict' \in [Calls -> Verdicts] /\ tries' \in [Calls -> 0..1]
      /\ {acked', doubtful'} \subseteq SUBSET Calls
    BY <1>0, <1>1, <1>4 DEF WriteAcknowledged, WorkTypeOK
<1>6. spent[c] \in 0..RequestTimeout
    BY DEF TypeOK, ShellTypeOK
<1>7. spent[c] + ReadbackBudget(spent[c]) \in 0..RequestTimeout
    BY <1>6, BudgetIsShort, ToolCallsAssumption
<1>8. CASE /\ until' = [until EXCEPT ![c] = spent[c] + ReadbackBudget(spent[c])]
           /\ GoTo(c, "readback") /\ UNCHANGED <<shell, shown>>
    <2>1. until' \in [Calls -> 0..RequestTimeout]
        BY <1>0, <1>7, <1>8 DEF WorkTypeOK
    <2>2. /\ at' \in [Calls -> {"start", "look", "find", "write", "readback", "end"}]
          /\ pos' \in [Calls -> Nat \ {0}]
        BY <1>0, <1>8, GoToTypes
    <2> QED BY <1>0, <1>3, <1>5, <1>8, <2>1, <2>2, WorkTypesFrom
<1>9. ASSUME NEW kinds, Conclude(c, "applied", kinds), UNCHANGED until
      PROVE  WorkTypeOK'
    <2>1. /\ at' \in [Calls -> {"start", "look", "find", "write", "readback", "end"}]
          /\ pos' \in [Calls -> Nat \ {0}]
          /\ (DOMAIN shown = Calls /\ \A d \in Calls : shown[d].had \in SUBSET FieldNames)'
        BY <1>0, <1>9, EndTypes
    <2>2. until' \in [Calls -> 0..RequestTimeout]
        BY <1>0, <1>9 DEF WorkTypeOK
    <2> QED BY <1>0, <1>3, <1>5, <2>1, <2>2, WorkTypesFrom
<1> QED BY <1>1, <1>8, <1>9

\* A step of the voucher loop.
LEMMA VoucherTypes ==
    ASSUME TypeOK, NEW c \in Calls, SkipVoucher(c) \/ ReadVoucher(c) \/ ReadVoucherFails(c)
    PROVE  WorkTypeOK'
<1>0. WorkTypeOK
    BY TypesSplit
<1>1. /\ UNCHANGED <<tool, at, until, reply, shown, acked>>
      /\ \E bad : Downgrade(c, bad)
      /\ NextVoucher(c) /\ doubtful' \in {doubtful, doubtful \cup {c}}
    BY DEF SkipVoucher, ReadVoucher, ReadVoucherFails
<1>2. verdict' \in [Calls -> Verdicts]
    BY <1>0, <1>1 DEF Downgrade, WorkTypeOK, Verdicts
<1>3. pos' \in [Calls -> Nat \ {0}] /\ tries' \in [Calls -> 0..1]
    BY <1>0, <1>1 DEF NextVoucher, WorkTypeOK
<1>4. /\ at' \in [Calls -> {"start", "look", "find", "write", "readback", "end"}]
      /\ until' \in [Calls -> 0..RequestTimeout]
      /\ reply' \in [Calls -> Seq(Names)]
      /\ \A d \in Calls : Len(reply'[d]) <= BatchSize
      /\ {acked', doubtful'} \subseteq SUBSET Calls
    BY <1>0, <1>1 DEF WorkTypeOK
<1> QED
    BY <1>0, <1>1, <1>2, <1>3, <1>4, WorkTypesFrom

\* A step that ends a tool, or not, and does nothing but that.
LEMMA PlainTypes ==
    ASSUME TypeOK, NEW c \in Calls,
           Validate(c) \/ ReadFails(c) \/ Plan(c) \/ WriteFails(c) \/ ReadbackFails(c)
             \/ VouchersDone(c) \/ WriteUndecodable(c)
    PROVE  WorkTypeOK'
<1>0. WorkTypeOK
    BY TypesSplit
<1>1. /\ UNCHANGED <<tool, tries, until, reply, verdict, doubtful>>
      /\ acked' \in {acked, acked \cup {c}}
    BY DEF Validate, ReadFails, Plan, WriteFails, ReadbackFails, VouchersDone, WriteUndecodable
<1>2. \/ \E place \in {"look", "find"} : GoTo(c, place) /\ UNCHANGED shown
      \/ \E a : Refuse(c, a) \/ \E kinds : Conclude(c, a, kinds)
    BY DEF Validate, ReadFails, Plan, WriteFails, ReadbackFails, VouchersDone, WriteUndecodable
<1>3. /\ tries' \in [Calls -> 0..1]
      /\ until' \in [Calls -> 0..RequestTimeout]
      /\ reply' \in [Calls -> Seq(Names)]
      /\ \A d \in Calls : Len(reply'[d]) <= BatchSize
      /\ verdict' \in [Calls -> Verdicts]
      /\ {acked', doubtful'} \subseteq SUBSET Calls
    BY <1>0, <1>1 DEF WorkTypeOK
<1>4. ASSUME NEW place \in {"look", "find"}, GoTo(c, place), UNCHANGED shown
      PROVE  WorkTypeOK'
    <2>1. /\ at' \in [Calls -> {"start", "look", "find", "write", "readback", "end"}]
          /\ pos' \in [Calls -> Nat \ {0}]
        BY <1>0, <1>4, GoToTypes
    <2> QED BY <1>0, <1>1, <1>3, <1>4, <2>1, WorkTypesFrom
<1>5. ASSUME NEW a, Refuse(c, a) \/ \E kinds : Conclude(c, a, kinds)
      PROVE  WorkTypeOK'
    <2>1. /\ at' \in [Calls -> {"start", "look", "find", "write", "readback", "end"}]
          /\ pos' \in [Calls -> Nat \ {0}]
          /\ (DOMAIN shown = Calls /\ \A d \in Calls : shown[d].had \in SUBSET FieldNames)'
        BY <1>0, <1>1, <1>5, EndTypes
    <2> QED BY <1>0, <1>1, <1>3, <2>1, WorkTypesFrom
<1> QED
    BY <1>2, <1>4, <1>5

\* The end of a read-back, with its verdict.
LEMMA VerdictTypes ==
    ASSUME TypeOK, NEW c \in Calls, Readback(c) \/ VouchersCutOff(c)
    PROVE  WorkTypeOK'
<1>0. WorkTypeOK
    BY TypesSplit
<1>1. UNCHANGED <<tool, tries, until, reply, acked>>
    BY DEF Readback, VouchersCutOff
<1>2. /\ \E v \in Verdicts : verdict' = [verdict EXCEPT ![c] = v]
      /\ doubtful' \in {doubtful, doubtful \cup {c}}
      /\ \E kinds : Conclude(c, "applied", kinds)
    <2>1. CASE Readback(c)
        <3>1. 1 \in Items
            BY ItemsShape DEF TypeOK
        <3> QED BY <2>1, <3>1, ConclusionType DEF Readback
    <2>2. CASE VouchersCutOff(c)
        BY <2>2 DEF VouchersCutOff, Downgrade, Verdicts
    <2> QED BY <2>1, <2>2
<1>3. /\ tries' \in [Calls -> 0..1]
      /\ until' \in [Calls -> 0..RequestTimeout]
      /\ reply' \in [Calls -> Seq(Names)]
      /\ \A d \in Calls : Len(reply'[d]) <= BatchSize
      /\ {acked', doubtful'} \subseteq SUBSET Calls
    BY <1>0, <1>1, <1>2 DEF WorkTypeOK
<1>4. verdict' \in [Calls -> Verdicts]
    BY <1>0, <1>2 DEF WorkTypeOK
<1>5. /\ at' \in [Calls -> {"start", "look", "find", "write", "readback", "end"}]
      /\ pos' \in [Calls -> Nat \ {0}]
      /\ (DOMAIN shown = Calls /\ \A d \in Calls : shown[d].had \in SUBSET FieldNames)'
    BY <1>0, <1>1, <1>2, EndTypes
<1> QED
    BY <1>0, <1>1, <1>3, <1>4, <1>5, WorkTypesFrom

LEMMA WorkTypesKept ==
    ASSUME TypeOK, [Next]_vars
    PROVE  WorkTypeOK'
<1>0. WorkTypeOK
    BY TypesSplit
<1>1. ASSUME NEW c \in Calls, Enter(c) \/ Land(c) \/ Edit(c)
      PROVE  WorkTypeOK'
    BY <1>0, <1>1, SameWork DEF Enter, Land, Edit
<1>2. ASSUME NEW c \in Calls, ReadDone(c) \/ Throttled(c)
      PROVE  WorkTypeOK'
    <2>1. /\ UNCHANGED <<tool, at, until, reply, verdict, shown, acked, doubtful>>
          /\ pos' \in [Calls -> Nat \ {0}] /\ tries' \in [Calls -> 0..1]
        <3>1. CASE ReadDone(c)
            BY <1>0, <3>1 DEF ReadDone, WorkTypeOK
        <3>2. CASE Throttled(c)
            BY <1>0, <3>2 DEF Throttled, WorkTypeOK
        <3> QED BY <1>2, <3>1, <3>2
    <2>2. FieldNames' = FieldNames /\ Names' = Names
        BY <2>1 DEF FieldNames, Names
    <2> QED BY <1>0, <2>1, <2>2 DEF WorkTypeOK
<1>3. ASSUME NEW c \in Calls, Send(c)
      PROVE  WorkTypeOK'
    <2>1. /\ UNCHANGED <<tool, tries, until, reply, verdict, shown, acked, doubtful>>
          /\ at' \in [Calls -> {"start", "look", "find", "write", "readback", "end"}]
          /\ pos' \in [Calls -> Nat \ {0}]
        BY <1>0, <1>3, GoToTypes DEF Send
    <2>2. FieldNames' = FieldNames /\ Names' = Names
        BY <2>1 DEF FieldNames, Names
    <2> QED BY <1>0, <2>1, <2>2 DEF WorkTypeOK
<1>4. ASSUME NEW c \in Calls, Deadline(c) \/ CallerLeaves(c)
      PROVE  WorkTypeOK'
    <2>1. /\ UNCHANGED <<tool, pos, tries, until, reply, verdict, shown, acked, doubtful>>
          /\ at' \in [Calls -> {"start", "look", "find", "write", "readback", "end"}]
        BY <1>0, <1>4 DEF Deadline, CallerLeaves, Drops, WorkTypeOK
    <2>2. FieldNames' = FieldNames /\ Names' = Names
        BY <2>1 DEF FieldNames, Names
    <2> QED BY <1>0, <2>1, <2>2 DEF WorkTypeOK
<1>5. CASE Tick \/ UNCHANGED vars
    BY <1>0, <1>5, SameWork DEF Tick, vars
<1> QED
    BY <1>1, <1>2, <1>3, <1>4, <1>5, PlainTypes, AcknowledgedTypes, VerdictTypes, VoucherTypes
    DEF Next, Work

LEMMA TypesKept ==
    ASSUME TypeOK, [Next]_vars
    PROVE  TypeOK'
<1>1. ShellTypeOK(ToolAnswers)'
    BY StepIsShellStep, ShellTypesKept DEF TypeOK
<1>2. tool' = tool
    BY DEF Next, vars, Enter, Work, Validate, ReadDone, ReadFails, Throttled, Plan, Send,
           WriteAcknowledged, WriteUndecodable, WriteFails, Readback, ReadbackFails, SkipVoucher,
           ReadVoucher, ReadVoucherFails, VouchersCutOff, VouchersDone, Deadline, CallerLeaves, Drops, Land, Edit,
           Tick
<1>3. WorkTypeOK' /\ ControllerTypeOK'
    BY WorkTypesKept, ControllerTypesKept
<1> QED
    BY <1>1, <1>2, <1>3 DEF TypeOK, WorkTypeOK, ControllerTypeOK

\* Every reachable state is well typed, for all tools, calls, deadlines and
\* batches: no read-back is scheduled past the deadline, and every reading
\* has a verdict (the write tools of tools.rs).
THEOREM WritesTypeCorrect == Spec => []TypeOK
<1>1. Init => TypeOK
    <2> SUFFICES ASSUME Init PROVE TypeOK
        OBVIOUS
    <2>1. ShellTypeOK(ToolAnswers)
        BY ShellStarts DEF Init
    <2>2. WorkTypeOK
        <3>1. << >> \in Seq(Names) /\ Len(<< >>) = 0 /\ BatchSize \in Nat
            BY ResourceWritesAssumption
        <3>2. NotShown.had = {}
            BY DEF NotShown
        <3>3. RequestTimeout \in Nat
            BY ToolCallsAssumption
        <3> QED BY <3>1, <3>2, <3>3 DEF Init, WorkTypeOK, Verdicts
    <2>3. ControllerTypeOK
        <3>1. Untouched \in [Items -> Conditions]
            BY DEF Untouched, Conditions
        <3> QED BY <3>1, ResourceWritesAssumption DEF Init, ControllerTypeOK, Grants, Conditions
    <2>4. tool \in Tools
        BY DEF Init
    <2> QED BY <2>1, <2>2, <2>3, <2>4, TypesSplit
<1>2. TypeOK /\ [Next]_vars => TypeOK'
    BY TypesKept
<1> QED
    BY <1>1, <1>2, PTL DEF Spec

-----------------------------------------------------------------------------
(***************************************************************************)
(* Calls do not touch each other.                                          *)
(***************************************************************************)
\* A step of a call, or for it.
AnyStep(c) ==
    Enter(c) \/ Work(c) \/ Deadline(c) \/ CallerLeaves(c) \/ Land(c) \/ Edit(c)

\* What the call path keeps of a call.
SameShell(c) ==
    stage'[c] = stage[c] /\ answer'[c] = answer[c] /\ spent'[c] = spent[c]

\* All that the invariants say about a call, but for its clock.
SameTool(c) ==
    /\ tool' = tool
    /\ at'[c] = at[c] /\ pos'[c] = pos[c] /\ until'[c] = until[c]
    /\ reply'[c] = reply[c] /\ verdict'[c] = verdict[c]
    /\ world'[c] = world[c] /\ effect'[c] = effect[c] /\ writes'[c] = writes[c]
    /\ granted'[c] = granted[c]
    /\ c \in acked' <=> c \in acked
    /\ c \in doubtful' <=> c \in doubtful
    /\ c \in wire' <=> c \in wire
    /\ c \in landed' <=> c \in landed
    /\ c \in disturbed' <=> c \in disturbed

LEMMA OthersShell ==
    ASSUME TypeOK, NEW c \in Calls, AnyStep(c), NEW d \in Calls, d # c
    PROVE  SameShell(d)
<1>0. ShellTypeOK(ToolAnswers)
    BY DEF TypeOK
<1>1. ASSUME NEW a, Answer(c, a)
      PROVE  SameShell(d)
    BY <1>0, <1>1 DEF Answer, SameShell, ShellTypeOK
<1>2. ASSUME NEW a, NEW kinds, Conclude(c, a, kinds)
      PROVE  SameShell(d)
    BY <1>1, <1>2, ConcludeShape DEF TypeOK
<1>3. ASSUME UNCHANGED shell
      PROVE  SameShell(d)
    BY <1>3 DEF shell, SameShell
<1>4. CASE Enter(c) \/ Deadline(c) \/ CallerLeaves(c)
    BY <1>0, <1>1, <1>4
    DEF Enter, Deadline, CallerLeaves, Arrive, TakeSlot, Reject, Admit, HttpTimeout, HangUp,
        GiveUp, HandlerTimeout, SameShell, ShellTypeOK
<1>5. CASE Validate(c) \/ ReadFails(c) \/ WriteUndecodable(c) \/ WriteFails(c) \/ Plan(c)
    BY <1>1, <1>2, <1>3, <1>5
    DEF Validate, ReadFails, WriteUndecodable, WriteFails, Refuse, Plan
<1>6. CASE ReadDone(c) \/ Throttled(c) \/ Send(c) \/ SkipVoucher(c) \/ ReadVoucher(c)
             \/ ReadVoucherFails(c) \/ Land(c) \/ Edit(c)
    BY <1>3, <1>6
    DEF ReadDone, Throttled, Send, SkipVoucher, ReadVoucher, ReadVoucherFails, Land, Edit
<1>7. CASE WriteAcknowledged(c)
    BY <1>2, <1>3, <1>7 DEF WriteAcknowledged
<1>8. CASE Readback(c) \/ ReadbackFails(c) \/ VouchersCutOff(c) \/ VouchersDone(c)
    BY <1>2, <1>8 DEF Readback, ReadbackFails, VouchersCutOff, VouchersDone
<1> QED
    BY <1>4, <1>5, <1>6, <1>7, <1>8 DEF AnyStep, Work

\* Where a call goes is its own business.
LEMMA OthersStay ==
    ASSUME TypeOK, NEW c \in Calls, NEW d \in Calls, d # c,
           \/ \E place : GoTo(c, place)
           \/ \E a : Refuse(c, a) \/ \E kinds : Conclude(c, a, kinds)
    PROVE  at'[d] = at[d] /\ pos'[d] = pos[d]
<1>1. \E place : GoTo(c, place)
    BY ConcludeShape DEF Refuse, TypeOK
<1> QED
    BY <1>1 DEF GoTo, TypeOK

LEMMA OthersTool ==
    ASSUME TypeOK, NEW c \in Calls, AnyStep(c), NEW d \in Calls, d # c
    PROVE  SameTool(d)
<1>1. CASE Enter(c)
    BY <1>1 DEF Enter, work, ctrl, SameTool
<1>2. CASE Deadline(c) \/ CallerLeaves(c)
    BY <1>2 DEF Deadline, CallerLeaves, Drops, ctrl, SameTool, TypeOK
<1>3. CASE Validate(c) \/ ReadFails(c) \/ Plan(c) \/ ReadbackFails(c) \/ VouchersDone(c)
    <2>1. at'[d] = at[d] /\ pos'[d] = pos[d]
        BY <1>3, OthersStay DEF Validate, ReadFails, Plan, ReadbackFails, VouchersDone
    <2> QED
        BY <1>3, <2>1
        DEF Validate, ReadFails, Plan, ReadbackFails, VouchersDone, ctrl, SameTool
<1>4. CASE WriteUndecodable(c) \/ WriteFails(c)
    <2>1. at'[d] = at[d] /\ pos'[d] = pos[d]
        BY <1>4, OthersStay DEF WriteUndecodable, WriteFails
    <2> QED
        BY <1>4, <2>1 DEF WriteUndecodable, WriteFails, ctrl, SameTool
<1>5. CASE ReadDone(c)
    BY <1>5 DEF ReadDone, ctrl, SameTool, TypeOK
<1>6. CASE Throttled(c) \/ Send(c)
    <2>1. at'[d] = at[d] /\ pos'[d] = pos[d]
        BY <1>6, OthersStay DEF Throttled, Send
    <2>2. (d \in wire' <=> d \in wire) /\ writes'[d] = writes[d]
        BY <1>6 DEF Throttled, Send, Emit, TypeOK
    <2> QED
        BY <1>6, <2>1, <2>2 DEF Throttled, Send, SameTool
<1>7. CASE WriteAcknowledged(c)
    <2>1. at'[d] = at[d] /\ pos'[d] = pos[d]
        BY <1>7, OthersStay DEF WriteAcknowledged
    <2>2. until'[d] = until[d]
        BY <1>7 DEF WriteAcknowledged, TypeOK
    <2>3. /\ reply'[d] = reply[d] /\ verdict'[d] = verdict[d]
          /\ d \in doubtful' <=> d \in doubtful
          /\ d \in acked' <=> d \in acked
        BY <1>7 DEF WriteAcknowledged, TypeOK
    <2> QED
        BY <1>7, <2>1, <2>2, <2>3 DEF WriteAcknowledged, ctrl, SameTool
<1>8. CASE Readback(c) \/ VouchersCutOff(c)
    <2>1. at'[d] = at[d] /\ pos'[d] = pos[d]
        BY <1>8, OthersStay DEF Readback, VouchersCutOff
    <2>2. verdict'[d] = verdict[d] /\ (d \in doubtful' <=> d \in doubtful)
        BY <1>8 DEF Readback, VouchersCutOff, Downgrade, TypeOK
    <2> QED
        BY <1>8, <2>1, <2>2 DEF Readback, VouchersCutOff, ctrl, SameTool
<1>9. CASE SkipVoucher(c) \/ ReadVoucher(c) \/ ReadVoucherFails(c)
    <2>1. /\ pos'[d] = pos[d] /\ verdict'[d] = verdict[d]
          /\ d \in doubtful' <=> d \in doubtful
        BY <1>9 DEF SkipVoucher, ReadVoucher, ReadVoucherFails, NextVoucher, Downgrade, TypeOK
    <2> QED
        BY <1>9, <2>1 DEF SkipVoucher, ReadVoucher, ReadVoucherFails, ctrl, SameTool
<1>10. CASE Land(c)
    BY <1>10 DEF Land, work, SameTool, TypeOK
<1>11. CASE Edit(c)
    BY <1>11 DEF Edit, work, SameTool, TypeOK
<1> QED
    BY <1>1, <1>2, <1>3, <1>4, <1>5, <1>6, <1>7, <1>8, <1>9, <1>10, <1>11
    DEF AnyStep, Work

LEMMA SameKeepsCall ==
    ASSUME NEW c \in Calls, CallInv(c), stage'[c] = stage[c], answer'[c] = answer[c], SameTool(c)
    PROVE  CallInv(c)'
<1>0. Items' = Items
    BY DEF Items, SameTool
<1>1. ProgressInv(c)'
    BY DEF CallInv, ProgressInv, EntryInv, At, SameTool
<1>2. BatchInv(c)'
    BY <1>0 DEF CallInv, BatchInv, Faithful, At, SameTool
<1>3. GroundInv(c)'
    <2>1. Goal(c)' = Goal(c)
        BY DEF Goal, SameTool
    <2> QED BY <1>0, <2>1 DEF CallInv, GroundInv, SameTool
<1> QED
    BY <1>1, <1>2, <1>3 DEF CallInv

-----------------------------------------------------------------------------
(***************************************************************************)
(* The report of an acknowledged write.                                    *)
(***************************************************************************)
ReportCall(c) == EntryInv(c) /\ BudgetInv(c) /\ AckedInv(c)

\* A deadline never strikes an acknowledged write that is being read back:
\* while the read-back is waited for the reserve has not begun, and the HTTP
\* clock is ahead by less than the reserve.
LEMMA NoDeadlineInReadback ==
    ASSUME MaxIngress < Reserve, TypeOK, ReportInv,
           NEW c \in Calls, At(c, "readback"), answer[c] = "none"
    PROVE  ~Deadline(c)
<1> SUFFICES ASSUME Deadline(c) PROVE FALSE
    OBVIOUS
<1>1. Waits(c)
    BY DEF Deadline, Drops, At
<1>2. spent[c] < until[c]
    BY <1>1 DEF Waits, At
<1>3. /\ spent[c] \in Nat /\ age[c] \in Nat /\ until[c] \in Nat
      /\ spent[c] + Reserve <= RequestTimeout
    BY <1>2, ToolCallsAssumption, ResourceWritesAssumption
    DEF TypeOK, ShellTypeOK, ReportInv, BudgetInv
<1>4. transport = "http" => age[c] <= spent[c] + MaxIngress
    BY DEF ReportInv, ShellInv, ClocksInv, At
<1> QED
    BY <1>3, <1>4, ToolCallsAssumption, ResourceWritesAssumption
    DEF Deadline, HttpTimeout, HandlerTimeout

LEMMA SameKeepsReport ==
    ASSUME NEW c \in Calls, ReportCall(c), SameShell(c),
           at'[c] = at[c], until'[c] = until[c], c \in acked' <=> c \in acked
    PROVE  ReportCall(c)'
<1> QED
    BY DEF ReportCall, EntryInv, BudgetInv, AckedInv, At, SameShell

\* A call that is not being read back moves on, or ends.
LEMMA EarlyReport ==
    ASSUME TypeOK, NEW c \in Calls, ReportCall(c),
           stage[c] = "running", at[c] # "readback",
           stage'[c] \in {"running", "done"}, at'[c] # "readback",
           answer[c] # "none" => answer'[c] = answer[c], acked' = acked
    PROVE  ReportCall(c)'
<1> QED
    BY DEF ReportCall, EntryInv, BudgetInv, AckedInv, At

\* The tool answers a.
LEMMA EndShape ==
    ASSUME TypeOK, NEW c \in Calls, NEW a, UNCHANGED tool,
           Refuse(c, a) \/ \E kinds : Conclude(c, a, kinds)
    PROVE  /\ at'[c] = "end" /\ stage'[c] = "done"
           /\ answer'[c] = IF answer[c] = "none" THEN a ELSE answer[c]
<1>1. at'[c] = "end" /\ Answer(c, a)
    BY EndTypes, TypesSplit
<1> QED
    BY <1>1 DEF Answer, TypeOK, ShellTypeOK

LEMMA OwnStepReports ==
    ASSUME MaxIngress < Reserve, TypeOK, ReportInv,
           NEW c \in Calls, AnyStep(c)
    PROVE  ReportCall(c)'
<1>0. ReportCall(c)
    BY DEF ReportInv, ReportCall
<1>1. CASE Enter(c)
    <2>1. /\ stage[c] \in {"new", "queued", "ingress"} /\ at[c] = "start"
          /\ UNCHANGED <<at, until, acked>>
        BY <1>0, <1>1 DEF Enter, work, Arrive, TakeSlot, Reject, Admit, ReportCall, EntryInv
    <2>2. c \in acked => answer[c] # "none" /\ answer[c] \in {"applied", "undecodable", "hung_up"}
        BY <1>0, <2>1 DEF ReportCall, AckedInv, At
    <2>3. answer[c] # "none" => answer'[c] = answer[c]
        BY <1>1 DEF Enter, Arrive, TakeSlot, Reject, Admit, Answer, TypeOK, ShellTypeOK
    <2> QED
        BY <2>1, <2>2, <2>3 DEF ReportCall, EntryInv, BudgetInv, AckedInv, At
<1>2. CASE Deadline(c) \/ CallerLeaves(c)
    <2>1. /\ stage'[c] \in {stage[c], "done"}
          /\ stage'[c] # "done" => /\ at'[c] = at[c] /\ spent'[c] = spent[c]
                                  /\ until'[c] = until[c]
          /\ stage[c] # "done"
          /\ UNCHANGED acked
        BY <1>2 DEF Deadline, CallerLeaves, Drops, HttpTimeout, HangUp, GiveUp, HandlerTimeout,
                    Unanswered, Answer, TypeOK, ShellTypeOK
    <2>2. answer[c] # "none" => answer'[c] = answer[c]
        BY <1>2 DEF Deadline, CallerLeaves, HttpTimeout, HangUp, GiveUp, HandlerTimeout,
                    Unanswered, Answer, TypeOK, ShellTypeOK
    <2>3. c \in acked => answer'[c] \in {"applied", "undecodable", "hung_up"}
        <3>1. CASE Deadline(c)
            BY <1>0, <2>2, <3>1, NoDeadlineInReadback DEF ReportCall, AckedInv
        <3>2. CASE CallerLeaves(c)
            BY <3>2 DEF CallerLeaves, HangUp, GiveUp, Answer, Unanswered, TypeOK, ShellTypeOK
        <3> QED BY <1>2, <3>1, <3>2
    <2>4. EntryInv(c)'
        BY <1>0, <2>1 DEF ReportCall, EntryInv
    <2>5. BudgetInv(c)'
        BY <1>0, <2>1 DEF ReportCall, BudgetInv, At
    <2> QED
        BY <2>1, <2>2, <2>3, <2>4, <2>5 DEF ReportCall, AckedInv
<1>3. CASE Validate(c) \/ ReadFails(c) \/ Plan(c) \/ WriteFails(c)
    <2>1. stage[c] = "running" /\ at[c] # "readback" /\ UNCHANGED <<tool, acked>>
        BY <1>3 DEF Validate, ReadFails, Plan, WriteFails, At, Waits
    <2>2. \/ \E place \in {"look", "find"} : GoTo(c, place) /\ UNCHANGED shell
          \/ \E a : Refuse(c, a) \/ \E kinds : Conclude(c, a, kinds)
        BY <1>3 DEF Validate, ReadFails, Plan, WriteFails
    <2>3. ASSUME NEW place \in {"look", "find"}, GoTo(c, place), UNCHANGED shell
          PROVE  ReportCall(c)'
        <3>1. at'[c] = place /\ stage'[c] = stage[c] /\ answer'[c] = answer[c]
            BY <2>3 DEF GoTo, shell, TypeOK
        <3> QED BY <1>0, <2>1, <3>1, EarlyReport
    <2>4. ASSUME NEW a, Refuse(c, a) \/ \E kinds : Conclude(c, a, kinds)
          PROVE  ReportCall(c)'
        <3>1. /\ at'[c] = "end" /\ stage'[c] = "done"
              /\ answer'[c] = IF answer[c] = "none" THEN a ELSE answer[c]
            BY <2>1, <2>4, EndShape
        <3> QED BY <1>0, <2>1, <3>1, EarlyReport
    <2> QED BY <2>2, <2>3, <2>4
<1>4. CASE Send(c)
    <2>1. /\ stage[c] = "running" /\ at[c] = "find" /\ at'[c] = "write"
          /\ stage'[c] = stage[c] /\ answer'[c] = answer[c] /\ acked' = acked
        BY <1>4 DEF Send, At, GoTo, shell, TypeOK
    <2> QED BY <1>0, <2>1, EarlyReport
<1>5. CASE ReadDone(c) \/ Throttled(c) \/ SkipVoucher(c) \/ ReadVoucher(c) \/ ReadVoucherFails(c)
    <2>1. UNCHANGED <<shell, at, until, acked>>
        BY <1>5 DEF ReadDone, Throttled, SkipVoucher, ReadVoucher, ReadVoucherFails
    <2> QED BY <1>0, <2>1, SameKeepsReport DEF SameShell, shell
<1>6. CASE Land(c) \/ Edit(c)
    <2>1. UNCHANGED <<shell, at, until, acked>>
        BY <1>6 DEF Land, Edit, work
    <2> QED BY <1>0, <2>1, SameKeepsReport DEF SameShell, shell
<1>7. CASE WriteAcknowledged(c)
    <2>1. /\ stage[c] = "running" /\ at[c] = "write" /\ UNCHANGED tool
          /\ acked' = IF answer[c] = "none" THEN acked \cup {c} ELSE acked
          /\ \/ /\ until' = [until EXCEPT ![c] = spent[c] + ReadbackBudget(spent[c])]
                /\ GoTo(c, "readback") /\ UNCHANGED shell
             \/ \E kinds : Conclude(c, "applied", kinds)
        BY <1>7 DEF WriteAcknowledged, At
    <2>2. c \in acked => answer[c] # "none" /\ answer[c] \in {"applied", "undecodable", "hung_up"}
        BY <1>0, <2>1 DEF ReportCall, AckedInv, At
    <2>3. CASE /\ until' = [until EXCEPT ![c] = spent[c] + ReadbackBudget(spent[c])]
               /\ GoTo(c, "readback") /\ UNCHANGED shell
        <3>1. /\ stage'[c] = "running" /\ at'[c] = "readback"
              /\ spent'[c] = spent[c] /\ answer'[c] = answer[c]
              /\ until'[c] = spent[c] + ReadbackBudget(spent[c])
            BY <2>1, <2>3 DEF GoTo, shell, TypeOK
        <3>2. spent[c] \in 0..RequestTimeout /\ spent[c] \in Nat
            BY ToolCallsAssumption DEF TypeOK, ShellTypeOK
        <3>3. /\ ReadbackBudget(spent[c]) \in Nat
              /\ ReadbackBudget(spent[c]) # 0 =>
                    spent[c] + ReadbackBudget(spent[c]) + Reserve <= RequestTimeout
            BY <3>2, BudgetIsShort
        <3>4. BudgetInv(c)'
            BY <3>1, <3>2, <3>3 DEF BudgetInv
        <3>5. AckedInv(c)' /\ EntryInv(c)'
            BY <2>1, <2>2, <3>1 DEF AckedInv, EntryInv, At
        <3> QED BY <3>4, <3>5 DEF ReportCall
    <2>4. ASSUME NEW kinds, Conclude(c, "applied", kinds)
          PROVE  ReportCall(c)'
        <3>1. /\ at'[c] = "end" /\ stage'[c] = "done"
              /\ answer'[c] = IF answer[c] = "none" THEN "applied" ELSE answer[c]
            BY <2>1, <2>4, EndShape
        <3> QED BY <2>1, <2>2, <3>1 DEF ReportCall, EntryInv, BudgetInv, AckedInv, At
    <2> QED BY <2>1, <2>3, <2>4
<1>8. CASE WriteUndecodable(c)
    <2>1. /\ stage[c] = "running" /\ at[c] = "write" /\ UNCHANGED tool
          /\ acked' = IF answer[c] = "none" THEN acked \cup {c} ELSE acked
          /\ Refuse(c, "undecodable")
        BY <1>8 DEF WriteUndecodable, At
    <2>2. c \in acked => answer[c] # "none" /\ answer[c] \in {"applied", "undecodable", "hung_up"}
        BY <1>0, <2>1 DEF ReportCall, AckedInv, At
    <2>3. /\ at'[c] = "end" /\ stage'[c] = "done"
          /\ answer'[c] = IF answer[c] = "none" THEN "undecodable" ELSE answer[c]
        BY <2>1, EndShape
    <2> QED BY <2>1, <2>2, <2>3 DEF ReportCall, EntryInv, BudgetInv, AckedInv, At
<1>9. CASE Readback(c) \/ ReadbackFails(c) \/ VouchersCutOff(c) \/ VouchersDone(c)
    <2>1. /\ UNCHANGED <<tool, acked>>
          /\ \E kinds : Conclude(c, "applied", kinds)
        BY <1>9 DEF Readback, ReadbackFails, VouchersCutOff, VouchersDone
    <2>2. /\ at'[c] = "end" /\ stage'[c] = "done"
          /\ answer'[c] = IF answer[c] = "none" THEN "applied" ELSE answer[c]
        BY <2>1, EndShape
    <2> QED BY <1>0, <2>1, <2>2 DEF ReportCall, EntryInv, BudgetInv, AckedInv, At
<1> QED
    BY <1>1, <1>2, <1>3, <1>4, <1>5, <1>6, <1>7, <1>8, <1>9 DEF AnyStep, Work

LEMMA ReportInvKept ==
    ASSUME MaxIngress < Reserve, TypeOK, ReportInv, [Next]_vars
    PROVE  ReportInv'
<1>1. ShellInv'
    BY StepIsShellStep, ShellInvKept DEF ReportInv, ToolAnswers, TypeOK
<1>2. SUFFICES ASSUME NEW d \in Calls
               PROVE  ReportCall(d)'
    BY <1>1 DEF ReportInv, ReportCall
<1>3. ReportCall(d)
    BY DEF ReportInv, ReportCall
<1>4. ASSUME NEW c \in Calls, AnyStep(c)
      PROVE  ReportCall(d)'
    <2>1. CASE c = d
        BY <1>4, <2>1, OwnStepReports
    <2>2. CASE c # d
        <3>1. SameShell(d) /\ SameTool(d)
            BY <1>4, <2>2, OthersShell, OthersTool
        <3> QED BY <1>3, <3>1, SameKeepsReport DEF SameTool
    <2> QED BY <2>1, <2>2
<1>5. CASE Tick
    <2>1. /\ stage' = stage /\ answer' = answer /\ at' = at /\ until' = until /\ acked' = acked
          /\ At(d, "readback") => spent[d] < until[d] /\ spent'[d] = spent[d] + 1
        BY <1>5 DEF Tick, ShellTick, work, At, Waits
    <2>2. spent[d] \in Nat /\ until[d] \in Nat
        BY ToolCallsAssumption DEF TypeOK, ShellTypeOK
    <2>3. BudgetInv(d)'
        BY <1>3, <2>1, <2>2 DEF ReportCall, BudgetInv, At
    <2> QED
        BY <1>3, <2>1, <2>3 DEF ReportCall, EntryInv, AckedInv, At
<1>6. CASE UNCHANGED vars
    BY <1>3, <1>6, SameKeepsReport DEF vars, work, shell, SameShell
<1> QED
    BY <1>4, <1>5, <1>6 DEF Next, AnyStep

\* For all tools, deadlines, budgets and batches: when the way in takes less
\* than the reserve, a caller who waits while the controller acknowledges a
\* write, and does not hang up afterwards, hears of it (the ..._RESPONSE_RESERVE of the write tools).
THEOREM AcknowledgedReported ==
    MaxIngress < Reserve => (Spec => []AcknowledgedIsReported)
<1> SUFFICES ASSUME MaxIngress < Reserve
             PROVE  Spec => []AcknowledgedIsReported
    OBVIOUS
<1>1. Init => ReportInv
    <2> SUFFICES ASSUME Init PROVE ReportInv
        OBVIOUS
    <2>1. ShellInv
        BY ShellStarts DEF Init
    <2> QED
        BY <2>1 DEF Init, ShellInit, ReportInv, EntryInv, BudgetInv, AckedInv, At
<1>2. TypeOK /\ ReportInv /\ [Next]_vars => ReportInv'
    BY ReportInvKept
<1>3. TypeOK /\ ReportInv => AcknowledgedIsReported
    BY DEF TypeOK, ReportInv, AckedInv, AcknowledgedIsReported
<1> QED
    BY <1>1, <1>2, <1>3, WritesTypeCorrect, PTL DEF Spec

-----------------------------------------------------------------------------
(***************************************************************************)
(* Replies and readings.                                                   *)
(***************************************************************************)
\* The faithful reply of a single resource names it.
LEMMA FaithfulSingle ==
    ASSUME tool \in Tools, ~tool.batch, NEW r \in Seq(Names), Faithful(r)
    PROVE  r = <<1>>
<1>1. Cardinality(Items) = 1 /\ Items = {1}
    BY ItemsShape DEF Items
<1>2. Len(r) = 1 /\ {r[i] : i \in DOMAIN r} = {1}
    BY <1>1 DEF Faithful
<1>3. DOMAIN r = {1}
    BY <1>2
<1>4. r[1] = 1
    BY <1>2, <1>3
<1> QED
    BY <1>2, <1>4

\* The faithful reply of a batch has all vouchers, and each of them once.
LEMMA FaithfulBatch ==
    ASSUME tool \in Tools, tool.batch, NEW r \in Seq(Names), Faithful(r)
    PROVE  /\ Len(r) = BatchSize
           /\ \A i \in DOMAIN r : r[i] # Nameless
           /\ \A i, j \in DOMAIN r : r[i] = r[j] => i = j
<1>1. /\ Cardinality(Items) = BatchSize /\ IsFiniteSet(Items) /\ Nameless \notin Items
      /\ BatchSize \in Nat \ {0}
    BY ItemsShape, ResourceWritesAssumption
<1>2. Len(r) = BatchSize /\ {r[i] : i \in DOMAIN r} = Items /\ DOMAIN r = 1..BatchSize
    BY <1>1 DEF Faithful
<1>3. r \in [1..BatchSize -> Items]
    BY <1>2
<1>4. r \in Surjection(1..BatchSize, Items)
    BY <1>2, <1>3 DEF Surjection
<1>5. IsFiniteSet(1..BatchSize) /\ Cardinality(1..BatchSize) = BatchSize
    BY <1>1, FS_Interval
<1>6. r \in Injection(1..BatchSize, Items)
    BY <1>1, <1>4, <1>5, FS_Surjection
<1>7. \A i, j \in 1..BatchSize : r[i] = r[j] => i = j
    BY <1>6 DEF Injection, IsInjective
<1> QED
    BY <1>1, <1>2, <1>3, <1>7

\* As many different vouchers as were asked for are all of them.
LEMMA DifferentOnesAreAll ==
    ASSUME tool \in Tools, tool.batch, NEW r \in Seq(Names), Len(r) = BatchSize,
           \A i \in 1..BatchSize : r[i] \in Items,
           \A i, j \in 1..BatchSize : i # j => r[i] # r[j]
    PROVE  \A k \in Items : \E i \in 1..BatchSize : r[i] = k
<1>1. Cardinality(Items) = BatchSize /\ IsFiniteSet(Items) /\ BatchSize \in Nat \ {0}
    BY ItemsShape, ResourceWritesAssumption
<1>2. r \in [1..BatchSize -> Items]
    BY <1>1
<1>3. r \in Injection(1..BatchSize, Items)
    BY <1>2 DEF Injection, IsInjective
<1>4. Cardinality(1..BatchSize) = BatchSize
    BY <1>1, FS_Interval
<1>5. r \in Surjection(1..BatchSize, Items)
    BY <1>1, <1>3, <1>4, FS_Injection
<1> QED
    BY <1>5 DEF Surjection

\* What a view of a resource says about it.
LEMMA ViewTells ==
    ASSUME TypeOK, NEW c \in Calls, NEW i \in Items, NEW view \in ViewsOf(c, i)
    PROVE  /\ Judge(c)[view] = "yes" => world[c][i] \in Goal(c)
           /\ view \notin {"another", "unclear"} /\ Judge(c)[view] = "no" =>
                 world[c][i] \notin Goal(c)
           /\ view \notin {"another", "unclear"} /\ tool.batch /\ Judge(c)[view] # "yes" =>
                 world[c][i] \notin Goal(c)
<1>1. /\ JudgesByGoal(Judge(c), Goal(c)) /\ Judge(c) \in [Views -> Verdicts]
      /\ tool.batch => \A k \in Conditions : Judge(c)[ViewOf(k)] # "none"
    BY JudgeFits
<1>2. world[c][i] \in Conditions
    BY DEF TypeOK
<1>3. view \in Views /\ Judge(c)[view] \in Verdicts
    BY <1>1, ConclusionType
<1>4. CASE view = "another"
    BY <1>1, <1>4 DEF JudgesByGoal
<1>5. CASE view = "unclear"
    <2>1. world[c][i] # "absent"
        BY <1>5 DEF ViewsOf
    <2> QED BY <1>1, <1>2, <1>5, <2>1 DEF JudgesByGoal
<1>6. CASE view \notin {"another", "unclear"}
    <2>1. view = ViewOf(world[c][i])
        BY <1>2, <1>6 DEF ViewsOf, ViewOf
    <2> QED BY <1>1, <1>2, <1>3, <2>1 DEF JudgesByGoal, Verdicts
<1> QED BY <1>4, <1>5, <1>6

-----------------------------------------------------------------------------
(***************************************************************************)
(* What was written, and the verdict on it.                                *)
(***************************************************************************)
LEMMA EnterKeepsCall ==
    ASSUME TypeOK, NEW c \in Calls, CallInv(c), Enter(c)
    PROVE  CallInv(c)'
<1>1. /\ stage[c] \in {"new", "queued", "ingress"} /\ at[c] = "start"
      /\ writes[c] = 0 /\ c \notin wire \cup landed /\ verdict[c] = "none"
    BY DEF CallInv, ProgressInv, EntryInv, Enter, Arrive, TakeSlot, Reject, Admit
<1>2. UNCHANGED <<tool, work, ctrl>>
    BY DEF Enter
<1>3. answer[c] \notin Denials \cup {"applied"}
    BY <1>1 DEF CallInv, ProgressInv
<1>4. answer'[c] # answer[c] => stage'[c] = "done"
    BY DEF Enter, Arrive, TakeSlot, Reject, Admit, Answer, TypeOK, ShellTypeOK
<1>5. ProgressInv(c)'
    BY <1>1, <1>2, <1>3, <1>4 DEF ProgressInv, EntryInv, At, work, ctrl
<1>6. BatchInv(c)' /\ GroundInv(c)'
    BY <1>1, <1>2 DEF BatchInv, GroundInv, At, work, ctrl
<1> QED
    BY <1>5, <1>6 DEF CallInv

LEMMA DeadlineKeepsCall ==
    ASSUME TypeOK, NEW c \in Calls, CallInv(c), Deadline(c) \/ CallerLeaves(c)
    PROVE  CallInv(c)'
<1>1. UNCHANGED <<tool, pos, tries, until, reply, verdict, shown, acked, doubtful,
                  world, wire, granted, edits, writes, effect, landed, disturbed>>
    BY DEF Deadline, CallerLeaves, Drops, ctrl
<1>2. /\ stage[c] # "done" /\ stage'[c] \in {stage[c], "done"}
      /\ at'[c] = (IF stage'[c] = "done" THEN "end" ELSE at[c])
      /\ answer'[c] \in {answer[c], "http_timeout", "timed_out", "hung_up"}
    BY DEF Deadline, CallerLeaves, Drops, HttpTimeout, HangUp, GiveUp, HandlerTimeout,
           Unanswered, Answer, TypeOK, ShellTypeOK
<1>3. answer'[c] \notin Denials \cup {"applied"}
    BY <1>2 DEF CallInv, ProgressInv, Denials
<1>4. ProgressInv(c)'
    BY <1>1, <1>2, <1>3 DEF CallInv, ProgressInv, EntryInv, At
<1>5. Items' = Items
    BY <1>1 DEF Items
<1>6. BatchInv(c)'
    <2>1. At(c, "readback")' => At(c, "readback")
        BY <1>2 DEF At
    <2> QED BY <1>1, <1>5, <2>1 DEF CallInv, BatchInv, Faithful
<1>7. GroundInv(c)'
    BY <1>1, <1>3, <1>5 DEF CallInv, GroundInv, Goal
<1> QED
    BY <1>4, <1>6, <1>7 DEF CallInv

\* A call that has not written goes on, or answers.
LEMMA EarlyKeepsCall ==
    ASSUME TypeOK, NEW c \in Calls, CallInv(c),
           Validate(c) \/ ReadDone(c) \/ ReadFails(c) \/ Plan(c)
    PROVE  CallInv(c)'
<1>1. /\ stage[c] = "running" /\ at[c] \in {"start", "look", "find"}
      /\ writes[c] = 0 /\ c \notin wire \cup landed /\ verdict[c] = "none"
      /\ answer[c] \notin Denials \cup {"applied"}
    BY DEF Validate, ReadDone, ReadFails, Plan, CallInv, ProgressInv, At, Waits
<1>2. UNCHANGED <<tool, verdict, wire, writes, landed>>
    BY DEF Validate, ReadDone, ReadFails, Plan, ctrl
<1>3. \/ at'[c] \in {"look", "find"} /\ UNCHANGED shell
      \/ \E a : Refuse(c, a) \/ \E kinds : Conclude(c, a, kinds)
    BY <1>1 DEF Validate, ReadDone, ReadFails, Plan, GoTo, TypeOK
<1>4. /\ stage'[c] \in {"running", "done"} /\ at'[c] \in {"look", "find", "end"}
      /\ answer'[c] # answer[c] \/ at'[c] = "end" => stage'[c] = "done"
    <2>1. CASE at'[c] \in {"look", "find"} /\ UNCHANGED shell
        BY <1>1, <2>1 DEF shell
    <2>2. ASSUME NEW a, Refuse(c, a) \/ \E kinds : Conclude(c, a, kinds)
          PROVE  at'[c] = "end" /\ stage'[c] = "done"
        BY <1>2, <2>2, EndShape
    <2> QED BY <1>3, <2>1, <2>2
<1>5. ProgressInv(c)'
    BY <1>1, <1>2, <1>4 DEF ProgressInv, EntryInv, At
<1>6. BatchInv(c)' /\ GroundInv(c)'
    BY <1>1, <1>2, <1>4 DEF BatchInv, GroundInv, At
<1> QED
    BY <1>5, <1>6 DEF CallInv

\* A request that is sent again after a 429 is never the write.
LEMMA ThrottledKeepsCall ==
    ASSUME TypeOK, NEW c \in Calls, CallInv(c), Throttled(c)
    PROVE  CallInv(c)'
<1>1. Waits(c) /\ stage[c] = "running" /\ Retried(Pending(c))
    BY DEF Throttled, Waits
<1>2. at[c] \in {"look", "find", "readback"} /\ (at[c] = "readback" => tool.back # Nothing)
    BY <1>1, PendingShape DEF CallInv, ProgressInv, At, Waits, TypeOK
<1>3. Pending(c).method = "GET"
    BY <1>1, <1>2, PendingShape
<1>4. UNCHANGED <<wire, writes>>
    BY <1>3 DEF Throttled, Emit
<1>5. SameTool(c) /\ stage'[c] = stage[c] /\ answer'[c] = answer[c]
    BY <1>4 DEF Throttled, SameTool, shell
<1> QED
    BY <1>5, SameKeepsCall

LEMMA SendKeepsCall ==
    ASSUME TypeOK, NEW c \in Calls, CallInv(c), Send(c)
    PROVE  CallInv(c)'
<1>1. /\ stage[c] = "running" /\ at[c] = "find"
      /\ writes[c] = 0 /\ c \notin wire \cup landed /\ verdict[c] = "none"
      /\ answer[c] \notin Denials \cup {"applied"}
    BY DEF Send, CallInv, ProgressInv, At
<1>2. tool.write.method # "GET"
    BY ToolShape DEF TypeOK, WritesOnce
<1>3. /\ UNCHANGED <<shell, tool, verdict, landed>>
      /\ at'[c] = "write" /\ writes'[c] = 1
    BY <1>1, <1>2 DEF Send, GoTo, Emit, TypeOK
<1>4. ProgressInv(c)'
    BY <1>1, <1>3 DEF ProgressInv, EntryInv, At, shell
<1>5. BatchInv(c)' /\ GroundInv(c)'
    BY <1>1, <1>3 DEF BatchInv, GroundInv, At
<1> QED
    BY <1>4, <1>5 DEF CallInv

\* The write fails, or its acknowledgement cannot be read.
LEMMA FailedWriteKeepsCall ==
    ASSUME TypeOK, NEW c \in Calls, CallInv(c), WriteFails(c) \/ WriteUndecodable(c)
    PROVE  CallInv(c)'
<1>1. /\ stage[c] = "running" /\ at[c] = "write" /\ verdict[c] = "none"
      /\ answer[c] \notin Denials \cup {"applied"}
    BY DEF WriteFails, WriteUndecodable, CallInv, ProgressInv, At
<1>2. /\ UNCHANGED <<tool, verdict, writes, landed, disturbed, world, granted, effect>>
      /\ wire' \subseteq wire
    BY DEF WriteFails, WriteUndecodable, ctrl
<1>3. /\ stage'[c] = "done" /\ at'[c] = "end"
      /\ answer'[c] \in {answer[c], "error", "undecodable"}
    BY <1>2, EndShape DEF WriteFails, WriteUndecodable
<1>4. answer'[c] \notin Denials \cup {"applied"}
    BY <1>1, <1>3 DEF Denials
<1>5. ProgressInv(c)'
    BY <1>1, <1>2, <1>3, <1>4 DEF CallInv, ProgressInv, EntryInv, At
<1>6. BatchInv(c)' /\ GroundInv(c)'
    BY <1>1, <1>2, <1>3 DEF CallInv, BatchInv, GroundInv, At
<1> QED
    BY <1>5, <1>6 DEF CallInv

\* The write is acknowledged.
LEMMA AcknowledgedKeepsCall ==
    ASSUME TypeOK, NEW c \in Calls, CallInv(c), WriteAcknowledged(c)
    PROVE  CallInv(c)'
<1>0. tool \in Tools /\ tool.batch \in BOOLEAN /\ BatchSize \in Nat \ {0} /\ tool' = tool
    BY ToolShape, ResourceWritesAssumption DEF TypeOK, WriteAcknowledged
<1>1. /\ stage[c] = "running" /\ at[c] = "write" /\ c \in landed
      /\ answer[c] \notin Denials \cup {"applied"}
    BY DEF WriteAcknowledged, CallInv, ProgressInv, At
<1>2. UNCHANGED ctrl /\ Items' = Items
    BY <1>0 DEF WriteAcknowledged, Items
<1>3. PICK r \in Replies :
          /\ reply' = [reply EXCEPT ![c] = r]
          /\ verdict' = [verdict EXCEPT ![c] = FirstVerdict(r)]
          /\ doubtful' = IF Faithful(r) THEN doubtful ELSE doubtful \cup {c}
          /\ \/ /\ tool.batch \/ tool.back # Nothing
                /\ GoTo(c, "readback") /\ UNCHANGED shell
             \/ ~tool.batch /\ \E kinds : Conclude(c, "applied", kinds)
    BY <1>0 DEF WriteAcknowledged
<1>4. reply'[c] = r /\ verdict'[c] = FirstVerdict(r) /\ (c \notin doubtful' => Faithful(r))
    BY <1>3 DEF TypeOK
<1>5. tool.batch => \A i \in DOMAIN r : r[i] \in Items \cup {Nameless}
    BY <1>0, ReplyShape
<1>6. r \in Seq(Names)
    BY <1>0, ReplyShape
<1>7. Faithful(r)' <=> Faithful(r)
    BY <1>2 DEF Faithful
<1>8. CASE /\ tool.batch \/ tool.back # Nothing
           /\ GoTo(c, "readback") /\ UNCHANGED shell
    <2>1. /\ at'[c] = "readback" /\ pos'[c] = 1 /\ stage'[c] = "running"
          /\ answer'[c] = answer[c]
        BY <1>1, <1>8 DEF GoTo, shell, TypeOK
    <2>2. tool.back # Nothing
        BY <1>0, <1>8, ToolShape DEF WritesOnce
    <2>3. ProgressInv(c)'
        BY <1>0, <1>1, <1>2, <2>1, <2>2 DEF CallInv, ProgressInv, EntryInv, At, ctrl
    <2>4. BatchInv(c)'
        <3>1. ~tool.batch => verdict'[c] = "none"
            BY <1>4 DEF FirstVerdict
        <3>2. tool.batch => /\ verdict'[c] # "none"
                            /\ verdict'[c] = "yes" => Len(r) = BatchSize
            BY <1>4 DEF FirstVerdict
        <3>3. Len(r) \in Nat /\ pos'[c] - 1 = 0 /\ pos'[c] <= Len(r) + 1
            BY <1>6, <2>1
        <3>4. 1..(pos'[c] - 1) = {}
            BY <3>3
        <3> QED
            BY <1>0, <1>2, <1>4, <1>5, <1>7, <2>1, <3>1, <3>2, <3>3, <3>4 DEF BatchInv
    <2>5. GroundInv(c)'
        <3>1. verdict'[c] = "no" => c \in doubtful'
            <4>1. verdict'[c] = "no" => tool.batch /\ Len(r) # BatchSize
                BY <1>4 DEF FirstVerdict
            <4>2. tool.batch => Cardinality(Items) = BatchSize
                BY <1>0, ItemsShape
            <4> QED BY <1>4, <4>1, <4>2 DEF Faithful
        <3> QED
            BY <1>1, <1>2, <2>1, <3>1 DEF CallInv, GroundInv, ctrl
    <2> QED BY <2>3, <2>4, <2>5 DEF CallInv
<1>9. ASSUME ~tool.batch, NEW kinds, Conclude(c, "applied", kinds)
      PROVE  CallInv(c)'
    <2>1. /\ at'[c] = "end" /\ stage'[c] = "done"
          /\ answer'[c] = IF answer[c] = "none" THEN "applied" ELSE answer[c]
        BY <1>0, <1>9, EndShape
    <2>2. verdict'[c] = "none" /\ answer'[c] \notin Denials
        BY <1>1, <1>4, <1>9, <2>1 DEF FirstVerdict, Denials
    <2>3. ProgressInv(c)'
        BY <1>1, <1>2, <2>1, <2>2 DEF CallInv, ProgressInv, EntryInv, At, ctrl
    <2>4. BatchInv(c)' /\ GroundInv(c)'
        BY <1>2, <2>1, <2>2 DEF CallInv, BatchInv, GroundInv, At, ctrl
    <2> QED BY <2>3, <2>4 DEF CallInv
<1> QED BY <1>3, <1>8, <1>9

\* The end of a read-back: what is left to show is that the verdict is right.
LEMMA EndedReadback ==
    ASSUME TypeOK, NEW c \in Calls, CallInv(c), At(c, "readback"),
           UNCHANGED <<tool, ctrl>>, \E kinds : Conclude(c, "applied", kinds),
           c \in landed \ disturbed =>
              /\ verdict'[c] = "yes" => \A i \in Items : effect[c][i] \in Goal(c)
              /\ verdict'[c] = "no" /\ c \notin doubtful' =>
                    \E i \in Items : effect[c][i] \notin Goal(c)
    PROVE  CallInv(c)'
<1>1. /\ at'[c] = "end" /\ stage'[c] = "done"
      /\ answer'[c] = IF answer[c] = "none" THEN "applied" ELSE answer[c]
    BY EndShape
<1>2. /\ stage[c] = "running" /\ at[c] = "readback" /\ c \in landed
      /\ answer[c] \notin Denials \cup {"applied"}
    BY DEF CallInv, ProgressInv, At
<1>3. answer'[c] \notin Denials
    BY <1>1, <1>2 DEF Denials
<1>4. Items' = Items /\ Goal(c)' = Goal(c)
    BY DEF Items, Goal, ctrl
<1>5. ProgressInv(c)'
    BY <1>1, <1>2, <1>3 DEF CallInv, ProgressInv, EntryInv, At, ctrl
<1>6. BatchInv(c)' /\ GroundInv(c)'
    BY <1>1, <1>4 DEF CallInv, BatchInv, GroundInv, At, ctrl
<1> QED
    BY <1>5, <1>6 DEF CallInv

LEMMA ReadbackKeepsCall ==
    ASSUME TypeOK, NEW c \in Calls, CallInv(c), Readback(c) \/ ReadbackFails(c)
    PROVE  CallInv(c)'
<1>0. /\ tool \in Tools /\ ~tool.batch /\ At(c, "readback") /\ UNCHANGED <<tool, ctrl>>
      /\ \E kinds : Conclude(c, "applied", kinds)
    BY DEF Readback, ReadbackFails, TypeOK
<1>1. verdict[c] = "none" /\ Items = {1} /\ reply[c] \in Seq(Names)
    BY <1>0 DEF CallInv, BatchInv, Items, TypeOK
<1>2. CASE ReadbackFails(c)
    <2>1. verdict'[c] = "none"
        BY <1>1, <1>2 DEF ReadbackFails
    <2> QED BY <1>0, <2>1, EndedReadback
<1>3. CASE Readback(c)
    <2>1. PICK view \in ViewsOf(c, 1) :
            /\ verdict'[c] = Conclusion(c, view)
            /\ c \notin doubtful' => view \notin {"another", "unclear"} /\ c \notin doubtful
        BY <1>3 DEF Readback, TypeOK
    <2>2. c \in landed \ disturbed => world[c] = effect[c]
        BY DEF CallInv, GroundInv
    <2>3. verdict'[c] = "yes" => world[c][1] \in Goal(c)
        BY <1>1, <2>1, ViewTells DEF Conclusion
    <2>4. ASSUME verdict'[c] = "no", c \notin doubtful'
          PROVE  world[c][1] \notin Goal(c)
        <3>1. Faithful(reply[c])
            BY <1>0, <2>1, <2>4 DEF CallInv, BatchInv
        <3>2. reply[c] = <<1>>
            BY <1>0, <1>1, <3>1, FaithfulSingle
        <3>3. Judge(c)[view] = "no"
            BY <2>1, <2>4, <3>2 DEF Conclusion
        <3> QED BY <1>1, <2>1, <2>4, <3>3, ViewTells
    <2> QED BY <1>0, <1>1, <2>2, <2>3, <2>4, EndedReadback
<1> QED BY <1>2, <1>3

\* One voucher further: what is left to show is what this voucher adds.
LEMMA NextVoucherKeepsCall ==
    ASSUME TypeOK, NEW c \in Calls, CallInv(c), InBatch(c), NextVoucher(c),
           UNCHANGED <<shell, tool, at, reply, ctrl>>,
           verdict'[c] \in {verdict[c], "no"}, doubtful \subseteq doubtful',
           verdict'[c] = "yes" =>
              /\ Voucher(c) # Nameless /\ ~Repeated(c)
              /\ c \notin disturbed => effect[c][Voucher(c)] \in tool.goal,
           verdict'[c] = "no" /\ c \notin doubtful' /\ c \in landed \ disturbed =>
              \E i \in Items : effect[c][i] \notin Goal(c)
    PROVE  CallInv(c)'
<1>1. /\ At(c, "readback") /\ tool.batch /\ pos[c] <= Len(reply[c])
      /\ pos[c] \in Nat \ {0} /\ Len(reply[c]) \in Nat
    BY DEF InBatch, TypeOK
<1>2. pos'[c] = pos[c] + 1
    BY DEF NextVoucher, TypeOK
<1>3. Items' = Items /\ (Faithful(reply[c])' <=> Faithful(reply[c]))
    BY DEF Items, Faithful
<1>4. ProgressInv(c)'
    BY <1>1 DEF CallInv, ProgressInv, EntryInv, At, shell, ctrl
<1>5. GroundInv(c)'
    <2>1. answer[c] # "applied"
        BY <1>1 DEF CallInv, ProgressInv, At
    <2>2. Goal(c)' = Goal(c)
        BY DEF Goal, ctrl
    <2> QED BY <1>3, <2>1, <2>2 DEF CallInv, GroundInv, shell, ctrl
<1>6. verdict[c] # "none" /\ verdict'[c] # "none"
    BY <1>1 DEF CallInv, BatchInv
<1>7. ASSUME verdict'[c] = "yes", NEW i \in 1..(pos'[c] - 1)
      PROVE  /\ reply[c][i] # Nameless
             /\ c \notin disturbed => effect[c][reply[c][i]] \in tool.goal
             /\ \A j \in 1..(i - 1) : reply[c][i] # reply[c][j]
    <2>1. CASE i = pos[c]
        BY <1>7, <2>1 DEF Voucher, Repeated
    <2>2. CASE i # pos[c]
        <3>1. i \in 1..(pos[c] - 1)
            BY <1>1, <1>2, <1>7, <2>2
        <3> QED BY <1>1, <1>7, <3>1 DEF CallInv, BatchInv
    <2> QED BY <2>1, <2>2
<1>8. verdict'[c] = "yes" => Len(reply[c]) = BatchSize
    BY <1>1 DEF CallInv, BatchInv
<1>9. \A i \in DOMAIN reply[c] : reply[c][i] \in Items \cup {Nameless}
    BY <1>1 DEF CallInv, BatchInv
<1>10. pos'[c] <= Len(reply[c]) + 1
    BY <1>1, <1>2
<1>11. c \notin doubtful' => Faithful(reply[c])
    BY <1>1 DEF CallInv, BatchInv
<1>12. BatchInv(c)'
    <2>1. reply' = reply /\ effect' = effect /\ disturbed' = disturbed /\ tool' = tool
        BY DEF ctrl
    <2> QED BY <1>1, <1>3, <1>6, <1>7, <1>8, <1>9, <1>10, <1>11, <2>1 DEF BatchInv
<1> QED
    BY <1>4, <1>5, <1>12 DEF CallInv

LEMMA VoucherKeepsCall ==
    ASSUME TypeOK, NEW c \in Calls, CallInv(c),
           SkipVoucher(c) \/ ReadVoucher(c) \/ ReadVoucherFails(c)
    PROVE  CallInv(c)'
<1>0. /\ InBatch(c) /\ NextVoucher(c) /\ UNCHANGED <<shell, tool, at, reply, ctrl>>
      /\ doubtful \subseteq doubtful'
    BY DEF SkipVoucher, ReadVoucher, ReadVoucherFails
<1>1. /\ tool \in Tools /\ tool.batch /\ reply[c] \in Seq(Names)
      /\ pos[c] \in DOMAIN reply[c] /\ pos[c] \in Nat \ {0}
      /\ At(c, "readback")
    BY <1>0 DEF InBatch, TypeOK
<1>2. c \notin doubtful' => Faithful(reply[c])
    BY <1>0, <1>1 DEF CallInv, BatchInv
<1>3. Faithful(reply[c]) => Voucher(c) # Nameless /\ ~Repeated(c)
    <2>1. Faithful(reply[c]) => /\ \A i \in DOMAIN reply[c] : reply[c][i] # Nameless
                               /\ \A i, j \in DOMAIN reply[c] : reply[c][i] = reply[c][j] => i = j
        BY <1>1, FaithfulBatch
    <2>2. \A i \in 1..(pos[c] - 1) : i \in DOMAIN reply[c] /\ i # pos[c]
        BY <1>1
    <2> QED BY <1>1, <2>1, <2>2 DEF Voucher, Repeated
<1>4. Judge(c) = tool.judge /\ Goal(c) = tool.goal
    BY <1>1, JudgeFits
<1>5. CASE SkipVoucher(c)
    <2>1. verdict'[c] = "no" /\ Voucher(c) = Nameless
        BY <1>5 DEF SkipVoucher, Downgrade, TypeOK
    <2> QED BY <1>0, <1>2, <1>3, <2>1, NextVoucherKeepsCall
<1>6. CASE ReadVoucherFails(c)
    <2>1. verdict'[c] = "no" /\ c \in doubtful'
        BY <1>6 DEF ReadVoucherFails, Downgrade, TypeOK
    <2> QED BY <1>0, <2>1, NextVoucherKeepsCall
<1>7. CASE ReadVoucher(c)
    <2>1. /\ Voucher(c) # Nameless
          /\ \E view \in ViewsOf(c, Voucher(c)) :
                /\ verdict'[c] = (IF Repeated(c) \/ tool.judge[view] # "yes" THEN "no" ELSE verdict[c])
                /\ c \notin doubtful' => view \notin {"another", "unclear"} /\ c \notin doubtful
        BY <1>7 DEF ReadVoucher, Downgrade, TypeOK
    <2>2. PICK view \in ViewsOf(c, Voucher(c)) :
            /\ verdict'[c] = (IF Repeated(c) \/ tool.judge[view] # "yes" THEN "no" ELSE verdict[c])
            /\ c \notin doubtful' => view \notin {"another", "unclear"} /\ c \notin doubtful
        BY <2>1
    <2>3. Voucher(c) \in Items
        BY <1>1, <2>1 DEF CallInv, BatchInv, Voucher
    <2>4. c \in landed \ disturbed => world[c] = effect[c]
        BY DEF CallInv, GroundInv
    <2>5. c \in landed
        BY <1>1 DEF CallInv, ProgressInv
    <2>6. /\ tool.judge[view] = "yes" => world[c][Voucher(c)] \in tool.goal
          /\ view \notin {"another", "unclear"} /\ tool.judge[view] # "yes" =>
                world[c][Voucher(c)] \notin tool.goal
        BY <1>1, <1>4, <2>3, ViewTells
    <2>7. verdict'[c] = "yes" => /\ ~Repeated(c)
                                 /\ c \notin disturbed => effect[c][Voucher(c)] \in tool.goal
        BY <2>2, <2>4, <2>5, <2>6
    <2>8. ASSUME verdict'[c] = "no", c \notin doubtful', c \in landed \ disturbed
          PROVE  \E i \in Items : effect[c][i] \notin Goal(c)
        <3>1. CASE Repeated(c) \/ tool.judge[view] # "yes"
            BY <1>2, <1>3, <1>4, <2>2, <2>3, <2>4, <2>6, <2>8, <3>1
        <3>2. CASE ~(Repeated(c) \/ tool.judge[view] # "yes")
            BY <2>2, <2>8, <3>2 DEF CallInv, GroundInv
        <3> QED BY <3>1, <3>2
    <2> QED BY <1>0, <2>1, <2>2, <2>7, <2>8, NextVoucherKeepsCall
<1> QED BY <1>5, <1>6, <1>7

\* The verification of a batch ends.
LEMMA VouchersEndKeepsCall ==
    ASSUME TypeOK, NEW c \in Calls, CallInv(c), VouchersCutOff(c) \/ VouchersDone(c)
    PROVE  CallInv(c)'
<1>0. /\ tool \in Tools /\ tool.batch /\ At(c, "readback") /\ UNCHANGED <<tool, ctrl>>
      /\ \E kinds : Conclude(c, "applied", kinds)
    BY DEF VouchersCutOff, VouchersDone, InBatch, TypeOK
<1>1. CASE VouchersCutOff(c)
    <2>1. verdict'[c] = "no" /\ c \in doubtful'
        BY <1>1 DEF VouchersCutOff, Downgrade, TypeOK
    <2> QED BY <1>0, <2>1, EndedReadback
<1>2. CASE VouchersDone(c)
    <2>1. UNCHANGED <<verdict, doubtful>> /\ pos[c] > Len(reply[c])
        BY <1>2 DEF VouchersDone
    <2>2. ASSUME c \in landed \ disturbed, verdict[c] = "yes"
          PROVE  \A i \in Items : effect[c][i] \in Goal(c)
        <3>1. /\ reply[c] \in Seq(Names) /\ Len(reply[c]) = BatchSize /\ BatchSize \in Nat
              /\ pos[c] \in Nat
              /\ pos[c] <= Len(reply[c]) + 1
            BY <1>0, <2>2, ResourceWritesAssumption DEF CallInv, BatchInv, TypeOK
        <3>2. pos[c] - 1 = BatchSize /\ DOMAIN reply[c] = 1..BatchSize
            BY <2>1, <3>1
        <3>3. \A i \in 1..BatchSize :
                 /\ reply[c][i] # Nameless
                 /\ effect[c][reply[c][i]] \in tool.goal
                 /\ \A j \in 1..(i - 1) : reply[c][i] # reply[c][j]
            BY <1>0, <2>2, <3>2 DEF CallInv, BatchInv
        <3>4. \A i \in 1..BatchSize : reply[c][i] \in Items
            BY <1>0, <3>2, <3>3 DEF CallInv, BatchInv
        <3>5. ASSUME NEW i \in 1..BatchSize, NEW j \in 1..BatchSize, i # j
              PROVE  reply[c][i] # reply[c][j]
            <4>1. j \in 1..(i - 1) \/ i \in 1..(j - 1)
                BY <3>1, <3>5
            <4> QED BY <3>3, <4>1
        <3>6. \A k \in Items : \E i \in 1..BatchSize : reply[c][i] = k
            BY <1>0, <3>1, <3>4, <3>5, DifferentOnesAreAll
        <3>7. Goal(c) = tool.goal
            BY <1>0, JudgeFits
        <3> QED BY <3>3, <3>6, <3>7
    <2> QED BY <1>0, <2>1, <2>2, EndedReadback DEF CallInv, GroundInv
<1> QED BY <1>1, <1>2

LEMMA LandKeepsCall ==
    ASSUME TypeOK, NEW c \in Calls, CallInv(c), Land(c)
    PROVE  CallInv(c)'
<1>1. /\ c \in wire /\ c \notin landed /\ writes[c] # 0 /\ verdict[c] = "none"
      /\ ~At(c, "readback")
    BY DEF Land, CallInv, ProgressInv
<1>2. /\ UNCHANGED <<shell, tool, work, writes, disturbed>>
      /\ c \notin wire' /\ c \in landed' /\ world'[c] = effect'[c]
    BY DEF Land, TypeOK
<1>3. ProgressInv(c)'
    BY <1>1, <1>2 DEF CallInv, ProgressInv, EntryInv, At, shell, work
<1>4. BatchInv(c)' /\ GroundInv(c)'
    BY <1>1, <1>2 DEF BatchInv, GroundInv, At, shell, work
<1> QED
    BY <1>3, <1>4 DEF CallInv

LEMMA EditKeepsCall ==
    ASSUME TypeOK, NEW c \in Calls, CallInv(c), Edit(c)
    PROVE  CallInv(c)'
<1>1. /\ UNCHANGED <<shell, tool, work, wire, writes, effect, landed>>
      /\ disturbed' = IF c \in landed THEN disturbed \cup {c} ELSE disturbed
    BY DEF Edit
<1>2. Items' = Items
    BY <1>1 DEF Items
<1>3. ProgressInv(c)'
    BY <1>1 DEF CallInv, ProgressInv, EntryInv, At, shell, work
<1>4. GroundInv(c)'
    BY <1>1 DEF GroundInv
<1>5. BatchInv(c)'
    <2>1. At(c, "readback")' <=> At(c, "readback")
        BY <1>1 DEF At, shell, work
    <2>2. Faithful(reply[c])' <=> Faithful(reply[c])
        BY <1>1, <1>2 DEF Faithful, work
    <2> QED BY <1>1, <1>2, <2>1, <2>2 DEF CallInv, BatchInv, work
<1> QED
    BY <1>3, <1>4, <1>5 DEF CallInv

LEMMA CallsKept ==
    ASSUME TypeOK, \A c \in Calls : CallInv(c), [Next]_vars, NEW d \in Calls
    PROVE  CallInv(d)'
<1>1. CallInv(d)
    OBVIOUS
<1>2. ASSUME NEW c \in Calls, AnyStep(c)
      PROVE  CallInv(d)'
    <2>1. CASE c = d
        <3>1. CASE Work(d)
            BY <1>1, <3>1, EarlyKeepsCall, ThrottledKeepsCall, SendKeepsCall, FailedWriteKeepsCall,
               AcknowledgedKeepsCall, ReadbackKeepsCall, VoucherKeepsCall, VouchersEndKeepsCall
            DEF Work
        <3> QED
            BY <1>1, <1>2, <2>1, <3>1, EnterKeepsCall, DeadlineKeepsCall, LandKeepsCall, EditKeepsCall
            DEF AnyStep
    <2>2. CASE c # d
        <3>1. SameShell(d) /\ SameTool(d)
            BY <1>2, <2>2, OthersShell, OthersTool
        <3> QED BY <1>1, <3>1, SameKeepsCall DEF SameShell
    <2> QED BY <2>1, <2>2
<1>3. CASE Tick
    <2>1. SameTool(d) /\ stage'[d] = stage[d] /\ answer'[d] = answer[d]
        BY <1>3 DEF Tick, ShellTick, work, ctrl, SameTool
    <2> QED BY <1>1, <2>1, SameKeepsCall
<1>4. CASE UNCHANGED vars
    <2>1. SameTool(d) /\ stage'[d] = stage[d] /\ answer'[d] = answer[d]
        BY <1>4 DEF vars, shell, work, ctrl, SameTool
    <2> QED BY <1>1, <2>1, SameKeepsCall
<1> QED
    BY <1>2, <1>3, <1>4 DEF Next, AnyStep

\* What the calls have written and concluded, in every reachable state.
THEOREM CallsAlways == Spec => [](\A c \in Calls : CallInv(c))
<1>1. Init => \A c \in Calls : CallInv(c)
    BY DEF Init, ShellInit, CallInv, ProgressInv, EntryInv, BatchInv, GroundInv, At, Denials
<1>2. TypeOK /\ (\A c \in Calls : CallInv(c)) /\ [Next]_vars => (\A c \in Calls : CallInv(c))'
    BY CallsKept
<1> QED
    BY <1>1, <1>2, WritesTypeCorrect, PTL DEF Spec

\* For all tools and interleavings: however often its requests are turned
\* away with 429, a call sends one mutation, and none when its answer denies
\* having acted (send and get_json of client.rs, protect.rs and legacy.rs).
THEOREM WritesReported == Spec => []WritesAsReported
<1>1. (\A c \in Calls : CallInv(c)) => WritesAsReported
    BY DEF CallInv, ProgressInv, WritesAsReported
<1> QED
    BY <1>1, CallsAlways, PTL

\* For all tools, batches and interleavings: a verdict on resources that
\* nobody else touched is what the controller did
\* (verify_created_vouchers_before_deadline, requested_json_matches and kin).
THEOREM VerdictsGrounded == Spec => []VerdictIsGrounded
<1>1. (\A c \in Calls : CallInv(c)) /\ TypeOK => VerdictIsGrounded
    BY DEF CallInv, GroundInv, VerdictIsGrounded, TypeOK
<1> QED
    BY <1>1, CallsAlways, WritesTypeCorrect, PTL

-----------------------------------------------------------------------------
(***************************************************************************)
(* Answers are whole.                                                      *)
(***************************************************************************)
\* What a field of the order does to the answer so far.
SpillStep(order, a, i) ==
    IF Exceeds(a) /\ order[i] \in DOMAIN a.structured THEN Move(a, order[i]) ELSE a

\* The function SpillInOrder defines by recursion exists.
LEMMA SpillRun ==
    ASSUME NEW order \in Seq(STRING), NEW output
    PROVE  \E after : /\ after[0] = Laid(output, {}, {})
                      /\ \A i \in 1..Len(order) : after[i] = SpillStep(order, after[i - 1], i)
                      /\ SpillInOrder(order, output) = after[Len(order)]
<1> DEFINE V(g, i) == IF i = 0 THEN Laid(output, {}, {}) ELSE SpillStep(order, g[i - 1], i)
           T == {n \in Nat : \E g : g = [i \in 0..n |-> V(g, i)]}
<1>1. 0 \in T
    <2>1. [i \in 0..0 |-> Laid(output, {}, {})] =
            [i \in 0..0 |-> V([j \in 0..0 |-> Laid(output, {}, {})], i)]
        <3>1. \A i \in 0..0 : i = 0
            OBVIOUS
        <3> QED BY <3>1
    <2> QED BY <2>1
<1>2. ASSUME NEW n \in Nat, n \in T PROVE n + 1 \in T
    <2>1. PICK g : g = [i \in 0..n |-> V(g, i)]
        BY <1>2
    <2> DEFINE h == [i \in 0..(n + 1) |-> IF i = n + 1 THEN SpillStep(order, g[n], n + 1) ELSE g[i]]
    <2>2. \A i \in 0..n : h[i] = g[i] /\ g[i] = V(g, i)
        <3>1. \A i \in 0..n : i \in 0..(n + 1) /\ i # n + 1
            OBVIOUS
        <3>2. \A i \in 0..n : h[i] = g[i]
            BY <3>1
        <3> HIDE DEF h, V
        <3>3. \A i \in 0..n : g[i] = V(g, i)
            BY <2>1
        <3> QED BY <3>2, <3>3
    <2>3. h[n + 1] = SpillStep(order, h[n], n + 1)
        <3>1. h[n + 1] = SpillStep(order, g[n], n + 1)
            OBVIOUS
        <3> HIDE DEF h
        <3>2. h[n] = g[n]
            BY <2>2
        <3> QED BY <3>1, <3>2
    <2>4. ASSUME NEW i \in 0..(n + 1) PROVE h[i] = V(h, i)
        <3> HIDE DEF h
        <3>1. CASE i = n + 1
            BY <2>3, <3>1
        <3>2. CASE i = 0
            BY <2>2, <3>2
        <3>3. CASE i \in 1..n
            <4>1. i \in 0..n /\ i - 1 \in 0..n
                BY <3>3
            <4>2. h[i] = V(g, i) /\ h[i - 1] = g[i - 1]
                BY <2>2, <4>1
            <4> QED BY <4>2
        <3> QED BY <3>1, <3>2, <3>3
    <2>5. h = [i \in 0..(n + 1) |-> V(h, i)]
        <3>1. h = [i \in 0..(n + 1) |-> h[i]]
            OBVIOUS
        <3> HIDE DEF h, V
        <3>2. [i \in 0..(n + 1) |-> h[i]] = [i \in 0..(n + 1) |-> V(h, i)]
            BY <2>4
        <3> QED BY <3>1, <3>2
    <2> HIDE DEF h
    <2> QED BY <2>5
<1>3. \A n \in Nat : n \in T
    <2> HIDE DEF T
    <2> QED BY <1>1, <1>2, NaturalInduction
<1> DEFINE after == CHOOSE g : g = [i \in 0..Len(order) |-> V(g, i)]
<1>4. after = [i \in 0..Len(order) |-> V(after, i)]
    <2>1. Len(order) \in Nat
        OBVIOUS
    <2>2. \E g : g = [i \in 0..Len(order) |-> V(g, i)]
        BY <1>3, <2>1
    <2> QED BY <2>2
<1>5. SpillInOrder(order, output) = after[Len(order)]
    BY DEF SpillInOrder, SpillStep
<1> HIDE DEF after
<1>6. ASSUME NEW i \in 0..Len(order) PROVE after[i] = V(after, i)
    <2> HIDE DEF V
    <2> QED BY <1>4
<1>7. after[0] = Laid(output, {}, {})
    BY <1>6
<1>8. \A i \in 1..Len(order) : after[i] = SpillStep(order, after[i - 1], i)
    BY <1>6
<1> QED BY <1>5, <1>7, <1>8

\* An answer of which nothing is lost: each field is in one place, what moved
\* is marked, and the fields of moved have moved if there is no room.
Whole(a, had, moved) ==
    /\ DOMAIN a.structured \cup a.content = had
    /\ DOMAIN a.structured \cap a.content = {}
    /\ a.marked = a.content
    /\ Exceeds(a) => DOMAIN a.structured \cap moved = {}

\* The field at i takes a whole answer to a whole answer.
LEMMA SpillStepWhole ==
    ASSUME NEW order, NEW i, NEW a, NEW had, NEW moved, Whole(a, had, moved)
    PROVE  Whole(SpillStep(order, a, i), had, moved \cup {order[i]})
<1>1. CASE Exceeds(a) /\ order[i] \in DOMAIN a.structured
    <2> DEFINE b == Move(a, order[i])
    <2>1. /\ DOMAIN b.structured = DOMAIN a.structured \ {order[i]}
          /\ b.content = a.content \cup {order[i]}
          /\ b.marked = a.marked \cup {order[i]}
        BY DEF Move, Laid, Without
    <2>2. SpillStep(order, a, i) = b
        BY <1>1 DEF SpillStep
    <2> HIDE DEF b
    <2> QED BY <1>1, <2>1, <2>2 DEF Whole
<1>2. CASE ~(Exceeds(a) /\ order[i] \in DOMAIN a.structured)
    <2>1. SpillStep(order, a, i) = a
        BY <1>2 DEF SpillStep
    <2> QED BY <1>2, <2>1 DEF Whole
<1> QED BY <1>1, <1>2

LEMMA UnspilledWhole ==
    ASSUME NEW had, NEW output \in [had -> Sizes]
    PROVE  Whole(Laid(output, {}, {}), had, {})
<1>1. /\ Laid(output, {}, {}).structured = output
      /\ Laid(output, {}, {}).content = {} /\ Laid(output, {}, {}).marked = {}
    BY DEF Laid
<1> QED BY <1>1 DEF Whole

LEMMA SpillInOrderWhole ==
    ASSUME NEW order \in Seq(STRING), NEW had, NEW output \in [had -> Sizes]
    PROVE  Whole(SpillInOrder(order, output), had, {order[i] : i \in DOMAIN order})
<1>1. PICK after : /\ after[0] = Laid(output, {}, {})
                   /\ \A i \in 1..Len(order) : after[i] = SpillStep(order, after[i - 1], i)
                   /\ SpillInOrder(order, output) = after[Len(order)]
    BY SpillRun
<1> DEFINE Tried(n) == {order[i] : i \in 1..n}
           T == {n \in Nat : n <= Len(order) => Whole(after[n], had, Tried(n))}
<1>2. 0 \in T
    <2>1. Tried(0) = {}
        OBVIOUS
    <2> HIDE DEF Tried
    <2> QED BY <1>1, <2>1, UnspilledWhole
<1>3. ASSUME NEW n \in Nat, n \in T PROVE n + 1 \in T
    <2> SUFFICES ASSUME n + 1 <= Len(order) PROVE Whole(after[n + 1], had, Tried(n + 1))
        OBVIOUS
    <2>1. n <= Len(order) /\ n + 1 \in 1..Len(order) /\ (n + 1) - 1 = n
        OBVIOUS
    <2>2. Whole(after[n], had, Tried(n))
        BY <1>3, <2>1
    <2>3. after[n + 1] = SpillStep(order, after[n], n + 1)
        BY <1>1, <2>1
    <2>4. Tried(n + 1) = Tried(n) \cup {order[n + 1]}
        <3>1. \A i : i \in 1..(n + 1) <=> i \in 1..n \/ i = n + 1
            OBVIOUS
        <3> QED BY <3>1
    <2> HIDE DEF Tried
    <2> QED BY <2>2, <2>3, <2>4, SpillStepWhole
<1>4. Len(order) \in T
    <2> HIDE DEF T
    <2>1. \A n \in Nat : n \in T
        BY <1>2, <1>3, NaturalInduction
    <2>2. Len(order) \in Nat
        OBVIOUS
    <2> QED BY <2>1, <2>2
<1>5. Tried(Len(order)) = {order[i] : i \in DOMAIN order}
    <2>1. DOMAIN order = 1..Len(order)
        OBVIOUS
    <2> QED BY <2>1
<1> HIDE DEF Tried
<1>6. Whole(after[Len(order)], had, Tried(Len(order)))
    <2>1. Len(order) \in Nat /\ Len(order) <= Len(order)
        OBVIOUS
    <2> QED BY <1>4, <2>1
<1> HIDE DEF T
<1> QED BY <1>1, <1>5, <1>6

LEMMA SpillAllWhole ==
    ASSUME NEW order \in Seq(STRING), NEW had, NEW output \in [had -> Sizes]
    PROVE  Whole(SpillAll(order, output), had, {order[i] : i \in DOMAIN order})
<1> DEFINE a == Laid(output, {}, {})
           movable == {order[i] : i \in 1..Len(order)} \cap had
           b == Laid([f \in had \ movable |-> output[f]], movable, movable)
<1>0. DOMAIN output = had /\ DOMAIN order = 1..Len(order)
    OBVIOUS
<1>1. SpillAll(order, output) = IF ~Exceeds(a) THEN a ELSE b
    BY <1>0 DEF SpillAll
<1>2. CASE ~Exceeds(a)
    <2>1. Whole(a, had, {})
        BY UnspilledWhole
    <2> HIDE DEF a, b
    <2> QED BY <1>1, <1>2, <2>1 DEF Whole
<1>3. CASE Exceeds(a)
    <2>1. DOMAIN b.structured = had \ movable /\ b.content = movable /\ b.marked = movable
        BY DEF Laid
    <2>2. movable \subseteq had /\ movable = {order[i] : i \in DOMAIN order} \cap had
        BY <1>0
    <2> HIDE DEF a, b, movable
    <2> QED BY <1>1, <1>3, <2>1, <2>2 DEF Whole
<1> QED BY <1>2, <1>3

\* However an answer is laid out, nothing is lost.
LEMMA RenderWhole ==
    ASSUME tool \in Tools, NEW had \in SUBSET FieldNames, NEW output \in [had -> Sizes]
    PROVE  Whole(Render(tool.layout, output), had, had)
<1>1. tool.layout \in [order : Seq(STRING), all : BOOLEAN]
    BY ResourceWritesAssumption DEF ToolRecord
<1>2. tool.layout.order \in Seq(STRING)
    BY <1>1
<1> DEFINE order == tool.layout.order
<1>3. Whole(SpillAll(order, output), had, FieldNames)
    BY <1>2, SpillAllWhole DEF FieldNames
<1>4. Whole(SpillInOrder(order, output), had, FieldNames)
    BY <1>2, SpillInOrderWhole DEF FieldNames
<1>5. Whole(Render(tool.layout, output), had, FieldNames)
    BY <1>3, <1>4 DEF Render
<1> QED BY <1>5 DEF Whole

-----------------------------------------------------------------------------
\* What a call has shown is whole.
WholeInv(c) == shown[c] # NotShown => Whole(shown[c].laid, shown[c].had, shown[c].had)

LEMMA ConcludeWhole ==
    ASSUME TypeOK, \A d \in Calls : WholeInv(d),
           NEW c \in Calls, NEW a, NEW kinds, Conclude(c, a, kinds)
    PROVE  \A d \in Calls : WholeInv(d)'
<1> DEFINE had == kinds \cap FieldNames
<1>1. PICK output \in [had -> Sizes] :
        shown' = [shown EXCEPT ![c] = [had |-> had, laid |-> Render(tool.layout, output)]]
    BY DEF Conclude
<1>2. DOMAIN shown = Calls /\ tool \in Tools
    BY DEF TypeOK
<1>3. had \in SUBSET FieldNames
    OBVIOUS
<1> HIDE DEF had
<1>4. Whole(Render(tool.layout, output), had, had)
    BY <1>2, <1>3, RenderWhole
<1>5. /\ shown'[c].had = had /\ shown'[c].laid = Render(tool.layout, output)
      /\ \A d \in Calls : d # c => shown'[d] = shown[d]
    BY <1>1, <1>2
<1>6. NotShown' = NotShown
    BY DEF NotShown
<1>7. Whole(shown'[c].laid, shown'[c].had, shown'[c].had)
    BY <1>4, <1>5
<1>8. \A d \in Calls : d # c => WholeInv(d)'
    BY <1>5, <1>6 DEF WholeInv, Whole
<1>9. WholeInv(c)'
    BY <1>7 DEF WholeInv, Whole
<1> QED BY <1>8, <1>9

LEMMA WholeKept ==
    ASSUME TypeOK, \A d \in Calls : WholeInv(d), [Next]_vars
    PROVE  \A d \in Calls : WholeInv(d)'
<1>0. ASSUME UNCHANGED shown PROVE \A d \in Calls : WholeInv(d)'
    BY <1>0 DEF WholeInv, Whole
<1>1. ASSUME NEW c \in Calls, Validate(c) \/ ReadDone(c) \/ ReadFails(c) \/ Throttled(c) \/ Send(c)
                                \/ WriteUndecodable(c) \/ WriteFails(c)
      PROVE  UNCHANGED shown
    BY <1>1 DEF Validate, ReadDone, ReadFails, Throttled, Send, WriteUndecodable, WriteFails, Refuse
<1>2. ASSUME NEW c \in Calls, SkipVoucher(c) \/ ReadVoucher(c) \/ ReadVoucherFails(c)
                                \/ Enter(c) \/ Deadline(c) \/ CallerLeaves(c) \/ Land(c)
                                \/ Edit(c)
      PROVE  UNCHANGED shown
    BY <1>2
    DEF SkipVoucher, ReadVoucher, ReadVoucherFails, Enter, Deadline, CallerLeaves, Drops, Land,
        Edit, work
<1>3. CASE Tick \/ UNCHANGED vars
    BY <1>0, <1>3 DEF Tick, vars, work
<1>4. ASSUME NEW c \in Calls, Plan(c) \/ WriteAcknowledged(c)
      PROVE  UNCHANGED shown \/ \E a, kinds : Conclude(c, a, kinds)
    BY <1>4 DEF Plan, WriteAcknowledged
<1>5. ASSUME NEW c \in Calls, Readback(c) \/ ReadbackFails(c) \/ VouchersCutOff(c) \/ VouchersDone(c)
      PROVE  \E a, kinds : Conclude(c, a, kinds)
    BY <1>5 DEF Readback, ReadbackFails, VouchersCutOff, VouchersDone
<1>6. ASSUME NEW c \in Calls, AnyStep(c)
      PROVE  UNCHANGED shown \/ \E a, kinds : Conclude(c, a, kinds)
    BY <1>1, <1>2, <1>4, <1>5, <1>6 DEF AnyStep, Work
<1>7. CASE \E c \in Calls : AnyStep(c)
    BY <1>0, <1>6, <1>7, ConcludeWhole
<1> QED
    BY <1>3, <1>7 DEF Next, AnyStep

\* For every tool, order of fields, target and sizes: laying out an answer
\* loses nothing, and the structured part exceeds its target only when
\* nothing is left to move (the ..._result functions of tools.rs).
THEOREM AnswersWhole == Spec => []AnswerIsWhole
<1>1. Init => \A c \in Calls : WholeInv(c)
    BY DEF Init, WholeInv
<1>2. TypeOK /\ (\A c \in Calls : WholeInv(c)) /\ [Next]_vars => (\A c \in Calls : WholeInv(c))'
    BY WholeKept
<1>3. (\A c \in Calls : WholeInv(c)) => AnswerIsWhole
    <2> SUFFICES ASSUME \A c \in Calls : WholeInv(c), NEW c \in Calls, shown[c] # NotShown
                 PROVE  LET s == shown[c]
                            structured == DOMAIN s.laid.structured
                        IN  /\ structured \cup s.laid.content = s.had
                            /\ structured \cap s.laid.content = {}
                            /\ s.laid.marked = s.laid.content
                            /\ Exceeds(s.laid) => structured = {}
        BY DEF AnswerIsWhole
    <2>1. Whole(shown[c].laid, shown[c].had, shown[c].had)
        BY DEF WholeInv
    <2> QED BY <2>1 DEF Whole
<1> QED
    BY <1>1, <1>2, <1>3, WritesTypeCorrect, PTL DEF Spec
=============================================================================
