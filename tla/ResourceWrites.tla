--------------------------- MODULE ResourceWrites ----------------------------
(***************************************************************************)
(* The tools of tools.rs, legacy_configuration.rs and                      *)
(* network_configuration.rs that create, replace, delete or act on a       *)
(* resource of the controller.  (RecordUpdates has the ones that change    *)
(* named fields of a record.)  All of them follow one course:              *)
(*                                                                         *)
(*   validate - look things up - preview unless confirmed - look things    *)
(*   up - send the write, once - read back inside a budget - answer        *)
(*                                                                         *)
(* and differ in what they read, what they send, how they address the      *)
(* read-back and what they make of it: a tool is a record of these.        *)
(*                                                                         *)
(* The controller is external.  It may acknowledge a write and carry it    *)
(* out in part or not at all, reply without an id or with another one,     *)
(* show another resource, or apply a write whose sender has gone.  Other   *)
(* writers, other calls of these tools included, are one editor.           *)
(***************************************************************************)
EXTENDS ToolCalls, Endpoints, AnswerLayout

CONSTANTS
    Tools,       \* the tools a run considers
    Reserve,     \* ..._RESPONSE_RESERVE, in ticks
    Budget,      \* ..._READBACK_BUDGET, in ticks
    BatchSize,   \* vouchers a call of vouchers.create asks for
    MaxEdits,    \* bound: edits by somebody else
    Sizes,       \* sizes of the bulky fields of an answer
    Nothing      \* no read-back

\* What a resource is like: as it was, as the write asks, or otherwise.
Conditions == {"absent", "old", "asked", "other"}
\* What a reading shows: a condition ("missing" for absent), a resource of
\* another name, or one that does not tell.
Views == {"missing", "old", "asked", "other", "another", "unclear"}
Verdicts == {"yes", "no", "none"}

-----------------------------------------------------------------------------
(* Verdicts on a reading.                                                  *)

\* requested_json_matches and its kin: all that was asked is there, under
\* the name that was asked for.  A missing resource is a failed reading.
Matching == [v \in Views |-> CASE v = "asked" -> "yes" [] v = "missing" -> "none" [] OTHER -> "no"]
\* The same in a list, where a resource that is not there is no failure.
Listed == [v \in Views |-> IF v = "asked" THEN "yes" ELSE "no"]
\* It is there under its id, whatever it is like.
Present == [v \in Views |->
    CASE v = "another" -> "no" [] v = "missing" -> "none" [] OTHER -> "yes"]
\* The same where a missing one counts against the write: an asset or a
\* stream that is not listed, a voucher that cannot be read.
Exists == [v \in Views |-> IF v \in {"another", "missing"} THEN "no" ELSE "yes"]
\* It is gone: 404.
Gone == [v \in Views |-> IF v = "missing" THEN "yes" ELSE "no"]
\* It is gone, and a resource of another name says nothing.
GoneByName == [Gone EXCEPT !["another"] = "none"]
\* A state that may be unreported, of the resource that was asked for.
Reported == [Matching EXCEPT !["unclear"] = "none", !["another"] = "none"]
\* A guest holds grant g; one whose grant is not shown does not.  A client
\* without guest access, or whose access is not reported, tells as little as
\* a client of another name.
Grants == Conditions \ {"absent"}
Granted(g) == [v \in Views |->
    CASE v = g -> "yes" [] v \in {"another", "missing"} -> "none" [] OTHER -> "no"]
\* The tool reports what it sees and draws no conclusion.
NoVerdict == [v \in Views |-> "none"]

-----------------------------------------------------------------------------
(* The tools.  shape: the optional arguments that must be given, no others *)
(* may be; looks, finds: reads before the preview and after it; named:     *)
(* where the name for the read-back comes from; back: the read-back; ack:  *)
(* what the verdict asks of the write's reply ("names": the same name,     *)
(* "agrees": the same or none, "grants": the grant that is read back);     *)
(* judge: the verdict on a reading; goal: what a positive one promises.    *)
Tool ==
    [shape |-> {}, looks |-> << >>, finds |-> << >>, write |-> DeviceAction, named |-> "given",
     back |-> Nothing, ack |-> "ignored", judge |-> NoVerdict, batch |-> FALSE,
     goal |-> {"asked"}, layout |-> AcceptedResponseResult]

DevicesAdopt ==
    [Tool EXCEPT !.finds = <<Sites>>, !.write = AdoptDevice, !.named = "reply",
                 !.back = DeviceDetailRaw, !.judge = Present, !.goal = {"old", "asked", "other"},
                 !.layout = DevicesAdoptResult]
DevicesRemove ==
    [Tool EXCEPT !.finds = <<Sites>>, !.write = RemoveDevice, !.back = DeviceDetailRaw,
                 !.judge = Gone, !.goal = {"absent"}, !.layout = DevicesRemoveResult]
DevicesControl(action) ==
    [Tool EXCEPT !.shape = IF action = "power_cycle" THEN {"port"} ELSE {},
                 !.looks = <<Sites, DeviceDetail>>,
                 !.write = CASE action = "restart" -> RestartDevice
                             [] action = "power_cycle" -> PowerCyclePort
                             [] action = "locate" -> LocateDevice,
                 !.back = DeviceDetail, !.layout = DevicesControlResult]
ClientsControl ==
    [Tool EXCEPT !.looks = <<ActiveClients>>, !.write = StationCommand, !.back = ActiveClients]

ProtectDevicesAction == [Tool EXCEPT !.layout = ProtectActionResult]
ProtectAlarmsAction(action) ==
    [Tool EXCEPT !.shape = IF action = "webhook" THEN {"triggerId"} ELSE {},
                 !.write = ArmOperation("POST"), !.layout = ProtectArmOperationResult]

ArmProfileShape(op) ==
    CASE op = "create" -> {"changes"}
      [] op = "update" -> {"id", "changes"}
      [] op \in {"delete", "select"} -> {"id"}
ArmProfileBase(op) ==
    [Tool EXCEPT !.shape = ArmProfileShape(op),
                 !.named = IF op = "create" THEN "reply" ELSE "given",
                 !.back = IF op = "select" THEN Nothing ELSE ArmProfiles,
                 !.layout = ProtectArmOperationResult]
ProtectArmProfilesConfigure(op) ==
    CASE op = "create" -> [ArmProfileBase(op) EXCEPT !.write = ArmOperation("POST"), !.judge = Listed]
      [] op = "update" -> [ArmProfileBase(op) EXCEPT !.write = ArmOperation("PATCH"), !.judge = Listed]
      [] op = "delete" -> [ArmProfileBase(op) EXCEPT !.write = ArmOperation("DELETE"),
                                                     !.judge = Gone, !.goal = {"absent"}]
      [] op = "select" -> [ArmProfileBase(op) EXCEPT !.write = ArmOperation("PATCH")]

CamerasPosTransaction ==
    [Tool EXCEPT !.write = CameraPosTransaction, !.layout = PosTransactionResult]
ProtectViewersSettingsUpdate ==
    [Tool EXCEPT !.looks = <<Viewer>>, !.write = ViewerSettingsPatch, !.back = Viewer,
                 !.judge = Matching, !.layout = ViewerSettingsResult]
ProtectLiveviewsConfigure(op) ==
    [Tool EXCEPT !.shape = IF op = "create" THEN {} ELSE {"id"},
                 !.looks = IF op = "create" THEN << >> ELSE <<Liveview>>,
                 !.write = IF op = "create" THEN LiveviewCreate ELSE LiveviewPatch,
                 !.named = IF op = "create" THEN "reply" ELSE "given",
                 !.back = Liveview, !.judge = Matching, !.layout = LiveviewConfigureResult]
CamerasSettingsUpdate ==
    [Tool EXCEPT !.looks = <<Cameras>>, !.finds = <<CameraWithResponse>>,
                 !.write = CameraSettingsPatch, !.back = CameraWithResponse,
                 !.judge = Matching, !.layout = CameraSettingsUpdateResult]
CamerasPtzControl(action) ==
    [Tool EXCEPT !.shape = IF action = "stop" THEN {} ELSE {"slot"},
                 !.looks = <<Cameras>>, !.write = CameraPtz,
                 !.back = IF action = "goto" THEN Nothing ELSE Camera, !.judge = Reported]
CamerasMicrophoneDisable ==
    [Tool EXCEPT !.looks = <<Cameras, CameraRaw>>, !.write = CameraDisableMic,
                 !.back = CameraRaw, !.judge = Reported, !.layout = CameraDisableMicResult]
ProtectAssetsUpload ==
    [Tool EXCEPT !.write = AnimationAssetUpload, !.named = "reply", !.back = AnimationAssets,
                 !.judge = Exists,
                 !.goal = {"old", "asked", "other"}, !.layout = ProtectAssetUploadResult]
CamerasStreamsUpdate(op) ==
    [Tool EXCEPT !.looks = <<Cameras>>,
                 !.write = IF op = "create" THEN CameraStreamsCreate ELSE CameraStreamsDelete,
                 !.back = CameraStreams, !.judge = IF op = "create" THEN Exists ELSE Gone,
                 !.goal = IF op = "create" THEN {"old", "asked", "other"} ELSE {"absent"}]
CamerasTalkbackStart == [Tool EXCEPT !.looks = <<Cameras>>, !.write = CameraTalkbackSession]

\* policy_write_plan; legacy_configuration.rs and network_configuration.rs
\* ask for the same.
WriteShape(op) ==
    CASE op = "create" -> {"body"} [] op = "update" -> {"id", "body"} [] op = "delete" -> {"id"}
ConfigurationShape(op, force) == WriteShape(op) \cup force
LegacyConfigurationShape(op) == WriteShape(op)

NetworkPolicyWrite(op) ==
    LET base == [Tool EXCEPT !.shape = WriteShape(op), !.finds = <<Sites>>,
                             !.named = IF op = "create" THEN "reply" ELSE "given",
                             !.back = NetworkPolicyDetail, !.layout = NetworkPolicyWriteResult]
    IN  CASE op = "create" -> [base EXCEPT !.write = NetworkPolicyCreate, !.judge = Matching, !.ack = "names"]
          [] op = "update" -> [base EXCEPT !.write = NetworkPolicyUpdate, !.judge = Matching, !.ack = "names"]
          [] op = "delete" -> [base EXCEPT !.write = NetworkPolicyDelete, !.judge = Gone, !.goal = {"absent"}]
FirewallZonesConfigure(op) == NetworkPolicyWrite(op)
FirewallPoliciesConfigure(op) == NetworkPolicyWrite(op)
DnsPoliciesConfigure(op) == NetworkPolicyWrite(op)
AclRulesConfigure(op) == NetworkPolicyWrite(op)
TrafficListsConfigure(op) == NetworkPolicyWrite(op)

\* The ordering that was asked for is both in the reply and read back.
FirewallPoliciesOrderingConfigure ==
    [Tool EXCEPT !.finds = <<Sites>>, !.write = ReplaceFirewallPolicyOrdering,
                 !.back = FirewallPolicyOrdering, !.judge = Matching, !.ack = "names",
                 !.layout = NetworkPolicyWriteResult]
AclRulesOrderingConfigure ==
    [FirewallPoliciesOrderingConfigure EXCEPT !.write = ReplaceAclRuleOrdering,
                                              !.back = AclRuleOrdering]

\* guest_readback.  What is read back of an authorization is held against
\* the grant in the reply, not against the limits that were asked for.
GuestReadback(tool) ==
    [tool EXCEPT !.finds = <<Sites, ClientsPage, ClientDetail>>, !.back = ClientDetail,
                 !.layout = MutationReadbackErrorResult]
GuestsAuthorize == GuestReadback([Tool EXCEPT !.write = AuthorizeGuest, !.ack = "grants"])
GuestsUnauthorize == GuestReadback([Tool EXCEPT !.write = UnauthorizeGuest, !.judge = Reported])

FirewallPoliciesDelete ==
    [Tool EXCEPT !.looks = <<FirewallZones, Sites, FirewallPolicySnapshot>>,
                 !.write = DeleteFirewallPolicy, !.back = FirewallPolicySnapshot,
                 !.judge = GoneByName, !.goal = {"absent"}, !.layout = FirewallDeleteResult]
VouchersRevokeMatching ==
    [Tool EXCEPT !.looks = <<Sites, VoucherRecords>>, !.write = DeleteMatchingVouchers,
                 !.back = VoucherRecords, !.judge = Gone, !.goal = {"absent"},
                 !.layout = VouchersRevokeMatchingResult]
VouchersRevoke ==
    [Tool EXCEPT !.looks = <<Sites, VoucherWithResponse>>, !.write = DeleteVoucher,
                 !.back = VoucherWithResponse, !.judge = GoneByName, !.goal = {"absent"},
                 !.layout = VoucherRevokeResult]
\* A voucher is looked for under its id and code; its limits are not compared.
VouchersCreate ==
    [Tool EXCEPT !.finds = <<Sites>>, !.write = CreateVouchers, !.named = "reply",
                 !.back = VoucherWithResponse, !.judge = Exists, !.batch = TRUE,
                 !.goal = {"old", "asked", "other"}, !.layout = VouchersCreateResult]

\* legacy_configuration_write: a lookup that finds no row counts as missing
\* when it was a delete, and as a mismatch otherwise.
LegacyConfigurationWrite(op, submit, record) ==
    [Tool EXCEPT !.shape = LegacyConfigurationShape(op), !.write = submit, !.back = record,
                 !.named = IF op = "create" THEN "reply" ELSE "given",
                 !.ack = IF op = "delete" THEN "ignored" ELSE "agrees",
                 !.judge = IF op = "delete" THEN Gone ELSE Listed,
                 !.goal = IF op = "delete" THEN {"absent"} ELSE {"asked"},
                 !.layout = LegacyConfigurationResult]
Submit(op, create, configure, delete) ==
    CASE op = "create" -> create [] op = "update" -> configure [] op = "delete" -> delete
PortForwardConfigure(op) ==
    LegacyConfigurationWrite(op, Submit(op, CreatePortForward, ConfigurePortForward,
                                        DeletePortForward), PortForwardRecord)
WlansConfigure(op) ==
    LegacyConfigurationWrite(op, Submit(op, CreateWlan, ConfigureWlan, DeleteWlan), WlanRecord)

\* configuration_write.
ConfigurationWrite(op, force, submit, record) ==
    [Tool EXCEPT !.shape = ConfigurationShape(op, force), !.finds = <<Sites>>,
                 !.write = submit, !.back = record,
                 !.named = IF op = "create" THEN "reply" ELSE "given",
                 !.ack = IF op = "delete" THEN "ignored" ELSE "names",
                 !.judge = IF op = "delete" THEN Gone ELSE Matching,
                 !.goal = IF op = "delete" THEN {"absent"} ELSE {"asked"},
                 !.layout = NetworkConfigurationResult]
NetworksConfigure(op, force) ==
    ConfigurationWrite(op, force, Submit(op, CreateNetwork, ReplaceNetwork, DeleteNetwork),
                       NetworkRecord)
WifiBroadcastsConfigure(op, force) ==
    ConfigurationWrite(op, force, Submit(op, CreateWifiBroadcast, ReplaceWifiBroadcast,
                                         DeleteWifiBroadcast), WifiBroadcast)

-----------------------------------------------------------------------------
(* What every tool has in common.                                          *)
ToolRecord ==
    [shape : SUBSET STRING, looks : Seq(RequestRecord), finds : Seq(RequestRecord),
     write : RequestRecord, named : {"given", "reply"}, back : RequestRecord \cup {Nothing},
     ack : {"ignored", "names", "agrees", "grants"}, judge : [Views -> Verdicts], batch : BOOLEAN,
     goal : SUBSET Conditions, layout : [order : Seq(STRING), all : BOOLEAN]]

\* All but the write are plain reads, and the write is sent as it is.
WritesOnce(t) ==
    /\ \A i \in DOMAIN t.looks : t.looks[i].method = "GET"
    /\ \A i \in DOMAIN t.finds : t.finds[i].method = "GET"
    /\ IF t.back = Nothing THEN ~t.batch ELSE t.back.method = "GET"
    /\ t.write.method # "GET" /\ ~t.write.retries

\* The view that shows a condition as it is.
ViewOf(condition) == IF condition = "absent" THEN "missing" ELSE condition

\* The verdict on a reading fits what it promises: a view that tells is
\* judged by whether it is the goal, and one that does not tell is taken for
\* a success only where being there is all that counts.
JudgesByGoal(judge, goal) ==
    /\ \A k \in Conditions : /\ judge[ViewOf(k)] = "yes" => k \in goal
                             /\ judge[ViewOf(k)] = "no" => k \notin goal
    /\ judge["unclear"] = "yes" => Conditions \ {"absent"} \subseteq goal
    /\ judge["another"] # "yes"

\* In a batch every reading is a verdict, and a reply names no grant.
JudgesBatches(t) ==
    t.batch => t.ack = "ignored" /\ \A k \in Conditions : t.judge[ViewOf(k)] # "none"

ASSUME ResourceWritesAssumption ==
    /\ \A t \in Tools : /\ t \in ToolRecord /\ WritesOnce(t)
                       /\ JudgesByGoal(t.judge, t.goal) /\ JudgesBatches(t)
    /\ Reserve \in Nat /\ Budget \in Nat /\ MaxEdits \in Nat
    /\ BatchSize \in Nat \ {0}
    /\ Sizes \subseteq Nat

-----------------------------------------------------------------------------
VARIABLES
    tool,       \* the tool that is called
    at,         \* where the tool of a running call is
    pos,        \* which of its reads, or of the vouchers, it is at
    tries,      \* how often the pending request was turned away with 429
    until,      \* ticks at which the read-back times out
    reply,      \* the names in the reply to the write
    verdict,    \* what the read-back concluded
    shown,      \* the fields the answer had, and how they are laid out
    world,      \* what the resources of a call are like
    wire,       \* calls whose write is on its way to the controller
    granted,    \* the grant that the reply to the write states
    edits,      \* edits so far
    \* history
    writes,     \* mutations each call has sent
    acked,      \* calls whose caller waited when the acknowledgement came
    effect,     \* the resources as the write left them
    landed,     \* calls whose write the controller carried out
    disturbed,  \* calls whose resources somebody else changed since
    doubtful    \* calls with a reply or a reading that is not the resource

work == <<at, pos, tries, until, reply, verdict, shown, acked, doubtful>>
ctrl == <<world, wire, granted, edits, writes, effect, landed, disturbed>>
vars == <<shell, tool, work, ctrl>>

Items == IF tool.batch THEN 1..BatchSize ELSE {1}
Nameless == 0
Stranger == BatchSize + 1
Names == 0..(BatchSize + 1)

\* The reply that names each resource of the call once.
Faithful(r) == Len(r) = Cardinality(Items) /\ {r[i] : i \in DOMAIN r} = Items

Replies ==
    IF tool.batch THEN UNION {[1..n -> Items \cup {Nameless}] : n \in 0..BatchSize}
    ELSE IF tool.write.insists = "named" THEN {<<1>>}
    ELSE {<<1>>, <<Nameless>>} \cup (IF tool.named = "given" THEN {<<Stranger>>} ELSE {})

FieldNames == {tool.layout.order[i] : i \in DOMAIN tool.layout.order}
NotShown == [had |-> {}, laid |-> Laid(<< >>, {}, {})]

ToolAnswers == {"invalid", "preview", "error", "undecodable", "applied"}

TypeOK ==
    /\ ShellTypeOK(ToolAnswers)
    /\ tool \in Tools
    /\ at \in [Calls -> {"start", "look", "find", "write", "readback", "end"}]
    /\ pos \in [Calls -> Nat \ {0}]
    /\ tries \in [Calls -> 0..1]
    /\ until \in [Calls -> 0..RequestTimeout]
    /\ reply \in [Calls -> Seq(Names)]
    /\ \A c \in Calls : Len(reply[c]) <= BatchSize
    /\ verdict \in [Calls -> Verdicts]
    /\ DOMAIN shown = Calls
    /\ \A c \in Calls : shown[c].had \in SUBSET FieldNames
    /\ {world, effect} \subseteq [Calls -> [Items -> Conditions]]
    /\ granted \in [Calls -> Grants]
    /\ edits \in 0..MaxEdits
    /\ writes \in [Calls -> Nat]
    /\ {wire, acked, landed, disturbed, doubtful} \subseteq SUBSET Calls

\* What is there before: a new resource has no name yet.
Untouched == [i \in Items |-> IF tool.named = "reply" THEN "absent" ELSE "old"]

Init ==
    /\ ShellInit
    /\ tool \in Tools
    /\ at = [c \in Calls |-> "start"] /\ pos = [c \in Calls |-> 1]
    /\ tries = [c \in Calls |-> 0] /\ until = [c \in Calls |-> 0]
    /\ reply = [c \in Calls |-> << >>]
    /\ verdict = [c \in Calls |-> "none"]
    /\ shown = [c \in Calls |-> NotShown]
    /\ world = [c \in Calls |-> Untouched] /\ effect = [c \in Calls |-> Untouched]
    /\ wire = {} /\ acked = {} /\ landed = {} /\ disturbed = {} /\ doubtful = {}
    /\ granted = [c \in Calls |-> "asked"]
    /\ edits = 0 /\ writes = [c \in Calls |-> 0]

-----------------------------------------------------------------------------
At(c, place) == stage[c] = "running" /\ at[c] = place
GoTo(c, place) == at' = [at EXCEPT ![c] = place] /\ pos' = [pos EXCEPT ![c] = 1]
Monus(a, b) == IF a < b THEN 0 ELSE a - b
Lesser(a, b) == IF a < b THEN a ELSE b

\* Mutant: the time already spent is not taken off the budget.
ReadbackBudgetFixed(elapsed) == Budget
\* Mutant: nothing is kept back for the answer.
ReadbackBudgetAll(elapsed) == Lesser(Monus(RequestTimeout, elapsed), Budget)
\* The time the read-back may take.
ReadbackBudget(elapsed) == Lesser(Monus(Monus(RequestTimeout, elapsed), Reserve), Budget)

Reads(c) == IF at[c] = "look" THEN tool.looks ELSE tool.finds

\* The request a call waits for.
Pending(c) ==
    CASE at[c] \in {"look", "find"} -> Reads(c)[pos[c]]
      [] at[c] = "write" -> tool.write
      [] at[c] = "readback" -> tool.back

\* Between its requests a tool does not wait, and no deadline can drop it.
Waits(c) ==
    /\ stage[c] = "running"
    /\ CASE at[c] = "start" -> FALSE
         [] at[c] \in {"look", "find"} -> pos[c] <= Len(Reads(c))
         [] at[c] = "write" -> TRUE
         [] at[c] = "readback" ->
              /\ spent[c] < until[c]
              /\ tool.batch => pos[c] <= Len(reply[c]) /\ reply[c][pos[c]] # Nameless

\* A request leaves for the controller.
Emit(c, request) ==
    IF request.method = "GET" THEN UNCHANGED <<wire, writes>>
    ELSE wire' = wire \cup {c} /\ writes' = [writes EXCEPT ![c] = @ + 1]

-----------------------------------------------------------------------------
(* Answers.                                                                *)
Asked == {"requested"}
Before == {"before", "beforeResponse"}
Replied == {"response", "responseBody", "accepted", "vouchers"}
Seen == {"after", "afterResponse", "observed"}
Failed == {"readbackError", "readbackErrors"}

\* The tool answers a, with the given kinds of fields.
Conclude(c, a, kinds) ==
    LET had == kinds \cap FieldNames
    IN  \E output \in [had -> Sizes] :
            /\ shown' = [shown EXCEPT ![c] = [had |-> had, laid |-> Render(tool.layout, output)]]
            /\ Answer(c, a) /\ GoTo(c, "end")

\* The tool ends with an error, which is not laid out.
Refuse(c, a) == Answer(c, a) /\ GoTo(c, "end") /\ UNCHANGED shown

-----------------------------------------------------------------------------
\* The tool parses its input: the arguments its operation takes must be
\* given and no others, and their values must be in range.
Validate(c) ==
    /\ At(c, "start")
    /\ \/ \E given \in SUBSET (tool.shape \cup {"id", "body"}) :
             IF given = tool.shape THEN GoTo(c, "look") /\ UNCHANGED <<shell, shown>>
             ELSE Refuse(c, "invalid")
       \/ Refuse(c, "invalid")
    /\ UNCHANGED <<tool, tries, until, reply, verdict, acked, doubtful, ctrl>>

\* A read before the write is answered.
ReadDone(c) ==
    /\ Waits(c) /\ at[c] \in {"look", "find"}
    /\ pos' = [pos EXCEPT ![c] = @ + 1] /\ tries' = [tries EXCEPT ![c] = 0]
    /\ UNCHANGED <<shell, tool, at, until, reply, verdict, shown, acked, doubtful, ctrl>>

\* It fails, or what it shows does not fit the input (no such camera, a
\* device without an address, a guest of another name).
ReadFails(c) ==
    /\ Waits(c) /\ at[c] \in {"look", "find"}
    /\ \E a \in {"error", "invalid"} : Refuse(c, a)
    /\ UNCHANGED <<tool, tries, until, reply, verdict, acked, doubtful, ctrl>>

\* The pending request is turned away with 429 and sent again after a while.
Throttled(c) ==
    /\ Waits(c) /\ Retried(Pending(c)) /\ tries[c] = 0
    /\ tries' = [tries EXCEPT ![c] = 1]
    /\ Emit(c, Pending(c))
    /\ UNCHANGED <<shell, tool, at, pos, until, reply, verdict, shown, acked, doubtful, world,
                   granted, edits, effect, landed, disturbed>>

\* Without confirm the tool answers with the plan.
Plan(c) ==
    /\ At(c, "look") /\ pos[c] > Len(tool.looks)
    /\ \/ Conclude(c, "preview", Asked \cup Before \cup {"transaction"})
       \/ GoTo(c, "find") /\ UNCHANGED <<shell, shown>>
    /\ UNCHANGED <<tool, tries, until, reply, verdict, acked, doubtful, ctrl>>

\* The write goes out.
Send(c) ==
    /\ At(c, "find") /\ pos[c] > Len(tool.finds)
    /\ GoTo(c, "write")
    /\ Emit(c, tool.write)
    /\ UNCHANGED <<shell, tool, tries, until, reply, verdict, shown, acked, doubtful, world,
                   granted, edits, effect, landed, disturbed>>

\* The name under which the resource is looked up afterwards.
ReadbackName(r) == IF tool.named = "given" THEN 1 ELSE r[1]

\* The verdict on a batch starts from the number of vouchers returned.
FirstVerdict(r) ==
    IF ~tool.batch THEN "none" ELSE IF Len(r) = BatchSize THEN "yes" ELSE "no"

\* The controller acknowledges the write: read back, or answer at once when
\* there is nothing to read back, no name for it, or no time.
WriteAcknowledged(c) ==
    /\ At(c, "write") /\ c \in landed
    /\ acked' = IF answer[c] = "none" THEN acked \cup {c} ELSE acked
    /\ \E r \in Replies :
          /\ reply' = [reply EXCEPT ![c] = r]
          /\ verdict' = [verdict EXCEPT ![c] = FirstVerdict(r)]
          /\ doubtful' = IF Faithful(r) THEN doubtful ELSE doubtful \cup {c}
          /\ IF tool.batch
             THEN /\ until' = [until EXCEPT ![c] = spent[c] + ReadbackBudget(spent[c])]
                  /\ GoTo(c, "readback") /\ UNCHANGED <<shell, shown>>
             ELSE IF tool.back = Nothing
             THEN Conclude(c, "applied", Asked \cup Before \cup Replied) /\ UNCHANGED until
             ELSE IF ReadbackName(r) = Nameless \/ ReadbackBudget(spent[c]) = 0
             THEN Conclude(c, "applied", Asked \cup Before \cup Replied \cup Failed)
                  /\ UNCHANGED until
             ELSE /\ until' = [until EXCEPT ![c] = spent[c] + ReadbackBudget(spent[c])]
                  /\ GoTo(c, "readback") /\ UNCHANGED <<shell, shown>>
    /\ tries' = [tries EXCEPT ![c] = 0]
    /\ UNCHANGED <<tool, ctrl>>

\* The acknowledgement is not what the client insists on: the answer is an
\* error that carries the complete reply.
WriteUndecodable(c) ==
    /\ At(c, "write") /\ c \in landed /\ tool.write.insists # "any"
    /\ acked' = IF answer[c] = "none" THEN acked \cup {c} ELSE acked
    /\ Refuse(c, "undecodable")
    /\ UNCHANGED <<tool, tries, until, reply, verdict, doubtful, ctrl>>

\* The write is rejected, or its answer is lost: the controller may have
\* carried it out, may never, or may do so later.
WriteFails(c) ==
    /\ At(c, "write")
    /\ Refuse(c, "error")
    /\ wire' \in {wire, wire \ {c}}
    /\ UNCHANGED <<tool, tries, until, reply, verdict, acked, doubtful, world, granted, edits,
                   writes, effect, landed, disturbed>>

-----------------------------------------------------------------------------
\* What a reading of item i may show.
ViewsOf(c, i) ==
    (IF world[c][i] = "absent" THEN {"missing"} ELSE {world[c][i], "unclear"})
        \cup (IF tool.back.insists = "json" THEN {"another"} ELSE {})

\* How a reading is judged, and what a positive verdict promises: where the
\* reply states a grant, that this is the grant.
Judge(c) == IF tool.ack = "grants" THEN Granted(granted[c]) ELSE tool.judge
Goal(c) == IF tool.ack = "grants" THEN {granted[c]} ELSE tool.goal

\* The verdict on a reading of a single resource.
Conclusion(c, view) ==
    LET agrees == \/ tool.ack \in {"ignored", "grants"}
                  \/ reply[c] = <<1>>
                  \/ tool.ack = "agrees" /\ reply[c] = <<Nameless>>
    IN  IF Judge(c)[view] = "yes" /\ ~agrees THEN "no" ELSE Judge(c)[view]

\* The resource is read back and judged.
Readback(c) ==
    /\ At(c, "readback") /\ ~tool.batch
    /\ \E view \in ViewsOf(c, 1) :
          /\ verdict' = [verdict EXCEPT ![c] = Conclusion(c, view)]
          /\ doubtful' = IF view \in {"another", "unclear"} THEN doubtful \cup {c} ELSE doubtful
          /\ Conclude(c, "applied", Asked \cup Before \cup Replied
                                        \cup (IF view = "missing" THEN Failed ELSE Seen))
    /\ UNCHANGED <<tool, tries, until, reply, acked, ctrl>>

\* The read-back fails or its budget is used up: the write is reported
\* without a verdict.
ReadbackFails(c) ==
    /\ At(c, "readback") /\ ~tool.batch
    /\ Conclude(c, "applied", Asked \cup Before \cup Replied \cup Failed)
    /\ UNCHANGED <<tool, tries, until, reply, verdict, acked, doubtful, ctrl>>

-----------------------------------------------------------------------------
(* verify_created_vouchers_before_deadline: one deadline for all.          *)
Voucher(c) == reply[c][pos[c]]
Repeated(c) == \E i \in 1..(pos[c] - 1) : reply[c][i] = Voucher(c)
InBatch(c) == At(c, "readback") /\ tool.batch /\ pos[c] <= Len(reply[c])
Downgrade(c, bad) == verdict' = [verdict EXCEPT ![c] = IF bad THEN "no" ELSE @]
NextVoucher(c) == pos' = [pos EXCEPT ![c] = @ + 1] /\ tries' = [tries EXCEPT ![c] = 0]

\* A voucher without an id or a code is not looked up.
SkipVoucher(c) ==
    /\ InBatch(c) /\ Voucher(c) = Nameless
    /\ Downgrade(c, TRUE) /\ NextVoucher(c)
    /\ UNCHANGED <<shell, tool, at, until, reply, shown, acked, doubtful, ctrl>>

\* Mutant: a voucher that is returned twice counts twice.
ReadVoucherTwice(c) ==
    /\ InBatch(c) /\ Voucher(c) # Nameless /\ spent[c] < until[c]
    /\ \E view \in ViewsOf(c, Voucher(c)) :
          /\ Downgrade(c, tool.judge[view] # "yes")
          /\ doubtful' = IF view \in {"another", "unclear"} THEN doubtful \cup {c} ELSE doubtful
    /\ NextVoucher(c)
    /\ UNCHANGED <<shell, tool, at, until, reply, shown, acked, ctrl>>
\* A voucher is read back with the id and the code that were returned.
ReadVoucher(c) ==
    /\ InBatch(c) /\ Voucher(c) # Nameless /\ spent[c] < until[c]
    /\ \E view \in ViewsOf(c, Voucher(c)) :
          /\ Downgrade(c, Repeated(c) \/ tool.judge[view] # "yes")
          /\ doubtful' = IF view \in {"another", "unclear"} THEN doubtful \cup {c} ELSE doubtful
    /\ NextVoucher(c)
    /\ UNCHANGED <<shell, tool, at, until, reply, shown, acked, ctrl>>

\* Reading it fails, and the next one is tried.
ReadVoucherFails(c) ==
    /\ InBatch(c) /\ Voucher(c) # Nameless /\ spent[c] < until[c]
    /\ Downgrade(c, TRUE) /\ doubtful' = doubtful \cup {c} /\ NextVoucher(c)
    /\ UNCHANGED <<shell, tool, at, until, reply, shown, acked, ctrl>>

\* The deadline ends the verification where it is.
VouchersCutOff(c) ==
    /\ InBatch(c) /\ Voucher(c) # Nameless /\ spent[c] >= until[c]
    /\ Downgrade(c, TRUE) /\ doubtful' = doubtful \cup {c}
    /\ Conclude(c, "applied", Asked \cup Replied \cup Failed)
    /\ UNCHANGED <<tool, tries, until, reply, acked, ctrl>>

VouchersDone(c) ==
    /\ At(c, "readback") /\ tool.batch /\ pos[c] > Len(reply[c])
    /\ Conclude(c, "applied", Asked \cup Replied \cup Failed)
    /\ UNCHANGED <<tool, tries, until, reply, verdict, acked, doubtful, ctrl>>

-----------------------------------------------------------------------------
(* The controller and everybody else.                                      *)

\* What a write may make of a resource: all, nothing, or something else.
Outcomes(condition) ==
    (IF tool.goal = {"absent"} THEN {"absent"} ELSE {"asked"})
        \cup {condition} \cup (IF condition = "absent" /\ tool.named = "given" THEN {} ELSE {"other"})

\* The controller carries out a write, now or after its sender has gone, and
\* states of a grant what it likes.
Land(c) ==
    /\ c \in wire
    /\ \E made \in [Items -> Conditions] :
          /\ \A i \in Items : made[i] \in Outcomes(world[c][i])
          /\ world' = [world EXCEPT ![c] = made]
          /\ effect' = [effect EXCEPT ![c] = made]
    /\ \E g \in Grants : /\ tool.ack # "grants" => g = granted[c]
                         /\ granted' = [granted EXCEPT ![c] = g]
    /\ wire' = wire \ {c}
    /\ landed' = landed \cup {c}
    /\ UNCHANGED <<shell, tool, work, edits, writes, disturbed>>

\* Somebody else changes a resource of a running call.
Edit(c) ==
    /\ edits < MaxEdits /\ stage[c] = "running"
    /\ \E i \in Items, v \in Conditions :
          world[c][i] # v /\ world' = [world EXCEPT ![c][i] = v]
    /\ edits' = edits + 1
    /\ disturbed' = IF c \in landed THEN disturbed \cup {c} ELSE disturbed
    /\ UNCHANGED <<shell, tool, work, wire, granted, writes, effect, landed>>

\* A tool is dropped where it waits, or goes on; a write that is out stays
\* out.
Drops(c) ==
    /\ stage[c] = "running" => Waits(c)
    /\ at' = [at EXCEPT ![c] = IF stage'[c] = "done" THEN "end" ELSE @]
    /\ UNCHANGED <<tool, pos, tries, until, reply, verdict, shown, acked, doubtful, ctrl>>

Deadline(c) == (HttpTimeout(c) \/ HandlerTimeout(c)) /\ Drops(c)

CallerLeaves(c) == HangUp(c) /\ Drops(c)

\* Time passes while a request is pending.
Tick ==
    /\ \A c \in Calls : stage[c] = "running" => Waits(c)
    /\ ShellTick
    /\ UNCHANGED <<tool, work, ctrl>>

Enter(c) ==
    /\ Arrive(c) \/ TakeSlot(c) \/ Reject(c) \/ Admit(c)
    /\ UNCHANGED <<tool, work, ctrl>>

Work(c) ==
    \/ Validate(c) \/ ReadDone(c) \/ ReadFails(c) \/ Throttled(c) \/ Plan(c) \/ Send(c)
    \/ WriteAcknowledged(c) \/ WriteUndecodable(c) \/ WriteFails(c)
    \/ Readback(c) \/ ReadbackFails(c)
    \/ SkipVoucher(c) \/ ReadVoucher(c) \/ ReadVoucherFails(c) \/ VouchersCutOff(c)
    \/ VouchersDone(c)

Next ==
    \/ \E c \in Calls :
          Enter(c) \/ Work(c) \/ Deadline(c) \/ CallerLeaves(c) \/ Land(c) \/ Edit(c)
    \/ Tick

Spec == Init /\ [][Next]_vars

-----------------------------------------------------------------------------
\* A caller who waits while the controller acknowledges the write, and does
\* not hang up afterwards, hears of it, as applied or with the controller's
\* complete reply, whatever becomes of the read-back ("Reserve time to shape
\* and return the creation result", tools.rs): no deadline eats the answer.
AcknowledgedIsReported ==
    \A c \in acked : answer[c] # "none" => answer[c] \in {"applied", "undecodable", "hung_up"}

\* When nobody else touched the resources after the write, a positive
\* verdict means that the write left every resource of the call as the
\* verdict promises: as asked, gone, there under its name (or the id and the
\* code of a voucher), or with the grant that the reply states.  And a
\* negative one means that it did not, unless the controller's own reply or
\* reading was of something else (a voucher batch may also be cut off by its
\* deadline).
VerdictIsGrounded ==
    \A c \in landed \ disturbed :
        /\ verdict[c] = "yes" /\ answer[c] = "applied" => \A i \in Items : effect[c][i] \in Goal(c)
        /\ verdict[c] = "no" /\ answer[c] = "applied" /\ c \notin doubtful =>
              \E i \in Items : effect[c][i] \notin Goal(c)

\* Answers that deny having acted.
Denials == {"rejected", "busy", "invalid", "preview"}

\* However often its requests are turned away, a call sends one mutation
\* ("never retried after an ambiguous transport result", client.rs); and a
\* call whose answer denies having acted sends none, then or later.
WritesAsReported ==
    \A c \in Calls :
        /\ writes[c] <= 1
        /\ answer[c] \in Denials => writes[c] = 0 /\ c \notin wire \cup landed

\* Laying out an answer loses nothing: every field the answer had is in the
\* structured part or in the content, never both, and what moved is marked;
\* and the structured part exceeds its target only when nothing is left to
\* move (..._result in tools.rs).
AnswerIsWhole ==
    \A c \in Calls :
        LET s == shown[c]
            structured == DOMAIN s.laid.structured
        IN  s # NotShown =>
            /\ structured \cup s.laid.content = s.had
            /\ structured \cap s.laid.content = {}
            /\ s.laid.marked = s.laid.content
            /\ Exceeds(s.laid) => structured = {}

-----------------------------------------------------------------------------
(* What makes the properties inductive.                                    *)

\* A tool starts at its beginning.
EntryInv(c) == stage[c] \in {"new", "queued", "ingress"} => at[c] = "start"

\* While a read-back is waited for, the reserve has not begun.
BudgetInv(c) ==
    At(c, "readback") => /\ spent[c] <= until[c]
                         /\ spent[c] < until[c] => until[c] + Reserve <= RequestTimeout

\* An acknowledged write is being read back until its caller hears of it or
\* leaves.
AckedInv(c) ==
    c \in acked => IF answer[c] = "none" THEN At(c, "readback")
                   ELSE answer[c] \in {"applied", "undecodable", "hung_up"}

ReportInv == ShellInv /\ \A c \in Calls : EntryInv(c) /\ BudgetInv(c) /\ AckedInv(c)

\* What follows from how far a call got: denials and success are final, and
\* there is one write, which is read back once it has landed.
ProgressInv(c) ==
    /\ EntryInv(c)
    /\ at[c] = "end" => stage[c] = "done"
    /\ answer[c] \in Denials => writes[c] = 0
    /\ answer[c] \in Denials \cup {"applied"} => stage[c] = "done"
    /\ writes[c] <= 1
    /\ at[c] \in {"start", "look", "find"} => writes[c] = 0
    /\ writes[c] = 0 => c \notin wire \cup landed
    /\ c \in landed => c \notin wire
    /\ At(c, "readback") => c \in landed /\ tool.back # Nothing
    /\ verdict[c] # "none" => c \in landed /\ at[c] \in {"readback", "end"}

\* What the read-back of an undisturbed call has established: of a single
\* resource nothing before the end, of a batch that the vouchers up to pos
\* are different ones and as they should be.
BatchInv(c) ==
    At(c, "readback") =>
        /\ c \notin doubtful => Faithful(reply[c])
        /\ ~tool.batch => verdict[c] = "none"
        /\ tool.batch =>
              /\ \A i \in DOMAIN reply[c] : reply[c][i] \in Items \cup {Nameless}
              /\ verdict[c] # "none" /\ pos[c] <= Len(reply[c]) + 1
              /\ verdict[c] = "yes" =>
                    /\ Len(reply[c]) = BatchSize
                    /\ \A i \in 1..(pos[c] - 1) :
                          /\ reply[c][i] # Nameless
                          /\ c \notin disturbed => effect[c][reply[c][i]] \in tool.goal
                          /\ \A j \in 1..(i - 1) : reply[c][i] # reply[c][j]

\* The resources stay as the write left them unless somebody else is there,
\* and the verdict on them is right.
GroundInv(c) ==
    c \in landed \ disturbed =>
        /\ world[c] = effect[c]
        /\ verdict[c] = "yes" /\ answer[c] = "applied" =>
              \A i \in Items : effect[c][i] \in Goal(c)
        /\ verdict[c] = "no" /\ c \notin doubtful =>
              \E i \in Items : effect[c][i] \notin Goal(c)

CallInv(c) == ProgressInv(c) /\ BatchInv(c) /\ GroundInv(c)
=============================================================================
