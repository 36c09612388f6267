------------------------------ MODULE ReadTools ------------------------------
(***************************************************************************)
(* The tools that read.  A caller calls one tool and, where its answer     *)
(* carries a continuation, calls it again with it until there is none: a   *)
(* walk.  A call takes the tool's course, one request or decision after    *)
(* the other, and answers from what it has read.                           *)
(*                                                                         *)
(* The collection a walk is over lives on the controller, which is         *)
(* external.  It serves short pages, misreports what a page is, returns    *)
(* whole lists in another order with every call, knows some cameras only   *)
(* in one of its two APIs, and is edited by others while the walk goes on. *)
(*                                                                         *)
(* One request here is a request with the retry and the new login its      *)
(* client may need (LegacySession has those).                              *)
(***************************************************************************)
EXTENDS Pages, Endpoints, Registry

CONSTANTS
    Tools,        \* the tools a run considers
    Ids,          \* ids of rows, a set of numbers
    Present,      \* how many of them there are at first
    Keys,         \* names and times, a set of numbers; some are ids too
    Wanted,       \* the ids a filter matches
    Limits,       \* the limits a caller asks for
    Selectors,    \* the ids and names a caller selects by
    Cap,          \* MAXIMUM_INTEGRATION_LIMIT, MAXIMUM_VOUCHER_LIMIT
    ScanLimit,    \* page size of a scan
    Ceiling,      \* ..._SCAN_CEILING, DEVICE_INVENTORY_CEILING
    LogFetch,     \* EVENT_FETCH_LIMIT
    Start,        \* start of the event window; its end is the last key
    MaxMessages,  \* maxMessages of protect.updates
    MaxBytes,     \* maxBytes of protect.updates
    MaxEdits,     \* bound: edits by somebody else
    None          \* no selector, no choice

ASSUME ReadToolsAssumption ==
    /\ Ids \subseteq Nat /\ Keys \subseteq Nat /\ Wanted \subseteq Ids
    /\ IsFiniteSet(Ids) /\ IsFiniteSet(Keys) /\ Keys # {} /\ Start \in Keys
    /\ Limits \subseteq Nat \ {0} /\ Selectors \subseteq Ids \cup Keys
    /\ {Cap, ScanLimit, Ceiling, LogFetch, MaxMessages, MaxBytes} \subseteq Nat \ {0}
    /\ Present \in Nat /\ 1..Present \subseteq Ids /\ MaxEdits \in Nat

VARIABLES
    runtime,   \* the surface the server was started for
    ask,       \* what the caller asks, once it has
    rows,      \* the collection: ids in the controller's order
    key,       \* the name or time of each row
    gone,      \* the rows that have been removed
    edits,     \* edits so far
    phase,     \* of the walk
    cursor,    \* the continuation of the next call
    got,       \* ids returned so far
    flagged,   \* an answer has said that something is missing
    chosen,    \* the row a selector picked
    step,      \* position in the tool's course
    read,      \* rows read in this call
    next,      \* continuation found in the page that was read
    cut,       \* this call's reading is known to be incomplete
    local,     \* what the console's local API showed of the cameras
    trust,     \* the worst a page of this walk has misreported
    shuffled,  \* a whole list came in another order
    taken      \* messages taken off the socket

asked == <<runtime, ask>>
world == <<rows, key, gone, edits>>
walk == <<phase, cursor, got, flagged, chosen>>
call == <<step, read, next, cut, local>>
history == <<trust, shuffled, taken>>
vars == <<asked, world, walk, call, history>>

IdsOf(s) == {s[n].id : n \in DOMAIN s}
Row(i) == [id |-> i, key |-> key[i]]
Reading(s) == [n \in DOMAIN s |-> Row(s[n])]
There == {rows[n] : n \in DOMAIN rows}
\* The rows that have been there since the start.
Kept == 1..Present \ gone
LastKey == Max(Keys)

-----------------------------------------------------------------------------
(* Courses.                                                                *)
Step(role, request) == [role |-> role, request |-> request, rule |-> "none", when |-> "always"]
\* A request whose failure ends the call, or only leaves a gap.
Must(request) == Step("must", request)
May(request) == Step("may", request)
\* The rows of the collection, and how they are read.
Rows(how, request) == Step(how, request)
\* The second view of the cameras.
Local(request) == Step("local", request)
\* The selector is resolved.
Pick(rule) == [Step("pick", None) EXCEPT !.rule = rule]
\* "sometimes": not every call needs it; "local", "noLocal": only with, or
\* only without, what the local API knows.
When(s, condition) == [s EXCEPT !.when = condition]
Sometimes(s) == When(s, "sometimes")

\* kind: of the registry; finish: how the rows become an answer; order: how
\* they are sorted first; filters: what a filter may look at.
Tool == [kind |-> "NetworkOverview", course |-> << >>, finish |-> "record", order |-> "none",
         filters |-> {"none"}]

\* A tool that reads records and no collection.
Record(kind, course) == [Tool EXCEPT !.kind = kind, !.course = course]
\* A list that is fetched whole and cut by the server.
Window(kind, course, order, filters) ==
    [Tool EXCEPT !.kind = kind, !.course = course, !.finish = "window", !.order = order,
                 !.filters = filters \cup {"none"}]
\* A page of the controller.
Paged(kind, course) == [Tool EXCEPT !.kind = kind, !.course = course, !.finish = "asRead"]

-----------------------------------------------------------------------------
(* The tools of a controller.                                              *)
NetworkOverview ==
    Record("NetworkOverview",
           <<Must(Info), Must(SiteHealth), Must(SystemLog), Must(SystemLog), Must(Sites),
             Must(Devices), Must(ClientsPage)>>)
\* device_names_by_mac runs only when a returned row has an access point.
ClientsSearch ==
    Window("ClientsSearch", <<Rows("whole", ActiveClients), Sometimes(Must(Devices))>>,
           "nameAndId", {"plain"})
ClientsContext ==
    Record("ClientsContext",
           <<Rows("whole", ActiveClients), Pick("client"), Sometimes(Must(Devices)),
             Must(SystemLog)>>)
\* device_inventory
DeviceInventory == <<Must(Sites), Rows("scan", Devices)>>
DevicesSearch == Window("DevicesSearch", DeviceInventory, "nameAndId", {"plain"})
DevicesStatus ==
    Record("DevicesStatus",
           DeviceInventory \o <<Pick("device"), Must(DeviceDetail), May(DeviceStatistics)>>)
PendingDevicesList == Paged("PendingDevicesList", <<Rows("page", PendingDevices)>>)

\* capability::detect asks for the version and probes the zones.
FirewallGeneration == <<Must(Sites), Must(Info), Must(FirewallZones)>>
\* A narrowed read can be continued; the unnarrowed one says what was cut.
ZonesSection == Rows("section", FirewallZones)
PoliciesSection == Rows("section", FirewallPolicies)
PortForwardsSection == Must(PortForwards)
TrafficRulesSection == Must(TrafficRules)
TrafficRoutesSection == Must(TrafficRoutes)
FirewallRead(section) ==
    CASE section = "zones" ->
            [Paged("FirewallRead", FirewallGeneration \o <<ZonesSection>>)
                EXCEPT !.finish = "section"]
      [] section = "policies" ->
            [Paged("FirewallRead", FirewallGeneration \o <<PoliciesSection>>)
                EXCEPT !.finish = "section"]
      [] section = "portForwards" -> Record("FirewallRead", <<PortForwardsSection>>)
      [] section = "trafficRules" -> Record("FirewallRead", <<TrafficRulesSection>>)
      [] section = "trafficRoutes" -> Record("FirewallRead", <<TrafficRoutesSection>>)
      [] section = "all" ->
            Paged("FirewallRead",
                  FirewallGeneration \o
                  <<Must(FirewallZones), Rows("scan", FirewallPolicies), PortForwardsSection,
                    TrafficRulesSection, TrafficRoutesSection>>)

NetworksRead == Record("NetworksRead", <<Must(Networks), Sometimes(Must(Wlans))>>)
NetworksList == Paged("NetworksList", <<Must(Sites), Rows("page", NetworkRecords)>>)
NetworksStatus ==
    Record("NetworksStatus",
           <<Must(Sites), Must(NetworkRecord), Sometimes(May(NetworkReferences))>>)
NetworkInventoryList(kind) ==
    CASE kind = "site" -> Paged("NetworkInventoryList", <<Must(Sites), Rows("page", SiteInventory)>>)
      [] kind = "sites" -> Paged("NetworkInventoryList", <<Rows("page", SiteRecords)>>)
      [] kind = "countries" -> Paged("NetworkInventoryList", <<Rows("page", Countries)>>)
      [] kind = "dpi" -> Paged("NetworkInventoryList", <<Rows("page", DpiCatalog)>>)
      [] kind = "dpiFiltered" -> Paged("NetworkInventoryList", <<Rows("catalog", DpiCatalog)>>)
NetworkInventoryDetail(kind) ==
    Record("NetworkInventoryDetail",
           IF kind = "applicationInfo" THEN <<Must(Info)>>
           ELSE <<Must(Sites), Must(InventoryDetail)>>)
NetworkSwitchingDetail == Record("NetworkSwitchingDetail", <<Must(Sites), Must(SwitchingDetail)>>)
NetworkPolicyList == Paged("NetworkPolicyList", <<Must(Sites), Rows("page", NetworkPolicyPage)>>)
NetworkPolicyDetailRead ==
    Record("NetworkPolicyDetail", <<Must(Sites), Must(NetworkPolicyDetail)>>)
AclRulesOrderingRead == Record("AclRulesOrderingRead", <<Must(Sites), Must(AclRuleOrdering)>>)
FirewallPoliciesOrderingRead ==
    Record("FirewallPoliciesOrderingRead", <<Must(Sites), Must(FirewallPolicyOrdering)>>)
RadiusProfilesList ==
    Paged("RadiusProfilesList", <<Must(Sites), Rows("page", RadiusProfileRecords)>>)
WifiBroadcastsList ==
    Paged("WifiBroadcastsList", <<Must(Sites), Rows("page", WifiBroadcastRecords)>>)
WifiBroadcastsStatus == Record("WifiBroadcastsStatus", <<Must(Sites), Must(WifiBroadcast)>>)
NetworkSourceRead ==
    Window("NetworkSourceRead", <<Rows("whole", DiagnosticRecords)>>, "none", {})
PortForwardsList == Window("PortForwardsList", <<Rows("whole", PortForwardRecords)>>, "none", {})
PortForwardsStatus == Record("PortForwardsStatus", <<Must(PortForwardRecord)>>)
WlansList == Window("WlansList", <<Rows("whole", WlanRecords)>>, "none", {})
WlansStatus == Record("WlansStatus", <<Must(WlanRecord)>>)
WlanGroupsList(kind) ==
    Window("WlanGroupsList",
           <<Rows("whole", CASE kind = "users" -> UserGroups
                             [] kind = "wlans" -> WlanGroups
                             [] kind = "accessPoints" -> ApGroups)>>, "none", {})
\* integration_client_id, then guest_detail
GuestsStatus ==
    Record("GuestsStatus",
           <<Must(Sites), Rows("scan", ClientsPage), Pick("address"), Must(ClientDetail)>>)
VouchersSearch == Paged("VouchersSearch", <<Must(Sites), Rows("vouchers", VoucherRecords)>>)
VouchersStatus == Record("VouchersStatus", <<Must(Sites), Must(VoucherWithResponse)>>)
\* rogue_section comes last; device details are read for the first
\* AP_DETAIL_CEILING devices.
RogueSection == Must(RogueAps)
WifiDiagnose ==
    [Record("WifiDiagnose",
            <<Must(ActiveClients)>> \o DeviceInventory
                \o <<Sometimes(Must(DeviceDetail)), RogueSection>>) EXCEPT !.finish = "bounded"]
EventsSearch == Window("EventsSearch", <<Rows("logWindow", SystemLog)>>, "newest", {"plain"})
EventsRead == Paged("EventsRead", <<Rows("log", SystemLog)>>)
\* activity_names; each of its two look-ups may fail.
ActivityNames == <<Sometimes(May(DpiNames)), Sometimes(May(DpiNames))>>
ReconcileActivity == Must(HourlyWanReport)
ActivityStats(first) == <<first, Must(ActivityBuckets), ReconcileActivity>>
StatsQuery(report) ==
    CASE report = "wanHourly" -> Record("StatsQuery", <<Must(HourlyWanReport)>>)
      [] report = "clientWanHistory" ->
            Window("StatsQuery", ActivityStats(Rows("whole", ActivityWithResponse)), "nameAndId", {})
      [] report = "dpiApplications" ->
            Record("StatsQuery", ActivityStats(Must(ActivityWithResponse)) \o ActivityNames)
\* dpiApplications of a controller without the activity report
DpiStats == Record("StatsQuery", <<Must(ActivityWithResponse), Must(DpiByApplication)>>)
TrafficRead == Record("TrafficRead", <<May(TrafficSource)>>)

-----------------------------------------------------------------------------
(* The tools of a console.                                                 *)

\* camera_inventory
CameraInventory(scope) ==
    <<Must(ProtectInfo), Rows("whole", Cameras)>> \o
    CASE scope = "Public" -> << >>
      [] scope = "CameraNames" -> <<Local(ProtectCameraInventory)>>
      [] scope = "Full" -> <<Local(ProtectBootstrap), When(Must(Nvr), "local")>>
CameraByName == CameraInventory("CameraNames") \o <<Pick("camera")>>

CamerasSearch == Window("CamerasSearch", CameraInventory("Full"), "name", {"plain", "local"})
CamerasStatus == Record("CamerasStatus", CameraInventory("Full") \o <<Pick("camera")>>)
CamerasSettingsRead == Record("CamerasSettingsRead", CameraByName \o <<Must(CameraWithResponse)>>)
CamerasSnapshot == Record("CamerasSnapshot", CameraByName \o <<Must(CameraSnapshot)>>)
CamerasStreamsList == Record("CamerasStreamsList", CameraByName \o <<Must(CameraStreams)>>)
ProtectOverview(view) ==
    CASE view = "applicationInfo" -> Record("ProtectOverview", <<Must(InfoRecord)>>)
      [] view = "recorder" -> Record("ProtectOverview", <<Must(NvrRecord)>>)
      [] view = "summary" ->
            Record("ProtectOverview", CameraInventory("Full") \o <<When(Must(Nvr), "noLocal")>>)
ProtectDevicesList == Window("ProtectDevicesList", <<Rows("whole", ProtectDevices)>>, "none", {})
ProtectDevicesStatus == Record("ProtectDevicesStatus", <<Must(ProtectDevice)>>)
ProtectArmProfilesList == Window("ProtectArmProfilesList", <<Rows("whole", ArmProfiles)>>, "none", {})
ProtectUsersList == Window("ProtectUsersList", <<Rows("whole", Users)>>, "none", {})
ProtectUsersStatus == Record("ProtectUsersStatus", <<Must(User)>>)
ProtectViewersList == Window("ProtectViewersList", <<Rows("whole", Viewers)>>, "none", {})
ProtectViewersStatus == Record("ProtectViewersStatus", <<Must(Viewer)>>)
ProtectLiveviewsList == Window("ProtectLiveviewsList", <<Rows("whole", Liveviews)>>, "none", {})
ProtectLiveviewsStatus == Record("ProtectLiveviewsStatus", <<Must(Liveview)>>)
ProtectAssetsList == Window("ProtectAssetsList", <<Rows("whole", AnimationAssets)>>, "none", {})
ProtectEventThumbnailRead == Record("ProtectEventThumbnail", <<Must(ProtectEventThumbnail)>>)
\* The walk over the events, and the choice of the camera they are of.
ProtectEvents ==
    Paged("ProtectEvents", <<Must(ProtectInfo), Must(Cameras), Rows("events", ProtectEventsRead)>>)
ProtectEventsOfCamera ==
    Record("ProtectEvents",
           CameraInventory("Public")
               \o <<Step("names", ProtectCameraInventory), Pick("eventCamera"),
                    Must(ProtectEventsRead)>>)
ProtectUpdates == Paged("ProtectUpdates", <<Rows("socket", SubscriptionSocket)>>)

\* The tools that read, in each of their forms.
ReadingTools ==
    {NetworkOverview, ClientsSearch, ClientsContext, DevicesSearch, DevicesStatus,
     PendingDevicesList, NetworksRead, NetworksList, NetworksStatus, NetworkSwitchingDetail,
     NetworkPolicyList, NetworkPolicyDetailRead, AclRulesOrderingRead,
     FirewallPoliciesOrderingRead, RadiusProfilesList, WifiBroadcastsList,
     WifiBroadcastsStatus, NetworkSourceRead, PortForwardsList, PortForwardsStatus, WlansList,
     WlansStatus, GuestsStatus, VouchersSearch, VouchersStatus, WifiDiagnose, EventsSearch,
     EventsRead, DpiStats, TrafficRead, CamerasSearch, CamerasStatus, CamerasSettingsRead,
     CamerasSnapshot, CamerasStreamsList, ProtectDevicesList, ProtectDevicesStatus,
     ProtectArmProfilesList, ProtectUsersList, ProtectUsersStatus, ProtectViewersList,
     ProtectViewersStatus, ProtectLiveviewsList, ProtectLiveviewsStatus, ProtectAssetsList,
     ProtectEventThumbnailRead, ProtectEvents, ProtectEventsOfCamera, ProtectUpdates}
    \cup {FirewallRead(s) : s \in {"zones", "policies", "portForwards", "trafficRules",
                                   "trafficRoutes", "all"}}
    \cup {NetworkInventoryList(k) : k \in {"site", "sites", "countries", "dpi", "dpiFiltered"}}
    \cup {NetworkInventoryDetail(k) : k \in {"applicationInfo", "client"}}
    \cup {WlanGroupsList(k) : k \in {"users", "wlans", "accessPoints"}}
    \cup {StatsQuery(r) : r \in {"wanHourly", "clientWanHistory", "dpiApplications"}}
    \cup {ProtectOverview(v) : v \in {"applicationInfo", "recorder", "summary"}}

-----------------------------------------------------------------------------
(* What the courses have in common.                                        *)
RowRoles == {"whole", "page", "vouchers", "catalog", "scan", "section", "log", "logWindow",
             "events", "socket"}
StepRecord ==
    [role : RowRoles \cup {"must", "may", "local", "names", "pick"},
     request : RequestRecord \cup {None},
     rule : {"none", "client", "device", "camera", "eventCamera", "address"},
     when : {"always", "sometimes", "local", "noLocal"}]
ToolRecord ==
    [kind : Registered, course : Seq(StepRecord),
     finish : {"record", "asRead", "section", "bounded", "window"},
     order : {"none", "name", "nameAndId", "newest"}, filters : SUBSET {"none", "plain", "local"}]

Uses(tool, role) == \E n \in DOMAIN tool.course : tool.course[n].role = role
\* Step n of the course comes after one of that role.
Behind(tool, n, role) == \E m \in 1..(n - 1) : tool.course[m].role = role

\* How the rows of an answer may have been read.
Sources(finish) ==
    CASE finish = "record" -> {"whole", "scan"}
      [] finish = "asRead" -> {"page", "vouchers", "catalog", "scan", "log", "events", "socket"}
      [] finish = "section" -> {"section"}
      [] finish = "bounded" -> {"scan"}
      [] finish = "window" -> {"whole", "scan", "logWindow"}

\* The collection is read once in a call, in a way that fits the answer, and
\* before it is compared or picked from; only further sources are optional.
StepFits(tool, n) ==
    LET s == tool.course[n]
    IN  /\ s.role \in RowRoles =>
              /\ s.role \in Sources(tool.finish)
              /\ \A m \in DOMAIN tool.course : tool.course[m].role \in RowRoles => m = n
        /\ s.role \notin {"must", "may"} => s.when = "always"
        /\ s.role \in {"local", "names"} => Behind(tool, n, "whole")
        /\ s.role = "names" => tool.finish = "record" /\ ~Uses(tool, "local")
        /\ s.role = "pick" =>
              /\ tool.finish = "record" /\ s.rule # "none"
              /\ s.rule \in {"client", "camera", "eventCamera"} => Behind(tool, n, "whole")
              /\ s.rule \in {"device", "address"} => Behind(tool, n, "scan")
              /\ s.rule \in {"client", "device"} => ~Uses(tool, "local") /\ ~Uses(tool, "names")
              /\ s.rule = "camera" => Behind(tool, n, "local")
              /\ s.rule = "eventCamera" => Behind(tool, n, "names")

CourseFits(tool) ==
    /\ \A n \in DOMAIN tool.course : StepFits(tool, n)
    /\ tool.finish # "record" => \E role \in RowRoles : Uses(tool, role)
    /\ tool.finish # "window" => tool.filters = {"none"} /\ tool.order = "none"
    /\ "local" \in tool.filters => Uses(tool, "local")

ASSUME CourseAssumption == \A t \in Tools : t \in ToolRecord /\ CourseFits(t)

-----------------------------------------------------------------------------
(* State.                                                                  *)
NoAsk == [tool |-> Tool, limit |-> 1, filter |-> "none", selector |-> None,
          local |-> FALSE, public |-> {}]
NoLocal == [state |-> "off", ids |-> {}]

Course == ask.tool.course
Cur == Course[step]
Busy == phase = "walking" /\ step <= Len(Course)
At(role) == Busy /\ Cur.role = role

Init ==
    /\ runtime \in Surfaces /\ ask = NoAsk
    /\ rows = [n \in 1..Present |-> n]
    /\ \E f \in [1..Present -> Keys] :
          key = [i \in Ids |-> IF i \in 1..Present THEN f[i] ELSE Min(Keys)]
    /\ gone = {} /\ edits = 0
    /\ phase = "new" /\ cursor = 0 /\ got = << >> /\ flagged = FALSE /\ chosen = None
    /\ step = 1 /\ read = << >> /\ next = End /\ cut = FALSE /\ local = NoLocal
    /\ trust = "honest" /\ shuffled = FALSE /\ taken = 0

-----------------------------------------------------------------------------
(* A walk begins.                                                          *)

\* bound: names and times matter only to the tools that look at them.
KeysMatter(tool) ==
    tool.order # "none" \/ \E role \in {"pick", "events", "socket"} : Uses(tool, role)

\* UnifiMcp::call finds no such tool on this surface.
CallUnknown(tool) ==
    /\ phase = "new" /\ tool.kind \notin ToolsForSurface(runtime)
    /\ phase' = "unknown"
    /\ UNCHANGED <<asked, world, cursor, got, flagged, chosen, call, history>>

\* The tool is dispatched.  Protect events start at the end of the window.
Call(tool) ==
    /\ phase = "new" /\ tool.kind \in ToolsForSurface(runtime)
    /\ KeysMatter(tool) \/ \A i \in Ids : key[i] = Min(Keys)
    /\ \E limit \in IF tool.finish = "record" \/ Uses(tool, "socket") THEN {1} ELSE Limits,
          filter \in tool.filters,
          selector \in IF Uses(tool, "pick") THEN Selectors ELSE {None},
          configured \in IF Uses(tool, "local") \/ Uses(tool, "names") THEN BOOLEAN ELSE {FALSE},
          public \in IF Uses(tool, "local") THEN {Ids, Ids \ {2}} ELSE {Ids} :
             ask' = [tool |-> tool, limit |-> limit, filter |-> filter, selector |-> selector,
                     local |-> configured, public |-> public]
    /\ phase' = "walking"
    /\ cursor' = IF Uses(tool, "events") THEN LastKey ELSE 0
    /\ UNCHANGED <<runtime, world, got, flagged, chosen, call, history>>

-----------------------------------------------------------------------------
(* The steps of a call.                                                    *)
Advance == step' = step + 1
Refuse == phase' = "refused" /\ UNCHANGED <<asked, world, cursor, got, flagged, chosen, call, history>>

\* Whether the step applies to this call.
Skippable ==
    CASE Cur.when = "always" -> Cur.role = "names" /\ ask.selector \in IdsOf(read)
      [] Cur.when = "sometimes" -> TRUE
      [] Cur.when = "local" -> local.state \notin {"part", "full"}
      [] Cur.when = "noLocal" -> local.state \in {"part", "full"}
Applies ==
    CASE Cur.when = "always" -> ~Skippable
      [] Cur.when = "sometimes" -> TRUE
      [] OTHER -> ~Skippable

Skip ==
    /\ Busy /\ Skippable /\ Advance
    /\ UNCHANGED <<asked, world, walk, read, next, cut, local, history>>

\* Whether the request goes through a client the server was started with;
\* the accessors of handler.rs panic otherwise (unreachable!).
HasClient == ClientOf(Cur.request) = runtime

\* A request fails.  Only optional sources may.
Fail ==
    /\ Busy /\ Applies /\ Cur.role \notin {"may", "local", "pick", "socket"}
    /\ Refuse

\* A further source has answered, or failed and is reported as missing.
Aid ==
    /\ Busy /\ Applies /\ Cur.role \in {"must", "may"} /\ Advance
    /\ UNCHANGED <<asked, world, walk, read, next, cut, local, history>>

\* A whole list.
ReadWhole ==
    /\ At("whole") /\ Advance
    /\ \E order \in {rows, Reverse(rows)} :
          read' = Reading(order) /\ shuffled' = (shuffled \/ order # rows)
    /\ UNCHANGED <<asked, world, walk, next, cut, local, trust, taken>>

\* local_state: what the local API knows against what the public one listed.
LocalState(known, listed) == IF known = listed THEN "full" ELSE "part"
LocalViews(listed) ==
    {[state |-> LocalState(known, listed), ids |-> known] : known \in {There, There \ {1}}}
        \cup {[state |-> "down", ids |-> {}]}
Views(listed) == IF ask.local THEN LocalViews(listed) ELSE {NoLocal}

\* The local half of camera_inventory.
ReadLocal ==
    /\ At("local") /\ Advance
    /\ local' \in Views(IdsOf(read))
    /\ UNCHANGED <<asked, world, walk, read, next, cut, history>>

\* reject_conflicting_camera_identity, reject_conflicting_recorder_identity
LocalConflicts == At("local") /\ ask.local /\ Refuse

\* protect_events_search reads the inventory again, with names, when the
\* selector is no id.
ReadNames ==
    /\ At("names") /\ Applies /\ Advance
    /\ read' = Reading(rows)
    /\ local' \in Views(There)
    /\ UNCHANGED <<asked, world, walk, next, cut, history>>

-----------------------------------------------------------------------------
(* The selector.                                                           *)
CameraRules == {"camera", "eventCamera"}

\* The rows whose name the call knows.
Named(rule) ==
    {i \in IdsOf(read) : rule \in CameraRules => i \in ask.public \cup local.ids}
KeyRead(i) == (CHOOSE n \in DOMAIN read : read[n].id = i)
Bearers(rule) == {i \in Named(rule) : read[KeyRead(i)].key = ask.selector}

\* Mutant: a name is taken from whatever part of the inventory was read.
NamesOfAnyPart(rule) == rule # "address"
\* Whether what was read can show that a name is borne only once.
NamesAreComplete(rule) ==
    CASE rule = "client" -> TRUE
      [] rule = "device" -> ~cut
      [] rule = "camera" -> local.state \notin {"part", "down"}
      [] rule = "eventCamera" -> local.state = "full"
      [] rule = "address" -> FALSE

\* select_devices, select_clients, camera_by_selector_ref, resolve_camera_id
\* and the search of integration_client_id: an identifier first.
Picked(rule) ==
    IF ask.selector \in IdsOf(read) THEN {ask.selector}
    ELSE IF NamesAreComplete(rule) /\ Cardinality(Bearers(rule)) = 1 THEN Bearers(rule)
    ELSE {}

Select ==
    /\ At("pick")
    /\ IF Picked(Cur.rule) = {} THEN Refuse
       ELSE /\ chosen' \in Picked(Cur.rule) /\ Advance
            /\ UNCHANGED <<asked, world, phase, cursor, got, flagged, read, next, cut, local, history>>

-----------------------------------------------------------------------------
(* Pages.  The controller's replies are external: pages that are right or  *)
(* short, and pages that are wrong about one thing.                        *)
RowsAt(offset, n) == Reading(SkipTake(rows, offset, n))
Reply(offset, limit, n) ==
    LET part == RowsAt(offset, n)
    IN  [offset |-> offset, limit |-> limit, count |-> Len(part), total |-> Len(rows), rows |-> part]

\* A catalogue's total may count rows the filter leaves out.
HonestReplies(offset, limit) ==
    LET short == {Reply(offset, limit, n) : n \in 1..limit}
    IN  IF At("catalog")
        THEN {[Reply(offset, limit, limit) EXCEPT !.total = @ + more] : more \in 0..1}
        ELSE short
OddReplies(offset, limit) ==
    LET full == Reply(offset, limit, limit)
    IN  {Reply(offset, limit, 0), Reply(offset + 1, limit, limit), Reply(offset, limit + 1, limit + 1),
         [full EXCEPT !.limit = 0], [full EXCEPT !.count = @ + 1], [full EXCEPT !.total = @ + 1],
         [full EXCEPT !.limit = limit + 1]}
UnderstatedReplies(offset, limit) ==
    {[Reply(offset, limit, limit) EXCEPT !.total = @ - 1]}

Worse(a, b) == IF "understated" \in {a, b} THEN "understated" ELSE IF "odd" \in {a, b} THEN "odd" ELSE "honest"

\* A page and how far it can be trusted.
Replies(offset, limit) ==
    {<<p, "honest">> : p \in HonestReplies(offset, limit)}
        \cup {<<p, "odd">> : p \in OddReplies(offset, limit) \ HonestReplies(offset, limit)}
        \cup {<<p, "understated">> : p \in IF rows = << >> THEN {} ELSE UnderstatedReplies(offset, limit)}

\* A tool that hands on the controller's page checks it first.
ReadPage ==
    \E how \in {"page", "vouchers", "catalog"} :
        /\ At(how)
        /\ LET limit == NativeLimit(ask.limit, Cap)
           IN \E reply \in Replies(cursor, limit) :
                 LET page == reply[1]
                 IN  IF ~Accepted(how, cursor, limit, page) THEN Refuse
                     ELSE /\ read' = page.rows /\ next' = PageNext(how, page) /\ Advance
                          /\ trust' = Worse(trust, reply[2])
                          /\ UNCHANGED <<asked, world, walk, cut, local, shuffled, taken>>

\* One page of a scan: device_inventory, paged_gather.
ScanPage ==
    \E how \in {"scan", "section"} :
        /\ At(how)
        /\ LET start == IF how = "section" THEN cursor ELSE 0
               offset == start + Len(read)
           IN \E reply \in Replies(offset, ScanLimit) :
                 LET page == reply[1]
                     over == ScanOver(offset, page)
                     stop == ScanCut(start, offset, page, Ceiling)
                 IN  /\ read' = read \o page.rows
                     /\ cut' = (~over /\ stop)
                     /\ step' = IF over \/ stop THEN step + 1 ELSE step
                     /\ trust' = Worse(trust, reply[2])
        /\ UNCHANGED <<asked, world, walk, next, local, shuffled, taken>>

\* Log pages; the controller may serve fewer rows per page than asked for.
LogReply(number, size) ==
    [number |-> number, rows |-> RowsAt(number * size, size), total |-> Len(rows),
     pages |-> (Len(rows) + size - 1) \div size]
LogReplies(number, size) ==
    LET right == LogReply(number, size)
    IN  {<<right, "honest">>}
        \cup {<<p, "odd">> : p \in {[right EXCEPT !.number = @ + 1], [right EXCEPT !.rows = << >>],
                                    [right EXCEPT !.rows = RowsAt(number * size, size + 1)]}
                                   \cup IF number = 0 THEN {[right EXCEPT !.pages = 1]} ELSE {}}
        \cup IF right.pages = 0 THEN {} ELSE {<<[right EXCEPT !.pages = @ - 1], "understated">>}

\* system_log_records for events.read, system_log for events.search
ReadLog ==
    \E how \in {"log", "logWindow"} :
        /\ At(how)
        /\ LET size == IF how = "log" THEN ask.limit ELSE LogFetch
               number == IF how = "log" THEN cursor ELSE 0
           IN \E served \in IF how = "log" THEN {size} ELSE 1..size :
              \E reply \in LogReplies(number, served) :
                 LET page == reply[1]
                 IN  IF ~LogPageAccepted(number, size, page) THEN Refuse
                     ELSE /\ read' = page.rows /\ Advance
                          /\ next' = IF how = "log" THEN LogNext(page) ELSE End
                          /\ cut' = IF how = "log" THEN LogIncomplete(page) ELSE HasMore(page)
                          /\ trust' = Worse(trust, reply[2])
                          /\ UNCHANGED <<asked, world, walk, local, shuffled, taken>>

\* protect_events: one row more than the limit; the controller may ignore
\* the start of the window, and may sort wrongly.
EventReplies(end, limit) ==
    LET all == Reading(rows)
        within(from) == {n \in DOMAIN all : all[n].key <= end /\ all[n].key >= from}
        upTo(from) == Arranged(all, within(from), NewestFirst)
    IN  {SkipTake(upTo(from), 0, limit + 1) : from \in {Start, 0}}
            \cup {Reverse(SkipTake(upTo(Start), 0, limit + 1))}
ReadEvents ==
    /\ At("events")
    /\ \E events \in EventReplies(cursor, ask.limit) :
          LET page == FinishProtectEventPage(Start, cursor, ask.limit, events)
          IN  IF page.refused THEN Refuse
              ELSE /\ read' = page.events /\ next' = page.next /\ Advance
                   /\ UNCHANGED <<asked, world, walk, cut, local, history>>

-----------------------------------------------------------------------------
(* observe_updates: the rows are messages, their keys the sizes.           *)
Bytes(s) ==
    LET sum[n \in 0..Len(s)] == IF n = 0 THEN 0 ELSE sum[n - 1] + s[n].key
    IN  sum[Len(s)]

\* Mutant: a message is taken as long as the budget is not used up.
FitsSomehow(message) == Bytes(read) < MaxBytes
Fits(message) == message.key <= MaxBytes - Bytes(read)

Message ==
    /\ At("socket") /\ taken < Len(rows)
    /\ LET message == Row(rows[taken + 1])
           full == Len(read) + 1 = MaxMessages \/ Bytes(read) + message.key = MaxBytes
       IN  /\ read' = IF Fits(message) THEN Append(read, message) ELSE read
           /\ cut' = (~Fits(message) \/ full)
           /\ step' = IF ~Fits(message) \/ full THEN step + 1 ELSE step
    /\ taken' = taken + 1
    /\ UNCHANGED <<asked, world, walk, next, local, trust, shuffled>>

\* The window is over or the console closes the stream.
StreamEnds ==
    /\ At("socket") /\ Advance
    /\ UNCHANGED <<asked, world, walk, read, next, cut, local, history>>

\* The stream fails, or never comes about; what has arrived is kept.
StreamFails ==
    /\ At("socket") /\ Advance /\ cut' = TRUE
    /\ UNCHANGED <<asked, world, walk, read, next, local, history>>

-----------------------------------------------------------------------------
(* The answer.                                                             *)
Matching(row) == ask.filter = "none" \/ row.id \in Wanted

\* cameras.search refuses a filter whose source is incomplete.
FilterAnswerable(filter) == filter # "local" \/ local.state = "full"

\* The cameras whose local data a filter can see.
Visible(row) == ask.filter # "local" \/ row.id \in local.ids

WindowRows ==
    Sorted(read, {n \in DOMAIN read : Matching(read[n]) /\ Visible(read[n])}, ask.tool.order)

\* wifi.diagnose reads the details of devices that carry clients first.
CarriersFirst == Filtered(read, LAMBDA row : row.id \in Wanted)
                     \o Filtered(read, LAMBDA row : row.id \notin Wanted)

\* The rows of the answer, its continuation, and whether it says that
\* something is missing.
Answers ==
    CASE ask.tool.finish = "record" -> [rows |-> << >>, next |-> End, gap |-> FALSE]
      [] ask.tool.finish = "asRead" -> [rows |-> read, next |-> next, gap |-> cut]
      [] ask.tool.finish = "section" ->
            [rows |-> read, next |-> IF cut THEN cursor + Len(read) ELSE End, gap |-> FALSE]
      [] ask.tool.finish = "bounded" ->
            [rows |-> SkipTake(CarriersFirst, 0, Ceiling), next |-> End,
             gap |-> cut \/ Len(read) > Ceiling]
      [] ask.tool.finish = "window" ->
            LET page == SkipTake(WindowRows, cursor, ask.limit)
            IN  [rows |-> page, next |-> NextOffset(cursor, Len(page), Len(WindowRows)),
                 gap |-> cut]

Answer ==
    /\ phase = "walking" /\ step = Len(Course) + 1
    /\ IF ~FilterAnswerable(ask.filter) THEN Refuse
       ELSE /\ LET answer == Answers
               IN  /\ got' = got \o [n \in DOMAIN answer.rows |-> answer.rows[n].id]
                   /\ flagged' = (flagged \/ answer.gap)
                   /\ cursor' = answer.next
                   /\ phase' = IF answer.next = End THEN "done" ELSE "walking"
            /\ step' = 1 /\ read' = << >> /\ next' = End /\ cut' = FALSE /\ local' = NoLocal
            /\ UNCHANGED <<asked, world, chosen, history>>

-----------------------------------------------------------------------------
(* Somebody else edits the collection.  What is gone does not come back.   *)
(* bound: of the walks that hand out rows, sorted lists are left alone;    *)
(* they turn pages like unsorted ones.                                     *)
Fresh == {i \in Ids : i > Present /\ i \notin There \cup gone}

Edit ==
    /\ phase = "walking" /\ edits < MaxEdits /\ edits' = edits + 1
    /\ ask.tool.finish # "record" /\ (KeysMatter(ask.tool) => Uses(ask.tool, "events"))
    /\ \/ \E i \in Fresh, n \in {1, Len(rows) + 1}, k \in Keys :
             /\ KeysMatter(ask.tool) \/ k = Min(Keys)
             /\ rows' = InsertAt(rows, n, i) /\ key' = [key EXCEPT ![i] = k]
             /\ UNCHANGED gone
       \/ \E n \in DOMAIN rows :
             /\ rows' = RemoveAt(rows, n) /\ gone' = gone \cup {rows[n]}
             /\ UNCHANGED key
    /\ UNCHANGED <<asked, walk, call, history>>

-----------------------------------------------------------------------------
(* Specification.  Every request of a call ends: it answers, fails, or is  *)
(* cut off by a timeout; a caller follows the continuation.                *)
CallStep ==
    \/ Skip \/ Fail \/ Aid \/ ReadWhole \/ ReadLocal \/ LocalConflicts \/ ReadNames
    \/ Select \/ ReadPage \/ ScanPage \/ ReadLog \/ ReadEvents
    \/ Message \/ StreamEnds \/ StreamFails \/ Answer

Begin == phase = "new" /\ \E tool \in Tools : CallUnknown(tool) \/ Call(tool)

Next == Begin \/ CallStep \/ Edit

Fairness == WF_vars(Begin) /\ WF_vars(CallStep)

Spec == Init /\ [][Next]_vars /\ Fairness

-----------------------------------------------------------------------------
(* Properties.                                                             *)
Finished == phase = "done"
Walked(role) == Finished /\ Uses(ask.tool, role)
Times(i) == Cardinality({n \in DOMAIN got : got[n] = i})

\* The order of the rows was the same in every call, or did not matter.
OrderHeld ==
    \/ ~shuffled \/ ask.tool.order = "nameAndId"
    \/ ask.tool.order # "none" /\ \A i, j \in Kept : i # j => key[i] # key[j]

\* Pages that are checked may be wrong about anything but a total that is
\* too small; the others must be right.
PagesHeld ==
    \/ trust = "honest"
    \/ trust = "odd" /\ \E how \in {"page", "vouchers", "log"} : Uses(ask.tool, how)

\* A walk that came to its end without an answer that mentions a gap has
\* returned every row that matches exactly once, whatever the limit, the
\* cap, short pages, pages that contradict themselves, a ceiling inside a
\* scan, lists in another order, or a camera one API does not know: the
\* cursor arithmetic and the page checks of all list and search tools.
WalkIsComplete ==
    (/\ Finished /\ ~flagged /\ edits = 0 /\ OrderHeld /\ PagesHeld
     /\ ask.tool.finish \notin {"record"}
     /\ ~Uses(ask.tool, "events") /\ ~Uses(ask.tool, "socket"))
        => \A i \in Ids :
              Times(i) = IF i \in Kept /\ (ask.filter = "none" \/ i \in Wanted) THEN 1 ELSE 0

\* Protect events that were there throughout are returned exactly once,
\* although others come and go while the caller turns the pages: the time
\* cursor of finish_protect_event_page does not shift, and never splits a
\* group of equal times.
EventsOnce ==
    Walked("events") =>
        \A i \in Ids : /\ Times(i) <= 1
                       /\ i \in Kept /\ key[i] >= Start => Times(i) = 1

\* A name selects a row only when it is the only one of that name, also
\* among the rows that the call has not seen: behind a scan's ceiling, or
\* known to one of the console's two APIs only.  An id comes first.
SelectedIsUnique ==
    (Finished /\ chosen # None /\ edits = 0 /\ trust = "honest") =>
        \/ chosen = ask.selector
        \/ /\ ask.selector \notin There
           /\ {i \in There : key[i] = ask.selector /\ (ask.local \/ i \in ask.public)} = {chosen}

\* The messages of protect.updates are a prefix of what was sent, within
\* both limits; only an answer that says so leaves one out.
StreamIsWhole ==
    Walked("socket") =>
        /\ Len(got) <= MaxMessages /\ got = SubSeq(rows, 1, Len(got))
        /\ Bytes(Reading(got)) <= MaxBytes
        /\ Len(got) # taken => flagged

\* A tool that the server lists never reaches for a client the server was
\* not started with, and one that is described as a read sends nothing
\* that changes the controller: registry.rs and the handlers agree.
RegistryIsHonest ==
    Busy /\ Cur.request # None =>
        HasClient /\ (ReadOnly(ask.tool.kind) <=> Cur.request.retries)

\* Every walk ends, also against a controller that misreports totals:
\* continuations always move on.
WalkEnds == <>(phase \notin {"new", "walking"})

\* Protect events are walked backwards in time, lists from page to page.
Further(from, to) == IF Uses(ask.tool, "events") THEN to < from ELSE to > from

\* The safety half of WalkEnds, for any replies: within a call every step
\* goes on in the course or takes something more off the controller, and a
\* continuation never leads back or to the page it came from
\* (next_offset, pending_devices_list, finish_protect_event_page).
WalkMovesOn ==
    [][phase = "walking" /\ phase' = "walking" =>
          \/ cursor' = cursor /\ step' = step + 1
          \/ cursor' = cursor /\ step' = step /\ (Len(read') > Len(read) \/ taken' > taken)
          \/ step' = 1 /\ Further(cursor, cursor')
          \/ edits' > edits /\ cursor' = cursor /\ step' = step]_vars

-----------------------------------------------------------------------------
(* What makes the properties inductive.                                    *)
RowRecord == [id : Ids, key : Keys]

AskOK ==
    /\ ask.tool \in Tools /\ ask.limit \in Nat \ {0} /\ ask.filter \in ask.tool.filters
    /\ ask.local \in BOOLEAN /\ ask.public \subseteq Ids
    /\ ask.local => Uses(ask.tool, "local") \/ Uses(ask.tool, "names")
    /\ ~Uses(ask.tool, "local") => ask.public = Ids

\* The collection: no row twice, none that was removed, and those of the
\* start that were not; as at the start before the first edit.
WorldOK ==
    /\ rows \in Seq(Ids) /\ key \in [Ids -> Keys] /\ gone \subseteq Ids /\ edits \in Nat
    /\ \A m, n \in DOMAIN rows : rows[m] = rows[n] => m = n
    /\ There \cap gone = {} /\ Kept \subseteq There
    /\ edits = 0 => rows = [n \in 1..Present |-> n] /\ gone = {}

CallOK ==
    /\ read \in Seq(RowRecord) /\ next \in Nat \cup {End} /\ cut \in BOOLEAN
    /\ local.ids \subseteq Ids
    /\ phase = "walking" => cursor \in Nat /\ step \in 1..(Len(Course) + 1)

TypeOK ==
    /\ runtime \in Surfaces
    /\ phase \in {"new", "walking", "done", "refused", "unknown"}
    /\ phase \in {"walking", "done"} => AskOK
    /\ WorldOK /\ CallOK
    /\ got \in Seq(Ids) /\ flagged \in BOOLEAN
    /\ trust \in {"honest", "odd", "understated"} /\ shuffled \in BOOLEAN /\ taken \in Nat

\* Nothing has happened before the first call.
NewInv ==
    phase = "new" =>
        /\ cursor = 0 /\ got = << >> /\ ~flagged /\ chosen = None
        /\ step = 1 /\ read = << >> /\ next = End /\ ~cut /\ local = NoLocal
        /\ trust = "honest" /\ ~shuffled /\ taken = 0 /\ edits = 0

\* A step of that role lies behind the call.
Passed(role) == \E m \in 1..(step - 1) : Course[m].role = role

\* Where the rows of a call begin in the collection.
Base ==
    IF Uses(ask.tool, "log") THEN cursor * ask.limit
    ELSE IF ask.tool.finish = "window" THEN 0 ELSE cursor
Prefix(from) ==
    /\ from + Len(read) <= Len(rows)
    /\ read = Reading(SubSeq(rows, from + 1, from + Len(read)))
ToTheEnd == Base + Len(read) = Len(rows)

\* What a call has read of a collection that nobody edits, from pages that
\* can be trusted.
PageRoles == {"page", "vouchers", "catalog", "scan", "section", "log", "logWindow"}
Trusted(role) == trust = "honest" \/ (trust = "odd" /\ role \in {"page", "vouchers", "log"})
FoundIn(role) ==
    CASE role \in {"page", "vouchers", "catalog"} ->
            /\ next \in {End, cursor + Len(read)}
            /\ next = End => ToTheEnd
      [] role \in {"scan", "section"} -> ~cut => ToTheEnd
      [] role = "log" ->
            /\ next = End => cut \/ ToTheEnd
            /\ next # End => next = cursor + 1 /\ Len(read) = ask.limit
      [] role = "logWindow" -> ~cut => ToTheEnd
SourceInv ==
    \A role \in PageRoles :
        phase = "walking" /\ Uses(ask.tool, role) =>
            /\ ~Passed(role) => ~cut /\ (role \notin {"scan", "section"} => read = << >>)
            /\ role \in {"scan", "section", "logWindow"} \/ ~Passed(role) => next = End
            /\ role = "scan" /\ ask.tool.finish # "window" => cursor = 0
            /\ edits = 0 /\ Trusted(role) => Prefix(Base) /\ (Passed(role) => FoundIn(role))

\* A list that came whole, and what the local API said of it.
WholeInv ==
    phase = "walking" /\ Uses(ask.tool, "whole") =>
        /\ ~Passed("whole") => read = << >>
        /\ ~cut /\ next = End
        /\ edits = 0 =>
              /\ Passed("whole") => \/ read = Reading(rows)
                                    \/ shuffled /\ read = Reading(Reverse(rows))
              /\ local.state = "full" => ask.local /\ local.ids = There
        /\ local.state \in {"off", "part", "full", "down"} /\ (local.state = "off" => local.ids = {})
        /\ Passed("local") /\ local.state = "off" => ~ask.local

\* The choice, and what it was made from.
UniqueChoice ==
    \/ chosen = ask.selector
    \/ /\ ask.selector \notin There
       /\ {i \in There : key[i] = ask.selector /\ (ask.local \/ i \in ask.public)} = {chosen}
SelectInv ==
    phase \in {"walking", "done"} /\ edits = 0 /\ trust = "honest" /\ chosen # None => UniqueChoice

\* The rows a walk has returned: of a list that the server cuts, the first
\* rows of the sorted list, otherwise the first of the collection.
WindowGoal ==
    Sorted(Reading(rows), {n \in DOMAIN rows : Matching(Row(rows[n]))}, ask.tool.order)
IdSeq(s) == [n \in DOMAIN s |-> s[n].id]
EachOnce(s, members) ==
    /\ \A m, n \in DOMAIN s : s[m] = s[n] => m = n
    /\ {s[n] : n \in DOMAIN s} = members
Matched == {i \in There : ask.filter = "none" \/ i \in Wanted}
Counted ==
    /\ edits = 0 /\ OrderHeld /\ PagesHeld /\ ask.tool.finish # "record"
    /\ ~Uses(ask.tool, "events") /\ ~Uses(ask.tool, "socket")
WalkInv ==
    /\ phase = "walking" /\ Counted =>
          IF ask.tool.finish = "window"
          THEN ~flagged => /\ cursor <= Len(WindowGoal)
                           /\ got = IdSeq(SubSeq(WindowGoal, 1, cursor))
          ELSE got = SubSeq(rows, 1, Base)
    /\ Finished /\ Counted /\ ~flagged => EachOnce(got, Matched)

\* Events: what was returned lies above the cursor and is complete there;
\* what was read lies between the next cursor and this one.
Known == There \cup gone
EventInv ==
    Uses(ask.tool, "events") =>
        /\ phase \in {"walking", "done"} =>
              /\ \A m, n \in DOMAIN got : got[m] = got[n] => m = n
              /\ \A n \in DOMAIN got : got[n] \in Known
        /\ phase = "walking" =>
              /\ \A n \in DOMAIN got : key[got[n]] > cursor
              /\ \A i \in Kept : key[i] >= Start /\ key[i] > cursor => \E n \in DOMAIN got : got[n] = i
              /\ ~Passed("events") => read = << >>
              /\ \A m, n \in DOMAIN read : read[m].id = read[n].id => m = n
              /\ \A n \in DOMAIN read :
                    /\ read[n].id \in Known /\ read[n].key = key[read[n].id] /\ read[n].key <= cursor
                    /\ next # End => read[n].key > next
              /\ next # End => next <= cursor
              /\ Passed("events") =>
                    \A i \in Kept : /\ key[i] >= Start /\ key[i] <= cursor
                                    /\ next # End => key[i] > next
                                    => i \in IdsOf(read)
        /\ Finished => \A i \in Kept : key[i] >= Start => \E n \in DOMAIN got : got[n] = i

\* The stream: what was taken off the socket was kept, up to the limits.
StreamInv ==
    Uses(ask.tool, "socket") =>
        /\ phase = "walking" =>
              /\ got = << >> /\ ~flagged /\ next = End
              /\ Len(read) <= taken /\ taken <= Len(rows) /\ Prefix(0)
              /\ Len(read) <= MaxMessages /\ Bytes(read) <= MaxBytes
              /\ Len(read) # taken => cut
              /\ ~Passed("socket") => /\ ~cut /\ Len(read) = taken
                                      /\ Len(read) < MaxMessages /\ Bytes(read) < MaxBytes
        /\ Finished => /\ Len(got) <= MaxMessages /\ got = SubSeq(rows, 1, Len(got))
                       /\ Bytes(Reading(got)) <= MaxBytes
                       /\ Len(got) # taken => flagged

\* The registry: a walk is one of a tool that is listed for the server's
\* surface.
ListedInv ==
    phase = "walking" => ask.tool \in Tools /\ ask.tool.kind \in ToolsForSurface(runtime)

\* Moving on: a continuation in hand lies further on, and a section that was
\* cut has rows.
MoveInv ==
    phase = "walking" =>
        /\ next # End => Further(cursor, next)
        /\ ask.tool.finish = "section" /\ cut => read # << >>
=============================================================================
