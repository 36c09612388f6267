------------------------------ MODULE Endpoints ------------------------------
(***************************************************************************)
(* What the clients of the controller's three APIs (client.rs, protect.rs, *)
(* legacy.rs) ask for.  A request is its method, the collection its path   *)
(* names, and how much of the reply its client method insists on:          *)
(*   "any"    nothing, status and bytes are handed on;                     *)
(*   "json"   a body that decodes;                                         *)
(*   "named"  a body that decodes and names the resource that was asked    *)
(*            for (or, of an action, the action and its result);           *)
(*   "list"   a body that decodes to all resources of the collection.      *)
(* A reply that fails this is an error that carries the complete reply.    *)
(***************************************************************************)

RequestRecord ==
    [method : {"GET", "POST", "PUT", "PATCH", "DELETE"}, at : STRING,
     insists : {"any", "json", "named", "list"}, retries : BOOLEAN]

\* get_json and its kin.
Get(at, insists) == [method |-> "GET", at |-> at, insists |-> insists, retries |-> TRUE]

\* The clients call send for everything else.
SendOnce(method, at, insists) ==
    [method |-> method, at |-> at, insists |-> insists, retries |-> FALSE]

\* Mutant: every request that is turned away with 429 is sent again.
RetriedWhateverItDoes(request) == TRUE
\* A request that is turned away with 429 and an acceptable Retry-After is
\* sent once more when it is a plain read.
Retried(request) == request.retries

-----------------------------------------------------------------------------
(* Integration API, client.rs.                                             *)
Sites == Get("sites", "list")
AdoptDevice == SendOnce("POST", "devices", "json")
RemoveDevice == SendOnce("DELETE", "devices", "any")
DeviceDetailRaw == Get("devices", "json")
DeviceDetail == Get("devices", "json")
RestartDevice == SendOnce("POST", "devices", "any")
PowerCyclePort == SendOnce("POST", "devices", "any")
NetworkPolicyRecordWrite(method) == SendOnce(method, "policies", "json")
NetworkPolicyCreate == NetworkPolicyRecordWrite("POST")
NetworkPolicyUpdate == NetworkPolicyRecordWrite("PUT")
NetworkPolicyDelete == SendOnce("DELETE", "policies", "any")
NetworkPolicyDetail == Get("policies", "json")
ReplaceAclRuleOrdering == SendOnce("PUT", "acl_ordering", "json")
AclRuleOrdering == Get("acl_ordering", "list")
ReplaceFirewallPolicyOrdering == SendOnce("PUT", "policy_ordering", "json")
FirewallPolicyOrdering == Get("policy_ordering", "list")
FirewallPolicySnapshot == SendOnce("GET", "policies", "json")
DeleteFirewallPolicy == SendOnce("DELETE", "policies", "any")
FirewallZones == Get("zones", "list")
CreateNetwork == SendOnce("POST", "networks", "any")
ReplaceNetwork == SendOnce("PUT", "networks", "any")
DeleteNetwork == SendOnce("DELETE", "networks", "any")
NetworkRecord == Get("networks", "json")
CreateWifiBroadcast == SendOnce("POST", "broadcasts", "any")
ReplaceWifiBroadcast == SendOnce("PUT", "broadcasts", "any")
DeleteWifiBroadcast == SendOnce("DELETE", "broadcasts", "any")
WifiBroadcast == Get("broadcasts", "json")
ClientsPage == Get("clients", "list")
ClientDetail == Get("clients", "json")
AuthorizeGuest == SendOnce("POST", "clients", "named")
UnauthorizeGuest == SendOnce("POST", "clients", "named")
VoucherRecords == Get("vouchers", "list")
VoucherWithResponse == Get("vouchers", "json")
CreateVouchers == SendOnce("POST", "vouchers", "json")
DeleteVoucher == SendOnce("DELETE", "vouchers", "any")
DeleteMatchingVouchers == SendOnce("DELETE", "vouchers", "any")

-----------------------------------------------------------------------------
(* Protect integration API, protect.rs.                                    *)
Cameras == Get("cameras", "list")
Camera == Get("cameras", "json")
CameraWithResponse == Get("cameras", "named")
CameraRaw == Get("cameras", "named")
CameraDisableMic == SendOnce("POST", "cameras", "any")
CameraSettingsPatch == SendOnce("PATCH", "cameras", "named")
CameraPtz == SendOnce("POST", "cameras", "any")
CameraStreams == Get("streams", "list")
CameraStreamsCreate == SendOnce("POST", "streams", "json")
CameraStreamsDelete == SendOnce("DELETE", "streams", "any")
CameraTalkbackSession == SendOnce("POST", "talkback", "json")
CameraPosTransaction == SendOnce("POST", "pos", "named")
AnimationAssets == Get("assets", "list")
AnimationAssetUpload == SendOnce("POST", "assets", "json")
DeviceAction == SendOnce("POST", "protect_devices", "any")
ArmProfiles == Get("arm_profiles", "list")
ArmOperation(method) == SendOnce(method, "arm_profiles", "any")
Viewer == Get("viewers", "named")
ViewerSettingsPatch == SendOnce("PATCH", "viewers", "json")
Liveview == Get("liveviews", "named")
LiveviewCreate == SendOnce("POST", "liveviews", "json")
LiveviewPatch == SendOnce("PATCH", "liveviews", "json")

-----------------------------------------------------------------------------
(* Legacy API, legacy.rs: a write's envelope is decoded.  What a dead       *)
(* session does to a request is LegacySession's concern.                   *)
CreatePortForward == SendOnce("POST", "portforward", "json")
ConfigurePortForward == SendOnce("PUT", "portforward", "json")
DeletePortForward == SendOnce("DELETE", "portforward", "json")
PortForwardRecord == Get("portforward", "json")
CreateWlan == SendOnce("POST", "wlanconf", "json")
ConfigureWlan == SendOnce("PUT", "wlanconf", "json")
DeleteWlan == SendOnce("DELETE", "wlanconf", "json")
WlanRecord == Get("wlanconf", "json")
StationCommand == SendOnce("POST", "stations", "json")
ActiveClients == Get("stations", "list")
LocateDevice == SendOnce("POST", "devices", "json")

-----------------------------------------------------------------------------
(* Plain reads.  insists "list": a collection, or one page of it.          *)
Info == Get("info", "json")
DpiCatalog == Get("dpi_catalog", "list")
DpiNames == Get("dpi_catalog", "json")
SiteInventory == Get("site_inventory", "list")
Countries == Get("countries", "list")
SiteRecords == Get("sites", "list")
InventoryDetail == Get("site_inventory", "json")
SwitchingDetail == Get("switching", "json")
PendingDevices == Get("pending_devices", "list")
NetworkRecords == Get("networks", "list")
NetworkReferences == Get("networks", "json")
NetworkPolicyPage == Get("policies", "list")
RadiusProfileRecords == Get("radius_profiles", "list")
WifiBroadcastRecords == Get("broadcasts", "list")
Devices == Get("devices", "list")
DeviceStatistics == Get("devices", "json")
FirewallPolicies == Get("policies", "list")

ProtectInfo == Get("protect_info", "named")
InfoRecord == Get("protect_info", "json")
Nvr == Get("nvr", "named")
NvrRecord == Get("nvr", "json")
ProtectDevices == Get("protect_devices", "list")
ProtectDevice == Get("protect_devices", "named")
Users == Get("protect_users", "list")
User == Get("protect_users", "named")
Viewers == Get("viewers", "list")
Liveviews == Get("liveviews", "list")
CameraSnapshot == Get("cameras", "any")
SubscriptionSocket == Get("updates", "any")

SiteHealth == Get("health", "list")
Networks == Get("networks", "list")
Wlans == Get("wlanconf", "list")
PortForwardRecords == Get("portforward", "list")
WlanRecords == Get("wlanconf", "list")
WlanGroups == Get("wlan_groups", "list")
UserGroups == Get("user_groups", "list")
ApGroups == Get("ap_groups", "list")
DiagnosticRecords == Get("diagnostics", "list")
PortForwards == Get("portforward", "list")
TrafficRules == Get("traffic_rules", "list")
TrafficRoutes == Get("traffic_routes", "list")
RogueAps == Get("rogue_aps", "list")
HourlyWanReport == Get("wan_report", "list")
\* Reads by POST: like a GET they may be sent again after a 429.
SystemLog == [Get("system_log", "list") EXCEPT !.method = "POST"]
DpiByApplication == [Get("dpi", "list") EXCEPT !.method = "POST"]
ActivityWithResponse == Get("activity", "json")
ActivityBuckets == Get("activity", "list")
TrafficSource == Get("activity", "any")
\* The local session on a Protect console.
ProtectEventsRead == Get("events", "list")
ProtectEventThumbnail == Get("events", "any")
ProtectBootstrap == Get("cameras", "list")
ProtectCameraInventory == Get("cameras", "list")

-----------------------------------------------------------------------------
\* The collections of the Protect console; the others are the controller's.
ProtectCollections ==
    {"protect_info", "nvr", "cameras", "streams", "talkback", "pos", "assets", "protect_devices",
     "arm_profiles", "viewers", "liveviews", "protect_users", "updates", "events"}

\* UnifiMcp::integration, legacy, protect, protect_events and protect_local
\* panic when the server was started for the other surface.
ClientOf(request) == IF request.at \in ProtectCollections THEN "protect" ELSE "network"
=============================================================================
