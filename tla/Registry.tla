------------------------------ MODULE Registry -------------------------------
(***************************************************************************)
(* The tools the server knows (registry.rs): the surface each belongs to,  *)
(* and whether it is described to callers as a read.  A server is started  *)
(* for one surface: it lists and dispatches the tools of that surface and  *)
(* has the clients of that surface only.                                   *)
(***************************************************************************)

\* ToolKind::surface lists the kinds of a console.
ProtectKinds ==
    {"CamerasSearch", "CamerasStatus", "ProtectDevicesList", "ProtectDevicesStatus",
     "ProtectDevicesAction", "ProtectDevicesSettingsUpdate", "ProtectArmProfilesList",
     "ProtectArmProfilesConfigure", "ProtectAlarmsAction", "ProtectUsersList",
     "ProtectUsersStatus", "ProtectViewersList", "ProtectViewersStatus",
     "ProtectViewersSettingsUpdate", "ProtectLiveviewsList", "ProtectLiveviewsStatus",
     "ProtectLiveviewsConfigure", "CamerasSettingsRead", "CamerasSettingsUpdate",
     "CamerasSnapshot", "CamerasPtzControl", "CamerasMicrophoneDisable", "ProtectAssetsList",
     "ProtectAssetsUpload", "CamerasStreamsList", "CamerasStreamsUpdate",
     "CamerasTalkbackStart", "CamerasPosTransaction", "ProtectOverview", "ProtectEvents",
     "ProtectUpdates", "ProtectEventThumbnail"}

-----------------------------------------------------------------------------
(* TOOL_REGISTRY, section by section: the kinds under read_spec,           *)
(* sensitive_read_spec and credential_read_spec, and those under           *)
(* write_spec.                                                             *)
Section(reads, writes) == [reads |-> reads, writes |-> writes]

InventorySection ==
    Section({"NetworkOverview", "ClientsSearch", "ClientsContext", "DevicesSearch",
             "DevicesStatus", "PendingDevicesList", "FirewallRead"}, {})
ConsoleSection ==
    Section({"CamerasSearch", "CamerasStatus", "ProtectDevicesList", "ProtectDevicesStatus",
             "ProtectArmProfilesList", "ProtectUsersList", "ProtectUsersStatus",
             "ProtectViewersList", "ProtectViewersStatus", "ProtectLiveviewsList",
             "ProtectLiveviewsStatus"},
            {"ProtectDevicesAction", "ProtectDevicesSettingsUpdate",
             "ProtectArmProfilesConfigure", "ProtectAlarmsAction", "CamerasPosTransaction",
             "ProtectViewersSettingsUpdate", "ProtectLiveviewsConfigure"})
CameraSection ==
    Section({"CamerasSettingsRead", "CamerasSnapshot", "ProtectAssetsList",
             "CamerasStreamsList", "ProtectOverview", "ProtectEvents",
             "ProtectEventThumbnail", "ProtectUpdates"},
            {"CamerasSettingsUpdate", "CamerasPtzControl", "CamerasMicrophoneDisable",
             "ProtectAssetsUpload", "CamerasStreamsUpdate", "CamerasTalkbackStart"})
ReportSection ==
    Section({"WifiDiagnose", "EventsSearch", "EventsRead", "StatsQuery", "TrafficRead",
             "NetworksRead"}, {})
NetworkSection ==
    Section({"NetworksList", "NetworksStatus", "RadiusProfilesList", "NetworkSourceRead",
             "NetworkInventoryList", "NetworkInventoryDetail", "NetworkSwitchingDetail",
             "NetworkPolicyList", "NetworkPolicyDetail", "AclRulesOrderingRead",
             "FirewallPoliciesOrderingRead"},
            {"NetworksConfigure", "AclRulesConfigure", "AclRulesOrderingConfigure",
             "FirewallPoliciesOrderingConfigure", "FirewallZonesConfigure",
             "FirewallPoliciesConfigure", "DnsPoliciesConfigure", "TrafficListsConfigure"})
WifiSection ==
    Section({"WifiBroadcastsList", "WifiBroadcastsStatus", "WlansList", "WlansStatus",
             "WlanGroupsList"},
            {"WifiBroadcastsConfigure", "WlansConfigure", "WlansUpdate"})
ControlSection ==
    Section({"GuestsStatus"},
            {"ClientsControl", "DevicesControl", "DevicesAdopt", "DevicesRemove",
             "GuestsAuthorize", "GuestsUnauthorize"})
RuleSection ==
    Section({"PortForwardsList", "PortForwardsStatus", "VouchersSearch", "VouchersStatus"},
            {"PortForwardsConfigure", "PortForwardsUpdate", "FirewallPoliciesUpdate",
             "FirewallPoliciesDelete", "VouchersRevoke", "VouchersRevokeMatching",
             "VouchersCreate"})

Sections ==
    {InventorySection, ConsoleSection, CameraSection, ReportSection, NetworkSection,
     WifiSection, ControlSection, RuleSection}
Registered == UNION {s.reads \cup s.writes : s \in Sections}

\* ToolBehavior::read and ToolBehavior::write: the read-only hint.
ReadOnly(kind) == \E s \in Sections : kind \in s.reads

-----------------------------------------------------------------------------
Surfaces == {"network", "protect"}

\* Mutant: a tool of the console is listed with the controller's.
MisplacedSurface(kind) ==
    IF kind \in ProtectKinds \ {"CamerasSnapshot"} THEN "protect" ELSE "network"
\* ToolKind::surface
Surface(kind) == IF kind \in ProtectKinds THEN "protect" ELSE "network"

\* tools_for_surface: what tools/list shows and what a call is looked up in.
ToolsForSurface(surface) == {kind \in Registered : Surface(kind) = surface}
=============================================================================
