-------------------------- MODULE MCResourceWrites --------------------------
(* One call of every tool.  Four ticks of deadline, of which two are held   *)
(* back for the answer, let a deadline fall into every wait; a batch of two *)
(* vouchers can be short, repeated, nameless or cut off.  The five tools    *)
(* that share NetworkPolicyWrite share its three operations.                *)
EXTENDS ResourceWrites

CONSTANT c1

OneCall == {c1}
BothTransports == {"stdio", "http"}

AllTools ==
    {DevicesAdopt, DevicesRemove, DevicesControl("restart"), DevicesControl("power_cycle"),
      DevicesControl("locate"), ClientsControl, ProtectDevicesAction,
      ProtectAlarmsAction("enable"), ProtectAlarmsAction("webhook"),
      ProtectArmProfilesConfigure("create"), ProtectArmProfilesConfigure("update"),
      ProtectArmProfilesConfigure("delete"), ProtectArmProfilesConfigure("select"),
      CamerasPosTransaction, ProtectViewersSettingsUpdate, ProtectLiveviewsConfigure("create"),
      ProtectLiveviewsConfigure("update"), CamerasSettingsUpdate, CamerasPtzControl("goto"),
      CamerasPtzControl("start"), CamerasPtzControl("stop"), CamerasMicrophoneDisable,
      ProtectAssetsUpload, CamerasStreamsUpdate("create"), CamerasStreamsUpdate("remove"),
      CamerasTalkbackStart, FirewallZonesConfigure("create"), FirewallPoliciesConfigure("update"),
      DnsPoliciesConfigure("delete"), AclRulesConfigure("create"), TrafficListsConfigure("update"),
      FirewallPoliciesOrderingConfigure, AclRulesOrderingConfigure, GuestsAuthorize,
      GuestsUnauthorize, FirewallPoliciesDelete, VouchersRevokeMatching, VouchersRevoke,
      VouchersCreate, PortForwardConfigure("create"), PortForwardConfigure("update"),
      PortForwardConfigure("delete"), WlansConfigure("create"), WlansConfigure("update"),
      WlansConfigure("delete"), NetworksConfigure("create", {}), NetworksConfigure("update", {}),
      NetworksConfigure("delete", {"force"}), WifiBroadcastsConfigure("create", {}),
      WifiBroadcastsConfigure("update", {}), WifiBroadcastsConfigure("delete", {})}
=============================================================================
