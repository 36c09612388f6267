--------------------------- MODULE MCRecordUpdates ---------------------------
(* Two calls on one record.  Three ticks of deadline, of which two are held *)
(* back for the answer, let every deadline fall into every wait.            *)
EXTENDS RecordUpdates, TLC

CONSTANTS c1, c2

TwoCalls == {c1, c2}
CallSymmetry == Permutations(TwoCalls)
BothTransports == {"stdio", "http"}
AllUpdaters == {WlansUpdate, PortForwardsUpdate, FirewallPoliciesUpdate,
                ProtectDevicesSettingsUpdate}
OneCall == {c1}
HttpOnly == {"http"}
PolicyOnly == {FirewallPoliciesUpdate}
DeviceOnly == {ProtectDevicesSettingsUpdate}
OneRequest == {("enabled" :> "on")}
TwoRequests == {("enabled" :> "on"), ("enabled" :> "off") @@ ("logging" :> "on")}
=============================================================================
