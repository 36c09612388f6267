---------------------------- MODULE AnswerLayout -----------------------------
(***************************************************************************)
(* How an answer is laid out (the ..._result functions of tools.rs).  The  *)
(* structured part of an answer has a target size.  While it is exceeded,  *)
(* the bulky fields are moved, in a fixed order, into the text content,    *)
(* and a marker "...InContent" stays behind.                               *)
(*                                                                         *)
(* An output is a function from the fields it has to their sizes.  The     *)
(* rest of the answer, which never moves, counts Base.                     *)
(***************************************************************************)
EXTENDS Naturals, Sequences, FiniteSets, FiniteSetsExt

CONSTANTS
    Target,   \* STRUCTURED_CONTENT_TARGET_BYTES
    Base,     \* size of what cannot move
    Marker    \* size of one marker

ASSUME AnswerLayoutAssumption == {Target, Base, Marker} \subseteq Nat

\* A laid-out answer: the structured fields, the fields moved to content,
\* and the fields whose marker is set.
Laid(structured, content, marked) ==
    [structured |-> structured, content |-> content, marked |-> marked]

Without(output, f) == [g \in DOMAIN output \ {f} |-> output[g]]

\* structured(output): the size of the serialised output.
Size(a) ==
    Base + Marker * Cardinality(a.marked)
         + MapThenSumSet(LAMBDA f : a.structured[f], DOMAIN a.structured)

Exceeds(a) == Size(a) > Target

\* Mutant: the field is taken out and marked, and not put into the content.
MoveDropped(a, f) == Laid(Without(a.structured, f), a.content, a.marked \cup {f})
\* One field is moved.
Move(a, f) == Laid(Without(a.structured, f), a.content \cup {f}, a.marked \cup {f})

\* The fields are tried in their order, each time asking anew.
SpillInOrder(order, output) ==
    LET after[i \in 0..Len(order)] ==
            IF i = 0 THEN Laid(output, {}, {})
            ELSE LET a == after[i - 1]
                     f == order[i]
                 IN  IF Exceeds(a) /\ f \in DOMAIN a.structured THEN Move(a, f) ELSE a
    IN  after[Len(order)]

\* vouchers_revoke_matching_result moves all of them once the whole is too
\* large.
SpillAll(order, output) ==
    LET a == Laid(output, {}, {})
        movable == {order[i] : i \in 1..Len(order)} \cap DOMAIN output
    IN  IF ~Exceeds(a) THEN a
        ELSE Laid([f \in DOMAIN output \ movable |-> output[f]], movable, movable)

\* A layout is the order and whether it is all or nothing.
Layout(order) == [order |-> order, all |-> FALSE]

Render(layout, output) ==
    IF layout.all THEN SpillAll(layout.order, output) ELSE SpillInOrder(layout.order, output)

-----------------------------------------------------------------------------
(* The orders of the write tools.                                          *)
DevicesAdoptResult == Layout(<<"accepted", "after", "readbackError">>)
DevicesRemoveResult == Layout(<<"responseBody", "after", "readbackError">>)
DevicesControlResult == Layout(<<"responseBody", "readbackError">>)
CameraDisableMicResult == Layout(<<"before", "responseBody", "after", "readbackError">>)
CameraSettingsUpdateResult ==
    Layout(<<"requested", "before", "response", "after", "readbackError">>)
ProtectAssetUploadResult == Layout(<<"accepted", "after", "readbackError">>)
ProtectActionResult == Layout(<<"responseBody">>)
ProtectArmOperationResult ==
    Layout(<<"requested", "responseBody", "observed", "readbackError">>)
NetworkPolicyWriteResult ==
    Layout(<<"requested", "accepted", "after", "responseBody", "readbackError">>)
FirewallDeleteResult == Layout(<<"beforeResponse", "responseBody", "readbackError">>)
VouchersRevokeMatchingResult ==
    [order |-> <<"beforeResponse", "responseBody", "afterResponse", "readbackError">>,
     all |-> TRUE]
VoucherRevokeResult == Layout(<<"responseBody", "readbackError">>)
VouchersCreateResult == Layout(<<"responseBody", "readbackErrors", "vouchers">>)
ViewerSettingsResult == Layout(<<"before", "response", "after", "readbackError">>)
LiveviewConfigureResult ==
    Layout(<<"requested", "before", "response", "after", "readbackError">>)
AcceptedResponseResult == Layout(<<"responseBody", "readbackError">>)
MutationReadbackErrorResult == Layout(<<"responseBody", "readbackError">>)
NetworkConfigurationResult ==
    Layout(<<"response", "references", "requested", "responseBody", "after", "readbackError">>)
LegacyConfigurationResult ==
    Layout(<<"response", "requested", "responseBody", "after", "readbackError">>)
PosTransactionResult == Layout(<<"transaction", "response">>)
=============================================================================
