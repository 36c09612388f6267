--------------------------- MODULE TrafficArchive ---------------------------
(***************************************************************************)
(* What the collector promises the reader of its bucket.  Each hour shows  *)
(* at most one report.  A report is staged first, one at a time; what an   *)
(* hour shows changes only to the staged report of that hour; and a staged *)
(* report is dropped only while its hour shows it.                         *)
(***************************************************************************)
CONSTANTS Hours, Contents, NoReport, Nothing

VARIABLES staged,   \* the staged report, or Nothing
          shown     \* the report each hour shows

Init == staged = Nothing /\ shown = [h \in Hours |-> NoReport]

Stage(h, c) ==
    /\ staged = Nothing
    /\ staged' = [start |-> h, content |-> c]
    /\ UNCHANGED shown

Show ==
    /\ staged # Nothing
    /\ shown' = [shown EXCEPT ![staged.start] = staged.content]
    /\ UNCHANGED staged

Settle ==
    /\ staged # Nothing
    /\ shown[staged.start] = staged.content
    /\ staged' = Nothing
    /\ UNCHANGED shown

Next == Show \/ Settle \/ \E h \in Hours, c \in Contents : Stage(h, c)

Spec == Init /\ [][Next]_<<staged, shown>>
=============================================================================
