--------------------------- MODULE CollectorProofs ---------------------------
(***************************************************************************)
(* Theorems about the collector, for every window, batch count, set of     *)
(* reports and bound of the clock.                                         *)
(***************************************************************************)
EXTENDS Collector, FiniteSetTheorems, TLAPS

\* Every set of hours is finite, so the counters of the status are numbers.
LEMMA HourSetsAreFinite ==
    ASSUME NEW S, S \subseteq HourStarts
    PROVE  IsFiniteSet(S) /\ Cardinality(S) \in Nat
<1>1. IsFiniteSet(0..MaxTime)
    BY FS_Interval, CollectorAssumption
<1>2. S \subseteq 0..MaxTime
    BY DEF HourStarts
<1> QED
    BY <1>1, <1>2, FS_Subset, FS_CardinalityType

\* An interval map is a Boolean function on hours.
LEMMA IntervalMapShape ==
    ASSUME NEW m
    PROVE  m \in IntervalMaps <=> DOMAIN m \subseteq HourStarts /\ m \in [DOMAIN m -> BOOLEAN]
<1> QED
    BY DEF IntervalMaps

LEMMA MapIsIntervalMap ==
    ASSUME NEW S, S \subseteq HourStarts, NEW f \in [S -> BOOLEAN]
    PROVE  f \in IntervalMaps
<1> QED
    BY DEF IntervalMaps

LEMMA FreshStatusType ==
    ASSUME NEW b \in Bindings
    PROVE  FreshStatus(b) \in Status
<1> DEFINE empty == [h \in {} |-> FALSE]
<1>1. empty \in [{} -> BOOLEAN]
    OBVIOUS
<1>2. empty \in IntervalMaps
    <2> HIDE DEF empty
    <2> QED BY <1>1, MapIsIntervalMap
<1> QED
    BY <1>2 DEF FreshStatus, Status, Times, NoTime, Errors

LEMMA ScheduledStatusType ==
    ASSUME NEW s \in Status, NEW t
    PROVE  ScheduledStatus(s, t) \in Status
<1> DEFINE start == WindowStart(t)
           map == [h \in Window(t) |->
                      IF h \in DOMAIN s.intervals THEN s.intervals[h] ELSE FALSE]
<1>1. s.intervals \in IntervalMaps /\ s.expired \in Nat
    BY DEF Status
<1>2. DOMAIN s.intervals \subseteq HourStarts /\ s.intervals \in [DOMAIN s.intervals -> BOOLEAN]
    BY <1>1, IntervalMapShape
<1>3. map \in [Window(t) -> BOOLEAN]
    BY <1>2
<1>4. map \in IntervalMaps
    BY <1>3, MapIsIntervalMap DEF Window
<1>5. MissedHours(s.intervals, start) \in Nat
    BY HourSetsAreFinite DEF MissedHours
<1>6. ExpiredIncomplete(s.intervals, start) \in Nat
    BY <1>2, HourSetsAreFinite DEF ExpiredIncomplete
<1>7. s.expired + MissedHours(s.intervals, start) + ExpiredIncomplete(s.intervals, start) \in Nat
    BY <1>1, <1>5, <1>6
<1> QED
    BY <1>4, <1>7 DEF ScheduledStatus, Status

LEMMA PublishedStatusType ==
    ASSUME mem \in Status, pending \in Snapshot
    PROVE  PublishedStatus \in Status
<1> DEFINE collected == pending.content \in Full
           map == [h \in DOMAIN mem.intervals \cup {pending.start} |->
                      IF h = pending.start THEN collected ELSE mem.intervals[h]]
           popped == {h \in DOMAIN map : Cardinality({g \in DOMAIN map : g >= h}) > Cap}
           kept == [h \in DOMAIN map \ popped |-> map[h]]
           lost == {h \in popped : ~map[h]}
<1>1. /\ mem.intervals \in IntervalMaps /\ mem.expired \in Nat
      /\ pending.start \in HourStarts
    BY DEF Status, Snapshot
<1>2. DOMAIN mem.intervals \subseteq HourStarts /\ mem.intervals \in [DOMAIN mem.intervals -> BOOLEAN]
    BY <1>1, IntervalMapShape
<1>3. map \in [DOMAIN mem.intervals \cup {pending.start} -> BOOLEAN]
    <2>1. collected \in BOOLEAN
        OBVIOUS
    <2>2. \A h \in DOMAIN mem.intervals : mem.intervals[h] \in BOOLEAN
        BY <1>2
    <2> HIDE DEF collected
    <2> QED BY <2>1, <2>2
<1>4. DOMAIN map \subseteq HourStarts
    BY <1>1, <1>2
<1>5. kept \in [DOMAIN map \ popped -> BOOLEAN]
    <2> HIDE DEF map, popped
    <2> QED BY <1>3
<1>6. kept \in IntervalMaps
    <2> HIDE DEF kept
    <2>1. DOMAIN map \ popped \subseteq HourStarts
        BY <1>4
    <2> QED BY <2>1, <1>5, MapIsIntervalMap
<1>7. mem.expired + Cardinality(lost) \in Nat
    <2>1. lost \subseteq HourStarts
        BY <1>4
    <2> HIDE DEF lost
    <2> QED BY <1>1, <2>1, HourSetsAreFinite
<1>8. /\ Larger(mem.lastPublished, pending.start) \in Times
      /\ Larger(mem.lastCollected, pending.start) \in Times
      /\ pending.start \in Times
    BY <1>1 DEF Larger, Times, Status
<1>9. PublishedStatus =
        [mem EXCEPT
            !.lastPublished = Larger(@, pending.start),
            !.lastCollected = IF collected THEN Larger(@, pending.start) ELSE @,
            !.intervals = kept,
            !.expired = @ + Cardinality(lost),
            !.cursor = pending.start,
            !.error = IF collected THEN "none" ELSE "source_incomplete"]
    BY DEF PublishedStatus
<1> HIDE DEF kept, lost, collected
<1> QED
    BY <1>6, <1>7, <1>8, <1>9 DEF Status, Errors

LEMMA SettingsType ==
    ASSUME now \in 0..MaxTime, history \in Histories
    PROVE  WindowStart(now) \in 0..MaxTime
<1> DEFINE x == Monus(now, Delay)
<1>1. x \in Nat /\ x <= now
    BY CollectorAssumption DEF Monus
<1>2. x \div Hour \in Nat /\ (x \div Hour) * Hour \in Nat /\ (x \div Hour) * Hour <= x
    BY <1>1, CollectorAssumption
<1>3. history * Hour \in Nat
    BY CollectorAssumption
<1> QED
    BY <1>1, <1>2, <1>3, CollectorAssumption DEF WindowStart, WindowEnd, Monus

\* Leaving a cycle with an error keeps the worker's variables in their types.
LEMMA AbortType ==
    ASSUME NEW s \in Status, NEW e \in Errors, Abort(s, e)
    PROVE  /\ mem' \in Status /\ pc' = "finish" /\ todo' \in SUBSET HourStarts
           /\ part' = 1 /\ part' \in 1..(Batches + 1)
<1>1. [s EXCEPT !.error = e] \in Status
    BY DEF Status
<1> QED
    BY <1>1, CollectorAssumption DEF Abort

\* A request that takes effect keeps the sink in its type.
LEMMA TakesEffectType ==
    ASSUME TypeOK, NEW r \in Request, TakesEffect(r)
    PROVE  /\ stored' \in SUBSET [start : HourStarts, content : Contents, part : 1..Batches]
           /\ selected' \in [HourStarts -> Contents \cup {NoReport}]
<1>1. CASE r.part <= Batches
    <2>1. r \in [start : HourStarts, content : Contents, part : 1..Batches]
        BY <1>1, CollectorAssumption DEF Request
    <2> QED
        BY <1>1, <2>1 DEF TakesEffect, TypeOK
<1>2. CASE ~(r.part <= Batches)
    BY <1>2 DEF TakesEffect, TypeOK, Request
<1> QED
    BY <1>1, <1>2

LEMMA PublicationType ==
    ASSUME TypeOK, pending # NoPending
    PROVE  Publication \in Request
<1> QED
    BY DEF TypeOK, Publication, Request, Snapshot

LEMMA AbandonedType ==
    ASSUME TypeOK, pending # NoPending, Abandoned
    PROVE  /\ stored' \in SUBSET [start : HourStarts, content : Contents, part : 1..Batches]
           /\ selected' \in [HourStarts -> Contents \cup {NoReport}]
           /\ late' \in SUBSET Request
<1>1. CASE UNCHANGED sink
    BY <1>1 DEF sink, TypeOK
<1>2. CASE TakesEffect(Publication) /\ UNCHANGED late
    BY <1>2, PublicationType, TakesEffectType DEF TypeOK
<1>3. CASE late' = late \cup {Publication} /\ UNCHANGED <<stored, selected>>
    BY <1>3, PublicationType DEF TypeOK
<1> QED
    BY <1>1, <1>2, <1>3 DEF Abandoned

LEMMA AbandonRequestType ==
    ASSUME TypeOK, AbandonRequest
    PROVE  /\ stored' \in SUBSET [start : HourStarts, content : Contents, part : 1..Batches]
           /\ selected' \in [HourStarts -> Contents \cup {NoReport}]
           /\ late' \in SUBSET Request
<1> QED
    BY AbandonedType DEF AbandonRequest, sink, TypeOK

LEMMA WorkerGoneType ==
    ASSUME TypeOK, WorkerGone
    PROVE  /\ mem' \in Status /\ pc' = "down" /\ todo' \in SUBSET HourStarts
           /\ part' = 1 /\ part' \in 1..(Batches + 1)
<1>1. mem.binding \in Bindings
    BY DEF TypeOK, Status
<1> QED
    BY <1>1, FreshStatusType, CollectorAssumption DEF WorkerGone

\* The type invariant with the control invariant it needs is inductive.
LEMMA TypeInit == Init => TypeOK /\ ControlInv
<1> SUFFICES ASSUME Init PROVE TypeOK /\ ControlInv
    OBVIOUS
<1>1. mem \in Status
    BY FreshStatusType DEF Init
<1> QED
    BY <1>1, CollectorAssumption DEF Init, TypeOK, ControlInv, Locations

LEMMA TypeStep == TypeOK /\ ControlInv /\ [Next]_vars => TypeOK' /\ ControlInv'
<1> SUFFICES ASSUME TypeOK, ControlInv, [Next]_vars PROVE TypeOK' /\ ControlInv'
    OBVIOUS
<1> USE DEF TypeOK, ControlInv, Locations
<1>1. CASE Start
    <2>1. mem' \in Status
        BY <1>1, FreshStatusType DEF Start
    <2> QED BY <1>1, <2>1, CollectorAssumption DEF Start, sink
<1>2. CASE NothingPending
    BY <1>2 DEF NothingPending, files, sink
<1>3. CASE WriteAcknowledged
    <2>1. /\ stored' \in SUBSET [start : HourStarts, content : Contents, part : 1..Batches]
          /\ selected' \in [HourStarts -> Contents \cup {NoReport}]
        BY <1>3, PublicationType, TakesEffectType DEF WriteAcknowledged
    <2> QED BY <1>3, <2>1, CollectorAssumption DEF WriteAcknowledged, files
<1>4. CASE WriteFails
    <2>1. /\ stored' \in SUBSET [start : HourStarts, content : Contents, part : 1..Batches]
          /\ selected' \in [HourStarts -> Contents \cup {NoReport}]
          /\ late' \in SUBSET Request
        BY <1>4, AbandonedType DEF WriteFails
    <2>2. /\ mem' \in Status /\ pc' = "finish" /\ todo' \in SUBSET HourStarts
          /\ part' = 1 /\ part' \in 1..(Batches + 1)
        BY <1>4, AbortType DEF WriteFails, Errors
    <2> QED BY <1>4, <2>1, <2>2 DEF WriteFails, files
<1>5. CASE Record
    <2>1. PublishedStatus \in Status
        BY <1>5, PublishedStatusType DEF Record
    <2>2. CASE Saved(PublishedStatus) /\ mem' = PublishedStatus /\ pc' = "remove" /\ UNCHANGED <<todo, part>>
        BY <1>5, <2>1, <2>2 DEF Record, Saved, sink
    <2>3. CASE SaveFails(PublishedStatus) /\ Abort(PublishedStatus, "failed")
        <3>1. /\ mem' \in Status /\ pc' = "finish" /\ todo' \in SUBSET HourStarts
              /\ part' = 1 /\ part' \in 1..(Batches + 1)
            BY <2>1, <2>3, AbortType DEF Errors
        <3> QED BY <1>5, <2>1, <2>3, <3>1 DEF Record, SaveFails, sink
    <2> QED BY <1>5, <2>2, <2>3 DEF Record
<1>6. CASE Remove
    <2>1. CASE pending' = NoPending /\ pc' = (IF todo = {} THEN "schedule" ELSE "pause") /\ UNCHANGED <<mem, todo, part>>
        BY <1>6, <2>1 DEF Remove, sink
    <2>2. CASE pending' \in {pending, NoPending} /\ Abort(mem, "failed")
        <3>1. /\ mem' \in Status /\ pc' = "finish" /\ todo' \in SUBSET HourStarts
              /\ part' = 1 /\ part' \in 1..(Batches + 1)
            BY <2>2, AbortType DEF Errors
        <3> QED BY <1>6, <2>2, <3>1 DEF Remove, sink
    <2> QED BY <1>6, <2>1, <2>2 DEF Remove
<1>7. CASE Schedule
    <2> DEFINE s == ScheduledStatus(mem, now)
    <2>1. s \in Status
        BY ScheduledStatusType
    <2>2. Candidates(s, now) \subseteq HourStarts
        <3>1. DOMAIN s.intervals \subseteq HourStarts
            BY <2>1, IntervalMapShape DEF Status
        <3> HIDE DEF s
        <3> QED BY <3>1 DEF Candidates
    <2>3. first' \in 0..MaxTime
        BY <1>7, SettingsType DEF Schedule
    <2> HIDE DEF s
    <2>4. CASE /\ Saved(s) /\ mem' = s /\ todo' = Candidates(s, now)
               /\ pc' = (IF Candidates(s, now) = {} THEN "finish" ELSE "collect")
               /\ UNCHANGED part
        BY <1>7, <2>1, <2>2, <2>3, <2>4 DEF Schedule, Saved, sink
    <2>5. CASE SaveFails(s) /\ Abort(s, "failed")
        <3>1. /\ mem' \in Status /\ pc' = "finish" /\ todo' \in SUBSET HourStarts
              /\ part' = 1 /\ part' \in 1..(Batches + 1)
            BY <2>1, <2>5, AbortType DEF Errors
        <3> QED BY <1>7, <2>1, <2>3, <2>5, <3>1 DEF Schedule, SaveFails, sink
    <2> QED BY <1>7, <2>4, <2>5 DEF Schedule, s
<1>8. CASE Collect
    <2>1. PICK h \in todo, c \in Contents :
              LET snapshot == [start |-> h, content |-> c, binding |-> mem.binding]
              IN  \/ /\ pending' = snapshot
                     /\ pc' = "save_collected"
                     /\ UNCHANGED <<mem, todo, part>>
                  \/ /\ pending' \in {pending, snapshot}
                     /\ Abort(mem, "failed")
        BY <1>8 DEF Collect
    <2> DEFINE snapshot == [start |-> h, content |-> c, binding |-> mem.binding]
    <2>2. snapshot \in Snapshot
        BY DEF Snapshot, Status
    <2>3. snapshot # NoPending
        BY <2>2, AbsentAssumption
    <2> HIDE DEF snapshot
    <2>4. CASE /\ pending' = snapshot /\ pc' = "save_collected" /\ UNCHANGED <<mem, todo, part>>
        BY <1>8, <2>2, <2>3, <2>4 DEF Collect, sink
    <2>5. CASE pending' \in {pending, snapshot} /\ Abort(mem, "failed")
        <3>1. /\ mem' \in Status /\ pc' = "finish" /\ todo' \in SUBSET HourStarts
              /\ part' = 1 /\ part' \in 1..(Batches + 1)
            BY <2>5, AbortType DEF Errors
        <3> QED BY <1>8, <2>2, <2>5, <3>1 DEF Collect, sink
    <2> QED BY <2>1, <2>4, <2>5 DEF snapshot
<1>9. CASE CollectRefused
    <2>1. /\ mem' \in Status /\ pc' = "finish" /\ todo' \in SUBSET HourStarts
          /\ part' = 1 /\ part' \in 1..(Batches + 1)
        BY <1>9, AbortType DEF CollectRefused, Errors
    <2> QED BY <1>9, <2>1 DEF CollectRefused, files, sink
<1>10. CASE SaveCollected
    <2> DEFINE s == IF pending.content \in Full
                    THEN [mem EXCEPT !.lastCollected = Larger(@, pending.start)]
                    ELSE mem
    <2>1. s \in Status
        BY <1>10 DEF SaveCollected, Status, Larger, Snapshot, Times
    <2> HIDE DEF s
    <2>2. CASE Saved(s) /\ mem' = s /\ pc' = "publish" /\ UNCHANGED <<todo, part>>
        BY <1>10, <2>1, <2>2 DEF SaveCollected, Saved, sink
    <2>3. CASE SaveFails(s) /\ Abort(s, "failed")
        <3>1. /\ mem' \in Status /\ pc' = "finish" /\ todo' \in SUBSET HourStarts
              /\ part' = 1 /\ part' \in 1..(Batches + 1)
            BY <2>1, <2>3, AbortType DEF Errors
        <3> QED BY <1>10, <2>1, <2>3, <3>1 DEF SaveCollected, SaveFails, sink
    <2> QED BY <1>10, <2>2, <2>3 DEF SaveCollected, s
<1>11. CASE Pause
    BY <1>11 DEF Pause, files, sink
<1>12. CASE CycleTimeout
    <2>1. /\ stored' \in SUBSET [start : HourStarts, content : Contents, part : 1..Batches]
          /\ selected' \in [HourStarts -> Contents \cup {NoReport}]
          /\ late' \in SUBSET Request
        BY <1>12, AbandonRequestType DEF CycleTimeout
    <2>2. /\ mem' \in Status /\ pc' = "finish" /\ todo' \in SUBSET HourStarts
          /\ part' = 1 /\ part' \in 1..(Batches + 1)
        BY <1>12, AbortType DEF CycleTimeout, Errors
    <2> QED BY <1>12, <2>1, <2>2 DEF CycleTimeout, files
<1>13. CASE Finish
    BY <1>13 DEF Finish, Saved, SaveFails, sink
<1>14. CASE Wake
    BY <1>14 DEF Wake, files, sink
<1>15. CASE Cancel \/ Crash
    <2>1. /\ stored' \in SUBSET [start : HourStarts, content : Contents, part : 1..Batches]
          /\ selected' \in [HourStarts -> Contents \cup {NoReport}]
          /\ late' \in SUBSET Request
        BY <1>15, AbandonRequestType DEF Cancel, Crash
    <2>2. /\ mem' \in Status /\ pc' = "down" /\ todo' \in SUBSET HourStarts
          /\ part' = 1 /\ part' \in 1..(Batches + 1)
        BY <1>15, WorkerGoneType DEF Cancel, Crash
    <2> QED BY <1>15, <2>1, <2>2 DEF Cancel, Crash, files
<1>16. CASE LateEffect
    <2>1. PICK r \in late : /\ late' = late \ {r}
                            /\ TakesEffect(r) \/ UNCHANGED <<stored, selected>>
        BY <1>16 DEF LateEffect
    <2>2. /\ stored' \in SUBSET [start : HourStarts, content : Contents, part : 1..Batches]
          /\ selected' \in [HourStarts -> Contents \cup {NoReport}]
        BY <2>1, TakesEffectType
    <2> QED BY <1>16, <2>1, <2>2 DEF LateEffect, worker, files
<1>17. CASE Tick
    BY <1>17, CollectorAssumption DEF Tick, worker, files, sink
<1>18. CASE StepBack
    BY <1>18, CollectorAssumption DEF StepBack, worker, files, sink
<1>19. CASE UNCHANGED vars
    BY <1>19 DEF vars, worker, files, sink
<1> QED
    BY <1>1, <1>2, <1>3, <1>4, <1>5, <1>6, <1>7, <1>8, <1>9, <1>10, <1>11, <1>12, <1>13,
       <1>14, <1>15, <1>16, <1>17, <1>18, <1>19
    DEF Next, PublishPending, Cycle, Run, Environment

\* Every variable keeps its type, whatever is interrupted: the status map
\* holds whole hours only and the counters stay natural numbers.
THEOREM TypeCorrect == Spec => []TypeOK
<1> QED
    BY TypeInit, TypeStep, PTL DEF Spec

-----------------------------------------------------------------------------
(***************************************************************************)
(* The selector always points at a completely written report.              *)
(***************************************************************************)

\* A request does not disturb the selectors if, being a selector, it comes
\* after all its records.
LEMMA TakesEffectKeepsSelectors ==
    ASSUME TypeOK, SelectorIsComplete, NEW r \in Request, TakesEffect(r),
           r.part = Batches + 1 => AllStored(r.start, r.content)
    PROVE  SelectorIsComplete' /\ stored \subseteq stored'
<1>1. CASE r.part <= Batches
    <2>1. stored \subseteq stored' /\ selected' = selected
        BY <1>1 DEF TakesEffect
    <2> QED
        BY <2>1 DEF SelectorIsComplete, AllStored
<1>2. CASE ~(r.part <= Batches)
    <2>1. r.part = Batches + 1 /\ r.start \in HourStarts
        BY <1>2, CollectorAssumption DEF Request
    <2>2. stored' = stored /\ selected' = [selected EXCEPT ![r.start] = r.content]
        BY <1>2 DEF TakesEffect
    <2>3. AllStored(r.start, r.content)
        BY <2>1
    <2> SUFFICES ASSUME NEW h \in HourStarts, selected'[h] # NoReport, NEW p \in 1..Batches
                 PROVE  [start |-> h, content |-> selected'[h], part |-> p] \in stored'
        BY <2>2 DEF SelectorIsComplete, AllStored
    <2>4. CASE h = r.start
        BY <2>1, <2>2, <2>3, <2>4 DEF AllStored, TypeOK
    <2>5. CASE h # r.start
        <3>1. selected'[h] = selected[h]
            BY <2>2, <2>5 DEF TypeOK
        <3> QED BY <2>2, <3>1 DEF AllStored, SelectorIsComplete
    <2> QED BY <2>4, <2>5
<1> QED
    BY <1>1, <1>2

\* The publication under way has written what precedes its next part.
LEMMA PublicationIsOrdered ==
    ASSUME TypeOK, PublicationInv, pc = "publish", pending # NoPending,
           Publication.part = Batches + 1
    PROVE  AllStored(Publication.start, Publication.content)
<1>1. \A p \in 1..Batches : p < part
    BY CollectorAssumption DEF Publication
<1> QED
    BY <1>1 DEF PublicationInv, AllStored, Publication

LEMMA AbandonedKeepsSelectors ==
    ASSUME TypeOK, SelectorIsComplete, PublicationInv, pc = "publish", pending # NoPending,
           Abandoned
    PROVE  /\ SelectorIsComplete' /\ stored \subseteq stored'
           /\ \A r \in late' : r.part = Batches + 1 => AllStored(r.start, r.content)'
<1>1. Publication \in Request
    BY PublicationType
<1>2. Publication.part = Batches + 1 => AllStored(Publication.start, Publication.content)
    BY PublicationIsOrdered
<1>3. \A r \in late : r.part = Batches + 1 => AllStored(r.start, r.content)
    BY DEF PublicationInv
<1>4. CASE UNCHANGED sink
    BY <1>3, <1>4 DEF sink, SelectorIsComplete, AllStored
<1>5. CASE TakesEffect(Publication) /\ UNCHANGED late
    <2>1. SelectorIsComplete' /\ stored \subseteq stored'
        BY <1>1, <1>2, <1>5, TakesEffectKeepsSelectors
    <2> QED BY <1>3, <1>5, <2>1 DEF AllStored
<1>6. CASE late' = late \cup {Publication} /\ UNCHANGED <<stored, selected>>
    <2>1. SelectorIsComplete' /\ stored \subseteq stored'
        BY <1>6 DEF SelectorIsComplete, AllStored
    <2>2. ASSUME NEW r \in late', r.part = Batches + 1
          PROVE  AllStored(r.start, r.content)'
        <3>1. CASE r \in late
            BY <1>3, <1>6, <2>2, <3>1 DEF AllStored
        <3>2. CASE r = Publication
            <4>1. AllStored(Publication.start, Publication.content)
                BY <1>2, <2>2, <3>2
            <4>2. AllStored(r.start, r.content)
                BY <3>2, <4>1
            <4> QED BY <1>6, <4>2 DEF AllStored
        <3> QED BY <1>6, <3>1, <3>2
    <2> QED BY <2>1, <2>2
<1> QED
    BY <1>4, <1>5, <1>6 DEF Abandoned

LEMMA SelectorStep ==
    TypeOK /\ ControlInv /\ SelectorIsComplete /\ PublicationInv /\ [Next]_vars
        => SelectorIsComplete' /\ PublicationInv'
<1> SUFFICES ASSUME TypeOK, ControlInv, SelectorIsComplete, PublicationInv, [Next]_vars
             PROVE  SelectorIsComplete' /\ PublicationInv'
    OBVIOUS
\* A step that leaves the sink alone and does not stand before a later part.
<1>1. ASSUME UNCHANGED sink, pc' # "publish" \/ part' = 1
      PROVE  SelectorIsComplete' /\ PublicationInv'
    <2>1. SelectorIsComplete'
        BY <1>1 DEF sink, SelectorIsComplete, AllStored
    <2>2. \A r \in late' : r.part = Batches + 1 => AllStored(r.start, r.content)'
        BY <1>1 DEF sink, PublicationInv, AllStored
    <2>3. pc' = "publish" => \A p \in 1..Batches : ~(p < part')
        BY <1>1
    <2> QED BY <2>1, <2>2, <2>3 DEF PublicationInv
\* A step that abandons the request under way.
<1>2. ASSUME pc = "publish", pending # NoPending, Abandoned, pc' # "publish"
      PROVE  SelectorIsComplete' /\ PublicationInv'
    BY <1>2, AbandonedKeepsSelectors DEF PublicationInv
<1>3. CASE Start
    BY <1>1, <1>3 DEF Start
<1>4. CASE NothingPending
    BY <1>1, <1>4 DEF NothingPending
<1>5. CASE WriteAcknowledged
    <2>1. SelectorIsComplete' /\ stored \subseteq stored'
        BY <1>5, PublicationType, PublicationIsOrdered, TakesEffectKeepsSelectors
        DEF WriteAcknowledged
    <2>2. \A r \in late' : r.part = Batches + 1 => AllStored(r.start, r.content)'
        BY <1>5, <2>1 DEF WriteAcknowledged, PublicationInv, AllStored
    <2>3. ASSUME pc' = "publish", NEW p \in 1..Batches, p < part'
          PROVE  [start |-> pending.start, content |-> pending.content, part |-> p] \in stored'
        <3>1. part <= Batches /\ part' = part + 1 /\ stored' = stored \cup {Publication}
            BY <1>5, <2>3 DEF WriteAcknowledged, TakesEffect, Publication
        <3>2. CASE p < part
            BY <1>5, <2>1, <3>2 DEF WriteAcknowledged, PublicationInv
        <3>3. CASE p = part
            BY <3>1, <3>3 DEF Publication
        <3> QED BY <2>3, <3>1, <3>2, <3>3 DEF TypeOK
    <2> QED BY <1>5, <2>1, <2>2, <2>3 DEF PublicationInv, WriteAcknowledged, files
<1>6. CASE WriteFails
    BY <1>2, <1>6 DEF WriteFails, Abort
<1>7. CASE Record
    BY <1>1, <1>7 DEF Record, Abort
<1>8. CASE Remove
    BY <1>1, <1>8 DEF Remove, Abort
<1>9. CASE Schedule
    BY <1>1, <1>9 DEF Schedule, Abort
<1>10. CASE Collect
    BY <1>1, <1>10 DEF Collect, Abort
<1>11. CASE CollectRefused
    BY <1>1, <1>11 DEF CollectRefused, Abort
<1>12. CASE SaveCollected
    <2>1. part = 1
        BY <1>12 DEF SaveCollected, ControlInv
    <2> QED BY <1>1, <1>12, <2>1 DEF SaveCollected, Abort
<1>13. CASE Pause
    BY <1>1, <1>13 DEF Pause
<1>14. CASE CycleTimeout \/ Cancel \/ Crash
    <2>1. AbandonRequest /\ pc' # "publish"
        BY <1>14 DEF CycleTimeout, Cancel, Crash, Abort, WorkerGone
    <2> QED BY <1>1, <1>2, <2>1 DEF AbandonRequest
<1>15. CASE Finish
    BY <1>1, <1>15 DEF Finish
<1>16. CASE Wake
    <2>1. part = 1
        BY <1>16 DEF Wake, ControlInv
    <2> QED BY <1>1, <1>16, <2>1 DEF Wake
<1>17. CASE LateEffect
    <2>1. PICK r \in late : /\ late' = late \ {r}
                            /\ TakesEffect(r) \/ UNCHANGED <<stored, selected>>
        BY <1>17 DEF LateEffect
    <2>2. r \in Request /\ (r.part = Batches + 1 => AllStored(r.start, r.content))
        BY DEF TypeOK, PublicationInv
    <2>3. SelectorIsComplete' /\ stored \subseteq stored'
        <3>1. CASE TakesEffect(r)
            BY <2>2, <3>1, TakesEffectKeepsSelectors
        <3>2. CASE UNCHANGED <<stored, selected>>
            BY <3>2 DEF SelectorIsComplete, AllStored
        <3> QED BY <2>1, <3>1, <3>2
    <2>4. pc' = pc /\ pending' = pending /\ part' = part
        BY <1>17 DEF LateEffect, worker, files
    <2> QED BY <2>1, <2>3, <2>4 DEF PublicationInv, AllStored
<1>18. CASE Tick \/ StepBack \/ UNCHANGED vars
    <2>1. UNCHANGED sink /\ pc' = pc /\ pending' = pending /\ part' = part
        BY <1>18 DEF Tick, StepBack, vars, worker, files
    <2> QED BY <2>1 DEF sink, SelectorIsComplete, PublicationInv, AllStored
<1> QED
    BY <1>3, <1>4, <1>5, <1>6, <1>7, <1>8, <1>9, <1>10, <1>11, <1>12, <1>13, <1>14, <1>15,
       <1>16, <1>17, <1>18
    DEF Next, PublishPending, Cycle, Run, Environment

\* Whatever is interrupted, replayed or delivered late, an hour's selector
\* names a report whose every record is in the bucket.
THEOREM SelectorComplete == Spec => []SelectorIsComplete
<1>1. Init => SelectorIsComplete /\ PublicationInv
    BY DEF Init, SelectorIsComplete, PublicationInv
<1> QED
    BY <1>1, TypeInit, TypeStep, SelectorStep, PTL DEF Spec

-----------------------------------------------------------------------------
(***************************************************************************)
(* What the collector's status says of the sink: its binding, its          *)
(* checkpoints, the hours it calls complete, the report it has staged and  *)
(* the hours it counts as lost.                                            *)
(*                                                                         *)
(* The first part sums up what one step may do to a status, to the staged  *)
(* report, to a selector and to the place of the worker; each invariant is *)
(* then proved from these summaries instead of from the actions.           *)
(***************************************************************************)
\* Two statuses that differ at most in the error they report.
Agrees(t, s) ==
    /\ t.binding = s.binding /\ t.intervals = s.intervals
    /\ t.cursor = s.cursor /\ t.expired = s.expired
    /\ t.lastPublished = s.lastPublished /\ t.lastCollected = s.lastCollected

\* The status that notes a collected report.
Noted ==
    IF pending.content \in Full
    THEN [mem EXCEPT !.lastCollected = Larger(@, pending.start)]
    ELSE mem

\* Where a status that exists after a step comes from.
Origin(t) ==
    \/ t \in Statuses
    \/ pc = "down" /\ disk = NoStatus /\ \E b \in Bindings : t = FreshStatus(b)
    \/ pc # "down" /\ Agrees(t, mem)
    \/ pc = "save_collected" /\ pending # NoPending /\ Agrees(t, Noted)
    \/ pc = "schedule" /\ Agrees(t, ScheduledStatus(mem, now))
    \/ pc = "record" /\ pending # NoPending /\ Agrees(t, PublishedStatus)

LEMMA AbortAgrees ==
    ASSUME NEW s \in Status, NEW e, Abort(s, e)
    PROVE  Agrees(mem', s) /\ mem'.error = e
<1> QED
    BY DEF Abort, Agrees, Status

LEMMA NotedType ==
    ASSUME mem \in Status, pending \in Snapshot
    PROVE  Noted \in Status
<1> QED
    BY DEF Noted, Status, Larger, Snapshot, Times

LEMMA StatusOrigin ==
    ASSUME TypeOK, ControlInv, [Next]_vars
    PROVE  \A t \in Statuses' : Origin(t)
<1> SUFFICES (disk' # NoStatus => Origin(disk')) /\ (pc' # "down" => Origin(mem'))
    BY DEF Statuses
<1>0. /\ mem \in Status /\ disk \in Status \cup {NoStatus}
      /\ pending \in Snapshot \cup {NoPending}
    BY DEF TypeOK
<1>1. disk # NoStatus => Origin(disk)
    BY DEF Origin, Statuses
<1>2. pc # "down" => Origin(mem)
    BY DEF Origin, Statuses
\* A step that leaves both statuses alone, and one that gives up the cycle.
<1>3. ASSUME disk' = disk, pc' = "down" \/ (mem' = mem /\ pc # "down")
      PROVE  (disk' # NoStatus => Origin(disk')) /\ (pc' # "down" => Origin(mem'))
    BY <1>1, <1>2, <1>3
<1>4. ASSUME disk' = disk, NEW e, Abort(mem, e), pc # "down"
      PROVE  (disk' # NoStatus => Origin(disk')) /\ Origin(mem')
    <2>1. Agrees(mem', mem)
        BY <1>0, <1>4, AbortAgrees
    <2> QED BY <1>1, <1>4, <2>1 DEF Origin
\* A step that saves a new status, or fails to.
<1>5. ASSUME NEW s \in Status, \A t : t = s \/ Agrees(t, s) => Origin(t),
             \/ Saved(s) /\ mem' = s
             \/ SaveFails(s) /\ Abort(s, "failed")
      PROVE  (disk' # NoStatus => Origin(disk')) /\ Origin(mem')
    <2>1. mem' = s \/ Agrees(mem', s)
        BY <1>5, AbortAgrees
    <2>2. disk' \in {disk, s}
        BY <1>5 DEF Saved, SaveFails
    <2> QED BY <1>1, <1>5, <2>1, <2>2
<1>6. \A t, s : s \in Status /\ t = s => Agrees(t, s)
    BY DEF Agrees
<1>7. CASE Start
    <2>1. disk' = mem' /\ pc = "down"
        BY <1>7 DEF Start
    <2>2. \/ disk # NoStatus /\ mem' = disk
          \/ disk = NoStatus /\ \E b \in Bindings : mem' = FreshStatus(b)
        BY <1>7 DEF Start
    <2> QED BY <1>1, <2>1, <2>2 DEF Origin
<1>8. CASE NothingPending \/ WriteAcknowledged \/ Pause \/ Wake
    <2>1. disk' = disk /\ mem' = mem /\ pc # "down"
        BY <1>8 DEF NothingPending, WriteAcknowledged, Pause, Wake, files
    <2> QED BY <1>3, <2>1
<1>9. CASE WriteFails \/ CollectRefused \/ CycleTimeout
    <2>1. disk' = disk /\ pc # "down" /\ \E e : Abort(mem, e)
        BY <1>9 DEF WriteFails, CollectRefused, CycleTimeout, files, Awaiting
    <2> QED BY <1>4, <2>1
<1>10. CASE Record
    <2>1. pc = "record" /\ pending # NoPending
        BY <1>10 DEF Record, ControlInv
    <2>2. PublishedStatus \in Status
        BY <1>0, <2>1, PublishedStatusType
    <2>3. \A t : t = PublishedStatus \/ Agrees(t, PublishedStatus) => Origin(t)
        BY <1>6, <2>1, <2>2 DEF Origin
    <2>4. \/ Saved(PublishedStatus) /\ mem' = PublishedStatus
          \/ SaveFails(PublishedStatus) /\ Abort(PublishedStatus, "failed")
        BY <1>10 DEF Record
    <2> QED BY <1>5, <2>2, <2>3, <2>4
<1>11. CASE Remove
    <2>1. disk' = disk /\ pc # "down" /\ (mem' = mem \/ Abort(mem, "failed"))
        BY <1>11 DEF Remove
    <2> QED BY <1>3, <1>4, <2>1
<1>12. CASE Schedule
    <2>1. pc = "schedule"
        BY <1>12 DEF Schedule
    <2> DEFINE s == ScheduledStatus(mem, now)
    <2>2. s \in Status
        BY <1>0, ScheduledStatusType
    <2>3. \/ Saved(s) /\ mem' = s
          \/ SaveFails(s) /\ Abort(s, "failed")
        BY <1>12 DEF Schedule
    <2>4. \A t : t = s \/ Agrees(t, s) => Origin(t)
        BY <1>6, <2>1, <2>2 DEF Origin
    <2> HIDE DEF s
    <2> QED BY <1>5, <2>2, <2>3, <2>4
<1>13. CASE Collect
    <2>1. disk' = disk /\ pc # "down" /\ (mem' = mem \/ Abort(mem, "failed"))
        BY <1>13 DEF Collect
    <2> QED BY <1>3, <1>4, <2>1
<1>14. CASE SaveCollected
    <2>1. pc = "save_collected" /\ pending # NoPending
        BY <1>14 DEF SaveCollected, ControlInv
    <2>2. Noted \in Status
        BY <1>0, <2>1, NotedType
    <2>3. \A t : t = Noted \/ Agrees(t, Noted) => Origin(t)
        BY <1>6, <2>1, <2>2 DEF Origin
    <2>4. \/ Saved(Noted) /\ mem' = Noted
          \/ SaveFails(Noted) /\ Abort(Noted, "failed")
        BY <1>14 DEF SaveCollected, Noted
    <2> QED BY <1>5, <2>2, <2>3, <2>4
<1>15. CASE Finish
    <2>1. disk' \in {disk, mem} /\ mem' = mem /\ pc # "down"
        BY <1>15 DEF Finish, Saved, SaveFails
    <2> QED BY <1>1, <1>2, <2>1
<1>16. CASE Cancel \/ Crash
    <2>1. disk' = disk /\ pc' = "down"
        BY <1>16 DEF Cancel, Crash, WorkerGone, files
    <2> QED BY <1>3, <2>1
<1>17. CASE LateEffect \/ Tick \/ StepBack \/ UNCHANGED vars
    <2>1. disk' = disk /\ mem' = mem /\ pc' = pc
        BY <1>17 DEF LateEffect, Tick, StepBack, vars, worker, files
    <2> QED BY <1>1, <1>2, <2>1
<1> QED
    BY <1>7, <1>8, <1>9, <1>10, <1>11, <1>12, <1>13, <1>14, <1>15, <1>16, <1>17
    DEF Next, PublishPending, Cycle, Run, Environment

\* A report is staged over nothing and given up only after its recording.
LEMMA PendingStep ==
    ASSUME TypeOK, ControlInv, [Next]_vars
    PROVE  \/ pending' = pending
           \/ pc = "remove" /\ pending' = NoPending
           \/ /\ pc = "collect" /\ pending = NoPending /\ pc' \in {"save_collected", "finish"}
              /\ \E h \in todo, c \in Contents :
                    pending' = [start |-> h, content |-> c, binding |-> mem.binding]
<1>1. CASE Remove
    BY <1>1 DEF Remove
<1>2. CASE Collect
    <2>1. pending = NoPending
        BY <1>2 DEF Collect, ControlInv
    <2> QED BY <1>2, <2>1 DEF Collect, Abort
<1>3. CASE Start \/ Record \/ Schedule \/ SaveCollected \/ Finish
    BY <1>3 DEF Start, Record, Schedule, SaveCollected, Finish
<1>4. CASE NothingPending \/ WriteAcknowledged \/ WriteFails \/ CollectRefused \/ Pause
    BY <1>4 DEF NothingPending, WriteAcknowledged, WriteFails, CollectRefused, Pause, files
<1>5. CASE CycleTimeout \/ Wake \/ Cancel \/ Crash
    BY <1>5 DEF CycleTimeout, Wake, Cancel, Crash, files
<1>6. CASE LateEffect \/ Tick \/ StepBack \/ UNCHANGED vars
    BY <1>6 DEF LateEffect, Tick, StepBack, vars, files
<1> QED
    BY <1>1, <1>2, <1>3, <1>4, <1>5, <1>6 DEF Next, PublishPending, Cycle, Run, Environment

\* What one request does to the selectors.
LEMMA EffectOnSelector ==
    ASSUME NEW r, TakesEffect(r)
    PROVE  selected' = selected \/ selected' = [selected EXCEPT ![r.start] = r.content]
<1> QED
    BY DEF TakesEffect

\* A selector is set by the publication under way or by a late request.
LEMMA SelectedStep ==
    ASSUME TypeOK, ControlInv, [Next]_vars
    PROVE  \/ selected' = selected
           \/ /\ pc = "publish" /\ pending # NoPending /\ pending' = pending
              /\ selected' = [selected EXCEPT ![pending.start] = pending.content]
           \/ /\ pc' = pc /\ pending' = pending
              /\ \E r \in late : selected' = [selected EXCEPT ![r.start] = r.content]
<1>0. Publication.start = pending.start /\ Publication.content = pending.content
    BY DEF Publication
<1>1. ASSUME Abandoned
      PROVE  selected' = selected \/ selected' = [selected EXCEPT ![pending.start] = pending.content]
    BY <1>0, <1>1, EffectOnSelector DEF Abandoned, sink
<1>2. ASSUME AbandonRequest
      PROVE  \/ selected' = selected
             \/ /\ pc = "publish" /\ pending # NoPending
                /\ selected' = [selected EXCEPT ![pending.start] = pending.content]
    BY <1>1, <1>2 DEF AbandonRequest, sink
<1>3. CASE WriteAcknowledged
    <2>1. pc = "publish" /\ pending # NoPending /\ pending' = pending /\ TakesEffect(Publication)
        BY <1>3 DEF WriteAcknowledged, files
    <2> QED BY <1>0, <2>1, EffectOnSelector
<1>4. CASE WriteFails
    <2>1. pc = "publish" /\ pending # NoPending /\ pending' = pending /\ Abandoned
        BY <1>4 DEF WriteFails, files
    <2> QED BY <1>1, <2>1
<1>5. CASE CycleTimeout \/ Cancel \/ Crash
    <2>1. pending' = pending /\ AbandonRequest
        BY <1>5 DEF CycleTimeout, Cancel, Crash, files
    <2> QED BY <1>2, <2>1
<1>6. CASE LateEffect
    <2>1. pc' = pc /\ pending' = pending
        BY <1>6 DEF LateEffect, worker, files
    <2> QED BY <1>6, <2>1, EffectOnSelector DEF LateEffect
<1>7. CASE Start \/ NothingPending \/ Record \/ Remove \/ Schedule \/ Collect
    BY <1>7 DEF Start, NothingPending, Record, Remove, Schedule, Collect, sink
<1>8. CASE CollectRefused \/ SaveCollected \/ Pause \/ Finish \/ Wake
    BY <1>8 DEF CollectRefused, SaveCollected, Pause, Finish, Wake, sink
<1>9. CASE Tick \/ StepBack \/ UNCHANGED vars
    BY <1>9 DEF Tick, StepBack, vars, sink
<1> QED
    BY <1>3, <1>4, <1>5, <1>6, <1>7, <1>8, <1>9 DEF Next, PublishPending, Cycle, Run, Environment

\* How the worker comes to record a report and to remove it.
LEMMA RecordingStep ==
    ASSUME TypeOK, ControlInv, [Next]_vars
    PROVE  /\ pc' = "record" =>
                 /\ pending # NoPending /\ pending' = pending
                 /\ \/ pc = "record"
                    \/ /\ pc = "publish"
                       /\ selected' = [selected EXCEPT ![pending.start] = pending.content]
           /\ pc' = "remove" =>
                 /\ pending # NoPending /\ pending' = pending
                 /\ \/ pc = "remove" /\ disk' = disk /\ mem' = mem
                    \/ pc = "record" /\ disk' = PublishedStatus /\ mem' = PublishedStatus
<1>1. CASE WriteAcknowledged
    <2>1. pc = "publish" /\ pending # NoPending /\ pending' = pending
        BY <1>1 DEF WriteAcknowledged, files
    <2>2. CASE part <= Batches
        BY <1>1, <2>1, <2>2 DEF WriteAcknowledged
    <2>3. CASE ~(part <= Batches)
        <3>1. pc' = "record" /\ ~(Publication.part <= Batches) /\ TakesEffect(Publication)
            BY <1>1, <2>3 DEF WriteAcknowledged, Publication
        <3>2. selected' = [selected EXCEPT ![Publication.start] = Publication.content]
            BY <3>1 DEF TakesEffect
        <3> QED BY <2>1, <3>1, <3>2 DEF Publication
    <2> QED BY <2>2, <2>3
<1>2. CASE Record
    <2>1. pending # NoPending
        BY <1>2 DEF Record, ControlInv
    <2> QED BY <1>2, <2>1 DEF Record, Saved, Abort
<1>3. CASE LateEffect \/ Tick \/ StepBack \/ UNCHANGED vars
    <2>1. UNCHANGED <<pc, mem, disk, pending>>
        BY <1>3 DEF LateEffect, Tick, StepBack, vars, worker, files
    <2> QED BY <2>1 DEF ControlInv
<1>4. CASE Start \/ NothingPending \/ WriteFails \/ Remove \/ Schedule \/ Collect
    BY <1>4 DEF Start, NothingPending, WriteFails, Remove, Schedule, Collect, Abort
<1>5. CASE CollectRefused \/ SaveCollected \/ Pause \/ Finish \/ Wake
    BY <1>5 DEF CollectRefused, SaveCollected, Pause, Finish, Wake, Abort
<1>6. CASE CycleTimeout \/ Cancel \/ Crash
    BY <1>6 DEF CycleTimeout, Cancel, Crash, Abort, WorkerGone
<1> QED
    BY <1>1, <1>2, <1>3, <1>4, <1>5, <1>6 DEF Next, PublishPending, Cycle, Run, Environment

\* A worker that starts saves what it starts from, and status.json stays.
LEMMA DiskStep ==
    ASSUME TypeOK, ControlInv, [Next]_vars
    PROVE  /\ disk # NoStatus => disk' # NoStatus
           /\ pc = "down" => \/ pc' = "down" /\ disk' = disk
                             \/ /\ Start /\ disk' = mem' /\ disk' # NoStatus
                                /\ pending' = pending /\ selected' = selected
<1>0. TypeOK'
    BY TypeStep
<1>1. CASE Start
    <2>1. disk' = mem' /\ pending' = pending /\ selected' = selected
        BY <1>1 DEF Start, sink
    <2>2. disk' # NoStatus
        BY <1>0, <2>1, AbsentAssumption DEF TypeOK
    <2> QED BY <1>1, <2>1, <2>2
<1>2. CASE ~Start
    <2>1. pc = "down" => pc' = "down" /\ disk' = disk
        BY <1>2 DEF Next, PublishPending, Cycle, Run, Environment, NothingPending,
              WriteAcknowledged, WriteFails, Record, Remove, Schedule, Collect, CollectRefused,
              SaveCollected, Pause, CycleTimeout, Finish, Wake, Cancel, Crash, Awaiting,
              LateEffect, Tick, StepBack, vars, worker, files
    <2>2. ASSUME pc # "down", disk # NoStatus
          PROVE  disk' # NoStatus
        <3>1. mem # NoStatus
            BY AbsentAssumption DEF TypeOK
        <3>2. pc = "record" => PublishedStatus # NoStatus
            BY PublishedStatusType, AbsentAssumption DEF TypeOK, ControlInv
        <3>3. ScheduledStatus(mem, now) # NoStatus
            BY ScheduledStatusType, AbsentAssumption DEF TypeOK
        <3>4. pc = "save_collected" => Noted # NoStatus
            BY NotedType, AbsentAssumption DEF TypeOK, ControlInv
        <3>5. CASE Record
            BY <2>2, <3>2, <3>5 DEF Record, Saved, SaveFails
        <3>6. CASE Schedule
            BY <2>2, <3>3, <3>6 DEF Schedule, Saved, SaveFails
        <3>7. CASE SaveCollected
            BY <2>2, <3>4, <3>7 DEF SaveCollected, Saved, SaveFails, Noted
        <3>8. CASE Finish
            BY <2>2, <3>1, <3>8 DEF Finish, Saved, SaveFails
        <3>9. CASE Remove \/ Collect
            BY <2>2, <3>9 DEF Remove, Collect
        <3>10. CASE NothingPending \/ WriteAcknowledged \/ WriteFails \/ CollectRefused \/ Pause
            BY <2>2, <3>10 DEF NothingPending, WriteAcknowledged, WriteFails, CollectRefused,
                  Pause, files
        <3>11. CASE CycleTimeout \/ Wake \/ Cancel \/ Crash
            BY <2>2, <3>11 DEF CycleTimeout, Wake, Cancel, Crash, files
        <3>12. CASE LateEffect \/ Tick \/ StepBack \/ UNCHANGED vars
            BY <2>2, <3>12 DEF LateEffect, Tick, StepBack, vars, files
        <3> QED BY <1>2, <3>5, <3>6, <3>7, <3>8, <3>9, <3>10, <3>11, <3>12
                DEF Next, PublishPending, Cycle, Run, Environment
    <2> QED BY <1>2, <2>1, <2>2
<1> QED
    BY <1>1, <1>2

\* What scheduling and recording leave alone, and what they set.
LEMMA ScheduledShape ==
    ASSUME NEW s \in Status, NEW t
    PROVE  /\ ScheduledStatus(s, t).binding = s.binding
           /\ ScheduledStatus(s, t).cursor = s.cursor
           /\ ScheduledStatus(s, t).lastPublished = s.lastPublished
           /\ ScheduledStatus(s, t).lastCollected = s.lastCollected
           /\ ScheduledStatus(s, t).expired =
                 s.expired + MissedHours(s.intervals, WindowStart(t))
                           + ExpiredIncomplete(s.intervals, WindowStart(t))
           /\ DOMAIN ScheduledStatus(s, t).intervals = Window(t)
<1> QED
    BY DEF ScheduledStatus, Status

LEMMA ScheduledMap ==
    ASSUME NEW s \in Status, NEW t, NEW h \in Window(t)
    PROVE  ScheduledStatus(s, t).intervals[h] =
              (IF h \in DOMAIN s.intervals THEN s.intervals[h] ELSE FALSE)
<1> QED
    BY DEF ScheduledStatus, Status

LEMMA PublishedShape ==
    ASSUME mem \in Status, pending \in Snapshot
    PROVE  /\ PublishedStatus.binding = mem.binding
           /\ PublishedStatus.cursor = pending.start
           /\ PublishedStatus.lastPublished = Larger(mem.lastPublished, pending.start)
           /\ PublishedStatus.lastCollected =
                 (IF pending.content \in Full THEN Larger(mem.lastCollected, pending.start)
                  ELSE mem.lastCollected)
           /\ DOMAIN PublishedStatus.intervals \subseteq DOMAIN mem.intervals \cup {pending.start}
           /\ \A h \in DOMAIN PublishedStatus.intervals :
                 PublishedStatus.intervals[h] =
                    (IF h = pending.start THEN pending.content \in Full ELSE mem.intervals[h])
<1> DEFINE map == [h \in DOMAIN mem.intervals \cup {pending.start} |->
                      IF h = pending.start THEN pending.content \in Full ELSE mem.intervals[h]]
           popped == {h \in DOMAIN map : Cardinality({g \in DOMAIN map : g >= h}) > Cap}
           kept == [h \in DOMAIN map \ popped |-> map[h]]
           lost == {h \in popped : ~map[h]}
<1>1. PublishedStatus =
        [mem EXCEPT
            !.lastPublished = Larger(@, pending.start),
            !.lastCollected = IF pending.content \in Full THEN Larger(@, pending.start) ELSE @,
            !.intervals = kept,
            !.expired = @ + Cardinality(lost),
            !.cursor = pending.start,
            !.error = IF pending.content \in Full THEN "none" ELSE "source_incomplete"]
    BY DEF PublishedStatus
<1>2. /\ DOMAIN kept \subseteq DOMAIN mem.intervals \cup {pending.start}
      /\ \A h \in DOMAIN kept :
            kept[h] = (IF h = pending.start THEN pending.content \in Full ELSE mem.intervals[h])
    <2> HIDE DEF popped
    <2> QED OBVIOUS
<1> HIDE DEF kept, lost
<1> QED
    BY <1>1, <1>2 DEF Status

-----------------------------------------------------------------------------
(***************************************************************************)
(* A report goes only to the destination it was collected for.             *)
(***************************************************************************)
LEMMA BindingStep ==
    ASSUME TypeOK, ControlInv, BindingInv, [Next]_vars
    PROVE  BindingInv'
<1>0. mem \in Status /\ pending \in Snapshot \cup {NoPending}
    BY DEF TypeOK
<1>1. CASE pc = "down"
    <2>1. pending' = pending
        BY <1>1, PendingStep
    <2>2. CASE pc' = "down" /\ disk' = disk
        BY <2>1, <2>2 DEF BindingInv
    <2>3. CASE Start /\ disk' = mem' /\ disk' # NoStatus
        <3>1. disk # NoStatus => mem' = disk
            BY <2>3 DEF Start
        <3> QED BY <2>1, <2>3, <3>1 DEF BindingInv
    <2> QED BY <1>1, <2>2, <2>3, DiskStep
<1>2. CASE pc # "down"
    <2>1. disk # NoStatus /\ disk.binding = mem.binding /\ disk' # NoStatus
        BY <1>2, DiskStep DEF BindingInv
    <2>2. \A t \in Statuses' : t.binding = mem.binding
        <3> SUFFICES ASSUME NEW t \in Statuses' PROVE t.binding = mem.binding
            OBVIOUS
        <3>1. CASE t \in Statuses
            BY <2>1, <3>1 DEF Statuses
        <3>2. CASE pending # NoPending /\ Agrees(t, Noted)
            BY <1>0, <3>2 DEF Agrees, Noted, Status
        <3>3. CASE Agrees(t, ScheduledStatus(mem, now))
            BY <1>0, <3>3, ScheduledShape DEF Agrees
        <3>4. CASE pending # NoPending /\ Agrees(t, PublishedStatus)
            BY <1>0, <3>4, PublishedShape DEF Agrees
        <3>5. CASE Agrees(t, mem)
            BY <3>5 DEF Agrees
        <3> QED BY <1>2, <3>1, <3>2, <3>3, <3>4, <3>5, StatusOrigin DEF Origin
    <2>3. disk'.binding = mem.binding /\ (pc' # "down" => mem'.binding = mem.binding)
        BY <2>1, <2>2 DEF Statuses
    <2>4. pending' # NoPending => pending'.binding = mem.binding
        BY <2>1, PendingStep DEF BindingInv
    <2> QED BY <2>1, <2>3, <2>4 DEF BindingInv
<1> QED
    BY <1>1, <1>2

\* A report is only ever written to the destination of the worker that
\* collected it, whatever settings a restart comes with.
THEOREM PublishedAtOwnDestination == Spec => []PublishedWhereCollected
<1>1. Init => BindingInv
    BY DEF Init, BindingInv
<1>2. TypeOK /\ ControlInv /\ BindingInv /\ [Next]_vars => BindingInv'
    BY BindingStep
<1>3. BindingInv => PublishedWhereCollected
    BY DEF BindingInv, PublishedWhereCollected
<1> QED
    BY <1>1, <1>2, <1>3, TypeInit, TypeStep, PTL DEF Spec

-----------------------------------------------------------------------------
(***************************************************************************)
(* A publication that is stuck shows in the status.                        *)
(***************************************************************************)
LEMMA StuckStep ==
    ASSUME TypeOK, ControlInv, StuckInv, [Next]_vars
    PROVE  StuckInv'
<1>0. mem \in Status /\ pending \in Snapshot \cup {NoPending}
    BY DEF TypeOK
\* A cycle that is given up reports a category of error.
<1>1. ASSUME NEW s \in Status, NEW e \in {"failed", "cycle_timeout"}, Abort(s, e)
      PROVE  StuckInv'
    <2>1. mem'.error = e
        BY <1>1, AbortAgrees
    <2> QED BY <2>1 DEF StuckInv
<1>2. ASSUME pc' \notin {"finish", "sleep"}
      PROVE  StuckInv'
    BY <1>2 DEF StuckInv
<1>3. CASE Start \/ NothingPending \/ WriteAcknowledged \/ Wake \/ Cancel \/ Crash
    BY <1>2, <1>3 DEF Start, NothingPending, WriteAcknowledged, Wake, Cancel, Crash, WorkerGone
<1>4. CASE WriteFails \/ CollectRefused \/ CycleTimeout
    BY <1>0, <1>1, <1>4 DEF WriteFails, CollectRefused, CycleTimeout
<1>5. CASE Record
    <2>1. PublishedStatus \in Status
        BY <1>0, <1>5, PublishedStatusType DEF Record, ControlInv
    <2> QED BY <1>1, <1>2, <1>5, <2>1 DEF Record
<1>6. CASE Remove
    BY <1>0, <1>1, <1>2, <1>6 DEF Remove
<1>7. CASE Schedule
    <2>1. ScheduledStatus(mem, now) \in Status
        BY <1>0, ScheduledStatusType
    <2>2. pending' = NoPending
        BY <1>7 DEF Schedule, ControlInv
    <2> QED BY <2>2 DEF StuckInv
<1>8. CASE Collect
    BY <1>0, <1>1, <1>2, <1>8 DEF Collect
<1>9. CASE SaveCollected
    <2>1. Noted \in Status
        BY <1>0, <1>9, NotedType DEF SaveCollected, ControlInv
    <2> QED BY <1>1, <1>2, <1>9, <2>1 DEF SaveCollected, Noted
<1>10. CASE Pause
    <2>1. pending' = NoPending
        BY <1>10 DEF Pause, files, ControlInv
    <2> QED BY <2>1 DEF StuckInv
<1>11. CASE Finish
    BY <1>11 DEF Finish, StuckInv
<1>12. CASE LateEffect \/ Tick \/ StepBack \/ UNCHANGED vars
    <2>1. UNCHANGED <<pc, mem, pending>>
        BY <1>12 DEF LateEffect, Tick, StepBack, vars, worker, files
    <2> QED BY <2>1 DEF StuckInv
<1> QED
    BY <1>3, <1>4, <1>5, <1>6, <1>7, <1>8, <1>9, <1>10, <1>11, <1>12
    DEF Next, PublishPending, Cycle, Run, Environment

\* A worker asleep without an error has nothing left to publish, so an
\* operator reads a stuck publication from status.error.
THEOREM StuckIsReported == Spec => []NoErrorMeansNothingStuck
<1>1. Init => StuckInv
    BY DEF Init, StuckInv
<1>2. TypeOK /\ ControlInv /\ StuckInv /\ [Next]_vars => StuckInv'
    BY StuckStep
<1>3. StuckInv => NoErrorMeansNothingStuck
    BY DEF StuckInv, NoErrorMeansNothingStuck
<1> QED
    BY <1>1, <1>2, <1>3, TypeInit, TypeStep, PTL DEF Spec

-----------------------------------------------------------------------------
(***************************************************************************)
(* The checkpoints of a status are backed by the sink.                     *)
(***************************************************************************)

\* An hour that shows a report goes on showing one.
LEMMA SelectedKept ==
    ASSUME TypeOK, ControlInv, [Next]_vars, NEW h \in HourStarts, selected[h] # NoReport
    PROVE  selected'[h] # NoReport
<1>1. /\ selected \in [HourStarts -> Contents \cup {NoReport}]
      /\ pending # NoPending => pending.start \in HourStarts /\ pending.content \in Contents
      /\ \A r \in late : r.start \in HourStarts /\ r.content \in Contents
    BY DEF TypeOK, Snapshot, Request
<1>2. \A k, c : c \in Contents => [selected EXCEPT ![k] = c][h] # NoReport
    BY <1>1, CollectorAssumption
<1> QED
    BY <1>1, <1>2, SelectedStep

\* What is asked of one status.
BackedStatus(s) ==
    /\ s.lastPublished # NoTime => selected[s.lastPublished] # NoReport
    /\ \A h \in DOMAIN s.intervals : s.intervals[h] => h <= s.lastCollected

\* A status after a step is backed by the sink as it was before the step.
LEMMA OriginIsBacked ==
    ASSUME TypeOK, CheckpointInv, NEW t \in Status, Origin(t)
    PROVE  BackedStatus(t)
<1>0. mem \in Status /\ pending \in Snapshot \cup {NoPending}
    BY DEF TypeOK
<1>1. \A s \in Statuses : BackedStatus(s)
    BY DEF CheckpointInv, CheckpointsAreBacked, BackedStatus
<1>2. pc # "down" => BackedStatus(mem)
    BY <1>1 DEF Statuses
<1>3. \A s \in Status : /\ s.lastPublished \in Times /\ s.lastCollected \in Times
                        /\ DOMAIN s.intervals \subseteq HourStarts
    BY IntervalMapShape DEF Status
<1>4. HourStarts \subseteq Int /\ Times \subseteq Int
    BY DEF HourStarts, Times, NoTime
<1>5. /\ mem.lastCollected \in Int /\ t.lastCollected \in Int
      /\ pending # NoPending => pending.start \in Int
      /\ \A h \in DOMAIN mem.intervals : h \in Int
    BY <1>0, <1>3, <1>4 DEF Snapshot
<1>6. CASE t \in Statuses
    BY <1>1, <1>6
<1>7. CASE \E b \in Bindings : t = FreshStatus(b)
    BY <1>7 DEF FreshStatus, BackedStatus
<1>8. CASE pc # "down" /\ Agrees(t, mem)
    BY <1>2, <1>8 DEF Agrees, BackedStatus
<1>9. CASE pc = "save_collected" /\ pending # NoPending /\ Agrees(t, Noted)
    <2>1. t.intervals = mem.intervals /\ t.lastPublished = mem.lastPublished
        BY <1>0, <1>9 DEF Agrees, Noted, Status
    <2>2. t.lastCollected = (IF pending.content \in Full
                             THEN Larger(mem.lastCollected, pending.start)
                             ELSE mem.lastCollected)
        BY <1>0, <1>9 DEF Agrees, Noted, Status
    <2>3. mem.lastCollected <= t.lastCollected
        BY <1>9, <1>5, <2>2 DEF Larger
    <2> QED BY <1>2, <1>9, <1>5, <2>1, <2>3 DEF BackedStatus
<1>10. CASE pc = "schedule" /\ Agrees(t, ScheduledStatus(mem, now))
    <2>1. /\ t.lastPublished = mem.lastPublished /\ t.lastCollected = mem.lastCollected
          /\ DOMAIN t.intervals = Window(now)
          /\ \A h \in DOMAIN t.intervals :
                t.intervals[h] = (IF h \in DOMAIN mem.intervals THEN mem.intervals[h] ELSE FALSE)
        <3>1. t.intervals = ScheduledStatus(mem, now).intervals
            BY <1>10 DEF Agrees
        <3>2. t.lastPublished = mem.lastPublished /\ t.lastCollected = mem.lastCollected
            BY <1>0, <1>10, ScheduledShape DEF Agrees
        <3>3. DOMAIN ScheduledStatus(mem, now).intervals = Window(now)
            BY <1>0, ScheduledShape
        <3>4. ASSUME NEW h \in Window(now)
              PROVE  ScheduledStatus(mem, now).intervals[h] =
                        (IF h \in DOMAIN mem.intervals THEN mem.intervals[h] ELSE FALSE)
            <4>1. mem \in Status
                BY <1>0
            <4> QED BY <4>1, ScheduledMap
        <3> QED BY <3>1, <3>2, <3>3, <3>4
    <2> QED BY <1>2, <1>10, <2>1 DEF BackedStatus
<1>11. CASE pc = "record" /\ pending # NoPending /\ Agrees(t, PublishedStatus)
    <2>1. /\ t.lastPublished = Larger(mem.lastPublished, pending.start)
          /\ t.lastCollected = (IF pending.content \in Full
                                THEN Larger(mem.lastCollected, pending.start)
                                ELSE mem.lastCollected)
          /\ DOMAIN t.intervals \subseteq DOMAIN mem.intervals \cup {pending.start}
          /\ \A h \in DOMAIN t.intervals :
                t.intervals[h] =
                   (IF h = pending.start THEN pending.content \in Full ELSE mem.intervals[h])
        BY <1>0, <1>11, PublishedShape DEF Agrees
    <2>2. BackedStatus(mem) /\ selected[pending.start] # NoReport
        BY <1>2, <1>11 DEF CheckpointInv
    <2>3. t.lastPublished # NoTime => selected[t.lastPublished] # NoReport
        BY <2>1, <2>2 DEF Larger, BackedStatus
    <2>4. /\ mem.lastCollected <= t.lastCollected
          /\ pending.content \in Full => pending.start <= t.lastCollected
        BY <1>11, <1>5, <2>1 DEF Larger
    <2>5. ASSUME NEW h \in DOMAIN t.intervals, t.intervals[h]
          PROVE  h <= t.lastCollected
        <3>1. CASE h = pending.start
            BY <2>1, <2>4, <2>5, <3>1
        <3>2. CASE h # pending.start
            <4>1. h \in DOMAIN mem.intervals /\ mem.intervals[h]
                BY <2>1, <2>5, <3>2
            <4>2. h <= mem.lastCollected
                BY <2>2, <4>1 DEF BackedStatus
            <4> QED BY <1>5, <2>4, <4>1, <4>2
        <3> QED BY <3>1, <3>2
    <2> QED BY <2>3, <2>5 DEF BackedStatus
<1> QED
    BY <1>6, <1>7, <1>8, <1>9, <1>10, <1>11 DEF Origin

LEMMA CheckpointStep ==
    ASSUME TypeOK, ControlInv, CheckpointInv, [Next]_vars
    PROVE  CheckpointInv'
<1>1. \A t \in Statuses' : t \in Status
    BY TypeStep DEF TypeOK, Statuses
<1>2. ASSUME NEW t \in Statuses'
      PROVE  BackedStatus(t)'
    <2>1. BackedStatus(t) /\ t.lastPublished \in Times
        BY <1>1, StatusOrigin, OriginIsBacked DEF Status
    <2> QED BY <2>1, SelectedKept DEF BackedStatus, Times
<1>3. CheckpointsAreBacked'
    BY <1>2 DEF CheckpointsAreBacked, BackedStatus
<1>4. pc' \in {"record", "remove"} => selected'[pending'.start] # NoReport
    <2>1. pending # NoPending => pending.start \in HourStarts /\ pending.content \in Contents
        BY DEF TypeOK, Snapshot
    <2>2. selected \in [HourStarts -> Contents \cup {NoReport}]
        BY DEF TypeOK
    <2>3. pc \in {"record", "remove"} => selected[pending.start] # NoReport
        BY DEF CheckpointInv
    <2> QED BY <2>1, <2>2, <2>3, RecordingStep, SelectedKept, CollectorAssumption
<1> QED
    BY <1>3, <1>4 DEF CheckpointInv

\* Only an acknowledged selector advances the publication checkpoint, and
\* the collection checkpoint never falls behind a complete hour, whatever
\* is interrupted, replayed or delivered late.
THEOREM CheckpointsBacked == Spec => []CheckpointsAreBacked
<1>1. Init => CheckpointInv
    BY DEF Init, CheckpointInv, CheckpointsAreBacked, Statuses
<1>2. TypeOK /\ ControlInv /\ CheckpointInv /\ [Next]_vars => CheckpointInv'
    BY CheckpointStep
<1>3. CheckpointInv => CheckpointsAreBacked
    BY DEF CheckpointInv
<1> QED
    BY <1>1, <1>2, <1>3, TypeInit, TypeStep, PTL DEF Spec

-----------------------------------------------------------------------------
(***************************************************************************)
(* Windows.                                                                *)
(***************************************************************************)

\* The starts of the hours are the multiples of the hour.
LEMMA HourIsMultiple ==
    ASSUME NEW h \in HourStarts
    PROVE  h \in Nat /\ h \div Hour \in Nat /\ h = (h \div Hour) * Hour
<1>1. h \in Nat /\ h % Hour = 0 /\ Hour \in Nat \ {0}
    BY CollectorAssumption DEF HourStarts
<1> QED
    BY <1>1

LEMMA MultipleOrder ==
    ASSUME NEW a \in Int, NEW b \in Int
    PROVE  /\ a <= b <=> a * Hour <= b * Hour
           /\ a < b <=> a * Hour < b * Hour
           /\ a * Hour \in Int
<1>1. Hour \in Int /\ Hour > 0
    BY CollectorAssumption
<1> QED
    BY <1>1

LEMMA MultipleIsHour ==
    ASSUME NEW k \in Nat, k * Hour <= MaxTime
    PROVE  k * Hour \in HourStarts
<1> DEFINE x == k * Hour
<1>1. Hour \in Nat \ {0} /\ MaxTime \in Nat
    BY CollectorAssumption
<1>2. x \in Nat
    BY <1>1
<1>3. x = Hour * (x \div Hour) + (x % Hour) /\ x \div Hour \in Nat /\ x % Hour \in 0..(Hour - 1)
    <2> HIDE DEF x
    <2> QED BY <1>1, <1>2
<1>4. x % Hour = 0
    <2> DEFINE q == x \div Hour
               r == x % Hour
    <2>1. q \in Nat /\ r \in 0..(Hour - 1) /\ k * Hour = Hour * q + r
        BY <1>3
    <2> HIDE DEF q, r, x
    <2>2. Hour * q = q * Hour /\ (q + 1) * Hour = q * Hour + Hour
        BY <1>1, <2>1
    <2>3. k * Hour < (q + 1) * Hour /\ q * Hour <= k * Hour
        BY <1>1, <2>1, <2>2
    <2>4. k < q + 1 /\ q <= k
        BY <2>1, <2>3, MultipleOrder
    <2>5. k = q
        BY <2>1, <2>4
    <2>6. r = 0
        BY <1>1, <2>1, <2>2, <2>5
    <2> QED BY <2>6 DEF r
<1> QED
    BY <1>1, <1>2, <1>4 DEF HourStarts

\* A window ends at the last hour whose report is settled.
LEMMA EndIsMultiple ==
    ASSUME NEW t \in 0..MaxTime
    PROVE  \E k \in Nat : WindowEnd(t) = k * Hour /\ k * Hour <= t
<1> DEFINE x == Monus(t, Delay)
<1>1. x \in Nat /\ x <= t /\ Hour \in Nat \ {0}
    BY CollectorAssumption DEF Monus
<1> HIDE DEF x
<1>2. x \div Hour \in Nat /\ (x \div Hour) * Hour <= x /\ (x \div Hour) * Hour \in Nat
    BY <1>1
<1>3. WindowEnd(t) = (x \div Hour) * Hour
    BY DEF WindowEnd, x
<1> QED
    BY <1>1, <1>2, <1>3

\* Windows end later as time goes on.
LEMMA EndIsMonotone ==
    ASSUME NEW t \in 0..MaxTime, NEW u \in 0..MaxTime, t <= u
    PROVE  WindowEnd(t) <= WindowEnd(u)
<1> DEFINE x == Monus(t, Delay)
           y == Monus(u, Delay)
<1>1. x \in Nat /\ y \in Nat /\ x <= y /\ Hour \in Nat \ {0}
    BY CollectorAssumption DEF Monus
<1> HIDE DEF x, y
<1>2. /\ x \div Hour \in Nat /\ (x \div Hour) * Hour <= x
      /\ y \div Hour \in Nat /\ y < (y \div Hour) * Hour + Hour
    BY <1>1
<1>3. (y \div Hour) * Hour + Hour = (y \div Hour + 1) * Hour
    BY <1>1, <1>2
<1>4. (x \div Hour) * Hour < (y \div Hour + 1) * Hour
    BY <1>1, <1>2, <1>3
<1>5. x \div Hour < y \div Hour + 1
    BY <1>2, <1>4, MultipleOrder
<1>6. (x \div Hour) * Hour <= (y \div Hour) * Hour
    BY <1>2, <1>5, MultipleOrder
<1> QED
    BY <1>6 DEF WindowEnd, x, y

\* A window begins at the hour that lies history_hours before its end, or
\* at the beginning of time; it is empty only there.
LEMMA StartOfWindow ==
    ASSUME NEW t \in 0..MaxTime, history \in Histories
    PROVE  /\ WindowEnd(t) \in Nat /\ WindowStart(t) \in HourStarts
           /\ WindowStart(t) <= WindowEnd(t)
           /\ WindowEnd(t) # 0 => WindowStart(t) < WindowEnd(t)
           /\ WindowEnd(t) # 0 => WindowStart(t) \in Window(t)
           /\ WindowEnd(t) = 0 => Window(t) = {}
<1>1. PICK k \in Nat : WindowEnd(t) = k * Hour /\ k * Hour <= t
    BY EndIsMultiple
<1>2. history \in Nat \ {0} /\ Hour \in Nat \ {0} /\ MaxTime \in Nat
    BY CollectorAssumption
<1>3. WindowEnd(t) \in Nat
    BY <1>1, <1>2
<1>4. WindowStart(t) = IF k * Hour < history * Hour THEN 0 ELSE k * Hour - history * Hour
    BY <1>1 DEF WindowStart, Monus
<1>5. CASE k * Hour < history * Hour
    <2>1. WindowStart(t) = 0 /\ 0 \in HourStarts
        <3>1. 0 * Hour = 0
            BY <1>2
        <3> QED BY <1>2, <1>4, <1>5, <3>1, MultipleIsHour
    <2> QED BY <1>3, <2>1 DEF Window, HourStarts
<1>6. CASE ~(k * Hour < history * Hour)
    <2>1. k - history \in Nat /\ k * Hour - history * Hour = (k - history) * Hour
        <3>1. history <= k
            BY <1>2, <1>6, MultipleOrder
        <3> QED BY <1>2, <3>1
    <2>2. history * Hour > 0 /\ k * Hour \in Nat /\ history * Hour \in Nat
        BY <1>2
    <2>3. WindowStart(t) = (k - history) * Hour /\ (k - history) * Hour < k * Hour
        BY <1>2, <1>4, <1>6, <2>1, <2>2
    <2>4. (k - history) * Hour <= MaxTime
        BY <1>1, <1>2, <2>1, <2>2, <2>3
    <2>5. WindowStart(t) \in HourStarts
        BY <2>1, <2>3, <2>4, MultipleIsHour
    <2>6. WindowStart(t) \in Nat
        BY <2>5 DEF HourStarts
    <2> QED BY <1>1, <1>3, <2>3, <2>5, <2>6 DEF Window
<1> QED
    BY <1>5, <1>6

\* The window moves only forward as long as the clock does.
LEMMA StartIsMonotone ==
    ASSUME NEW t \in 0..MaxTime, NEW u \in 0..MaxTime, t <= u, history \in Histories
    PROVE  WindowStart(t) <= WindowStart(u)
<1>1. WindowEnd(t) <= WindowEnd(u) /\ WindowEnd(t) \in Nat /\ WindowEnd(u) \in Nat
    BY EndIsMonotone, StartOfWindow
<1>2. history * Hour \in Nat
    BY CollectorAssumption
<1> QED
    BY <1>1, <1>2 DEF WindowStart, Monus

\* A window has no more hours than the worker keeps.
LEMMA WindowFits ==
    ASSUME NEW t \in 0..MaxTime, history \in Histories
    PROVE  Cardinality(Window(t)) <= Cap
<1>1. PICK k \in Nat : WindowEnd(t) = k * Hour /\ k * Hour <= t
    BY EndIsMultiple
<1>2. history \in Nat \ {0} /\ Hour \in Nat \ {0} /\ Cap \in Nat /\ history <= Cap
    BY CollectorAssumption
<1> DEFINE f == [h \in Window(t) |-> k - h \div Hour]
<1>3. ASSUME NEW h \in Window(t)
      PROVE  /\ k - h \div Hour \in 1..history
             /\ h = (h \div Hour) * Hour /\ h \div Hour \in Nat
    <2>1. h \in HourStarts /\ h < k * Hour /\ WindowStart(t) <= h
        BY <1>1 DEF Window
    <2>2. h \in Nat /\ h = (h \div Hour) * Hour /\ h \div Hour \in Nat
        BY <2>1, HourIsMultiple
    <2> DEFINE q == h \div Hour
    <2> HIDE DEF q
    <2>3. h = q * Hour /\ q \in Nat
        BY <2>2 DEF q
    <2>4. q < k
        BY <2>1, <2>3, MultipleOrder
    <2>5. (q + history) * Hour = q * Hour + history * Hour
        BY <1>2, <2>3
    <2>6. k * Hour <= q * Hour + history * Hour
        <3>1. k * Hour \in Nat /\ history * Hour \in Nat
            BY <1>2
        <3> QED BY <1>1, <2>1, <2>2, <2>3, <3>1 DEF WindowStart, Monus
    <2>7. k <= q + history
        BY <1>2, <2>3, <2>5, <2>6, MultipleOrder
    <2>8. k - q \in 1..history
        BY <1>2, <2>3, <2>4, <2>7
    <2> QED BY <2>2, <2>8 DEF q
<1>4. f \in Injection(Window(t), 1..history)
    <2>1. f \in [Window(t) -> 1..history]
        BY <1>3
    <2>2. ASSUME NEW g \in Window(t), NEW h \in Window(t), f[g] = f[h]
          PROVE  g = h
        <3>1. k - g \div Hour = k - h \div Hour
            BY <2>2
        <3>2. g \div Hour = h \div Hour
            BY <1>3, <3>1
        <3> QED BY <1>3, <3>2
    <2> QED BY <2>1, <2>2 DEF Injection, IsInjective
<1>5. IsFiniteSet(1..history) /\ Cardinality(1..history) = history
    BY <1>2, FS_Interval
<1>6. Cardinality(Window(t)) <= history
    <2> HIDE DEF f
    <2> QED BY <1>4, <1>5, FS_Injection
<1>7. Cardinality(Window(t)) \in Nat
    BY HourSetsAreFinite DEF Window
<1> QED
    BY <1>2, <1>6, <1>7

-----------------------------------------------------------------------------
(***************************************************************************)
(* The status has the hours the worker is busy with, and drops none.       *)
(***************************************************************************)

\* Recording an hour that the map has, in a map that fits, drops nothing.
LEMMA PublishedKeepsHours ==
    ASSUME mem \in Status, pending \in Snapshot, pending.start \in DOMAIN mem.intervals,
           Cardinality(DOMAIN mem.intervals) <= Cap
    PROVE  /\ DOMAIN PublishedStatus.intervals = DOMAIN mem.intervals
           /\ PublishedStatus.expired = mem.expired
<1> DEFINE map == [h \in DOMAIN mem.intervals \cup {pending.start} |->
                      IF h = pending.start THEN pending.content \in Full ELSE mem.intervals[h]]
           popped == {h \in DOMAIN map : Cardinality({g \in DOMAIN map : g >= h}) > Cap}
           kept == [h \in DOMAIN map \ popped |-> map[h]]
           lost == {h \in popped : ~map[h]}
<1>1. PublishedStatus =
        [mem EXCEPT
            !.lastPublished = Larger(@, pending.start),
            !.lastCollected = IF pending.content \in Full THEN Larger(@, pending.start) ELSE @,
            !.intervals = kept,
            !.expired = @ + Cardinality(lost),
            !.cursor = pending.start,
            !.error = IF pending.content \in Full THEN "none" ELSE "source_incomplete"]
    BY DEF PublishedStatus
<1>2. DOMAIN map = DOMAIN mem.intervals /\ DOMAIN map \subseteq HourStarts
    <2>1. DOMAIN mem.intervals \subseteq HourStarts
        BY IntervalMapShape DEF Status
    <2> QED BY <2>1
<1>3. ASSUME NEW h \in DOMAIN map
      PROVE  ~(Cardinality({g \in DOMAIN map : g >= h}) > Cap)
    <2> DEFINE D == DOMAIN map
               E == {g \in D : g >= h}
    <2>1. IsFiniteSet(D) /\ Cardinality(D) \in Nat
        BY <1>2, HourSetsAreFinite
    <2>2. E \in SUBSET D
        OBVIOUS
    <2>3. Cardinality(D) <= Cap /\ Cap \in Nat
        BY <1>2, CollectorAssumption
    <2> HIDE DEF D, E
    <2>4. Cardinality(E) <= Cardinality(D) /\ Cardinality(E) \in Nat
        BY <2>1, <2>2, FS_Subset, FS_CardinalityType
    <2>5. ~(Cardinality(E) > Cap)
        BY <2>1, <2>3, <2>4
    <2> QED BY <2>5 DEF E, D
<1>4. popped = {}
    <2> HIDE DEF map
    <2> QED BY <1>3
<1>5. DOMAIN kept = DOMAIN mem.intervals /\ lost = {}
    <2> HIDE DEF map, popped
    <2> QED BY <1>2, <1>4
<1>6. mem.expired \in Nat /\ Cardinality({}) = 0
    BY FS_EmptySet DEF Status
<1> HIDE DEF kept, lost
<1> QED
    BY <1>1, <1>5, <1>6 DEF Status

LEMMA SpanStep ==
    ASSUME TypeOK, ControlInv, BindingInv, SpanInv, [Next]_vars
    PROVE  SpanInv'
<1>0. /\ mem \in Status /\ pending \in Snapshot \cup {NoPending}
      /\ history \in Histories /\ now \in 0..MaxTime
    BY DEF TypeOK
<1>1. pc # "down" => mem \in Statuses
    BY DEF Statuses
<1>2. ASSUME pc # "down", pending # NoPending
      PROVE  /\ DOMAIN PublishedStatus.intervals = DOMAIN mem.intervals
             /\ pending.start \in DOMAIN mem.intervals
    BY <1>0, <1>1, <1>2, PublishedKeepsHours DEF SpanInv
<1>3. ASSUME NEW t \in Statuses'
      PROVE  /\ Cardinality(DOMAIN t.intervals) <= Cap
             /\ pending' # NoPending => pending'.start \in DOMAIN t.intervals
    <2>1. CASE t \in Statuses
        <3>1. Cardinality(DOMAIN t.intervals) <= Cap
            BY <2>1 DEF SpanInv
        <3>2. pc = "collect" => t = mem
            BY <2>1 DEF SpanInv, Statuses
        <3>3. ASSUME pending' # NoPending PROVE pending'.start \in DOMAIN t.intervals
            BY <2>1, <3>2, <3>3, PendingStep DEF SpanInv
        <3> QED BY <3>1, <3>3
    <2>2. CASE pc = "down" /\ disk = NoStatus /\ \E b \in Bindings : t = FreshStatus(b)
        <3>1. DOMAIN t.intervals = {}
            BY <2>2 DEF FreshStatus
        <3>2. pending' = NoPending
            BY <2>2, PendingStep DEF BindingInv
        <3> QED BY <3>1, <3>2, FS_EmptySet, CollectorAssumption
    <2>3. ASSUME pc # "down", DOMAIN t.intervals = DOMAIN mem.intervals
          PROVE  /\ Cardinality(DOMAIN t.intervals) <= Cap
                 /\ pending' # NoPending => pending'.start \in DOMAIN t.intervals
        <3>1. Cardinality(DOMAIN t.intervals) <= Cap
            BY <1>1, <2>3 DEF SpanInv
        <3>2. ASSUME pending' # NoPending PROVE pending'.start \in DOMAIN t.intervals
            BY <1>1, <2>3, <3>2, PendingStep DEF SpanInv
        <3> QED BY <3>1, <3>2
    <2>4. CASE pc # "down" /\ Agrees(t, mem)
        BY <2>3, <2>4 DEF Agrees
    <2>5. CASE pc = "save_collected" /\ pending # NoPending /\ Agrees(t, Noted)
        <3>1. t.intervals = mem.intervals
            BY <1>0, <2>5 DEF Agrees, Noted, Status
        <3> QED BY <2>3, <2>5, <3>1
    <2>6. CASE pc = "schedule" /\ Agrees(t, ScheduledStatus(mem, now))
        <3>1. DOMAIN t.intervals = Window(now)
            BY <1>0, <2>6, ScheduledShape DEF Agrees
        <3>2. pending' = NoPending
            BY <2>6, PendingStep DEF ControlInv
        <3> QED BY <1>0, <3>1, <3>2, WindowFits
    <2>7. CASE pc = "record" /\ pending # NoPending /\ Agrees(t, PublishedStatus)
        BY <1>2, <2>3, <2>7 DEF Agrees
    <2> QED BY <2>1, <2>2, <2>4, <2>5, <2>6, <2>7, StatusOrigin DEF Origin
\* The candidates of a cycle, and the saved status it works on.
<1> DEFINE Busy == /\ todo' \subseteq DOMAIN mem'.intervals
                   /\ pc' \in {"collect", "pause", "save_collected", "remove"} => disk' = mem'
<1>4. Busy
    <2>1. ASSUME todo' = {}, pc' \notin {"collect", "pause", "save_collected", "remove"}
          PROVE  Busy
        BY <2>1
    <2>2. ASSUME NEW s, NEW e, Abort(s, e) PROVE Busy
        BY <2>1, <2>2 DEF Abort
    <2>3. ASSUME todo' \subseteq todo, DOMAIN mem'.intervals = DOMAIN mem.intervals,
                 pc' \notin {"collect", "pause", "save_collected", "remove"}
          PROVE  Busy
        BY <2>3 DEF SpanInv
    <2>4. ASSUME todo' \subseteq todo, mem' = mem, disk' = disk,
                 pc \in {"collect", "pause", "save_collected", "remove"}
          PROVE  Busy
        BY <2>4 DEF SpanInv
    <2>5. CASE Start \/ Cancel \/ Crash
        BY <2>1, <2>5 DEF Start, Cancel, Crash, WorkerGone
    <2>6. CASE WriteFails \/ CollectRefused \/ CycleTimeout
        BY <2>2, <2>6 DEF WriteFails, CollectRefused, CycleTimeout
    <2>7. CASE NothingPending \/ WriteAcknowledged \/ Wake \/ Finish
        BY <2>3, <2>7 DEF NothingPending, WriteAcknowledged, Wake, Finish
    <2>8. CASE Record
        <3>1. DOMAIN PublishedStatus.intervals = DOMAIN mem.intervals
            BY <1>2, <2>8 DEF Record, ControlInv
        <3> QED BY <2>2, <2>8, <3>1 DEF Record, Saved, SpanInv
    <2>9. CASE Remove
        BY <2>2, <2>4, <2>9 DEF Remove
    <2>10. CASE Schedule
        <3> DEFINE s == ScheduledStatus(mem, now)
        <3>1. Candidates(s, now) \subseteq DOMAIN s.intervals
            <4> HIDE DEF s
            <4> QED BY DEF Candidates
        <3>2. \/ Saved(s) /\ mem' = s /\ todo' = Candidates(s, now)
              \/ Abort(s, "failed")
            BY <2>10 DEF Schedule
        <3> HIDE DEF s
        <3> QED BY <2>2, <3>1, <3>2 DEF Saved
    <2>11. CASE Collect
        BY <2>2, <2>4, <2>11 DEF Collect
    <2>12. CASE SaveCollected
        <3>1. \/ mem' = Noted /\ pc' = "publish" /\ todo' = todo
              \/ Abort(Noted, "failed")
            BY <2>12 DEF SaveCollected, Noted
        <3>2. DOMAIN Noted.intervals = DOMAIN mem.intervals
            BY <1>0 DEF Noted, Status
        <3> QED BY <2>2, <2>3, <3>1, <3>2
    <2>13. CASE Pause
        BY <2>4, <2>13 DEF Pause, files
    <2>14. CASE LateEffect \/ Tick \/ StepBack \/ UNCHANGED vars
        <3>1. UNCHANGED <<pc, mem, todo, disk>>
            BY <2>14 DEF LateEffect, Tick, StepBack, vars, worker, files
        <3> QED BY <3>1 DEF SpanInv
    <2> HIDE DEF Busy
    <2> QED
        BY <2>5, <2>6, <2>7, <2>8, <2>9, <2>10, <2>11, <2>12, <2>13, <2>14
        DEF Next, PublishPending, Cycle, Run, Environment
<1> QED
    BY <1>3, <1>4 DEF SpanInv

-----------------------------------------------------------------------------
(***************************************************************************)
(* What holds as long as the sink settles every request before the worker  *)
(* stops waiting for it, [](late = {}): the sink and the status move       *)
(* together.                                                               *)
(***************************************************************************)
LEMMA RecordedStep ==
    ASSUME TypeOK, ControlInv, RecordedInv, [Next]_vars
    PROVE  RecordedInv'
<1> SUFFICES ASSUME pc' = "remove"
             PROVE  /\ disk' = mem' /\ mem'.cursor = pending'.start
                    /\ pending'.start \in DOMAIN mem'.intervals =>
                          (mem'.intervals[pending'.start] <=> pending'.content \in Full)
    BY DEF RecordedInv
<1>1. CASE pc = "remove" /\ disk' = disk /\ mem' = mem /\ pending' = pending
    BY <1>1 DEF RecordedInv
<1>2. CASE /\ pc = "record" /\ disk' = PublishedStatus /\ mem' = PublishedStatus
           /\ pending # NoPending /\ pending' = pending
    <2>1. mem \in Status /\ pending \in Snapshot
        BY <1>2 DEF TypeOK
    <2> QED BY <1>2, <2>1, PublishedShape
<1> QED
    BY <1>1, <1>2, RecordingStep

\* With no room for abandoned requests, none is left behind.
LEMMA NothingLate ==
    ASSUME MaxLate = 0, TypeOK, late = {}, [Next]_vars
    PROVE  late' = {}
<1>1. ~(Cardinality(late) < MaxLate)
    BY FS_EmptySet
<1>2. ASSUME Abandoned PROVE late' = {}
    BY <1>1, <1>2 DEF Abandoned, sink
<1>3. ASSUME AbandonRequest PROVE late' = {}
    BY <1>2, <1>3 DEF AbandonRequest, sink
<1>4. CASE WriteFails \/ CycleTimeout \/ Cancel \/ Crash
    BY <1>2, <1>3, <1>4 DEF WriteFails, CycleTimeout, Cancel, Crash
<1>5. CASE LateEffect
    BY <1>5 DEF LateEffect
<1>6. CASE Start \/ NothingPending \/ WriteAcknowledged \/ Record \/ Remove \/ Schedule
    BY <1>6 DEF Start, NothingPending, WriteAcknowledged, Record, Remove, Schedule, sink
<1>7. CASE Collect \/ CollectRefused \/ SaveCollected \/ Pause \/ Finish \/ Wake
    BY <1>7 DEF Collect, CollectRefused, SaveCollected, Pause, Finish, Wake, sink
<1>8. CASE Tick \/ StepBack \/ UNCHANGED vars
    BY <1>8 DEF Tick, StepBack, vars, sink
<1> QED
    BY <1>4, <1>5, <1>6, <1>7, <1>8 DEF Next, PublishPending, Cycle, Run, Environment

LEMMA SettledStep ==
    ASSUME TypeOK, ControlInv, SettledInv, [Next]_vars, late' = {}
    PROVE  SettledInv'
<1>1. ASSUME pc' \in {"record", "remove"}
      PROVE  selected'[pending'.start] = pending'.content
    <2>1. pending # NoPending /\ pending' = pending
        BY <1>1, RecordingStep
    <2>2. pending.start \in HourStarts /\ selected \in [HourStarts -> Contents \cup {NoReport}]
        BY <2>1 DEF TypeOK, Snapshot
    <2>3. CASE pc = "publish" /\ selected' = [selected EXCEPT ![pending.start] = pending.content]
        BY <2>1, <2>2, <2>3
    <2>4. CASE pc \in {"record", "remove"}
        <3>1. selected' = selected
            BY <2>4, SelectedStep DEF SettledInv
        <3> QED BY <2>1, <2>4, <3>1 DEF SettledInv
    <2> QED BY <1>1, <2>3, <2>4, RecordingStep
<1> QED
    BY <1>1 DEF SettledInv

\* The facts that hold whatever is delivered late.
StatusInv == TypeOK /\ ControlInv /\ BindingInv /\ SpanInv /\ RecordedInv

LEMMA StatusStep == StatusInv /\ [Next]_vars => StatusInv'
<1> QED
    BY TypeStep, BindingStep, SpanStep, RecordedStep DEF StatusInv

LEMMA StatusAlways == Spec => []StatusInv
<1>1. Init => StatusInv
    <2> SUFFICES ASSUME Init PROVE StatusInv
        OBVIOUS
    <2>1. Statuses = {}
        BY DEF Init, Statuses
    <2>2. BindingInv /\ RecordedInv /\ SpanInv
        BY <2>1 DEF Init, BindingInv, RecordedInv, SpanInv
    <2> QED BY <2>2, TypeInit DEF StatusInv
<1> QED
    BY <1>1, StatusStep, PTL DEF Spec

LEMMA SettledAlways == Spec /\ [](late = {}) => []SettledInv
<1>1. Init => SettledInv
    BY DEF Init, SettledInv
<1>2. TypeOK /\ ControlInv /\ SettledInv /\ [Next]_vars /\ (late = {})' => SettledInv'
    BY SettledStep
<1> QED
    BY <1>1, <1>2, TypeInit, TypeStep, PTL DEF Spec

\* A sink that answers or drops every request in time is the case of the
\* instances with MaxLate = 0.
LEMMA NothingLateAlways ==
    ASSUME MaxLate = 0
    PROVE  Spec => [](late = {})
<1>1. Init => late = {}
    BY DEF Init
<1>2. TypeOK /\ late = {} /\ [Next]_vars => (late = {})'
    BY NothingLate
<1> QED
    BY <1>1, <1>2, TypeInit, TypeStep, PTL DEF Spec

\* A staged report is given up only once the sink shows it and status.json
\* records it, and it never makes way for another one.
THEOREM StagedReportsSettled == Spec /\ [](late = {}) => PendingIsSettledFirst
<1> DEFINE A == pending # NoPending /\ pending' # pending =>
                    /\ pending' = NoPending
                    /\ selected[pending.start] = pending.content
                    /\ disk.cursor = pending.start
                    /\ disk.intervals[pending.start] = (pending.content \in Full)
<1>1. StatusInv /\ SettledInv /\ [Next]_vars => [A]_vars
    <2> SUFFICES ASSUME StatusInv, SettledInv, [Next]_vars,
                        pending # NoPending, pending' # pending
                 PROVE  /\ pending' = NoPending
                        /\ selected[pending.start] = pending.content
                        /\ disk.cursor = pending.start
                        /\ disk.intervals[pending.start] = (pending.content \in Full)
        OBVIOUS
    <2>1. pc = "remove" /\ pending' = NoPending
        BY PendingStep DEF StatusInv
    <2>2. selected[pending.start] = pending.content
        BY <2>1 DEF SettledInv
    <2>3. disk = mem /\ mem.cursor = pending.start /\ mem \in Statuses
        BY <2>1 DEF StatusInv, RecordedInv, Statuses
    <2>4. pending.start \in DOMAIN mem.intervals
        BY <2>3 DEF StatusInv, SpanInv
    <2>5. mem.intervals[pending.start] <=> pending.content \in Full
        BY <2>1, <2>4 DEF StatusInv, RecordedInv
    <2>6. mem.intervals[pending.start] \in BOOLEAN
        BY <2>4, IntervalMapShape DEF StatusInv, TypeOK, Status
    <2>7. mem.intervals[pending.start] = (pending.content \in Full)
        BY <2>5, <2>6
    <2> QED BY <2>1, <2>2, <2>3, <2>7
<1>2. PendingIsSettledFirst <=> [][A]_vars
    BY DEF PendingIsSettledFirst
<1> QED
    BY <1>1, <1>2, StatusAlways, SettledAlways, PTL DEF Spec

\* The collector implements the archive its readers rely on: only the
\* staged report becomes visible, and it is not given up before.
THEOREM CollectorImplementsArchive == Spec /\ [](late = {}) => ImplementsArchive
<1> DEFINE staged == IF pending = NoPending THEN NoPending
                     ELSE [start |-> pending.start, content |-> pending.content]
<1>1. Init => Archive!Init
    BY DEF Init, Archive!Init
<1>2. StatusInv /\ SettledInv /\ [Next]_vars => [Archive!Next]_<<staged, selected>>
    <2> SUFFICES ASSUME StatusInv, SettledInv, [Next]_vars
                 PROVE  Archive!Next \/ UNCHANGED <<staged, selected>>
        OBVIOUS
    <2>0. TypeOK /\ ControlInv /\ late = {}
        BY DEF StatusInv, SettledInv
    <2>1. pending # NoPending =>
              /\ staged # NoPending
              /\ staged.start = pending.start /\ staged.content = pending.content
        <3> SUFFICES ASSUME pending # NoPending
                     PROVE  /\ staged # NoPending
                            /\ staged.start = pending.start /\ staged.content = pending.content
            OBVIOUS
        <3>1. staged \in [start : HourStarts, content : Contents]
            BY <2>0 DEF TypeOK, Snapshot
        <3> QED BY <3>1, AbsentAssumption
    <2>2. CASE pending' = pending /\ selected' = selected
        BY <2>2
    <2>3. CASE /\ pending # NoPending /\ pending' = pending
               /\ selected' = [selected EXCEPT ![pending.start] = pending.content]
        <3>1. Archive!Show
            BY <2>1, <2>3 DEF Archive!Show
        <3> QED BY <3>1 DEF Archive!Next
    <2>4. CASE pc = "remove" /\ pending' = NoPending /\ selected' = selected
        <3>1. pending # NoPending /\ selected[pending.start] = pending.content
            BY <2>0, <2>4 DEF ControlInv, SettledInv
        <3>2. Archive!Settle
            BY <2>1, <2>4, <3>1 DEF Archive!Settle
        <3> QED BY <3>2 DEF Archive!Next
    <2>5. CASE /\ pending = NoPending /\ selected' = selected
               /\ \E h \in todo, c \in Contents :
                     pending' = [start |-> h, content |-> c, binding |-> mem.binding]
        <3>1. PICK h \in todo, c \in Contents :
                  pending' = [start |-> h, content |-> c, binding |-> mem.binding]
            BY <2>5
        <3>2. h \in HourStarts /\ mem.binding \in Bindings
            BY <2>0 DEF TypeOK, Status
        <3>3. pending' \in Snapshot
            BY <3>1, <3>2 DEF Snapshot
        <3>4. pending' # NoPending /\ pending'.start = h /\ pending'.content = c
            BY <3>1, <3>3, AbsentAssumption
        <3>5. Archive!Stage(h, c)
            BY <2>5, <3>4 DEF Archive!Stage
        <3> QED BY <3>2, <3>5 DEF Archive!Next
    <2> QED BY <2>0, <2>2, <2>3, <2>4, <2>5, PendingStep, SelectedStep
<1> QED
    BY <1>1, <1>2, StatusAlways, SettledAlways, PTL DEF Spec, ImplementsArchive, Archive!Spec

-----------------------------------------------------------------------------
(***************************************************************************)
(* The hours a status calls complete.                                      *)
(***************************************************************************)

\* Only the hour of the report under publication changes its selector.
LEMMA OneHourChanges ==
    ASSUME StatusInv, SettledInv, [Next]_vars, NEW h \in HourStarts
    PROVE  \/ selected'[h] = selected[h]
           \/ pending # NoPending /\ pending.start = h /\ pending' = pending
<1>1. selected \in [HourStarts -> Contents \cup {NoReport}]
    BY DEF StatusInv, TypeOK
<1> QED
    BY <1>1, SelectedStep DEF StatusInv, SettledInv

\* When the staged report of an hour is given up, the statuses and the sink
\* say the same of that hour.
LEMMA GivenUp ==
    ASSUME StatusInv, SettledInv, [Next]_vars, pending # NoPending, pending' # pending,
           NEW t \in Statuses'
    PROVE  /\ selected' = selected
           /\ pending.start \in DOMAIN t.intervals
           /\ t.intervals[pending.start] <=> selected[pending.start] \in Full
<1>1. pc = "remove"
    BY PendingStep DEF StatusInv
<1>2. /\ disk = mem /\ mem \in Statuses
      /\ selected[pending.start] = pending.content /\ selected' = selected
    BY <1>1, SelectedStep DEF StatusInv, RecordedInv, SettledInv, Statuses
<1>3. /\ pending.start \in DOMAIN mem.intervals
      /\ mem.intervals[pending.start] <=> pending.content \in Full
    BY <1>1, <1>2 DEF StatusInv, SpanInv, RecordedInv
<1>4. t = mem \/ Agrees(t, mem)
    BY <1>1, <1>2, StatusOrigin DEF StatusInv, Origin, Statuses
<1> QED
    BY <1>2, <1>3, <1>4 DEF Agrees

LEMMA ClaimsStep ==
    ASSUME StatusInv, SettledInv, ClaimsAreBacked, [Next]_vars
    PROVE  ClaimsAreBacked'
<1> SUFFICES ASSUME NEW t \in Statuses', NEW h \in DOMAIN t.intervals, t.intervals[h]
             PROVE  selected'[h] \in Full \/ (pending' # NoPending /\ pending'.start = h)
    BY DEF ClaimsAreBacked
<1>0. /\ TypeOK /\ ControlInv /\ mem \in Status /\ pending \in Snapshot \cup {NoPending}
      /\ TypeOK'
    BY TypeStep DEF StatusInv, TypeOK
<1>1. h \in HourStarts
    BY <1>0, IntervalMapShape DEF TypeOK, Statuses, Status
<1>2. pc # "down" => mem \in Statuses
    BY DEF Statuses
<1>3. selected[h] \in Full \/ (pending # NoPending /\ pending.start = h)
    <2>1. ASSUME NEW s \in Statuses, h \in DOMAIN s.intervals, s.intervals[h]
          PROVE  selected[h] \in Full \/ (pending # NoPending /\ pending.start = h)
        BY <2>1 DEF ClaimsAreBacked
    <2>2. CASE t \in Statuses
        BY <2>1, <2>2
    <2>3. CASE \E b \in Bindings : t = FreshStatus(b)
        BY <2>3 DEF FreshStatus
    <2>4. CASE pc # "down" /\ Agrees(t, mem)
        BY <1>2, <2>1, <2>4 DEF Agrees
    <2>5. CASE pc = "save_collected" /\ Agrees(t, Noted)
        <3>1. t.intervals = mem.intervals
            BY <1>0, <2>5 DEF Agrees, Noted, Status
        <3> QED BY <1>2, <2>1, <2>5, <3>1
    <2>6. CASE pc = "schedule" /\ Agrees(t, ScheduledStatus(mem, now))
        <3>1. t.intervals = ScheduledStatus(mem, now).intervals
            BY <2>6 DEF Agrees
        <3>2. DOMAIN ScheduledStatus(mem, now).intervals = Window(now)
            BY <1>0, ScheduledShape
        <3>3. t.intervals[h] = (IF h \in DOMAIN mem.intervals THEN mem.intervals[h] ELSE FALSE)
            BY <1>0, <3>1, <3>2, ScheduledMap
        <3>4. h \in DOMAIN mem.intervals /\ mem.intervals[h]
            BY <3>3
        <3> QED BY <1>2, <2>1, <2>6, <3>4
    <2>7. CASE pc = "record" /\ pending # NoPending /\ Agrees(t, PublishedStatus)
        <3>1. t.intervals = PublishedStatus.intervals /\ pending \in Snapshot
            BY <1>0, <2>7 DEF Agrees
        <3>2. CASE h # pending.start
            <4>1. h \in DOMAIN mem.intervals /\ mem.intervals[h]
                BY <1>0, <3>1, <3>2, PublishedShape
            <4> QED BY <1>2, <2>1, <2>7, <4>1
        <3> QED BY <2>7, <3>2
    <2> QED BY <1>0, <2>2, <2>3, <2>4, <2>5, <2>6, <2>7, StatusOrigin DEF Origin
<1>4. CASE pending # NoPending /\ pending.start = h
    BY <1>4, GivenUp
<1>5. CASE selected[h] \in Full
    BY <1>1, <1>5, OneHourChanges
<1> QED
    BY <1>3, <1>4, <1>5

\* An hour that a status calls complete is one the sink shows completely
\* retrieved, unless a newer reading of it is still being published.
THEOREM CompleteHoursBacked == Spec /\ [](late = {}) => []ClaimsAreBacked
<1>1. Init => ClaimsAreBacked
    BY DEF Init, ClaimsAreBacked, Statuses
<1>2. StatusInv /\ SettledInv /\ ClaimsAreBacked /\ [Next]_vars => ClaimsAreBacked'
    BY ClaimsStep
<1> QED
    BY <1>1, <1>2, StatusAlways, SettledAlways, PTL DEF Spec

-----------------------------------------------------------------------------
(***************************************************************************)
(* The hours counted as lost, as long as the clock does not step back and  *)
(* the operator does not change history_hours: with either, an hour can    *)
(* leave the window twice, and the count is not exact.                     *)
(***************************************************************************)
SteadyStep == now <= now' /\ history' = history

\* The window moves only forward.
LEMMA WindowMoves ==
    ASSUME SteadyStep, TypeOK, ControlInv, [Next]_vars
    PROVE  /\ WindowStart(now) \in Nat /\ WindowStart(now)' \in Nat
           /\ WindowEnd(now) \in Nat /\ WindowEnd(now)' \in Nat
           /\ WindowStart(now) <= WindowStart(now)'
           /\ WindowEnd(now) <= WindowEnd(now)'
<1>1. TypeOK'
    BY TypeStep
<1>2. /\ now \in 0..MaxTime /\ now' \in 0..MaxTime /\ now <= now'
      /\ history \in Histories /\ history' = history
    BY <1>1 DEF TypeOK, SteadyStep
<1>3. WindowStart(now)' = WindowStart(now') /\ WindowEnd(now)' = WindowEnd(now')
    BY <1>2 DEF WindowStart, WindowEnd
<1>4. WindowStart(now) <= WindowStart(now') /\ WindowEnd(now) <= WindowEnd(now')
    BY <1>2, StartIsMonotone, EndIsMonotone
<1>5. /\ WindowStart(now) \in HourStarts /\ WindowStart(now') \in HourStarts
      /\ WindowEnd(now) \in Nat /\ WindowEnd(now') \in Nat
    BY <1>2, StartOfWindow
<1> QED
    BY <1>3, <1>4, <1>5 DEF HourStarts

\* The first window is set when hours are scheduled into an empty map.
LEMMA FirstStep ==
    ASSUME TypeOK, ControlInv, [Next]_vars
    PROVE  \/ first' = first /\ ~(pc = "schedule" /\ DOMAIN mem.intervals = {})
           \/ /\ pc = "schedule" /\ DOMAIN mem.intervals = {}
              /\ \/ first' = WindowStart(now)
                 \/ first' = first /\ Statuses' \subseteq Statuses
<1>1. CASE Schedule
    BY <1>1 DEF Schedule
<1>2. CASE LateEffect \/ Tick \/ StepBack \/ UNCHANGED vars
    BY <1>2 DEF LateEffect, Tick, StepBack, vars, worker, files, Statuses
<1>3. CASE Crash
    BY <1>3 DEF Crash, WorkerGone, files, Statuses
<1>4. CASE Start \/ NothingPending \/ WriteAcknowledged \/ WriteFails \/ Record \/ Remove
    BY <1>4 DEF Start, NothingPending, WriteAcknowledged, WriteFails, Record, Remove
<1>5. CASE Collect \/ CollectRefused \/ SaveCollected \/ Pause
    BY <1>5 DEF Collect, CollectRefused, SaveCollected, Pause
<1>6. CASE CycleTimeout \/ Finish \/ Wake \/ Cancel
    BY <1>6 DEF CycleTimeout, Finish, Wake, Cancel, Awaiting
<1> QED
    BY <1>1, <1>2, <1>3, <1>4, <1>5, <1>6 DEF Next, PublishPending, Cycle, Run, Environment

\* Everything said of one status's hours, in the state before a step.
PlacedStatus(s) ==
    /\ \A h \in HourStarts : (\A g \in DOMAIN s.intervals : g < h) => selected[h] \notin Full
    /\ DOMAIN s.intervals = {} => s.expired = 0
    /\ DOMAIN s.intervals # {} => \E g \in DOMAIN s.intervals : g <= WindowStart(now)
    /\ \A g \in DOMAIN s.intervals : g < WindowEnd(now)
    /\ \A g, k \in DOMAIN s.intervals : \A h \in HourStarts :
          g <= h /\ h <= k => h \in DOMAIN s.intervals

LEMMA ScheduledIsPlaced ==
    ASSUME StatusInv, PlacedStatus(mem)
    PROVE  PlacedStatus(ScheduledStatus(mem, now))
<1> DEFINE s == ScheduledStatus(mem, now)
           D == DOMAIN mem.intervals
<1>0. mem \in Status /\ now \in 0..MaxTime /\ history \in Histories
    BY DEF StatusInv, TypeOK
<1>1. DOMAIN s.intervals = Window(now)
    BY <1>0, ScheduledShape
<1>2. D \subseteq HourStarts /\ HourStarts \subseteq Nat
    BY <1>0, IntervalMapShape DEF Status, HourStarts
<1>3. \A h \in HourStarts : (\A g \in D : g < h) => selected[h] \notin Full
    BY DEF PlacedStatus
<1>4. /\ WindowEnd(now) \in Nat /\ WindowStart(now) \in HourStarts /\ WindowStart(now) \in Nat
      /\ WindowEnd(now) # 0 => WindowStart(now) \in Window(now)
      /\ WindowEnd(now) = 0 => Window(now) = {}
    BY <1>0, StartOfWindow DEF HourStarts
<1>5. /\ \A g \in D : g \in Nat /\ g < WindowEnd(now)
      /\ WindowEnd(now) = 0 => D = {}
    <2>1. \A g \in D : g \in Nat /\ g < WindowEnd(now)
        BY <1>2 DEF PlacedStatus
    <2>2. ASSUME WindowEnd(now) = 0, NEW g \in D PROVE FALSE
        BY <2>1, <2>2
    <2> QED BY <2>1, <2>2
<1>6. ASSUME NEW h \in HourStarts, \A g \in Window(now) : g < h
      PROVE  selected[h] \notin Full
    <2>1. CASE WindowEnd(now) = 0
        BY <1>3, <1>5, <2>1
    <2>2. CASE WindowEnd(now) # 0
        <3>1. h \in Nat /\ WindowStart(now) < h
            BY <1>2, <1>4, <1>6, <2>2
        <3>2. ~(h < WindowEnd(now))
            BY <1>4, <1>6, <3>1 DEF Window
        <3>3. \A g \in D : g < h
            BY <1>4, <1>5, <3>1, <3>2
        <3> QED BY <1>3, <3>3
    <2> QED BY <2>1, <2>2
<1>7. ASSUME Window(now) = {}
      PROVE  s.expired = 0
    <2>1. D = {} /\ mem.expired = 0
        BY <1>4, <1>5, <1>7 DEF PlacedStatus
    <2>2. MissedHours(mem.intervals, WindowStart(now)) = 0
        BY <2>1 DEF MissedHours
    <2>3. {h \in D : h < WindowStart(now) /\ ~mem.intervals[h]} = {}
        BY <2>1
    <2>4. ExpiredIncomplete(mem.intervals, WindowStart(now)) = 0
        BY <2>3, FS_EmptySet DEF ExpiredIncomplete
    <2>5. s.expired = mem.expired + MissedHours(mem.intervals, WindowStart(now))
                        + ExpiredIncomplete(mem.intervals, WindowStart(now))
        BY <1>0, ScheduledShape
    <2> QED BY <2>1, <2>2, <2>4, <2>5
<1>8. Window(now) # {} => \E g \in Window(now) : g <= WindowStart(now)
    BY <1>4
<1>9. \A g \in Window(now) : g < WindowEnd(now)
    BY DEF Window
<1>10. ASSUME NEW g \in Window(now), NEW k \in Window(now), NEW h \in HourStarts,
              g <= h, h <= k
       PROVE  h \in Window(now)
    <2>1. g \in Nat /\ k \in Nat /\ h \in Nat
        BY <1>2 DEF Window
    <2> QED BY <1>4, <1>10, <2>1 DEF Window
<1> HIDE DEF s
<1> QED
    BY <1>1, <1>6, <1>7, <1>8, <1>9, <1>10 DEF PlacedStatus, s

\* The hours of a status after a step are placed where hours were before it.
LEMMA OriginIsPlaced ==
    ASSUME StatusInv, WindowInv, NEW t, Origin(t)
    PROVE  PlacedStatus(t)
<1>0. mem \in Status /\ pending \in Snapshot \cup {NoPending}
    BY DEF StatusInv, TypeOK
<1>1. \A s \in Statuses : PlacedStatus(s)
    BY DEF WindowInv, PlacedStatus
<1>2. pc # "down" => PlacedStatus(mem) /\ mem \in Statuses
    BY <1>1 DEF Statuses
<1>3. ASSUME NEW s, PlacedStatus(s), DOMAIN t.intervals = DOMAIN s.intervals,
             t.expired = s.expired
      PROVE  PlacedStatus(t)
    BY <1>3 DEF PlacedStatus
<1>4. CASE t \in Statuses
    BY <1>1, <1>4
<1>5. CASE pc = "down" /\ disk = NoStatus /\ \E b \in Bindings : t = FreshStatus(b)
    <2>1. DOMAIN t.intervals = {} /\ t.expired = 0
        BY <1>5 DEF FreshStatus
    <2>2. \A h \in HourStarts : selected[h] \notin Full
        BY <1>5 DEF WindowInv
    <2> QED BY <2>1, <2>2 DEF PlacedStatus
<1>6. CASE pc # "down" /\ Agrees(t, mem)
    BY <1>2, <1>3, <1>6 DEF Agrees
<1>7. CASE pc = "save_collected" /\ Agrees(t, Noted)
    <2>1. t.intervals = mem.intervals /\ t.expired = mem.expired
        BY <1>0, <1>7 DEF Agrees, Noted, Status
    <2> QED BY <1>2, <1>3, <1>7, <2>1
<1>8. CASE pc = "schedule" /\ Agrees(t, ScheduledStatus(mem, now))
    BY <1>2, <1>3, <1>8, ScheduledIsPlaced DEF Agrees
<1>9. CASE pc = "record" /\ pending # NoPending /\ Agrees(t, PublishedStatus)
    <2>1. pending.start \in DOMAIN mem.intervals /\ Cardinality(DOMAIN mem.intervals) <= Cap
        BY <1>2, <1>9 DEF StatusInv, SpanInv
    <2>2. DOMAIN t.intervals = DOMAIN mem.intervals /\ t.expired = mem.expired
        BY <1>0, <1>9, <2>1, PublishedKeepsHours DEF Agrees
    <2> QED BY <1>2, <1>3, <1>9, <2>2
<1> QED
    BY <1>4, <1>5, <1>6, <1>7, <1>8, <1>9 DEF Origin

\* No status has an hour before the first window.
LEMMA HoursSinceFirst ==
    ASSUME StatusInv, WindowInv, [Next]_vars, NEW t \in Statuses', NEW g \in DOMAIN t.intervals
    PROVE  first' <= g
<1>0. /\ TypeOK /\ ControlInv /\ mem \in Status /\ pending \in Snapshot \cup {NoPending}
      /\ now \in 0..MaxTime /\ history \in Histories /\ first \in Nat
    BY DEF StatusInv, TypeOK
<1>1. pc # "down" => mem \in Statuses
    BY DEF Statuses
<1>2. \A s \in Statuses : \A k \in DOMAIN s.intervals : first <= k
    BY DEF WindowInv
\* If the hour was already in a status, the first window has not moved.
<1>3. ASSUME NEW s \in Statuses, g \in DOMAIN s.intervals
      PROVE  first' <= g
    <2>1. ~(pc = "schedule" /\ DOMAIN mem.intervals = {})
        BY <1>3 DEF WindowInv, Statuses
    <2> QED BY <1>0, <1>2, <1>3, <2>1, FirstStep
<1>4. CASE t \in Statuses
    BY <1>3, <1>4
<1>5. CASE \E b \in Bindings : t = FreshStatus(b)
    BY <1>5 DEF FreshStatus
<1>6. CASE pc # "down" /\ Agrees(t, mem)
    BY <1>1, <1>3, <1>6 DEF Agrees
<1>7. CASE pc = "save_collected" /\ Agrees(t, Noted)
    <2>1. t.intervals = mem.intervals
        BY <1>0, <1>7 DEF Agrees, Noted, Status
    <2> QED BY <1>1, <1>3, <1>7, <2>1
<1>8. CASE pc = "schedule" /\ Agrees(t, ScheduledStatus(mem, now))
    <2>1. g \in Window(now)
        BY <1>0, <1>8, ScheduledShape DEF Agrees
    <2>2. g \in Nat /\ WindowStart(now) \in Nat /\ WindowStart(now) <= g
        BY <1>0, <2>1, StartOfWindow DEF Window, HourStarts
    <2>3. CASE first' = WindowStart(now)
        BY <2>2, <2>3
    <2>4. CASE first' = first /\ DOMAIN mem.intervals # {}
        <3>1. PICK k \in DOMAIN mem.intervals : k <= WindowStart(now)
            BY <1>1, <1>8, <2>4 DEF WindowInv
        <3>2. first <= k /\ k \in Nat
            <4>1. DOMAIN mem.intervals \subseteq HourStarts
                BY <1>0, IntervalMapShape DEF Status
            <4> QED BY <1>1, <1>2, <1>8, <4>1 DEF HourStarts
        <3> QED BY <1>0, <2>2, <2>4, <3>1, <3>2
    <2>5. CASE Statuses' \subseteq Statuses
        BY <1>3, <2>5
    <2> QED BY <1>0, <1>8, <2>3, <2>4, <2>5, FirstStep
<1>9. CASE pc = "record" /\ pending # NoPending /\ Agrees(t, PublishedStatus)
    <2>1. pending.start \in DOMAIN mem.intervals /\ Cardinality(DOMAIN mem.intervals) <= Cap
        BY <1>1, <1>9 DEF StatusInv, SpanInv
    <2>2. DOMAIN t.intervals = DOMAIN mem.intervals
        BY <1>0, <1>9, <2>1, PublishedKeepsHours DEF Agrees
    <2> QED BY <1>1, <1>3, <1>9, <2>2
<1> QED
    BY <1>0, <1>4, <1>5, <1>6, <1>7, <1>8, <1>9, StatusOrigin DEF Origin

\* A map that has hours never becomes empty.
LEMMA EmptyStep ==
    ASSUME StatusInv, WindowInv, [Next]_vars, pc' # "down", DOMAIN mem'.intervals = {}
    PROVE  DOMAIN disk'.intervals = {}
<1>0. /\ TypeOK /\ ControlInv /\ mem \in Status /\ pending \in Snapshot \cup {NoPending}
      /\ now \in 0..MaxTime /\ history \in Histories
    BY DEF StatusInv, TypeOK
<1>1. ASSUME pc # "down", DOMAIN mem.intervals = {} PROVE DOMAIN disk.intervals = {}
    BY <1>1 DEF WindowInv
<1>2. ASSUME pc # "down", NEW s \in Status, DOMAIN s.intervals = DOMAIN mem.intervals,
             disk' \in {disk, s}, mem' = s \/ Agrees(mem', s)
      PROVE  DOMAIN disk'.intervals = {}
    BY <1>1, <1>2 DEF Agrees
<1>3. ASSUME NEW s \in Status, pc # "down", DOMAIN s.intervals = DOMAIN mem.intervals,
             \/ Saved(s) /\ mem' = s
             \/ SaveFails(s) /\ Abort(s, "failed")
      PROVE  DOMAIN disk'.intervals = {}
    <2>1. mem' = s \/ Agrees(mem', s)
        BY <1>3, AbortAgrees
    <2>2. disk' \in {disk, s}
        BY <1>3 DEF Saved, SaveFails
    <2> QED BY <1>2, <1>3, <2>1, <2>2
<1>4. CASE Start
    BY <1>4 DEF Start
<1>5. CASE NothingPending \/ WriteAcknowledged \/ Pause \/ Wake \/ Finish
    <2>1. disk' \in {disk, mem} /\ mem' = mem /\ pc # "down"
        BY <1>5 DEF NothingPending, WriteAcknowledged, Pause, Wake, Finish, files, Saved, SaveFails
    <2> QED BY <1>0, <1>2, <2>1
<1>6. CASE WriteFails \/ CollectRefused \/ CycleTimeout \/ Remove \/ Collect
    <2>1. disk' = disk /\ pc # "down" /\ (mem' = mem \/ \E e : Abort(mem, e))
        BY <1>6 DEF WriteFails, CollectRefused, CycleTimeout, Remove, Collect, files, Awaiting
    <2>2. mem' = mem \/ Agrees(mem', mem)
        BY <1>0, <2>1, AbortAgrees
    <2> QED BY <1>0, <1>2, <2>1, <2>2
<1>7. CASE Record
    <2>1. pc = "record" /\ pending # NoPending /\ mem \in Statuses
        BY <1>7 DEF Record, StatusInv, ControlInv, Statuses
    <2>2. pending.start \in DOMAIN mem.intervals /\ Cardinality(DOMAIN mem.intervals) <= Cap
        BY <2>1 DEF StatusInv, SpanInv
    <2>3. DOMAIN PublishedStatus.intervals = DOMAIN mem.intervals /\ PublishedStatus \in Status
        BY <1>0, <2>1, <2>2, PublishedKeepsHours, PublishedStatusType
    <2>4. \/ Saved(PublishedStatus) /\ mem' = PublishedStatus
          \/ SaveFails(PublishedStatus) /\ Abort(PublishedStatus, "failed")
        BY <1>7 DEF Record
    <2> QED BY <1>3, <2>1, <2>3, <2>4
<1>8. CASE Schedule
    <2> DEFINE s == ScheduledStatus(mem, now)
    <2>1. s \in Status /\ DOMAIN s.intervals = Window(now) /\ pc # "down" /\ mem \in Statuses
        BY <1>0, <1>8, ScheduledStatusType, ScheduledShape DEF Schedule, Statuses
    <2>2. \/ Saved(s) /\ mem' = s
          \/ SaveFails(s) /\ Abort(s, "failed")
        BY <1>8 DEF Schedule
    <2> HIDE DEF s
    <2>3. mem' = s \/ Agrees(mem', s)
        BY <2>1, <2>2, AbortAgrees
    <2>4. Window(now) = {}
        BY <2>1, <2>3 DEF Agrees
    <2>5. WindowEnd(now) = 0
        BY <1>0, <2>4, StartOfWindow
    <2>6. \A g \in DOMAIN mem.intervals : g < 0 /\ g \in Nat
        <3>1. DOMAIN mem.intervals \subseteq HourStarts
            BY <1>0, IntervalMapShape DEF Status
        <3> QED BY <2>1, <2>5, <3>1 DEF WindowInv, HourStarts
    <2>7. DOMAIN mem.intervals = {}
        <3>1. ASSUME NEW g \in DOMAIN mem.intervals PROVE FALSE
            BY <2>6
        <3> QED BY <3>1
    <2> QED BY <1>3, <2>1, <2>2, <2>4, <2>7
<1>9. CASE SaveCollected
    <2>1. pc = "save_collected" /\ pending # NoPending
        BY <1>9 DEF SaveCollected, StatusInv, ControlInv
    <2>2. Noted \in Status /\ DOMAIN Noted.intervals = DOMAIN mem.intervals
        BY <1>0, <2>1, NotedType DEF Noted, Status
    <2>3. \/ Saved(Noted) /\ mem' = Noted
          \/ SaveFails(Noted) /\ Abort(Noted, "failed")
        BY <1>9 DEF SaveCollected, Noted
    <2> QED BY <1>3, <2>1, <2>2, <2>3
<1>10. CASE Cancel \/ Crash
    BY <1>10 DEF Cancel, Crash, WorkerGone
<1>11. CASE LateEffect \/ Tick \/ StepBack \/ UNCHANGED vars
    <2>1. disk' = disk /\ mem' = mem /\ pc' = pc
        BY <1>11 DEF LateEffect, Tick, StepBack, vars, worker, files
    <2> QED BY <1>1, <2>1
<1> QED
    BY <1>4, <1>5, <1>6, <1>7, <1>8, <1>9, <1>10, <1>11
    DEF Next, PublishPending, Cycle, Run, Environment

\* An hour whose selector changes is in every status.
LEMMA ChangedHourIsKnown ==
    ASSUME StatusInv, SettledInv, [Next]_vars, NEW t \in Statuses', NEW h \in HourStarts
    PROVE  selected'[h] = selected[h] \/ h \in DOMAIN t.intervals
<1>1. StatusInv'
    BY StatusStep
<1>2. CASE pending # NoPending /\ pending.start = h /\ pending' = pending
    BY <1>1, <1>2 DEF StatusInv, SpanInv
<1> QED
    BY <1>2, OneHourChanges

LEMMA WindowStep ==
    ASSUME SteadyStep, StatusInv, SettledInv, WindowInv, [Next]_vars
    PROVE  WindowInv'
<1>0. TypeOK /\ ControlInv /\ TypeOK'
    BY TypeStep DEF StatusInv
<1>1. /\ WindowStart(now) \in Nat /\ WindowStart(now)' \in Nat
      /\ WindowEnd(now) \in Nat /\ WindowEnd(now)' \in Nat
      /\ WindowStart(now) <= WindowStart(now)' /\ WindowEnd(now) <= WindowEnd(now)'
    BY <1>0, WindowMoves
<1>2. ASSUME NEW t \in Statuses'
      PROVE  /\ \A h \in HourStarts :
                   (\A g \in DOMAIN t.intervals : g < h) => selected'[h] \notin Full
             /\ DOMAIN t.intervals = {} => t.expired = 0
             /\ DOMAIN t.intervals # {} =>
                   \E g \in DOMAIN t.intervals : g <= WindowStart(now)'
             /\ \A g \in DOMAIN t.intervals : first' <= g /\ g < WindowEnd(now)'
             /\ \A g, k \in DOMAIN t.intervals : \A h \in HourStarts :
                   g <= h /\ h <= k => h \in DOMAIN t.intervals
    <2>1. PlacedStatus(t)
        BY <1>0, StatusOrigin, OriginIsPlaced
    <2>2. \A g \in DOMAIN t.intervals : g \in HourStarts /\ g \in Nat
        BY <1>0, IntervalMapShape DEF TypeOK, Statuses, Status, HourStarts
    <2>3. ASSUME NEW h \in HourStarts, \A g \in DOMAIN t.intervals : g < h
          PROVE  selected'[h] \notin Full
        <3>1. h \notin DOMAIN t.intervals
            BY <2>2, <2>3
        <3>2. selected'[h] = selected[h]
            BY <3>1, ChangedHourIsKnown
        <3> QED BY <2>1, <2>3, <3>2 DEF PlacedStatus
    <2>4. ASSUME DOMAIN t.intervals # {}
          PROVE  \E g \in DOMAIN t.intervals : g <= WindowStart(now)'
        <3>1. PICK g \in DOMAIN t.intervals : g <= WindowStart(now)
            BY <2>1, <2>4 DEF PlacedStatus
        <3> QED BY <1>1, <2>2, <3>1
    <2>5. ASSUME NEW g \in DOMAIN t.intervals
          PROVE  first' <= g /\ g < WindowEnd(now)'
        <3>1. g < WindowEnd(now)
            BY <2>1 DEF PlacedStatus
        <3>2. first' <= g
            BY HoursSinceFirst
        <3> QED BY <1>1, <2>2, <3>1, <3>2
    <2>6. /\ DOMAIN t.intervals = {} => t.expired = 0
          /\ \A g, k \in DOMAIN t.intervals : \A h \in HourStarts :
                g <= h /\ h <= k => h \in DOMAIN t.intervals
        BY <2>1 DEF PlacedStatus
    <2> QED BY <2>3, <2>4, <2>5, <2>6
<1>3. pc' # "down" /\ DOMAIN mem'.intervals = {} => DOMAIN disk'.intervals = {}
    BY EmptyStep
<1>4. ASSUME disk' = NoStatus, NEW h \in HourStarts
      PROVE  selected'[h] \notin Full
    <2>1. disk = NoStatus
        BY <1>0, <1>4, DiskStep
    <2>2. pending = NoPending
        BY <2>1 DEF StatusInv, BindingInv
    <2>3. selected'[h] = selected[h]
        BY <2>2, OneHourChanges
    <2> QED BY <2>1, <2>3 DEF WindowInv
<1> QED
    BY <1>2, <1>3, <1>4 DEF WindowInv

LEMMA ShownStep ==
    ASSUME StatusInv, SettledInv, WindowInv, ShownInv, [Next]_vars
    PROVE  ShownInv'
<1> SUFFICES ASSUME NEW t \in Statuses', NEW h \in DOMAIN t.intervals, selected'[h] \in Full,
                    ~(pending' # NoPending /\ pending'.start = h)
             PROVE  t.intervals[h]
    BY DEF ShownInv
<1>0. /\ TypeOK /\ ControlInv /\ mem \in Status /\ pending \in Snapshot \cup {NoPending}
      /\ TypeOK' /\ now \in 0..MaxTime /\ history \in Histories
    BY TypeStep DEF StatusInv, TypeOK
<1>1. h \in HourStarts /\ h \in Nat
    BY <1>0, IntervalMapShape DEF TypeOK, Statuses, Status, HourStarts
<1>2. selected'[h] = selected[h] /\ selected[h] \in Full
    BY <1>1, OneHourChanges
<1>3. CASE pending # NoPending /\ pending.start = h
    BY <1>2, <1>3, GivenUp
<1>4. CASE ~(pending # NoPending /\ pending.start = h)
    <2>1. ASSUME NEW s \in Statuses, h \in DOMAIN s.intervals
          PROVE  s.intervals[h]
        BY <1>2, <1>4, <2>1 DEF ShownInv
    <2>2. pc # "down" => mem \in Statuses
        BY DEF Statuses
    <2>3. CASE t \in Statuses
        BY <2>1, <2>3
    <2>4. CASE \E b \in Bindings : t = FreshStatus(b)
        BY <2>4 DEF FreshStatus
    <2>5. CASE pc # "down" /\ Agrees(t, mem)
        BY <2>1, <2>2, <2>5 DEF Agrees
    <2>6. CASE pc = "save_collected" /\ Agrees(t, Noted)
        <3>1. t.intervals = mem.intervals
            BY <1>0, <2>6 DEF Agrees, Noted, Status
        <3> QED BY <2>1, <2>2, <2>6, <3>1
    <2>7. CASE pc = "schedule" /\ Agrees(t, ScheduledStatus(mem, now))
        <3>1. t.intervals = ScheduledStatus(mem, now).intervals /\ mem \in Statuses
            BY <2>2, <2>7 DEF Agrees
        <3>2. DOMAIN ScheduledStatus(mem, now).intervals = Window(now)
            BY <1>0, ScheduledShape
        <3>3. t.intervals[h] = (IF h \in DOMAIN mem.intervals THEN mem.intervals[h] ELSE FALSE)
            <4>1. h \in Window(now) /\ mem \in Status
                BY <1>0, <3>1, <3>2
            <4>2. ScheduledStatus(mem, now).intervals[h]
                    = (IF h \in DOMAIN mem.intervals THEN mem.intervals[h] ELSE FALSE)
                BY <4>1, ScheduledMap
            <4> QED BY <3>1, <4>2
        \* An hour that enters the window is newer than all the status has.
        <3>4. h \in DOMAIN mem.intervals
            <4> SUFFICES ASSUME h \notin DOMAIN mem.intervals PROVE FALSE
                OBVIOUS
            <4>1. WindowStart(now) \in Nat /\ WindowStart(now) <= h
                BY <1>0, <3>1, <3>2, StartOfWindow DEF Window, HourStarts
            <4>2. \A g \in DOMAIN mem.intervals : g \in Nat
                BY <1>0, IntervalMapShape DEF Status, HourStarts
            <4>3. ASSUME NEW k \in DOMAIN mem.intervals
                  PROVE  k < h
                <5>1. PICK g \in DOMAIN mem.intervals : g <= WindowStart(now)
                    BY <3>1 DEF WindowInv
                <5>2. g <= h
                    BY <1>1, <4>1, <4>2, <5>1
                <5>3. ~(h <= k)
                    BY <1>1, <3>1, <5>2 DEF WindowInv
                <5> QED BY <1>1, <4>2, <5>3
            <4> QED BY <1>1, <1>2, <3>1, <4>3 DEF WindowInv
        <3> QED BY <2>1, <3>1, <3>3, <3>4
    <2>8. CASE pc = "record" /\ pending # NoPending /\ Agrees(t, PublishedStatus)
        <3>1. t.intervals = PublishedStatus.intervals /\ pending \in Snapshot /\ mem \in Statuses
            BY <1>0, <2>2, <2>8 DEF Agrees
        <3>2. h \in DOMAIN mem.intervals /\ t.intervals[h] = mem.intervals[h]
            BY <1>0, <1>4, <2>8, <3>1, PublishedShape
        <3> QED BY <2>1, <3>1, <3>2
    <2> QED BY <1>0, <2>3, <2>4, <2>5, <2>6, <2>7, <2>8, StatusOrigin DEF Origin
<1> QED
    BY <1>3, <1>4

LEMMA DisjointUnion ==
    ASSUME NEW S, NEW T, IsFiniteSet(S), IsFiniteSet(T), S \cap T = {}
    PROVE  /\ IsFiniteSet(S \cup T)
           /\ Cardinality(S \cup T) = Cardinality(S) + Cardinality(T)
<1>1. Cardinality(S) \in Nat /\ Cardinality(T) \in Nat
    BY FS_CardinalityType
<1>2. Cardinality(S \cap T) = 0
    BY FS_EmptySet
<1>3. /\ IsFiniteSet(S \cup T)
      /\ Cardinality(S \cup T) = Cardinality(S) + Cardinality(T) - Cardinality(S \cap T)
    BY FS_Union
<1> QED
    BY <1>1, <1>2, <1>3

\* Scheduling adds exactly the hours that leave the window incomplete and
\* those that were never in one.
LEMMA ScheduleCountsLost ==
    ASSUME StatusInv, WindowInv, ShownInv, ClaimsAreBacked, GapsAreExact, pc = "schedule",
           DOMAIN mem.intervals # {}
    PROVE  mem.expired + MissedHours(mem.intervals, WindowStart(now))
              + ExpiredIncomplete(mem.intervals, WindowStart(now))
           = Cardinality({h \in HourStarts : /\ first <= h /\ selected[h] \notin Full
                                             /\ \A g \in Window(now) : h < g})
<1> DEFINE D == DOMAIN mem.intervals
           S == WindowStart(now)
           old == {h \in HourStarts : /\ first <= h /\ selected[h] \notin Full
                                      /\ \A g \in D : h < g}
           left == {h \in D : h < S /\ ~mem.intervals[h]}
           missed == {h \in HourStarts : h < S /\ \A g \in D : g < h}
           new == {h \in HourStarts : /\ first <= h /\ selected[h] \notin Full
                                      /\ \A g \in Window(now) : h < g}
<1>0. /\ mem \in Status /\ now \in 0..MaxTime /\ history \in Histories /\ first \in Nat
      /\ mem \in Statuses /\ pending = NoPending
    BY DEF StatusInv, TypeOK, ControlInv, Statuses
<1>1. D \subseteq HourStarts /\ HourStarts \subseteq Nat
    BY <1>0, IntervalMapShape DEF Status, HourStarts
<1>2. PICK low \in D : low <= S
    BY <1>0 DEF WindowInv
<1>3. /\ \A g \in D : first <= g /\ g < WindowEnd(now)
      /\ \A g, k \in D : \A h \in HourStarts : g <= h /\ h <= k => h \in D
      /\ \A h \in HourStarts : (\A g \in D : g < h) => selected[h] \notin Full
    BY <1>0 DEF WindowInv
<1>4. \A h \in D : mem.intervals[h] <=> selected[h] \in Full
    BY <1>0 DEF ShownInv, ClaimsAreBacked
<1>5. S \in Nat /\ S \in Window(now) /\ \A g \in Window(now) : S <= g /\ g \in Nat
    <2>1. WindowEnd(now) # 0 /\ WindowEnd(now) \in Nat
        <3>1. WindowEnd(now) \in Nat
            BY <1>0, StartOfWindow
        <3>2. low \in Nat /\ low < WindowEnd(now)
            BY <1>1, <1>2, <1>3
        <3> QED BY <3>1, <3>2
    <2> QED BY <1>0, <1>1, <2>1, StartOfWindow DEF Window
<1>6. \A h \in HourStarts : (\A g \in Window(now) : h < g) <=> h < S
    BY <1>1, <1>5
<1>7. mem.expired = Cardinality(old)
    BY <1>0 DEF GapsAreExact
<1>8. MissedHours(mem.intervals, S) = Cardinality(missed)
    BY DEF MissedHours
<1>9. ExpiredIncomplete(mem.intervals, S) = Cardinality(left)
    BY DEF ExpiredIncomplete
<1>10. new = (old \cup missed) \cup left
    <2>1. ASSUME NEW h \in new
          PROVE  h \in (old \cup missed) \cup left
        <3>1. h \in HourStarts /\ h \in Nat /\ first <= h /\ selected[h] \notin Full /\ h < S
            BY <1>1, <1>6
        <3>2. CASE h \in D
            BY <1>4, <3>1, <3>2
        <3>3. CASE h \notin D
            <4>1. ASSUME NEW g \in D, NEW k \in D, ~(h < g), ~(k < h)
                  PROVE  FALSE
                <5>1. g <= h /\ h <= k
                    <6>1. g \in Nat /\ k \in Nat
                        BY <1>1
                    <6> QED BY <3>1, <4>1, <6>1
                <5> QED BY <1>3, <3>1, <3>3, <5>1
            <4> QED BY <3>1, <4>1
        <3> QED BY <3>2, <3>3
    <2>2. ASSUME NEW h \in old
          PROVE  h \in new
        <3>1. h \in Nat /\ h < low /\ low \in Nat
            BY <1>1, <1>2
        <3>2. h < S
            BY <1>2, <1>5, <3>1
        <3> QED BY <1>6, <3>2
    <2>3. ASSUME NEW h \in missed
          PROVE  h \in new
        <3>1. h \in Nat /\ low \in Nat /\ low < h /\ first <= low
            BY <1>1, <1>2, <1>3
        <3>2. first <= h
            BY <1>0, <3>1
        <3>3. selected[h] \notin Full
            BY <1>3
        <3> QED BY <1>6, <3>2, <3>3
    <2>4. ASSUME NEW h \in left
          PROVE  h \in new
        <3>1. h \in HourStarts /\ first <= h /\ selected[h] \notin Full /\ h < S
            BY <1>1, <1>3, <1>4
        <3> QED BY <1>6, <3>1
    <2> HIDE DEF old, missed, left, new
    <2> QED BY <2>1, <2>2, <2>3, <2>4
<1>11. old \cap missed = {} /\ (old \cup missed) \cap left = {}
    <2>1. ASSUME NEW h \in old, h \in missed PROVE FALSE
        <3>1. h \in Nat /\ low \in Nat /\ h < low /\ low < h
            BY <1>1, <1>2, <2>1
        <3> QED BY <3>1
    <2>2. ASSUME NEW h \in old, h \in left PROVE FALSE
        <3>1. h \in Nat /\ h < h
            BY <1>1, <2>2
        <3> QED BY <3>1
    <2>3. ASSUME NEW h \in missed, h \in left PROVE FALSE
        <3>1. h \in Nat /\ h < h
            BY <1>1, <2>3
        <3> QED BY <3>1
    <2> HIDE DEF old, missed, left
    <2> QED BY <2>1, <2>2, <2>3
<1>12. /\ IsFiniteSet(old) /\ IsFiniteSet(missed) /\ IsFiniteSet(left)
       /\ Cardinality(old) \in Nat /\ Cardinality(missed) \in Nat /\ Cardinality(left) \in Nat
    <2>1. old \subseteq HourStarts /\ missed \subseteq HourStarts /\ left \subseteq HourStarts
        BY <1>1
    <2> HIDE DEF old, missed, left
    <2> QED BY <2>1, HourSetsAreFinite
<1> HIDE DEF old, missed, left, new
<1>13. /\ IsFiniteSet(old \cup missed)
       /\ Cardinality(old \cup missed) = Cardinality(old) + Cardinality(missed)
    BY <1>11, <1>12, DisjointUnion
<1>14. Cardinality((old \cup missed) \cup left)
         = Cardinality(old) + Cardinality(missed) + Cardinality(left)
    BY <1>11, <1>12, <1>13, DisjointUnion
<1>15. Cardinality(new) = mem.expired + MissedHours(mem.intervals, S)
                            + ExpiredIncomplete(mem.intervals, S)
    BY <1>7, <1>8, <1>9, <1>10, <1>12, <1>14
<1> QED
    BY <1>15 DEF new

LEMMA GapsStep ==
    ASSUME StatusInv, SettledInv, ClaimsAreBacked, ShownInv, WindowInv, GapsAreExact,
           [Next]_vars
    PROVE  GapsAreExact'
<1> SUFFICES ASSUME NEW t \in Statuses', DOMAIN t.intervals # {}
             PROVE  t.expired = Cardinality({h \in HourStarts :
                                   /\ first' <= h /\ selected'[h] \notin Full
                                   /\ \A g \in DOMAIN t.intervals : h < g})
    BY DEF GapsAreExact
<1> DEFINE D == DOMAIN t.intervals
           after == {h \in HourStarts : /\ first' <= h /\ selected'[h] \notin Full
                                        /\ \A g \in D : h < g}
           before == {h \in HourStarts : /\ first' <= h /\ selected[h] \notin Full
                                         /\ \A g \in D : h < g}
<1>0. /\ TypeOK /\ ControlInv /\ mem \in Status /\ pending \in Snapshot \cup {NoPending}
      /\ now \in 0..MaxTime /\ history \in Histories
    BY DEF StatusInv, TypeOK
<1>1. after = before
    <2>1. ASSUME NEW h \in HourStarts, \A g \in D : h < g
          PROVE  selected'[h] = selected[h]
        <3>1. h \in Nat
            BY DEF HourStarts
        <3>2. h \notin D
            BY <2>1, <3>1
        <3> QED BY <3>2, ChangedHourIsKnown
    <2> QED BY <2>1
<1>2. pc # "down" => mem \in Statuses
    BY DEF Statuses
\* A status that keeps its hours keeps its count.
<1>3. ASSUME NEW s \in Statuses, D = DOMAIN s.intervals, t.expired = s.expired
      PROVE  t.expired = Cardinality(before)
    <2>1. ~(pc = "schedule" /\ DOMAIN mem.intervals = {})
        BY <1>3 DEF WindowInv, Statuses
    <2>2. first' = first
        BY <1>0, <2>1, FirstStep
    <2>3. before = {h \in HourStarts : /\ first <= h /\ selected[h] \notin Full
                                       /\ \A g \in DOMAIN s.intervals : h < g}
        BY <1>3, <2>2
    <2>4. s.expired = Cardinality({h \in HourStarts : /\ first <= h /\ selected[h] \notin Full
                                       /\ \A g \in DOMAIN s.intervals : h < g})
        BY <1>3 DEF GapsAreExact
    <2> QED BY <1>3, <2>3, <2>4
<1>4. t.expired = Cardinality(before)
    <2>1. CASE t \in Statuses
        BY <1>3, <2>1
    <2>2. CASE \E b \in Bindings : t = FreshStatus(b)
        BY <2>2 DEF FreshStatus
    <2>3. CASE pc # "down" /\ Agrees(t, mem)
        BY <1>2, <1>3, <2>3 DEF Agrees
    <2>4. CASE pc = "save_collected" /\ Agrees(t, Noted)
        <3>1. t.intervals = mem.intervals /\ t.expired = mem.expired
            BY <1>0, <2>4 DEF Agrees, Noted, Status
        <3> QED BY <1>2, <1>3, <2>4, <3>1
    <2>5. CASE pc = "schedule" /\ Agrees(t, ScheduledStatus(mem, now))
        <3>1. /\ D = Window(now) /\ mem \in Statuses
              /\ t.expired = mem.expired + MissedHours(mem.intervals, WindowStart(now))
                               + ExpiredIncomplete(mem.intervals, WindowStart(now))
            BY <1>0, <1>2, <2>5, ScheduledShape DEF Agrees
        <3>2. CASE DOMAIN mem.intervals # {}
            <4>1. first' = first
                BY <1>0, <3>2, FirstStep
            <4>2. before = {h \in HourStarts : /\ first <= h /\ selected[h] \notin Full
                                               /\ \A g \in Window(now) : h < g}
                BY <3>1, <4>1
            <4> QED BY <2>5, <3>1, <3>2, <4>2, ScheduleCountsLost
        <3>3. CASE DOMAIN mem.intervals = {} /\ first' = WindowStart(now)
            <4>1. mem.expired = 0
                BY <3>1, <3>3 DEF WindowInv
            <4>2. MissedHours(mem.intervals, WindowStart(now)) = 0
                BY <3>3 DEF MissedHours
            <4>3. {h \in DOMAIN mem.intervals : h < WindowStart(now) /\ ~mem.intervals[h]} = {}
                BY <3>3
            <4>4. ExpiredIncomplete(mem.intervals, WindowStart(now)) = 0
                BY <4>3, FS_EmptySet DEF ExpiredIncomplete
            <4>5. WindowStart(now) \in Window(now) /\ WindowStart(now) \in Nat
                BY <1>0, <3>1, StartOfWindow DEF HourStarts
            <4>6. before = {}
                <5>1. ASSUME NEW h \in before PROVE FALSE
                    <6>1. h \in Nat /\ WindowStart(now) <= h /\ h < WindowStart(now)
                        BY <3>1, <3>3, <4>5 DEF HourStarts
                    <6> QED BY <4>5, <6>1
                <5> HIDE DEF before
                <5> QED BY <5>1
            <4> HIDE DEF before
            <4> QED BY <3>1, <4>1, <4>2, <4>4, <4>6, FS_EmptySet
        <3>4. CASE Statuses' \subseteq Statuses
            BY <1>3, <3>4
        <3> QED BY <1>0, <2>5, <3>2, <3>3, <3>4, FirstStep
    <2>6. CASE pc = "record" /\ pending # NoPending /\ Agrees(t, PublishedStatus)
        <3>1. pending.start \in DOMAIN mem.intervals /\ Cardinality(DOMAIN mem.intervals) <= Cap
            BY <1>2, <2>6 DEF StatusInv, SpanInv
        <3>2. D = DOMAIN mem.intervals /\ t.expired = mem.expired
            BY <1>0, <2>6, <3>1, PublishedKeepsHours DEF Agrees
        <3> QED BY <1>2, <1>3, <2>6, <3>2
    <2> HIDE DEF before
    <2> QED BY <1>0, <2>1, <2>2, <2>3, <2>4, <2>5, <2>6, StatusOrigin DEF Origin
<1> QED
    BY <1>1, <1>4

\* As long as the clock does not step back and history_hours stays the
\* same, expired_gaps is exactly the number of hours since the first window
\* that have left it and that the sink does not show completely: an hour is
\* neither missed while the worker is stopped nor counted twice by a replay
\* or a restart.
THEOREM GapsExact == Spec /\ [](late = {}) /\ [][SteadyStep]_vars => []GapsAreExact
<1> DEFINE Inv == SettledInv /\ ClaimsAreBacked /\ ShownInv /\ WindowInv /\ GapsAreExact
<1>1. Init => Inv
    <2> SUFFICES ASSUME Init PROVE Inv
        OBVIOUS
    <2>1. Statuses = {} /\ \A h \in HourStarts : selected[h] = NoReport
        BY DEF Init, Statuses
    <2>2. NoReport \notin Full
        BY CollectorAssumption DEF Contents
    <2> QED BY <2>1, <2>2 DEF Init, SettledInv, ClaimsAreBacked, ShownInv, WindowInv, GapsAreExact
<1>2. StatusInv /\ Inv /\ [Next]_vars /\ (late = {})' /\ [SteadyStep]_vars => Inv'
    <2> SUFFICES ASSUME StatusInv, Inv, [Next]_vars, late' = {}, [SteadyStep]_vars PROVE Inv'
        OBVIOUS
    <2>1. SteadyStep
        <3>1. now \in Nat
            BY DEF StatusInv, TypeOK
        <3> QED BY <3>1 DEF SteadyStep, vars, worker
    <2>2. SettledInv'
        BY SettledStep DEF StatusInv
    <2> QED BY <2>1, <2>2, ClaimsStep, ShownStep, WindowStep, GapsStep
<1> QED
    BY <1>1, <1>2, StatusAlways, PTL DEF Spec
=============================================================================
