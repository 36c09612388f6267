------------------------------ MODULE Collector ------------------------------
(***************************************************************************)
(* The retained-traffic collector of unifi-server (collector.rs and its    *)
(* sink): one worker that walks the completed hours of a sliding window,   *)
(* reads each hour's report from the controller, stages it durably in      *)
(* pending.json, writes it to InfluxDB as immutable records followed by    *)
(* one publication selector, and keeps its progress in status.json.        *)
(*                                                                         *)
(* A step of the worker ends where the code can be interrupted with an     *)
(* observable difference: at an await (a sink request, the controller      *)
(* read, the pauses), where a cycle timeout or a cancellation drops the    *)
(* future, and at a durable write, after which the process may die.        *)
(*                                                                         *)
(* A report is abstracted to its content.  The revision of a publication   *)
(* is the digest of the snapshot, so (hour, content) identifies it.        *)
(* records, updated_ms, lag_ms and sink_available, which only report, are  *)
(* left out of the status.                                                 *)
(***************************************************************************)
EXTENDS Integers, FiniteSets

CONSTANTS
    Hour,          \* clock ticks per hour (HOUR)
    Delay,         \* settlement delay in ticks (delay_ms)
    Histories,     \* history_hours values an operator may start a worker with
    Correction,    \* correction_hours
    PerCycle,      \* intervals_per_cycle
    Cap,           \* bound on the status map (168 in the code)
    Batches,       \* record batches of a publication, before the selector
    Full,          \* contents whose three sources were all collected
    Partial,       \* contents with at least one source not collected
    Bindings,      \* digests of (identity, controller, site, destination)
    NoReport,      \* no selected revision
    NoPending,     \* no pending.json
    NoStatus,      \* no status.json
    MaxTime,       \* bound: the clock stops here
    MaxLate,       \* bound: abandoned sink requests still under way
    MaxBacks,      \* bound: times the system clock steps back
    DiskFaults     \* whether durable writes may fail

Contents == Full \cup Partial
HourStarts == {h \in 0..MaxTime : h % Hour = 0}
NoTime == -1
Times == HourStarts \cup {NoTime}
Errors == {"none", "source_incomplete", "failed", "cycle_timeout"}

ASSUME CollectorAssumption ==
    /\ Hour \in Nat \ {0} /\ Delay \in Nat /\ MaxTime \in Nat
    /\ Histories \subseteq Nat \ {0} /\ Correction \in Nat \ {0}
    /\ \A n \in Histories : Correction <= n /\ n <= Cap
    /\ PerCycle \in Nat \ {0} /\ Cap \in Nat /\ Batches \in Nat \ {0}
    /\ MaxLate \in Nat /\ MaxBacks \in Nat /\ DiskFaults \in BOOLEAN
    /\ Full \cap Partial = {}
    /\ NoReport \notin Contents

IntervalMaps == UNION {[S -> BOOLEAN] : S \in SUBSET HourStarts}

\* status.json and Worker.status.
Status == [binding : Bindings,
           intervals : IntervalMaps,
           cursor : Times,
           expired : Nat,
           lastPublished : Times,
           lastCollected : Times,
           error : Errors]

\* Status::default with the worker's binding.
FreshStatus(b) ==
    [binding |-> b, intervals |-> [h \in {} |-> FALSE], cursor |-> NoTime,
     expired |-> 0, lastPublished |-> NoTime, lastCollected |-> NoTime,
     error |-> "none"]

\* pending.json.  binding is history: the worker that staged it.
Snapshot == [start : HourStarts, content : Contents, binding : Bindings]

\* One POST to the sink: a record batch, or the selector (part Batches + 1).
Request == [start : HourStarts, content : Contents, part : 1..(Batches + 1)]

ASSUME AbsentAssumption ==
    /\ NoPending \notin Snapshot \cup [start : HourStarts, content : Contents]
    /\ NoStatus \notin Status

VARIABLES
    now,       \* the system clock
    pc,        \* where the worker is
    mem,       \* Worker.status (meaningful while pc # "down")
    todo,      \* candidates of this cycle not finished yet
    part,      \* next part of the publication to write
    history,   \* history_hours of the running worker
    disk,      \* status.json
    pending,   \* pending.json
    stored,    \* record batches the sink has ingested
    selected,  \* the selector point of each hour
    late,      \* requests the worker gave up on that may still take effect
    first,     \* history: start of the first window the status covers
    backs      \* times the clock has stepped back

worker == <<pc, mem, todo, part, history>>
files == <<disk, pending>>
sink == <<stored, selected, late>>
vars == <<now, worker, files, sink, first, backs>>

Locations == {"down", "publish", "record", "remove", "schedule", "collect",
              "save_collected", "pause", "finish", "sleep"}

\* The cycle waits (for the sink, the controller or the pause), so that a
\* timeout or a cancellation can drop it.
Awaiting == pc \in {"collect", "pause"} \/ (pc = "publish" /\ pending # NoPending)

Larger(a, b) == IF a < b THEN b ELSE a
\* Mutant: subtraction that does not saturate.
MonusUnchecked(a, b) == a - b
Monus(a, b) == IF a < b THEN 0 ELSE a - b   \* saturating_sub

TypeOK ==
    /\ now \in 0..MaxTime
    /\ pc \in Locations
    /\ mem \in Status
    /\ todo \in SUBSET HourStarts
    /\ part \in 1..(Batches + 1)
    /\ history \in Histories
    /\ disk \in Status \cup {NoStatus}
    /\ pending \in Snapshot \cup {NoPending}
    /\ stored \in SUBSET [start : HourStarts, content : Contents, part : 1..Batches]
    /\ selected \in [HourStarts -> Contents \cup {NoReport}]
    /\ late \in SUBSET Request
    /\ first \in 0..MaxTime
    /\ backs \in 0..MaxBacks

(***************************************************************************)
(* Scheduling.                                                             *)
(***************************************************************************)
WindowEnd(t) == (Monus(t, Delay) \div Hour) * Hour
WindowStart(t) == Monus(WindowEnd(t), history * Hour)
Window(t) == {h \in HourStarts : WindowStart(t) <= h /\ h < WindowEnd(t)}

\* Mutant: hours missed by a stopped worker are not counted.
MissedHoursIgnored(map, start) == 0

\* Whole hours between the last scheduled interval and the window.
MissedHours(map, start) ==
    IF DOMAIN map = {} THEN 0
    ELSE Cardinality({h \in HourStarts : h < start /\ \A g \in DOMAIN map : g < h})

ExpiredIncomplete(map, start) ==
    Cardinality({h \in DOMAIN map : h < start /\ ~map[h]})

ScheduledStatus(s, t) ==
    [s EXCEPT
        !.expired = @ + MissedHours(s.intervals, WindowStart(t))
                      + ExpiredIncomplete(s.intervals, WindowStart(t)),
        !.intervals = [h \in Window(t) |->
                          IF h \in DOMAIN s.intervals THEN s.intervals[h] ELSE FALSE]]

\* a is served before b by a round robin that starts after the cursor.
Before(a, b, cursor) ==
    IF (a > cursor) = (b > cursor) THEN a < b ELSE a > cursor

Candidates(s, t) ==
    LET wanted == {h \in DOMAIN s.intervals :
                      ~s.intervals[h] \/ h >= Monus(WindowEnd(t), Correction * Hour)}
    IN  {h \in wanted :
            Cardinality({g \in wanted : Before(g, h, s.cursor)}) < PerCycle}

\* The cursor is the interval just finished, so the rest keeps its order.
IsNextCandidate(h) == h \in todo /\ \A g \in todo : g = h \/ Before(h, g, mem.cursor)

(***************************************************************************)
(* Durable writes.  atomic_write replaces the file by a rename; a failure  *)
(* before it leaves the old file, a failure after it (the directory sync)  *)
(* is reported although the new file is in place.                          *)
(***************************************************************************)
\* save() succeeds and s is in status.json.
Saved(s) == disk' = s
\* save() fails.
SaveFails(s) == DiskFaults /\ disk' \in {disk, s}

\* cycle() returns an error: run() records its category and goes to save it.
Abort(s, error) ==
    /\ mem' = [s EXCEPT !.error = error]
    /\ pc' = "finish"
    /\ todo' = {}
    /\ part' = 1

(***************************************************************************)
(* The sink.                                                               *)
(***************************************************************************)
\* Mutant: the selector is written before the records.
PublicationSelectorFirst ==
    [start |-> pending.start, content |-> pending.content,
     part |-> IF part = 1 THEN Batches + 1 ELSE part - 1]
Publication == [start |-> pending.start, content |-> pending.content, part |-> part]

\* A request takes effect: points have deterministic identities, so a
\* record is stored once and the selector is overwritten.
TakesEffect(r) ==
    IF r.part <= Batches
    THEN stored' = stored \cup {r} /\ UNCHANGED selected
    ELSE selected' = [selected EXCEPT ![r.start] = r.content] /\ UNCHANGED stored

\* The request under way when the worker stops waiting for its answer took
\* effect, never will, or is still on its way.
Abandoned ==
    \/ UNCHANGED sink
    \/ TakesEffect(Publication) /\ UNCHANGED late
    \/ /\ Cardinality(late) < MaxLate
       /\ late' = late \cup {Publication}
       /\ UNCHANGED <<stored, selected>>

\* The worker's memory and its lock are gone.
WorkerGone ==
    /\ pc' = "down" /\ todo' = {} /\ part' = 1
    /\ mem' = FreshStatus(mem.binding)

\* What becomes of a request under way when the worker is dropped.
AbandonRequest ==
    IF pc = "publish" /\ pending # NoPending THEN Abandoned ELSE UNCHANGED sink

-----------------------------------------------------------------------------
Init ==
    /\ now = 0 /\ backs = 0 /\ first = 0
    /\ pc = "down" /\ todo = {} /\ part = 1
    /\ history \in Histories
    /\ mem \in {FreshStatus(b) : b \in Bindings}
    /\ disk = NoStatus /\ pending = NoPending
    /\ stored = {} /\ late = {}
    /\ selected = [h \in HourStarts |-> NoReport]

\* Mutant: a restart adopts the state of another destination.
StartUnbound ==
    /\ pc = "down"
    /\ \E b \in Bindings, n \in Histories :
          /\ mem' = IF disk = NoStatus THEN FreshStatus(b) ELSE [disk EXCEPT !.binding = b]
          /\ history' = n
    /\ disk' = mem'
    /\ pc' = "publish" /\ todo' = {} /\ part' = 1
    /\ UNCHANGED <<now, pending, sink, first, backs>>

\* Worker::new: take the lock, load or create the status, check its binding
\* and its size, and save it.
Start ==
    /\ pc = "down"
    /\ \E b \in Bindings, n \in Histories :
          /\ IF disk = NoStatus
             THEN mem' = FreshStatus(b)
             ELSE /\ disk.binding = b
                  /\ Cardinality(DOMAIN disk.intervals) <= Cap
                  /\ mem' = disk
          /\ history' = n
    /\ disk' = mem'
    /\ pc' = "publish" /\ todo' = {} /\ part' = 1
    /\ UNCHANGED <<now, pending, sink, first, backs>>

\* publish_pending finds no pending file: the cycle goes on to schedule.
NothingPending ==
    /\ pc = "publish" /\ pending = NoPending
    /\ pc' = "schedule"
    /\ UNCHANGED <<now, mem, todo, part, history, files, sink, first, backs>>

\* InfluxSink::write of the next batch or of the selector, acknowledged.
WriteAcknowledged ==
    /\ pc = "publish" /\ pending # NoPending
    /\ TakesEffect(Publication)
    /\ IF part <= Batches
       THEN part' = part + 1 /\ pc' = pc
       ELSE part' = 1 /\ pc' = "record"
    /\ UNCHANGED <<now, mem, todo, history, files, late, first, backs>>

\* Mutant: a failed write drops the staged report.
WriteFailsAndDrops ==
    /\ pc = "publish" /\ pending # NoPending
    /\ Abandoned
    /\ Abort(mem, "failed")
    /\ pending' = NoPending
    /\ UNCHANGED <<now, history, disk, first, backs>>

\* Mutant: a failed write is not reported to run().
WriteFailsSilently ==
    /\ pc = "publish" /\ pending # NoPending
    /\ Abandoned
    /\ Abort(mem, mem.error)
    /\ UNCHANGED <<now, history, files, first, backs>>

\* InfluxSink::write reports an error: a rejection, a transport failure, or
\* a timeout after which the request may have taken effect or still will.
WriteFails ==
    /\ pc = "publish" /\ pending # NoPending
    /\ Abandoned
    /\ Abort(mem, "failed")
    /\ UNCHANGED <<now, history, files, first, backs>>

\* Mutant: a publication counts as complete whatever its sources.
PublishedStatusComplete ==
    [mem EXCEPT
        !.intervals = [h \in DOMAIN mem.intervals \cup {pending.start} |->
                          h = pending.start \/ mem.intervals[h]],
        !.lastPublished = Larger(@, pending.start),
        !.lastCollected = Larger(@, pending.start),
        !.cursor = pending.start,
        !.error = "none"]

\* Mutant: an incomplete hour does not move the cursor.
PublishedStatusCursorStays ==
    [mem EXCEPT
        !.intervals = [h \in DOMAIN mem.intervals \cup {pending.start} |->
                          IF h = pending.start THEN pending.content \in Full
                          ELSE mem.intervals[h]],
        !.lastPublished = Larger(@, pending.start),
        !.cursor = IF pending.content \in Full THEN pending.start ELSE @]

\* The status after the selector of pending.json was acknowledged.
PublishedStatus ==
    LET collected == pending.content \in Full
        map == [h \in DOMAIN mem.intervals \cup {pending.start} |->
                   IF h = pending.start THEN collected ELSE mem.intervals[h]]
        \* pop_first until the map fits
        popped == {h \in DOMAIN map :
                      Cardinality({g \in DOMAIN map : g >= h}) > Cap}
    IN  [mem EXCEPT
            !.lastPublished = Larger(@, pending.start),
            !.lastCollected = IF collected THEN Larger(@, pending.start) ELSE @,
            !.intervals = [h \in DOMAIN map \ popped |-> map[h]],
            !.expired = @ + Cardinality({h \in popped : ~map[h]}),
            !.cursor = pending.start,
            !.error = IF collected THEN "none" ELSE "source_incomplete"]

\* publish_pending records the acknowledged publication and saves it.
Record ==
    /\ pc = "record"
    /\ \/ /\ Saved(PublishedStatus)
          /\ mem' = PublishedStatus
          /\ pc' = "remove"
          /\ UNCHANGED <<todo, part>>
       \/ /\ SaveFails(PublishedStatus)
          /\ Abort(PublishedStatus, "failed")
    /\ UNCHANGED <<now, history, pending, sink, first, backs>>

\* publish_pending removes pending.json.  The first call of a cycle goes on
\* to schedule, one in the candidate loop to the one second pause.
Remove ==
    /\ pc = "remove"
    /\ \/ /\ pending' = NoPending
          /\ pc' = IF todo = {} THEN "schedule" ELSE "pause"
          /\ UNCHANGED <<mem, todo, part>>
       \/ /\ DiskFaults
          /\ pending' \in {pending, NoPending}
          /\ Abort(mem, "failed")
    /\ UNCHANGED <<now, history, disk, sink, first, backs>>

\* cycle: compute the window and this cycle's candidates, and save.
Schedule ==
    /\ pc = "schedule"
    /\ LET s == ScheduledStatus(mem, now)
           candidates == Candidates(s, now)
       IN  /\ \/ /\ Saved(s)
                 /\ mem' = s
                 /\ todo' = candidates
                 /\ pc' = IF candidates = {} THEN "finish" ELSE "collect"
                 /\ UNCHANGED part
              \/ /\ SaveFails(s)
                 /\ Abort(s, "failed")
           /\ first' = IF DOMAIN mem.intervals = {} THEN WindowStart(now) ELSE first
    /\ UNCHANGED <<now, history, pending, sink, backs>>

\* cycle: the controller's report of the next candidate arrives, builds
\* into a publication and is staged in pending.json.
Collect ==
    /\ pc = "collect"
    /\ \E h \in todo, c \in Contents :
          LET snapshot == [start |-> h, content |-> c, binding |-> mem.binding]
          IN  /\ IsNextCandidate(h)
              /\ \/ /\ pending' = snapshot
                    /\ pc' = "save_collected"
                    /\ UNCHANGED <<mem, todo, part>>
                 \/ /\ DiskFaults
                    /\ pending' \in {pending, snapshot}
                    /\ Abort(mem, "failed")
    /\ UNCHANGED <<now, history, disk, sink, first, backs>>

\* cycle: collect_traffic gives no report, or Publication::build refuses it,
\* before anything is staged.
CollectRefused ==
    /\ pc = "collect"
    /\ Abort(mem, "failed")
    /\ UNCHANGED <<now, history, files, sink, first, backs>>

\* Mutant: staging a report already advances the publication checkpoint.
SaveCollectedAsPublished ==
    /\ pc = "save_collected"
    /\ mem' = [mem EXCEPT !.lastCollected = Larger(@, pending.start),
                          !.lastPublished = Larger(@, pending.start)]
    /\ Saved(mem')
    /\ pc' = "publish"
    /\ UNCHANGED <<now, todo, part, history, pending, sink, first, backs>>

\* cycle: note the collected interval, save, and publish what was staged.
SaveCollected ==
    /\ pc = "save_collected"
    /\ LET s == IF pending.content \in Full
                THEN [mem EXCEPT !.lastCollected = Larger(@, pending.start)]
                ELSE mem
       IN  \/ /\ Saved(s)
              /\ mem' = s
              /\ pc' = "publish"
              /\ UNCHANGED <<todo, part>>
           \/ /\ SaveFails(s)
              /\ Abort(s, "failed")
    /\ UNCHANGED <<now, history, pending, sink, first, backs>>

\* cycle: one second later, take the next candidate or end the cycle.
Pause ==
    /\ pc = "pause"
    /\ todo' = todo \ {mem.cursor}
    /\ pc' = IF todo' = {} THEN "finish" ELSE "collect"
    /\ UNCHANGED <<now, mem, part, history, files, sink, first, backs>>

\* run: the thirty minute timeout drops the cycle where it waits.
CycleTimeout ==
    /\ Awaiting
    /\ AbandonRequest
    /\ Abort(mem, "cycle_timeout")
    /\ UNCHANGED <<now, history, files, first, backs>>

\* run: save the outcome of the cycle, whether or not the write succeeds.
Finish ==
    /\ pc = "finish"
    /\ Saved(mem) \/ SaveFails(mem)
    /\ pc' = "sleep"
    /\ UNCHANGED <<now, mem, todo, part, history, pending, sink, first, backs>>

\* Mutant: a new cycle does not replay the staged report first.
WakeWithoutReplay ==
    /\ pc = "sleep"
    /\ pc' = "schedule"
    /\ UNCHANGED <<now, mem, todo, part, history, files, sink, first, backs>>

\* run: the cadence elapses and the next cycle begins.
Wake ==
    /\ pc = "sleep"
    /\ pc' = "publish"
    /\ UNCHANGED <<now, mem, todo, part, history, files, sink, first, backs>>

\* run: the cancellation token fires where the worker waits, and run()
\* returns without saving.
Cancel ==
    /\ Awaiting \/ pc = "sleep"
    /\ AbandonRequest
    /\ WorkerGone
    /\ UNCHANGED <<now, history, files, first, backs>>

\* The process dies anywhere.  The lock goes with it.
Crash ==
    /\ pc # "down"
    /\ AbandonRequest
    /\ WorkerGone
    /\ UNCHANGED <<now, history, files, first, backs>>

\* The sink gets round to a request its sender no longer waits for, or the
\* request is lost.
LateEffect ==
    /\ \E r \in late :
          /\ late' = late \ {r}
          /\ TakesEffect(r) \/ UNCHANGED <<stored, selected>>
    /\ UNCHANGED <<now, worker, files, first, backs>>

Tick ==
    /\ now < MaxTime
    /\ now' = now + 1
    /\ UNCHANGED <<worker, files, sink, first, backs>>

\* The system clock is set back.
StepBack ==
    /\ backs < MaxBacks /\ now > 0
    /\ now' = now - 1
    /\ backs' = backs + 1
    /\ UNCHANGED <<worker, files, sink, first>>

PublishPending == NothingPending \/ WriteAcknowledged \/ WriteFails \/ Record \/ Remove
Cycle == Schedule \/ Collect \/ CollectRefused \/ SaveCollected \/ Pause
Run == CycleTimeout \/ Finish \/ Wake \/ Cancel
Environment == Crash \/ LateEffect \/ Tick \/ StepBack

Next == Start \/ PublishPending \/ Cycle \/ Run \/ Environment

Spec == Init /\ [][Next]_vars

\* The runtime schedules the task, timers fire and files are written.  The
\* controller and each sink request succeed again and again when retried:
\* a request has a timeout of seconds, a cycle one of thirty minutes, so a
\* deadline does not strike the same wait for ever.
Fairness ==
    /\ WF_vars(Tick)
    /\ WF_vars(Start) /\ WF_vars(Finish) /\ WF_vars(Wake)
    /\ WF_vars(NothingPending) /\ WF_vars(Record) /\ WF_vars(Remove)
    /\ WF_vars(Schedule) /\ WF_vars(SaveCollected)
    /\ SF_vars(Collect) /\ SF_vars(Pause)
    /\ \A p \in 1..(Batches + 1) : SF_vars(WriteAcknowledged /\ part = p)

FairSpec == Spec /\ Fairness

-----------------------------------------------------------------------------
(***************************************************************************)
(* Properties.                                                             *)
(***************************************************************************)

\* All record batches of the report c of hour h are in the sink.
AllStored(h, c) ==
    \A p \in 1..Batches : [start |-> h, content |-> c, part |-> p] \in stored

\* A reader who follows an hour's selector finds every record of the
\* selected revision, whatever was interrupted, replayed or delivered late
\* (InfluxSink::publish; "one publication selector" in sink.rs).
SelectorIsComplete ==
    \A h \in HourStarts :
        selected[h] # NoReport => AllStored(h, selected[h])

\* The statuses that exist: the durable one and the running worker's.
Statuses == (IF disk = NoStatus THEN {} ELSE {disk})
              \cup (IF pc = "down" THEN {} ELSE {mem})

\* An hour that a status calls complete is one the sink shows completely
\* retrieved, unless a newer reading of that hour is still being published
\* (publish_pending saves the map only after the selector's answer).
ClaimsAreBacked ==
    \A s \in Statuses : \A h \in DOMAIN s.intervals :
        s.intervals[h] =>
            \/ selected[h] \in Full
            \/ pending # NoPending /\ pending.start = h

\* Only an acknowledged selector advances the publication checkpoint, and
\* the collection checkpoint never falls behind a complete hour.
CheckpointsAreBacked ==
    \A s \in Statuses :
        /\ s.lastPublished # NoTime => selected[s.lastPublished] # NoReport
        /\ \A h \in DOMAIN s.intervals : s.intervals[h] => h <= s.lastCollected

\* expired_gaps is exactly the number of hours that lie between the first
\* window and the current one and whose complete report the sink does not
\* show: none is missed while the worker is stopped and none is counted
\* twice by a replay or a restart (Worker::schedule).
GapsAreExact ==
    \A s \in Statuses : DOMAIN s.intervals # {} =>
        s.expired = Cardinality({h \in HourStarts :
                        /\ first <= h /\ selected[h] \notin Full
                        /\ \A g \in DOMAIN s.intervals : h < g})

\* A staged report is given up only once the sink shows it and status.json
\* records it, and never makes way for another one (publish_pending).
PendingIsSettledFirst ==
    [][pending # NoPending /\ pending' # pending =>
          /\ pending' = NoPending
          /\ selected[pending.start] = pending.content
          /\ disk.cursor = pending.start
          /\ disk.intervals[pending.start] = (pending.content \in Full)]_vars

\* A report is only ever written to the destination of the worker that
\* collected it, also after a restart with other settings (Worker::new).
PublishedWhereCollected ==
    pc # "down" /\ pending # NoPending => pending.binding = mem.binding

\* expired_gaps never exceeds the number of hours that have no complete
\* report: no outage is counted twice (Worker::schedule).
GapsNotOvercounted ==
    \A s \in Statuses :
        s.expired <= Cardinality({h \in HourStarts :
                         h < WindowEnd(now) /\ selected[h] \notin Full})

\* h is outside the last window, complete, or just published.
Served(h) ==
    \/ now < MaxTime
    \/ h \notin Window(now)
    \/ h \in DOMAIN mem.intervals /\ mem.intervals[h]
    \/ pc = "record" /\ pending.start = h

\* Once the worker is no longer stopped, every hour of the window that is
\* not complete is published again and again: an hour whose sources keep
\* failing starves no other one (the round robin of Worker::schedule).
NoHourStarves ==
    <>[][~(Crash \/ Cancel)]_vars =>
        \A h \in HourStarts : []<>Served(h)

\* The collector implements the archive its readers rely on, when the sink
\* settles every request before the worker stops waiting for it: only the
\* report in pending.json becomes visible, and it is not given up before.
Archive == INSTANCE TrafficArchive WITH
    Hours <- HourStarts,
    Nothing <- NoPending,
    staged <- IF pending = NoPending THEN NoPending
              ELSE [start |-> pending.start, content |-> pending.content],
    shown <- selected

ImplementsArchive == Archive!Spec

\* A worker asleep without an error has nothing left to publish: the
\* operator reads a stuck publication from status.error (run).
NoErrorMeansNothingStuck ==
    pc = "sleep" /\ mem.error = "none" => pending = NoPending

-----------------------------------------------------------------------------
(***************************************************************************)
(* What the properties rest on: the strengthening that makes them          *)
(* inductive.                                                              *)
(***************************************************************************)
\* Where the worker is tells whether a report is staged and whether a
\* publication is half written.
ControlInv ==
    /\ pc \in {"record", "remove", "save_collected"} => pending # NoPending
    /\ pc \in {"schedule", "collect", "pause"} => pending = NoPending
    /\ pc # "publish" \/ pending = NoPending => part = 1

\* Batches are stored in order, and a selector is on its way only after them.
PublicationInv ==
    /\ pc = "publish" /\ pending # NoPending =>
          \A p \in 1..Batches : p < part =>
              [start |-> pending.start, content |-> pending.content, part |-> p] \in stored
    /\ \A r \in late : r.part = Batches + 1 => AllStored(r.start, r.content)

\* Nothing is on its way behind the worker's back, and the selector of a
\* recorded report is in place.
SettledInv ==
    /\ late = {}
    /\ pc \in {"record", "remove"} => selected[pending.start] = pending.content

\* A recorded report is in the status, in memory and on disk.
RecordedInv ==
    pc = "remove" =>
        /\ disk = mem
        /\ mem.cursor = pending.start
        /\ pending.start \in DOMAIN mem.intervals =>
              (mem.intervals[pending.start] <=> pending.content \in Full)

\* status.json is there before anything is staged, and carries the binding
\* of the worker that staged it.
BindingInv ==
    /\ pending # NoPending => disk # NoStatus /\ disk.binding = pending.binding
    /\ pc # "down" => disk # NoStatus /\ disk.binding = mem.binding

\* A cycle that leaves a report staged ends with an error.
StuckInv ==
    pc \in {"finish", "sleep"} /\ mem.error = "none" => pending = NoPending

\* A selector acknowledged but not recorded yet is in the sink.
CheckpointInv ==
    /\ CheckpointsAreBacked
    /\ pc \in {"record", "remove"} => selected[pending.start] # NoReport

\* A status map fits its bound and has the hours that are being worked on;
\* a cycle collects only on top of a saved status.
SpanInv ==
    /\ \A s \in Statuses : Cardinality(DOMAIN s.intervals) <= Cap
    /\ \A s \in Statuses : pending # NoPending => pending.start \in DOMAIN s.intervals
    /\ todo \subseteq DOMAIN mem.intervals
    /\ pc \in {"collect", "pause", "save_collected", "remove"} => disk = mem

\* An hour the sink shows completely is called complete, unless its latest
\* reading is still being published.
ShownInv ==
    \A s \in Statuses : \A h \in DOMAIN s.intervals :
        selected[h] \in Full =>
            s.intervals[h] \/ (pending # NoPending /\ pending.start = h)

\* The hours of a status map are consecutive, begin no later than the
\* current window and end before it does; nothing newer has been published.
WindowInv ==
    /\ \A s \in Statuses :
          /\ \A h \in HourStarts :
                (\A g \in DOMAIN s.intervals : g < h) => selected[h] \notin Full
          /\ DOMAIN s.intervals = {} => s.expired = 0
          /\ DOMAIN s.intervals # {} =>
                \E g \in DOMAIN s.intervals : g <= WindowStart(now)
          /\ \A g \in DOMAIN s.intervals : first <= g /\ g < WindowEnd(now)
          /\ \A g, k \in DOMAIN s.intervals : \A h \in HourStarts :
                g <= h /\ h <= k => h \in DOMAIN s.intervals
    /\ pc # "down" /\ DOMAIN mem.intervals = {} => DOMAIN disk.intervals = {}
    /\ disk = NoStatus => \A h \in HourStarts : selected[h] \notin Full
=============================================================================
