----------------------------- MODULE AsyncAudit -----------------------------
(***************************************************************************)
(* The audit trail: AsyncRecorder's bounded queue and its drainer          *)
(* (internal/audit/async.go), the table it writes to, the retention sweep, *)
(* and the part of Server.Run that ends the process.  Events are numbered  *)
(* in the order of their Record calls.                                     *)
(***************************************************************************)
EXTENDS Integers, Sequences, FiniteSets

CONSTANTS
    QueueSize,      \* capacity of the channel
    DrainBatchMax,  \* drainBatchMax
    MaxAge,         \* audit.retention.max_age
    MaxEvents,      \* bound: number of Record calls
    MaxTime         \* bound: the clock stops here

ASSUME AuditAssumption ==
    /\ QueueSize \in Nat \ {0} /\ DrainBatchMax \in Nat \ {0}
    /\ MaxAge \in Nat /\ MaxEvents \in Nat /\ MaxTime \in Nat

VARIABLES
    now,       \* the clock
    queue,     \* AsyncRecorder.queue
    dropped,   \* the events counted by AsyncRecorder.dropped
    batch,     \* Run's batch
    drainer,   \* where Run is
    trail,     \* table audit_events, in insertion order
    failed,    \* history: events of a transaction that was rolled back
    cutoff,    \* reapAuditEvents' cutoff, NoSweep between sweeps
    purged,    \* history: events deleted by the sweep
    recorded,  \* history: when each event was recorded
    phase,     \* how far Server.Run is
    serving    \* the listeners that have requests in flight

flows   == <<queue, dropped, batch, drainer, trail, failed, cutoff, purged, recorded>>
vars    == <<now, flows, phase, serving>>

Listeners == {"dashboard", "s3"}
Stages    == {"select", "more", "flush", "drain", "lastFlush", "done"}
Stopping  == {"stopDashboard", "stopS3", "stopped"}
Closed    == {"stopped", "failed", "exited"}  \* phases without a store
Phases    == {"running", "failed", "exited"} \cup Stopping

(* An event: its number and its timestamp, 0 where the call site leaves it *)
(* zero (the clock starts at 1).                                           *)
Event == [id : Nat, ts : Nat]
Ids(s) == {s[i].id : i \in 1 .. Len(s)}

(* Less than any time the sweep computes.                                  *)
NoSweep == -MaxAge

Init ==
    /\ now = 1
    /\ queue = <<>> /\ dropped = {} /\ batch = <<>> /\ drainer = "select"
    /\ trail = <<>> /\ failed = {} /\ cutoff = NoSweep /\ purged = {} /\ recorded = <<>>
    /\ phase = "running"
    /\ serving = {}

Tick == now < MaxTime /\ now' = now + 1 /\ UNCHANGED <<flows, phase, serving>>

-----------------------------------------------------------------------------
(* Requests.  A listener takes new ones until its Shutdown is called, and  *)
(* those in flight go on recording, however many they are.                 *)
Begin(l) ==
    /\ l \notin serving
    /\ phase = "running" \/ (phase = "stopDashboard" /\ l = "s3")
    /\ serving' = serving \cup {l}
    /\ UNCHANGED <<now, flows, phase>>

End(l) ==
    /\ l \in serving /\ phase # "exited"
    /\ serving' = serving \ {l}
    /\ UNCHANGED <<now, flows, phase>>

(* Mutants: the queue has no limit; the full queue gives up its oldest     *)
(* event uncounted.                                                        *)
RecordUnbounded(l) ==
    /\ l \in serving /\ phase # "exited"
    /\ Len(recorded) < MaxEvents
    /\ queue' = Append(queue, [id |-> Len(recorded) + 1, ts |-> 0])
    /\ recorded' = Append(recorded, now)
    /\ UNCHANGED <<now, dropped, batch, drainer, trail, failed, cutoff, purged, phase, serving>>

RecordOverwrites(l) ==
    LET e == [id |-> Len(recorded) + 1, ts |-> 0]
    IN  /\ l \in serving /\ phase # "exited"
        /\ Len(recorded) < MaxEvents
        /\ queue' = IF Len(queue) < QueueSize THEN Append(queue, e) ELSE Append(Tail(queue), e)
        /\ recorded' = Append(recorded, now)
        /\ UNCHANGED <<now, dropped, batch, drainer, trail, failed, cutoff, purged, phase, serving>>

(* Record never waits: a full queue costs the new event.  The proxy stamps *)
(* its events, the dashboard leaves that to eventToRow.                    *)
Record(l) ==
    LET e == [id |-> Len(recorded) + 1, ts |-> IF l = "s3" THEN now ELSE 0]
    IN  /\ l \in serving /\ phase # "exited"
        /\ Len(recorded) < MaxEvents
        /\ \/ Len(queue) < QueueSize /\ queue' = Append(queue, e) /\ UNCHANGED dropped
           \/ Len(queue) >= QueueSize /\ dropped' = dropped \cup {e.id} /\ UNCHANGED queue
        /\ recorded' = Append(recorded, now)
        /\ UNCHANGED <<now, batch, drainer, trail, failed, cutoff, purged, phase, serving>>

-----------------------------------------------------------------------------
(* The drainer.                                                            *)
Take(next) ==
    /\ phase # "exited" /\ queue # <<>>
    /\ batch' = Append(batch, Head(queue))
    /\ queue' = Tail(queue)
    /\ drainer' = next
    /\ UNCHANGED <<now, dropped, trail, failed, cutoff, purged, recorded, phase, serving>>

Goto(next) ==
    /\ phase # "exited"
    /\ drainer' = next
    /\ UNCHANGED <<now, queue, dropped, batch, trail, failed, cutoff, purged, recorded, phase, serving>>

(* select: an event, or ctx.Done().  When both are ready either is taken.  *)
Receive  == drainer = "select" /\ Take("more")
CtxDone  == drainer = "select" /\ phase \in Stopping /\ Goto("drain")

(* drainMore: what is already queued joins the batch, up to its limit.     *)
More     == drainer = "more" /\ Len(batch) < DrainBatchMax /\ Take("more")
Enough   == drainer = "more" /\ (queue = <<>> \/ Len(batch) >= DrainBatchMax) /\ Goto("flush")

(* drainInto, on shutdown only: no limit.                                  *)
DrainInto   == drainer = "drain" /\ Take("drain")
DrainedInto == drainer = "drain" /\ queue = <<>> /\ Goto("lastFlush")

(* eventToRow.                                                             *)
Rows(b) == [i \in 1 .. Len(b) |-> IF b[i].ts = 0 THEN [b[i] EXCEPT !.ts = now] ELSE b[i]]

(* Mutant: a failed flush ends the drainer.                                *)
FlushGivesUp ==
    /\ drainer \in {"flush", "lastFlush"} /\ phase # "exited"
    /\ \/ trail' = trail \o Rows(batch) /\ drainer' = "select" /\ UNCHANGED failed
       \/ failed' = failed \cup Ids(batch) /\ drainer' = "done" /\ UNCHANGED trail
    /\ batch' = <<>>
    /\ UNCHANGED <<now, queue, dropped, cutoff, purged, recorded, phase, serving>>

(* RecordBatch is one transaction: all of the batch or nothing.  Its error *)
(* is only logged.  Once the store is closed it always fails.  The server  *)
(* always wraps the SQLite recorder, which takes batches.                  *)
Flush ==
    /\ drainer \in {"flush", "lastFlush"} /\ phase # "exited"
    /\ \/ phase \notin Closed /\ trail' = trail \o Rows(batch) /\ UNCHANGED failed
       \/ failed' = failed \cup Ids(batch) /\ UNCHANGED trail
    /\ batch' = <<>>
    /\ drainer' = IF drainer = "flush" THEN "select" ELSE "done"
    /\ UNCHANGED <<now, queue, dropped, cutoff, purged, recorded, phase, serving>>

(* reapAuditEvents computes the cutoff ...                                 *)
SweepStart ==
    /\ phase = "running" /\ cutoff = NoSweep
    /\ cutoff' = now - MaxAge
    /\ UNCHANGED <<now, queue, dropped, batch, drainer, trail, failed, purged, recorded, phase, serving>>

(* PurgeAuditEventsBefore(before), on a store that is open.                *)
DeleteRows(before) ==
    /\ phase \notin Closed /\ cutoff # NoSweep
    /\ trail' = SelectSeq(trail, LAMBDA e : e.ts >= before)
    /\ purged' = purged \cup Ids(SelectSeq(trail, LAMBDA e : e.ts < before))
    /\ cutoff' = NoSweep
    /\ UNCHANGED <<now, queue, dropped, batch, drainer, failed, recorded, phase, serving>>

(* Mutant: the sweep keeps one tick too few.                               *)
PurgeEarly == DeleteRows(cutoff + 1)

(* ... and deletes what is older, at any later time.                       *)
Purge == DeleteRows(cutoff)

(* The error of PurgeAuditEventsBefore is only logged.                     *)
PurgeFails ==
    /\ phase # "exited" /\ cutoff # NoSweep
    /\ cutoff' = NoSweep
    /\ UNCHANGED <<now, queue, dropped, batch, drainer, trail, failed, purged, recorded, phase, serving>>

-----------------------------------------------------------------------------
(* Server.Run.  ctx is cancelled by the signal; Shutdown of a listener     *)
(* returns when its requests are done or the deadline has passed; then the *)
(* store is closed and the process ends.  Nothing waits for the drainer.   *)
(* When a listener or the operator fails, the store is closed at once and  *)
(* ctx is never cancelled.                                                 *)
Advance(from, to) == phase = from /\ phase' = to /\ UNCHANGED <<now, flows, serving>>

Signal            == Advance("running", "stopDashboard")
DashboardShutdown == Advance("stopDashboard", "stopS3")
S3Shutdown        == Advance("stopS3", "stopped")
Fatal             == Advance("running", "failed")
Exit              == Advance("stopped", "exited") \/ Advance("failed", "exited")

Drain == Receive \/ CtxDone \/ More \/ Enough \/ DrainInto \/ DrainedInto \/ Flush

Next ==
    \/ Tick \/ SweepStart \/ Purge \/ PurgeFails \/ Drain
    \/ \E l \in Listeners : Begin(l) \/ End(l) \/ Record(l)
    \/ Signal \/ DashboardShutdown \/ S3Shutdown \/ Fatal \/ Exit

Spec == Init /\ [][Next]_vars

(* The drainer's goroutine is scheduled.                                   *)
FairSpec == Spec /\ WF_vars(Drain)

-----------------------------------------------------------------------------
(* Shape of the queue, the batch and the table.                            *)
TypeOK ==
    /\ now \in Nat
    /\ queue \in Seq(Event) /\ Len(queue) <= QueueSize
    /\ batch \in Seq(Event)
    /\ trail \in Seq(Event)
    /\ recorded \in Seq(Nat)
    /\ dropped \in SUBSET (1 .. Len(recorded))
    /\ failed \in SUBSET (1 .. Len(recorded))
    /\ purged \in SUBSET (1 .. Len(recorded))
    /\ cutoff \in Int
    /\ drainer \in Stages
    /\ phase \in Phases
    /\ serving \subseteq Listeners

(* Every event is in exactly one place: queued, in the batch, in the       *)
(* table, counted as dropped, part of a failed transaction or purged       *)
(* (AsyncRecorder.Record, Run).  Nothing vanishes uncounted and nothing is *)
(* written twice, and the trail has the order of the Record calls.  What   *)
(* is still queued when the process exits counts as queued here, although  *)
(* it is lost: nothing waits for the drainer.                              *)
InOnePlace ==
    LET line == trail \o batch \o queue
        gone == <<dropped, failed, purged>>
    IN  /\ \A i, j \in 1 .. Len(line) : i < j => line[i].id < line[j].id
        /\ \A i \in 1 .. 3 : gone[i] \cap Ids(line) = {}
        /\ \A i, j \in 1 .. 3 : i # j => gone[i] \cap gone[j] = {}
        /\ Ids(line) \cup dropped \cup failed \cup purged = 1 .. Len(recorded)

(* Retention counts from when the event happened at the earliest           *)
(* (eventToRow, reapAuditEvents): the sweep never takes an event that is   *)
(* not older than MaxAge, however late it deletes and whatever was written *)
(* since it computed its cutoff.                                           *)
KeptForMaxAge == \A e \in purged : recorded[e] < now - MaxAge

(* While the process runs, an event that was queued is written or its      *)
(* transaction has failed: the drainer never stops for an error.           *)
QueueIsDrained ==
    \A e \in 1 .. MaxEvents : e \in Ids(queue) \cup Ids(batch)
                                ~> e \notin Ids(queue) \cup Ids(batch) \/ phase # "running"
=============================================================================
