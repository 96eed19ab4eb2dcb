------------------------------- MODULE Quotas -------------------------------
(***************************************************************************)
(* Bucket quotas (internal/quotas, internal/api/quotas.go) and the         *)
(* handlers that write to a bucket (internal/api/backends.go,              *)
(* multipart.go), for one bucket of one backend.  A limit is the number    *)
(* hard_bytes of a row or an entry, where 0 does not limit, or None.       *)
(* ListObjects returns a page of one key.                                  *)
(***************************************************************************)
EXTENDS Integers, FiniteSets, FiniteSetsExt

CONSTANTS
    Writers,    \* goroutines that upload
    Admins,     \* goroutines that set or delete the quota
    Scheduler,  \* the goroutine that scans every limited bucket
    Recompute,  \* goroutines of the recompute handler
    LastKey,    \* object keys are 1 .. LastKey, in listing order
    MaxSize,    \* bound: size of an upload
    MaxLimit,   \* bound: hard_bytes
    MaxEvents,  \* bound: uploads, copies, limit changes, failed scans, restarts
    Absent      \* no usage has been computed

ASSUME QuotasAssumption ==
    /\ LastKey \in Nat /\ MaxSize \in Nat /\ MaxLimit \in Nat /\ MaxEvents \in Nat
    /\ Absent \notin Nat

VARIABLES
    objects,   \* the backend: size of each object, 0 where there is none
    parts,     \* the backend: bytes of the parts uploaded for each key
    table,     \* bucket_quotas.hard_bytes
    cache,     \* SQLiteLimitSource.cache
    k8s,       \* KubernetesLimitSource.cache
    usage,     \* Service.cache
    backoff,   \* Service.failedScans has a recent failure
    inline,    \* Service.inlineScans
    pc, loc,   \* where each goroutine is, and its variables
    done,      \* number of those so far
    drift      \* history: usage may have lost sight of bytes in the bucket

bucket   == <<objects, parts>>
limits   == <<table, cache, k8s>>
service  == <<usage, backoff, inline>>
vars     == <<bucket, limits, service, pc, loc, done, drift>>

None     == -1
Limits   == None .. MaxLimit
Keys     == 1 .. LastKey
Scanners == {Scheduler} \cup Recompute
Procs    == Writers \cup Admins \cup Scanners

(* lim: the limit read; key, size, part: the upload; next, acc: where a    *)
(* scan is and what it has counted; raced: history, something was written  *)
(* during the scan; row: what Reload has read.                             *)
Idle  == [lim |-> 0, key |-> 1, size |-> 0, part |-> FALSE, next |-> 1, acc |-> 0,
          raced |-> FALSE, row |-> 0]

Bytes == MapThenSumSet(LAMBDA k : objects[k], Keys)

(* Bytes that are in the bucket and about to be recorded.                  *)
Unrecorded == MapThenSumSet(LAMBDA p : IF pc[p] = "record" THEN loc[p].size ELSE 0, Writers)

(* Bytes of parts, which ListObjects does not see.                         *)
PartBytes == MapThenSumSet(LAMBDA k : parts[k], Keys)

Goto(p, l) == pc' = [pc EXCEPT ![p] = l]
Finish(p)  == Goto(p, "idle") /\ loc' = [loc EXCEPT ![p] = Idle]

(* The loc of every goroutine after p's own becomes l, when the bucket     *)
(* grows: a scan that is under way is raced.                               *)
Raced(p, l) ==
    [q \in Procs |-> IF q = p THEN l
                     ELSE IF pc[q] = "scan" THEN [loc[q] EXCEPT !.raced = TRUE] ELSE loc[q]]

Init ==
    /\ objects = [k \in Keys |-> 0] /\ parts = [k \in Keys |-> 0]
    /\ table \in Limits /\ cache = table /\ k8s = None
    /\ usage = Absent /\ backoff = FALSE /\ inline = FALSE
    /\ pc = [p \in Procs |-> "idle"] /\ loc = [p \in Procs |-> Idle]
    /\ done = 0 /\ drift = FALSE

-----------------------------------------------------------------------------
(* An upload: a single PUT, or one part.                                   *)
Upload(w, k, n, isPart) ==
    /\ pc[w] = "idle" /\ done < MaxEvents
    /\ loc' = [loc EXCEPT ![w] = [Idle EXCEPT !.key = k, !.size = n, !.part = isPart]]
    /\ Goto(w, "limit")
    /\ done' = done + 1
    /\ UNCHANGED <<bucket, limits, service, drift>>

(* MergedLimitSource.Get: an entry from Kubernetes wins.                   *)
Limit == IF k8s # None THEN k8s ELSE cache

(* CheckUpload, the limit.                                                 *)
CheckLimit(w) ==
    /\ pc[w] = "limit"
    /\ IF Limit <= 0 THEN Goto(w, "put") /\ UNCHANGED loc
       ELSE Goto(w, "usage") /\ loc' = [loc EXCEPT ![w].lim = Limit]
    /\ UNCHANGED <<bucket, limits, service, done, drift>>

(* Would n bytes more, with u in use, exceed what w read as the limit?     *)
Exceeds(w, u) == u + loc[w].size > loc[w].lim

(* CheckUpload, the usage.  Without one the upload looks at the backoff.   *)
CheckUsage(w) ==
    /\ pc[w] = "usage"
    /\ \/ usage # Absent /\ Exceeds(w, usage) /\ Finish(w)
       \/ usage # Absent /\ ~Exceeds(w, usage) /\ Goto(w, "put") /\ UNCHANGED loc
       \/ usage = Absent /\ Goto(w, "backoff") /\ UNCHANGED loc
    /\ UNCHANGED <<bucket, limits, service, done, drift>>

(* inSyncScanBackoff: for a while after a failed scan every upload passes. *)
InSyncScanBackoff(w) ==
    /\ pc[w] = "backoff"
    /\ Goto(w, IF backoff THEN "put" ELSE "begin")
    /\ UNCHANGED <<bucket, limits, service, loc, done, drift>>

(* Mutant: the slot is given back even by an upload that did not get it.   *)
BeginInlineScanDefers(w) ==
    /\ pc[w] = "begin"
    /\ Goto(w, IF inline THEN "put" ELSE "scan")
    /\ inline' = ~inline
    /\ UNCHANGED <<bucket, limits, usage, backoff, loc, done, drift>>

(* beginInlineScan: an upload passes while another one scans.  It does not *)
(* look again whether there is a usage by now.                             *)
BeginInlineScan(w) ==
    /\ pc[w] = "begin"
    /\ Goto(w, IF inline THEN "put" ELSE "scan")
    /\ inline' = TRUE
    /\ UNCHANGED <<bucket, limits, usage, backoff, loc, done, drift>>

(* The upload that scanned checks the Usage it has made.  That is the one  *)
(* in the cache, so what others record may or may not be in it.            *)
CheckScanned(w) ==
    /\ pc[w] = "stored"
    /\ \E u \in {loc[w].acc, usage} : Goto(w, IF Exceeds(w, u) THEN "refused" ELSE "passed")
    /\ UNCHANGED <<bucket, limits, service, loc, done, drift>>

(* endInlineScan, deferred.                                                *)
EndInlineScan(w) ==
    /\ pc[w] \in {"passed", "refused"}
    /\ inline' = FALSE
    /\ \/ pc[w] = "passed" /\ Goto(w, "put") /\ UNCHANGED loc
       \/ pc[w] = "refused" /\ Finish(w)
    /\ UNCHANGED <<bucket, limits, usage, backoff, done, drift>>

(* The backend's PutObject or UploadPart takes effect.                     *)
Written(l) ==
    IF l.part
    THEN parts' = [parts EXCEPT ![l.key] = @ + l.size] /\ UNCHANGED objects
    ELSE objects' = [objects EXCEPT ![l.key] = l.size] /\ UNCHANGED parts

(* The call.  One that fails is not recorded, and may have written all the *)
(* same.                                                                   *)
Put(w) ==
    LET l == loc[w]
    IN  /\ pc[w] = "put"
        /\ \/ Written(l) /\ Goto(w, "record") /\ loc' = Raced(w, l) /\ UNCHANGED drift
           \/ Written(l) /\ Goto(w, "idle") /\ loc' = Raced(w, Idle) /\ drift' = TRUE
           \/ Finish(w) /\ UNCHANGED <<bucket, drift>>
        /\ UNCHANGED <<limits, service, done>>

(* Mutant: the size of the upload is stored, not added.                    *)
RecordedOnce(w) ==
    /\ pc[w] = "record"
    /\ usage' = IF usage = Absent THEN Absent ELSE loc[w].size
    /\ Finish(w)
    /\ UNCHANGED <<bucket, limits, backoff, inline, done, drift>>

(* Recorded.                                                               *)
Recorded(w) ==
    /\ pc[w] = "record"
    /\ usage' = IF usage = Absent THEN Absent ELSE usage + loc[w].size
    /\ Finish(w)
    /\ UNCHANGED <<bucket, limits, backoff, inline, done, drift>>

(* CompleteMultipart makes the parts an object; Abort drops them.  Neither *)
(* checks or records.                                                      *)
Complete(k) ==
    /\ parts[k] > 0
    /\ objects' = [objects EXCEPT ![k] = parts[k]]
    /\ parts' = [parts EXCEPT ![k] = 0]
    /\ loc' = Raced(Absent, Idle)
    /\ UNCHANGED <<limits, service, pc, done, drift>>

Abort(k) ==
    /\ parts[k] > 0
    /\ parts' = [parts EXCEPT ![k] = 0]
    /\ UNCHANGED <<objects, limits, service, pc, loc, done, drift>>

(* Mutant: a delete gives the bytes back to the usage.                     *)
DeleteSubtracts(k) ==
    /\ objects[k] > 0
    /\ objects' = [objects EXCEPT ![k] = 0]
    /\ usage' = IF usage = Absent THEN Absent ELSE usage - objects[k]
    /\ UNCHANGED <<parts, limits, backoff, inline, pc, loc, done, drift>>

(* DeleteObject and its bulk forms: the usage is left alone.               *)
DeleteObject(k) ==
    /\ objects[k] > 0
    /\ objects' = [objects EXCEPT ![k] = 0]
    /\ UNCHANGED <<parts, limits, service, pc, loc, done, drift>>

(* handleCopyObject and copyOnePrefix within one backend.                  *)
CopyObject(j, k) ==
    /\ j # k /\ objects[j] > 0 /\ done < MaxEvents
    /\ objects' = [objects EXCEPT ![k] = objects[j]]
    /\ loc' = Raced(Absent, Idle)
    /\ drift' = TRUE
    /\ done' = done + 1
    /\ UNCHANGED <<parts, limits, service, pc>>

-----------------------------------------------------------------------------
(* Scan: by the scheduler, for a bucket with a limit, by recompute, or     *)
(* inline.                                                                 *)
StartScan(s) ==
    /\ pc[s] = "idle"
    /\ s = Scheduler => Limit # None
    /\ Goto(s, "scan") /\ loc' = [loc EXCEPT ![s] = Idle]
    /\ UNCHANGED <<bucket, limits, service, done, drift>>

ListObjects(p) ==
    /\ pc[p] = "scan" /\ loc[p].next <= LastKey
    /\ loc' = [loc EXCEPT ![p].acc = @ + objects[loc[p].next], ![p].next = @ + 1]
    /\ UNCHANGED <<bucket, limits, service, pc, done, drift>>

(* The listing fails.                                                      *)
ScanFails(p) ==
    /\ pc[p] = "scan" /\ done < MaxEvents
    /\ IF p \in Recompute THEN Finish(p) ELSE Goto(p, "failed") /\ UNCHANGED loc
    /\ done' = done + 1
    /\ UNCHANGED <<bucket, limits, service, drift>>

(* Uploads do not scan for a while.  This one passes, the scheduler goes   *)
(* on.                                                                     *)
MarkSyncScanFailed(p) ==
    /\ pc[p] = "failed"
    /\ backoff' = TRUE
    /\ IF p \in Writers THEN Goto(p, "passed") /\ UNCHANGED loc ELSE Finish(p)
    /\ UNCHANGED <<bucket, limits, usage, inline, done, drift>>

(* Mutant: a scan never lowers the usage.                                  *)
ScanStoreMax(p) ==
    /\ pc[p] = "scan" /\ loc[p].next > LastKey
    /\ usage' = IF usage # Absent /\ usage > loc[p].acc THEN usage ELSE loc[p].acc
    /\ backoff' = FALSE
    /\ drift' = (loc[p].raced \/ PartBytes > 0)
    /\ IF p \in Writers THEN Goto(p, "stored") /\ UNCHANGED loc ELSE Finish(p)
    /\ UNCHANGED <<bucket, limits, inline, done>>

(* The result replaces the usage, whatever was recorded meanwhile.         *)
ScanStore(p) ==
    /\ pc[p] = "scan" /\ loc[p].next > LastKey
    /\ usage' = loc[p].acc
    /\ backoff' = FALSE
    /\ drift' = (loc[p].raced \/ PartBytes > 0)
    /\ IF p \in Writers THEN Goto(p, "stored") /\ UNCHANGED loc ELSE Finish(p)
    /\ UNCHANGED <<bucket, limits, inline, done>>

(* syncScanBackoff passes.                                                 *)
BackoffEnds == backoff /\ backoff' = FALSE /\ UNCHANGED <<bucket, limits, usage, inline, pc, loc, done, drift>>

-----------------------------------------------------------------------------
(* handlePutQuota and handleDeleteQuota: write the row, read all rows,     *)
(* swap the cache.  A failed reload is only logged.                        *)
SetQuota(a, n) ==
    /\ pc[a] = "idle" /\ done < MaxEvents
    /\ table' = n
    /\ done' = done + 1
    /\ Goto(a, "list")
    /\ UNCHANGED <<bucket, cache, k8s, service, loc, drift>>

ReloadList(a) ==
    /\ pc[a] = "list"
    /\ \/ Goto(a, "swap") /\ loc' = [loc EXCEPT ![a].row = table]
       \/ Finish(a)
    /\ UNCHANGED <<bucket, limits, service, done, drift>>

ReloadSwap(a) ==
    /\ pc[a] = "swap"
    /\ cache' = loc[a].row
    /\ Finish(a)
    /\ UNCHANGED <<bucket, table, k8s, service, done, drift>>

(* KubernetesLimitSource.Set and Delete, from the informer.                *)
SetK8s(n) ==
    /\ n # k8s /\ done < MaxEvents
    /\ k8s' = n
    /\ done' = done + 1
    /\ UNCHANGED <<bucket, table, cache, service, pc, loc, drift>>

(* The process restarts; New and the first Reload.  The informer has yet   *)
(* to bring the limits from Kubernetes (SetK8s).                           *)
Restart ==
    /\ done < MaxEvents /\ done' = done + 1
    /\ usage' = Absent /\ backoff' = FALSE /\ inline' = FALSE
    /\ cache' = table /\ k8s' = None
    /\ pc' = [p \in Procs |-> "idle"] /\ loc' = [p \in Procs |-> Idle]
    /\ drift' = FALSE
    /\ UNCHANGED <<bucket, table>>

Next ==
    \/ \E w \in Writers :
         \/ \E k \in Keys, n \in 1 .. MaxSize, b \in BOOLEAN : Upload(w, k, n, b)
         \/ CheckLimit(w) \/ CheckUsage(w) \/ InSyncScanBackoff(w) \/ BeginInlineScan(w)
         \/ CheckScanned(w) \/ EndInlineScan(w) \/ Put(w) \/ Recorded(w)
    \/ \E k \in Keys : Complete(k) \/ Abort(k) \/ DeleteObject(k)
    \/ \E j, k \in Keys : CopyObject(j, k)
    \/ \E s \in Scanners : StartScan(s)
    \/ \E p \in Writers \cup Scanners : ListObjects(p) \/ ScanStore(p) \/ ScanFails(p) \/ MarkSyncScanFailed(p)
    \/ \E a \in Admins : (\E n \in Limits : SetQuota(a, n)) \/ ReloadList(a) \/ ReloadSwap(a)
    \/ \E n \in Limits : SetK8s(n)
    \/ BackoffEnds \/ Restart

Spec == Init /\ [][Next]_vars

(* What goroutine p does next, unless a scan of its fails.                 *)
Proceed(p) ==
    \/ /\ p \in Writers
       /\ \/ CheckLimit(p) \/ CheckUsage(p) \/ InSyncScanBackoff(p) \/ BeginInlineScan(p)
          \/ CheckScanned(p) \/ EndInlineScan(p) \/ Put(p) \/ Recorded(p)
    \/ p = Scheduler /\ StartScan(p)
    \/ ListObjects(p) \/ ScanStore(p) \/ MarkSyncScanFailed(p)

(* The scheduler keeps scanning, and goroutines that are under way go on.  *)
FairSpec == Spec /\ \A p \in Writers \cup Scanners : WF_vars(Proceed(p))

-----------------------------------------------------------------------------
(* The goroutines between beginInlineScan and endInlineScan.               *)
Inlining == {"scan", "stored", "failed", "passed", "refused"}

(* The service's maps, and where a goroutine can be.  The usage never goes *)
(* below zero.                                                             *)
TypeOK ==
    /\ usage \in Nat \cup {Absent}
    /\ backoff \in BOOLEAN /\ inline \in BOOLEAN /\ drift \in BOOLEAN
    /\ {table, cache, k8s} \subseteq Limits
    /\ \A p \in Procs : pc[p] \in Inlining \cup
         {"idle", "limit", "usage", "backoff", "begin", "put", "record", "list", "swap"}

(* Uploads list a bucket one at a time, and the slot is always given back: *)
(* it is taken exactly while one upload is between beginInlineScan and     *)
(* endInlineScan, whether its scan succeeds, fails or refuses it.  An      *)
(* upload that found no usage before another's scan was stored may still   *)
(* list the bucket a second time afterwards.                               *)
OneInlineScan ==
    Cardinality({w \in Writers : pc[w] \in Inlining}) = IF inline THEN 1 ELSE 0

(* What the check trusts: unless the last scan to be stored ran across a   *)
(* write, or left out the parts of an upload that was still open, or a     *)
(* copy or a failed write that had its effect went by, the usage covers    *)
(* every byte in the bucket but those about to be recorded (Recorded,      *)
(* Scan; "over-count ... is the safer direction", multipart.go).           *)
UsageCovers == usage # Absent /\ ~drift => usage + Unrecorded >= Bytes + PartBytes

(* "This corrects drift" (docs/explanations/quotas.md): when writing and   *)
(* the failures stop, the usage of a bucket with a limit comes to be the   *)
(* bytes of its objects, which is what ListObjects shows, whatever races   *)
(* went before.  So the parts of uploads that never complete, which        *)
(* UploadPart recorded, are out of the usage for good: the document's      *)
(* "phantom parts that count against MinIO's storage but not against the   *)
(* counter. Scans catch this" has the two the wrong way round.             *)
DriftCorrected == <>[](Limit # None => usage = Bytes)

(* docs/explanations/quotas.md: "There is no path that bypasses the        *)
(* check": the bucket only grows by what an upload that was checked puts   *)
(* there.                                                                  *)
OnlyCheckedWrites ==
    [][Bytes' + PartBytes' > Bytes + PartBytes => \E w \in Writers : pc[w] = "put" /\ pc'[w] # "put"]_vars
=============================================================================
