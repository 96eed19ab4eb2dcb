---------------------------- MODULE BucketClaim ----------------------------
(***************************************************************************)
(* The reconciler of one BucketClaim (internal/operator/controller/        *)
(* bucketclaim_controller.go) and the writer of its Secrets                *)
(* (internal/operator/vcstore/writer.go).  The work queue runs one         *)
(* reconcile of a claim at a time; the operator may stop between any two   *)
(* calls and start over.  The manager's client reads from an informer's    *)
(* cache, which trails the API server when CacheLag holds, and writes to   *)
(* the API server.  A reconcile may start at any time: every way out of    *)
(* it that is not final asks to be queued again.                           *)
(***************************************************************************)
EXTENDS Integers, FiniteSets, FiniteSetsExt

CONSTANTS
    Specs,       \* the specs users write
    Quotas,      \* spec.quota, 0 for none
    CacheLag,    \* may the client's cache trail?
    RotatedAt0,  \* status.rotatedAt of a new claim: Never, or the time a restored claim carries
    Interval, Overlap,   \* rotationPolicy.intervalDays, overlapSeconds
    MaxKeys,     \* bound: credentials generated
    MaxTime,     \* bound: the clock
    MaxEdits,    \* bound: changes users and tenants make
    MaxFaults    \* bound: failed calls and stops of the operator

Never    == -1
Keys     == 1 .. MaxKeys
Bindings == {"anon", "cors"}
Times    == Never .. (MaxTime + Overlap)

(* What the CRD and the webhook (validateCommon) let through.              *)
ValidSpecs ==
    {s \in [policy : {"Retain", "Delete"}, force : BOOLEAN, timed : BOOLEAN,
            quota : Quotas, public : SUBSET Bindings] : s.force => s.policy = "Delete"}

ASSUME ClaimAssumption ==
    /\ Specs \subseteq ValidSpecs /\ Quotas \subseteq Nat /\ CacheLag \in BOOLEAN
    /\ RotatedAt0 \in {Never, 0} /\ Interval \in Nat /\ Overlap \in Nat
    /\ MaxKeys \in Nat /\ MaxTime \in Nat /\ MaxEdits \in Nat /\ MaxFaults \in Nat

VARIABLES
    claim,               \* the BucketClaim, or NoClaim
    secrets,             \* the internal Secret of each key, or NoSecret
    public,              \* which binding Secrets exist
    consumer,            \* the key in the consumer Secret, 0 without one
    cClaim, cSecrets,    \* what the client's cache has of claim and secrets
    bucket,              \* on the backend: "none", "empty" or "full"
    minted,              \* keys generated so far
    pc, loc,             \* the reconcile under way
    now, edits, faults,  \* the clock, and counters for the bounds
    asked                \* history: this claim was being deleted and said forceDelete

cluster == <<claim, asked, secrets, public, consumer, bucket, minted>>
cached  == <<cClaim, cSecrets>>
env     == <<now, edits>>
vars    == <<cluster, cached, env, pc, loc, faults>>

NoClaim  == [spec |-> "none"]
NoSecret == [quota |-> 0, exp |-> Never - 1]
Unbound  == [ready |-> FALSE, akid |-> 0, rotatedAt |-> RotatedAt0]
NewClaim(s) == [spec |-> s, deleting |-> FALSE, finalizer |-> FALSE, status |-> Unbound]

None     == [k \in Keys |-> NoSecret]

(* claim: as Reconcile got it; seen: the Secrets to mark as expiring; vc:  *)
(* the credential to hand out; exp: when the old ones expire; rot:         *)
(* rotatedAt; next: what a loop has left.                                  *)
Idle == [claim |-> NoClaim, seen |-> None, vc |-> 0, exp |-> Never, rot |-> Never, next |-> {}]

Init ==
    /\ claim = NoClaim /\ secrets = None /\ public = {} /\ consumer = 0
    /\ cClaim = NoClaim /\ cSecrets = secrets
    /\ bucket = "none" /\ minted = 0
    /\ pc = "idle" /\ loc = Idle
    /\ now = 0 /\ edits = 0 /\ faults = 0 /\ asked = FALSE

SeenClaim   == IF CacheLag THEN cClaim ELSE claim
SeenSecrets == IF CacheLag THEN cSecrets ELSE secrets

Live(s)     == {k \in Keys : s[k] # NoSecret}
Active(s)   == {k \in Live(s) : s[k].exp = Never}
Expiring(s) == Live(s) \ Active(s)

-----------------------------------------------------------------------------
(* Users, tenants, the clock and the informer.                             *)
Create(s) ==
    /\ claim = NoClaim /\ edits < MaxEdits
    /\ claim' = NewClaim(s) /\ asked' = FALSE
    /\ edits' = edits + 1
    /\ UNCHANGED <<secrets, public, consumer, bucket, minted, cached, now, pc, loc, faults>>

(* The policy decides what becomes of the data; the rest is reconciled.    *)
Edit(s) ==
    /\ claim # NoClaim /\ s # claim.spec /\ edits < MaxEdits
    /\ claim' = [claim EXCEPT !.spec = s]
    /\ asked' = (asked \/ (claim.deleting /\ s.force))
    /\ edits' = edits + 1
    /\ UNCHANGED <<secrets, public, consumer, bucket, minted, cached, now, pc, loc, faults>>

(* Without a finalizer the API server removes the claim at once.           *)
Delete ==
    /\ claim # NoClaim /\ ~claim.deleting /\ edits < MaxEdits
    /\ claim' = IF claim.finalizer THEN [claim EXCEPT !.deleting = TRUE] ELSE NoClaim
    /\ asked' = claim.spec.force
    /\ edits' = edits + 1
    /\ UNCHANGED <<secrets, public, consumer, bucket, minted, cached, now, pc, loc, faults>>

(* A tenant writes through the proxy, with a key the proxy still has.      *)
Write ==
    /\ bucket = "empty" /\ Live(secrets) # {} /\ edits < MaxEdits
    /\ bucket' = "full"
    /\ edits' = edits + 1
    /\ UNCHANGED <<claim, asked, secrets, public, consumer, minted, cached, now, pc, loc, faults>>

Tick ==
    /\ now < MaxTime
    /\ now' = now + 1
    /\ UNCHANGED <<cluster, cached, edits, pc, loc, faults>>

Sync ==
    /\ CacheLag
    /\ \/ cClaim # claim /\ cClaim' = claim /\ UNCHANGED cSecrets
       \/ cSecrets # secrets /\ cSecrets' = secrets /\ UNCHANGED cClaim
    /\ UNCHANGED <<cluster, env, pc, loc, faults>>

-----------------------------------------------------------------------------
Goto(l) == pc' = l /\ loc' = IF l = "notReady" THEN [Idle EXCEPT !.claim = loc.claim] ELSE loc
Return  == pc' = "idle" /\ loc' = Idle

Fault == faults < MaxFaults /\ faults' = faults + 1

(* The operator stops: the Lease passes on, the reconcile is lost.         *)
Stop ==
    /\ pc # "idle"
    /\ Fault /\ Return
    /\ UNCHANGED <<cluster, cached, env>>

(* A call fails and the reconcile says so in the status.  So it does when  *)
(* the Writer, which looks up in the cache whether to create or to replace *)
(* the consumer Secret or a binding, is refused because that was stale.    *)
Fails(l) == Fault /\ pc = l /\ Goto("notReady") /\ UNCHANGED <<cluster, cached, env>>

(* Reconcile, up to the finalizer.                                         *)
Reconcile ==
    LET c == SeenClaim
    IN  /\ pc = "idle" /\ c # NoClaim
        /\ loc' = [Idle EXCEPT !.claim = c]
        /\ \/ c.deleting /\ c.spec.policy # "Delete" /\ pc' = "internal" /\ UNCHANGED faults
           \/ c.deleting /\ c.spec.policy = "Delete" /\ pc' = "head" /\ UNCHANGED faults
           \/ ~c.deleting /\ c.finalizer /\ pc' = "bucket" /\ UNCHANGED faults
           \/ (c.deleting => c.spec.policy = "Delete") /\ Fault /\ pc' = "notReady"
        /\ UNCHANGED <<cluster, cached, env>>

(* An Update of a claim that has changed since it was read is refused.     *)
AddFinalizer ==
    /\ pc = "idle" /\ SeenClaim # NoClaim
    /\ ~SeenClaim.deleting /\ ~SeenClaim.finalizer
    /\ claim = SeenClaim
    /\ claim' = [claim EXCEPT !.finalizer = TRUE]
    /\ UNCHANGED <<asked, secrets, public, consumer, bucket, minted, cached, env, pc, loc, faults>>

(* Mutant: a bucket that is already there is taken for a failure.          *)
EnsureBucketNew ==
    /\ pc = "bucket"
    /\ bucket' = IF bucket = "none" THEN "empty" ELSE bucket
    /\ \/ Goto(IF bucket = "none" THEN "list" ELSE "notReady") /\ UNCHANGED faults
       \/ Goto("notReady") /\ Fault
    /\ UNCHANGED <<claim, asked, secrets, public, consumer, minted, cached, env>>

(* HeadBucket, PutBucket, HeadBucket and EnsureBucketEncryption.  When one *)
(* of them fails the bucket may be there or not.  A name that cannot be    *)
(* rendered (RenderBucketName) is not modelled.                            *)
EnsureBucket ==
    /\ pc = "bucket"
    /\ \/ bucket' = (IF bucket = "none" THEN "empty" ELSE bucket) /\ Goto("list") /\ UNCHANGED faults
       \/ bucket' \in {bucket, IF bucket = "none" THEN "empty" ELSE bucket} /\ Goto("notReady") /\ Fault
    /\ UNCHANGED <<claim, asked, secrets, public, consumer, minted, cached, env>>

RotationDue(active) ==
    /\ active # {}
    /\ loc.claim.spec.timed
    /\ loc.claim.status.rotatedAt # Never
    /\ now - loc.claim.status.rotatedAt >= Interval

(* Mutant: a reconcile always makes a key of its own.                      *)
ListCredentialsAnew ==
    /\ pc = "list"
    /\ pc' = "mint" /\ UNCHANGED loc
    /\ UNCHANGED <<cluster, cached, env, faults>>

(* ensureCredential: listCredentials, and the key to keep if none is due.  *)
(* The quota on its Secret follows the claim's spec.                       *)
ListCredentials ==
    LET active == Active(SeenSecrets)
        mint   == active = {} \/ RotationDue(active)
    IN  /\ pc = "list"
        /\ \/ mint /\ pc' = "mint" /\ loc' = [loc EXCEPT !.seen = SeenSecrets]
           \/ /\ ~mint
              /\ \E k \in active :
                   /\ loc' = [loc EXCEPT !.vc = k]
                   /\ pc' = IF SeenSecrets[k].quota = loc.claim.spec.quota THEN "sweep" ELSE "stamp"
        /\ UNCHANGED <<cluster, cached, env, faults>>

(* GenerateVirtual and WriteInternal.                                      *)
WriteInternal ==
    /\ pc = "mint" /\ minted < MaxKeys
    /\ minted' = minted + 1
    /\ secrets' = [secrets EXCEPT ![minted + 1] = [quota |-> loc.claim.spec.quota, exp |-> Never]]
    /\ \/ /\ Active(loc.seen) = {} /\ pc' = "sweep"
          /\ loc' = [loc EXCEPT !.seen = None, !.vc = minted + 1]
       \/ /\ Active(loc.seen) # {} /\ pc' = "overlap"
          /\ loc' = [loc EXCEPT !.vc = minted + 1, !.next = Active(loc.seen)]
    /\ UNCHANGED <<claim, asked, public, consumer, bucket, cached, env, faults>>

(* The expiry of the keys that were active.                                *)
Overlapping ==
    /\ pc = "overlap"
    /\ loc' = [loc EXCEPT !.exp = now + Overlap] /\ pc' = "mark"
    /\ UNCHANGED <<cluster, cached, env, faults>>

(* Mutant: the overlap is added twice.                                     *)
MarkExpiringTwice ==
    /\ pc = "mark" /\ loc.next # {}
    /\ \E k \in loc.next :
         /\ loc' = [loc EXCEPT !.next = @ \ {k}]
         /\ secrets' = [secrets EXCEPT ![k].exp = loc.exp + Overlap]
    /\ UNCHANGED <<claim, asked, public, consumer, bucket, minted, cached, env, pc, faults>>

(* markExpiring, for each key that was active.  Its error is dropped.      *)
MarkExpiring ==
    /\ pc = "mark" /\ loc.next # {}
    /\ \E k \in loc.next :
         /\ loc' = [loc EXCEPT !.next = @ \ {k}]
         /\ \/ /\ secrets[k] = loc.seen[k]
               /\ secrets' = [secrets EXCEPT ![k].exp = loc.exp]
               /\ UNCHANGED faults
            \/ /\ IF secrets[k] = loc.seen[k] THEN Fault ELSE UNCHANGED faults
               /\ UNCHANGED secrets
    /\ UNCHANGED <<claim, asked, public, consumer, bucket, minted, cached, env, pc>>

Marked ==
    /\ pc = "mark" /\ loc.next = {}
    /\ pc' = "sweep" /\ loc' = [loc EXCEPT !.seen = None, !.exp = Never, !.rot = now]
    /\ UNCHANGED <<cluster, cached, env, faults>>

(* WriteInternal for the key there is.  The Writer looks the Secret up in  *)
(* the cache to create or to replace it, and is refused if that is stale.  *)
StampQuota ==
    /\ pc = "stamp"
    /\ IF secrets[loc.vc] = SeenSecrets[loc.vc]
       THEN /\ secrets' = [secrets EXCEPT ![loc.vc] = [quota |-> loc.claim.spec.quota, exp |-> Never]]
            /\ Goto("sweep")
       ELSE UNCHANGED secrets /\ Goto("notReady")
    /\ UNCHANGED <<claim, asked, public, consumer, bucket, minted, cached, env, faults>>

(* Mutant: the sweep takes keys that are still in their overlap.           *)
SweepExpiredEarly ==
    /\ pc = "sweep"
    /\ secrets' = [k \in Keys |-> IF k \in Expiring(SeenSecrets) THEN NoSecret ELSE secrets[k]]
    /\ UNCHANGED faults
    /\ Goto("consumer")
    /\ UNCHANGED <<claim, asked, public, consumer, bucket, minted, cached, env>>

(* sweepExpired.  Its error is logged; some may be gone by then.           *)
SweepExpired ==
    LET old == {k \in Expiring(SeenSecrets) : SeenSecrets[k].exp <= now}
    IN  /\ pc = "sweep"
        /\ \E gone \in SUBSET old :
             /\ secrets' = [k \in Keys |-> IF k \in gone THEN NoSecret ELSE secrets[k]]
             /\ IF gone = old THEN UNCHANGED faults ELSE Fault
        /\ Goto("consumer")
        /\ UNCHANGED <<claim, asked, public, consumer, bucket, minted, cached, env>>

(* Mutant: the reconcile goes on when the consumer Secret is not written.  *)
WriteConsumerLenient ==
    /\ pc = "consumer"
    /\ \/ consumer' = loc.vc /\ UNCHANGED faults
       \/ UNCHANGED consumer /\ Fault
    /\ Goto("anon")
    /\ UNCHANGED <<claim, asked, secrets, public, bucket, minted, cached, env>>

WriteConsumer ==
    /\ pc = "consumer"
    /\ consumer' = loc.vc
    /\ Goto("anon")
    /\ UNCHANGED <<claim, asked, secrets, public, bucket, minted, cached, env, faults>>

(* reconcileAnonymousBinding and reconcileBucketCORS.                      *)
ReconcileBinding(b) ==
    /\ pc = b
    /\ public' = (public \ {b}) \cup (loc.claim.spec.public \cap {b})
    /\ Goto(IF b = "anon" THEN "cors" ELSE "bound")
    /\ UNCHANGED <<claim, asked, secrets, consumer, bucket, minted, cached, env, faults>>

(* patchStatus: Get from the cache; when that looks different, Update,     *)
(* which is refused while the cache trails, and tried again a few times.   *)
PatchStatus(st) ==
    /\ \/ /\ SeenClaim # NoClaim /\ SeenClaim.status # st
          /\ claim = SeenClaim
          /\ claim' = [claim EXCEPT !.status = st]
          /\ UNCHANGED faults
       \/ /\ SeenClaim = claim /\ claim # NoClaim => claim.status = st
          /\ UNCHANGED <<claim, faults>>
       \/ Fault /\ UNCHANGED claim
    /\ Return
    /\ UNCHANGED <<asked, secrets, public, consumer, bucket, minted, cached, env>>

Bound ==
    /\ pc = "bound"
    /\ PatchStatus([ready |-> TRUE, akid |-> loc.vc,
                    rotatedAt |-> IF loc.rot = Never THEN loc.claim.status.rotatedAt ELSE loc.rot])

NotReady ==
    /\ pc = "notReady"
    /\ PatchStatus([loc.claim.status EXCEPT !.ready = FALSE])

-----------------------------------------------------------------------------
(* Mutants: a full bucket is emptied without being asked to; a bucket that *)
(* is gone already is an error.                                            *)
DeleteBucketForces ==
    /\ pc = "head"
    /\ IF bucket # "full" THEN bucket' = "none" /\ Goto("internal")
       ELSE Goto("empty") /\ UNCHANGED bucket
    /\ UNCHANGED <<claim, asked, secrets, public, consumer, minted, cached, env, faults>>

DeleteBucketOnce ==
    /\ pc = "head"
    /\ IF bucket = "empty" THEN bucket' = "none" /\ Goto("internal")
       ELSE IF bucket = "none" THEN Return /\ UNCHANGED bucket
       ELSE /\ Goto(IF loc.claim.spec.force THEN "empty" ELSE "notReady")
            /\ UNCHANGED bucket
    /\ UNCHANGED <<claim, asked, secrets, public, consumer, minted, cached, env, faults>>

(* handleDelete, policy Delete: HeadBucket and DeleteBucket.  A full       *)
(* bucket stays unless the claim says forceDelete.                         *)
DeleteBucket ==
    /\ pc = "head"
    /\ IF bucket # "full" THEN bucket' = "none" /\ Goto("internal")
       ELSE /\ Goto(IF loc.claim.spec.force THEN "empty" ELSE "notReady")
            /\ UNCHANGED bucket
    /\ UNCHANGED <<claim, asked, secrets, public, consumer, minted, cached, env, faults>>

EmptyBucket ==
    /\ pc = "empty"
    /\ bucket' = "empty"
    /\ Goto("again")
    /\ UNCHANGED <<claim, asked, secrets, public, consumer, minted, cached, env, faults>>

(* The second DeleteBucket; tenants may have written meanwhile.            *)
DeleteBucketAgain ==
    /\ pc = "again"
    /\ IF bucket # "full" THEN bucket' = "none" /\ Goto("internal")
       ELSE Return /\ UNCHANGED bucket
    /\ UNCHANGED <<claim, asked, secrets, public, consumer, minted, cached, env, faults>>

(* A call of handleDelete fails: it is queued again without a word.        *)
DeleteFails ==
    /\ pc \in {"head", "empty", "again", "final"}
    /\ Fault /\ Return
    /\ UNCHANGED <<cluster, cached, env>>

(* Mutant: the Secret the consumer uses is all that is removed.            *)
DeleteInternalCurrent ==
    /\ pc = "internal"
    /\ secrets' = [k \in Keys |-> IF k = consumer THEN NoSecret ELSE secrets[k]]
    /\ Goto("bindings")
    /\ UNCHANGED <<claim, asked, public, consumer, bucket, minted, cached, env, faults>>

(* DeleteInternalByClaim: every Secret that it lists, up to an error.      *)
DeleteInternal ==
    /\ pc = "internal"
    /\ \E gone \in SUBSET Live(SeenSecrets) :
         /\ secrets' = [k \in Keys |-> IF k \in gone THEN NoSecret ELSE secrets[k]]
         /\ \/ gone = Live(SeenSecrets) /\ Goto("bindings") /\ UNCHANGED faults
            \/ Fault /\ Return
    /\ UNCHANGED <<claim, asked, public, consumer, bucket, minted, cached, env>>

(* DeleteAnonymousBindingByClaim and DeleteBucketCORSByClaim.              *)
DeleteBindings ==
    /\ pc = "bindings"
    /\ \/ public' = {} /\ Goto("final") /\ UNCHANGED faults
       \/ public' = public \ {"anon"} /\ Fault /\ Return
    /\ UNCHANGED <<claim, asked, secrets, consumer, bucket, minted, cached, env>>

(* The finalizer goes and the API server removes the claim.  The consumer  *)
(* Secret that it owns is collected some time after; here, at once.        *)
RemoveFinalizer ==
    /\ pc = "final"
    /\ IF claim = loc.claim THEN claim' = NoClaim /\ consumer' = 0
       ELSE UNCHANGED <<claim, consumer>>
    /\ Return
    /\ UNCHANGED <<asked, secrets, public, bucket, minted, cached, env, faults>>

Step ==
    \/ Reconcile \/ AddFinalizer \/ EnsureBucket \/ ListCredentials \/ WriteInternal
    \/ Overlapping \/ MarkExpiring \/ Marked \/ StampQuota \/ SweepExpired \/ WriteConsumer
    \/ (\E b \in Bindings : ReconcileBinding(b)) \/ Bound \/ NotReady
    \/ DeleteBucket \/ EmptyBucket \/ DeleteBucketAgain \/ DeleteInternal \/ DeleteBindings
    \/ RemoveFinalizer

Next ==
    \/ Step
    \/ \E s \in Specs : Create(s) \/ Edit(s)
    \/ Delete \/ Write \/ Tick \/ Sync
    \/ Stop \/ DeleteFails
    \/ \E l \in {"list", "mint", "stamp", "consumer", "anon", "cors"} : Fails(l)

Spec == Init /\ [][Next]_vars

(* The work queue runs the reconcile that is due and time passes; failures *)
(* and what users do are bounded, so they end.                             *)
FairSpec == Spec /\ WF_vars(Step) /\ WF_vars(Tick) /\ WF_vars(Sync)

-----------------------------------------------------------------------------
(* The cluster's objects.  A key that is marked as expiring has no more    *)
(* than the overlap left (ensureCredential, markExpiring); one whose mark  *)
(* failed has no expiry at all.                                            *)
TypeOK ==
    /\ claim # NoClaim => /\ claim.spec \in Specs
                          /\ claim.status.akid \in 0 .. minted
                          /\ claim.status.rotatedAt \in Times
    /\ secrets \in [Keys -> [quota : Quotas, exp : Times] \cup {NoSecret}]
    /\ \A k \in Expiring(secrets) : secrets[k].exp <= now + Overlap
    /\ public \subseteq Bindings
    /\ consumer \in 0 .. minted
    /\ bucket \in {"none", "empty", "full"}

(* What keeps a credential from outliving its claim: as long as there is   *)
(* an internal Secret or a binding, the claim is there with its finalizer, *)
(* wherever the operator stopped (AddFinalizer before anything is created, *)
(* RemoveFinalizer after everything is deleted; vcstore.Writer:            *)
(* "cleaned up by the claim's finalizer").  It takes a cache that has      *)
(* caught up: DeleteInternalByClaim deletes what the client lists, and a   *)
(* list that trails may lack a Secret.                                     *)
NoOrphans ==
    Live(secrets) # {} \/ public # {} => claim # NoClaim /\ claim.finalizer

(* docs/explanations/operator-reconciliation.md: "MintCredential checks    *)
(* for an existing internal Secret with the correct labels and reuses it". *)
(* A claim that is not rotated never has two credentials, however often    *)
(* its reconcile is cut short and started again.  It holds while the cache *)
(* has caught up (CacheLag = FALSE).  The document makes no such exception *)
(* but the list is the cached client's: with CacheLag it is violated.      *)
MintReuses == RotatedAt0 = Never => Cardinality(Live(secrets)) <= 1

(* A claim that says Ready can be used: its bucket exists and the proxy    *)
(* still knows the key in the consumer Secret (order of the steps of       *)
(* Reconcile and handleDelete; nothing but the claim's deletion takes a    *)
(* key away).  This is about claims that are not rotated: after a rotation *)
(* the sweep may come before the new key is in the consumer Secret.        *)
ReadyIsUsable ==
    claim # NoClaim /\ claim.status.ready /\ ~claim.deleting =>
        bucket # "none" /\ consumer \in Live(secrets)

(* The key that a claim's status names, while the claim is not deleted.    *)
InUse(k) == claim # NoClaim /\ ~claim.deleting /\ k = claim.status.akid

(* sweepExpired and DeleteInternalByClaim: a key is taken away only when   *)
(* its overlap has passed, or by the deletion of a claim, and that does    *)
(* not reach the key of a claim made anew under the same name, even when   *)
(* the cache still has the claim that is gone.                             *)
KeysAreKept ==
    [][\A k \in Live(secrets) : secrets'[k] = NoSecret =>
           \/ secrets[k].exp # Never /\ secrets[k].exp <= now
           \/ loc.claim.deleting /\ ~InUse(k)]_vars

(* Data in a bucket is destroyed only for a claim that, at some moment of  *)
(* its deletion, said forceDelete (handleDelete).  A policy that is stale  *)
(* by the time it is acted on was this claim's own; forceDelete that was   *)
(* withdrawn after the reconcile read the claim is still acted on.         *)
DataIsKept == [][bucket = "full" /\ bucket' # "full" => asked]_vars

(* Every claim becomes Ready once failures and edits end, or is being      *)
(* deleted (Reconcile, which has itself queued again after every failure   *)
(* but that of a bucket name it cannot render, which is not modelled).     *)
Provisioned ==
    claim # NoClaim ~> claim = NoClaim \/ claim.deleting \/ claim.status.ready

(* A deleted claim goes away, unless it keeps a full bucket for want of    *)
(* forceDelete (handleDelete); a Retain claim needs no backend for it.     *)
Finalized ==
    claim # NoClaim /\ claim.deleting ~>
        \/ claim = NoClaim
        \/ claim.spec.policy = "Delete" /\ ~claim.spec.force /\ bucket = "full"

(* bucketclaim_controller.go, rotationDue: "Treat first reconcile as       *)
(* 'just rotated'; actual rotation starts after the interval".  The key of *)
(* a claim under TimeBased rotation does not stay the same for ever.       *)
Rotates ==
    claim # NoClaim /\ claim.spec.timed /\ claim.status.ready ~>
        claim = NoClaim \/ claim.deleting \/ ~claim.spec.timed \/ claim.status.akid > 1
=============================================================================
