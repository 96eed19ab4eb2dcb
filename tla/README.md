# Formal models of stowage

TLA+ models of the parts of stowage in which several actors share state, the
TLC runs that check them on small instances, and TLAPS proofs of the most
important invariants for instances of every size. `PROJECT.json` maps each
definition to the source lines it stands for and lists runs, mutants,
findings, hazards and theorems.

## The system

stowage is one Go binary with three roles that can run together or apart.

- **Dashboard** (`internal/api`, `internal/auth`, `internal/shares`): an HTTP
  API over users, sessions, storage backends, objects, quotas, share links and
  the audit log.
- **S3 proxy** (`internal/s3proxy`, `internal/sigv4verifier`): accepts S3
  requests signed with virtual credentials, checks scope, limits and quotas, and
  forwards them to a backend.
- **Operator** (`internal/operator`): reconciles `S3Backend` and `BucketClaim`
  resources in Kubernetes into buckets, credentials and Secrets.

Around them are a SQL store (SQLite with one writer, or Postgres), the registry
of storage drivers, background loops (session reaper, cache reaper, touch
flush, audit drainer and retention, quota and size scans, backend probes) and
S3 servers outside the process.

What makes it hard to get right is state kept twice. Sessions are rows and
cache entries; quotas are rows, a cache of limits and a cache of usage; a
backend is a line of YAML, a row or a resource, and an entry of a map; a
credential is a Secret the operator writes and one
the tenant reads. Each copy is updated by a different step, and requests,
loops, reconciles, crashes and restarts come between any two.

| Part | State | What changes it | Model |
|---|---|---|---|
| Sessions | `users`, `sessions`, identity cache, pending touches | login, every request, logout, password change, user administration, flush, purge, reaper | `Sessions` |
| Share links | `shares`, unlock cookies, the signer's secret | create, unlock, download, revoke, restart | `Shares` |
| Concurrency limiter | one global and one channel per key | acquire, time out, release | `ConcurrencyLimiter` |
| Audit | queue, batch, `audit_events` | record, drain, sweep, shutdown | `AsyncAudit` |
| Quotas | `bucket_quotas`, limit caches, usage cache, the bucket | upload, multipart, copy, delete, scans, set limit, reload | `Quotas` |
| Claims | claim, Secrets, bucket, informer cache | reconcile, finalize, rotate, users and tenants | `BucketClaim` |
| Registry | YAML, `backends`, `S3Backend` and its Secret, entries | startup, admin API, registry reconciler | `Registry` |
| Login, lockout, OIDC | attempt counters, rate limits | login | planned |
| Proxy requests and credential sources | caches of credentials, bindings, CORS, signing keys | requests, reloads, informers | planned |
| Object jobs, sizes | buckets, size caches | prefix copy and delete, scans | planned |

`PROJECT.json` lists the rest under `components`, with the reason where a part
is left out.

## The modules

One module per part. Its variables are the tables, maps and channels of the
code and, where a handler has more than one step, a program counter and the
locals of each goroutine. A step is one call on shared state: a SQL statement,
one method that holds a mutex for all of its body, one channel operation, one
call on the API server or on a backend. Definitions keep the names of the Go
functions. Definitions that begin with a comment `Mutant:` are deliberate bugs
and belong to no specification; `PROJECT.json` says which property each breaks.

**`Sessions`.** `internal/auth` and its tables. `Attach` is `AttachStart`,
`CacheGet`, `CacheHit` on a hit and `GetSession`, `ResolveCheck`,
`ResolveIdentity`, `CachePut` on a miss. A handler that changes something is
the sequence `todo` of its remaining calls, so that other goroutines run
between them and a store error can end it early. A local variable that is not read again is
reset, which merges states that differ in nothing else. `IdentityCache.Get` copies the
identity after it has released the lock while `Put` overwrites it in place; the
copy is any mix the race allows (`Torn`). History variables record when users
and sessions changed; guards read only the one that says which session ids were
drawn before. Left out are the sessions of the static administrator, whose
identity nothing changes, and the OIDC callback, which writes the role of an
existing row without invalidating the cache. An administrator's reset of their
own password makes the calls of `ChangeOwnPassword`.

**`Shares`.** Create, unlock, download and revoke. Create reads the clock before
it inserts. A restart draws a new signing secret (`epoch`). The backend's object
either opens or does not.

**`ConcurrencyLimiter`.** `Acquire` and `release`. A channel is the number of
tokens in it.

**`AsyncAudit`.** `Record`, the drainer's loop with its batching, failing
transactions, the sweep, which computes its cutoff in one step and deletes in a
later one, and the phases of `Server.Run` from the signal to exit. Requests in
flight are not counted: a listener has some or none, and any of them records.

**`Quotas`.** One bucket. `CheckUpload` is one step for each time it takes the
mutex: the usage, the backoff, the claim on the inline scan, its result, and its
end. Then the scheduled scan page by page, `Recorded`, and everything that writes
to the bucket; a write that fails may have been carried out. Limits come from the
table through a cache whose reload is two steps, and from Kubernetes.

**`BucketClaim`.** One claim and every call its reconcile makes. Any of them may
fail and the operator may stop after any. With `CacheLag` reads come from a
cache that trails; updates then carry an old resource version and are refused.
A history variable (`asked`) says whether the claim, while it was being deleted,
ever said `forceDelete`.

**`Registry`.** One id that the file, the table and an `S3Backend` may all claim.
The admin handlers read the owner first and act later; the reconciler does the
same, and reads the resource before its Secret, so that it can build a driver
from two versions that were never there together. A restart rebuilds the
registry from the file, then the table. The lock-free snapshot of the entries
is published under the mutex by every mutation and is not a variable.

The modules do not share variables yet. `Quotas` takes a limit from Kubernetes
as an input where the operator would write it.

## The runs

| Run | Instance | What it shows |
|---|---|---|
| `sessions_staleness` | 1 user, 1 session, 2 requests, 1 change and the removal of the user, sessions that become due for a touch, clock to 3 | A cache entry that was overtaken by a change of its user, or whose session is gone, expires within the TTL of that event (`StaleEntryBounded`, `RevokedEntryBounded`), however long the request that filled it was stalled. A touch queued before a revocation and flushed after never brings the session back (`RevokedStaysRevoked`). |
| `sessions_patch` | violation | A role change is not always seen by the target's next request. |
| `shares_gates` | 1 share, 2 connections, 1 restart, clock to 2 | The download cap, the password, the revocation (`RevokedIsFinal`) and the expiry (`ExpiryIsFinal`) hold in every interleaving. After the expiry a download starts only for a request that had read the clock in time when it went to count itself. |
| `limiter_slots` | 4 requests, 2 keys, 3 slots of which 2 for a key | No token is lost, limits hold, no key takes all slots, every request is answered. |
| `audit_accounting` | 3 events, queue and batch of 2, clock from 1 to 3 | Every event is in one place, in order; the sweep keeps the promised age; the queue is drained. |
| `quota_accounting` | 2 uploads, 1 administrator, the scheduler, 2 keys | One inline scan at a time; usage covers the bucket and its open uploads unless a scan crossed a write or left out open uploads, or a write that failed was carried out; the scheduler brings usage to the bytes of the objects. |
| `quota_copy` | violation | A copy within one backend is not checked. |
| `claim_lifecycle` | every spec without rotation, no lag, 4 edits, 2 faults | Nothing outlives its claim, a credential is minted once, Ready claims are usable, data goes only for a claim that said `forceDelete` at some moment of its deletion, claims become Ready and deleted claims go. |
| `claim_lag` | a trailing cache, rotations, 1 fault, clock to 2 | No key goes before its overlap is over; a claim made anew keeps its key; no key is marked for longer than the overlap. |
| `claim_never_rotates` | violation | A new claim is never rotated. |
| `claim_mints_twice` | violation | With a trailing cache a second credential is minted for a claim. |
| `registry_owners` | 1 administrator, the reconciler, 5 changes, 1 restart | YAML always wins, the table is followed while nobody else owns the id, and an entry that the reconciler owns ends up with the latest spec and credentials (`Mirrored`). |

### Why the bounds are enough

Each race that a run is about needs two goroutines and one change between two
of their steps; the session run has two goroutines that between them may make
one change and remove the user, and its safety properties are proved for any number of both. Times
matter only by their order and by whether a TTL, lifetime or overlap has passed,
so the clock runs past the longest of them by one. The limiter has one request more than there are
slots and more than one key needs. The audit queue can be full with an event in
the batch. A bucket has two keys so that a scan can pass one before it is
written and reach the other after. A claim has room for two rotations. The
registry's id can be created, patched, taken over by an `S3Backend` and lost
again within one behaviour.

Deadlock checking is off where a bound makes the model stop (numbers of events,
changes or faults), and on for the sessions, the shares and the limiter.

### Fairness

- `ConcurrencyLimiter`: a request that is served ends and releases (weak), and a
  sender that waits on a channel is queued by the Go runtime, so it is not
  passed over for ever (strong on the two sends). Nothing makes a request give
  up: with timeout 0 it waits for as long as its client does.
- `AsyncAudit`: the drainer's goroutine is scheduled (weak).
- `Quotas`: goroutines under way go on and the scheduler's ticker fires (weak).
  A failing scan is never forced to succeed; failures are bounded.
- `BucketClaim`: controller-runtime queues a reconcile again on every way out
  that is not final (weak on a step of it), time passes, and the informer catches
  up. One failure queues nothing, that of a bucket name that cannot be
  rendered; it is not modelled, and `Provisioned` says nothing of such a claim.
  Failures, users and tenants are bounded.
- `Registry`: handlers run on and the reconciler runs when its queue has the id
  or on a resync (weak). A resync sees only resources that exist.

## Findings

- **A change of a role can be missed by the next request**
  (`sessions_patch`). A request reads the user, the handler updates the row and
  invalidates the cache, and the request puts what it read. Requests that start
  later are served from that entry for up to the TTL, though the handler's
  comment says the change takes effect "immediately". `StaleEntryBounded` shows
  what does hold.
- **Copies within a backend bypass quotas** (`quota_copy`), though the quota
  documentation says that no path does.
- **Time-based rotation never starts** (`claim_never_rotates`). `rotationDue`
  waits for `status.rotatedAt`, which only a rotation sets. `claim_lag` therefore
  starts from a claim that carries a time, as a restored one does, to check
  rotation at all.
- **A credential can be minted twice** (`claim_mints_twice`). `listCredentials`
  reads the informer's cache, so a reconcile that follows closely on another does
  not see the Secret that one wrote and mints a second under a new name, though
  the documentation says it reuses an existing one. With a cache that has caught
  up `MintReuses` holds. Under lag `NoOrphans` is not claimed either: the last
  Secret written can be missed by `DeleteInternalByClaim`.

Two statements of the documentation differ from the code without a run of their
own, because the property that is checked says what the code does:

- `docs/explanations/quotas.md:78-80` says the parts of open uploads are not in the
  counter and that scans catch them. It is the other way round: parts are recorded
  when they are uploaded, and a scan lists only objects. `DriftCorrected` is
  therefore about the bytes of objects, and `UsageCovers` excepts scans made while
  an upload is open.
- `docs/self-host/sharing/semantics.md` gives the check as `now() > expires_at`; the code also
  refuses at that very instant. `ExpiryIsFinal` holds for either.

## What is proved

For all values of the constants, under the named assumptions of each module
(times and bounds are naturals, `Absent`, `None` and `Never` are no values of
the data, the set of requests of the limiter is finite).

**Sessions** (`SessionsTypeProofs`, `SessionsProofs`). `TypeCorrect` proves the
type invariant, strengthened by what each program counter says of the locals
(`LocalsOK`): a goroutine past `get` has a session id, past `resolve` a row, and
so on. `StalenessIsBounded` and `RevocationIsBounded` rest on `Fresh`. The
argument is that the time an entry is stamped with was read before the rows it
was made from. So a request in the middle of filling the cache that holds an
overtaken identity began before it was overtaken (`FillKnowsUser`), and likewise
for a session that is gone (`FillKnowsSession`); when it puts, the entry
inherits the bound. Neither property is inductive without these two, because
nothing in the cache says what requests in flight have read. Most steps neither
fill nor read, and one lemma (`QuietFresh`) covers all of them.
`RevocationIsPermanent` proves the action property from the fact that a
session's row and its deletion time exclude each other (`Gone`).

**Shares** (`SharesProofs`). `CapIsRespected`, `ExpiryIsRespected`,
`PasswordIsRespected` and `RevocationIsFinal`. The invariant adds what a handler
knows at each step: its share exists (`HandlersOK`), and behind the gate of a protected share it has
shown a valid cookie of this process (`CookiesOK`). `ExpiryIsRespected` is the
action property `ExpiryIsFinal`: the only step that starts a download is the
counting one, and it compares the expiry with the time the request read just
before.

**ConcurrencyLimiter** (`ConcurrencyLimiterProofs`). `NoTokenLost`,
`InFlightIsBounded` and `NoGreedyKey`. The invariant is that tokens equal owners
and no channel is over capacity; each step adds or removes one owner, and the
rest is about cardinalities.

Only model-checked: everything about `AsyncAudit`, `Quotas`, `BucketClaim` and
`Registry`, and all liveness properties, because TLAPS has no rules for
fairness.

## What is not modelled

Bytes of objects, signatures and their canonical forms, password hashes,
sealing, formatting, metrics, the web frontend, and SQL below the level of one
statement. Store errors are modelled where a handler's behaviour depends on
them, and a statement that failed is taken to have had no effect; `RowFollowed`
depends on that. `AsyncAudit` leaves out sampling, and counts what is in the
queue when the process exits as queued: it is lost, because nothing waits for
the drainer. `Quotas` leaves out soft limits, which
refuse nothing, and the proxy's call of the same check. `Registry` leaves out
probe results. `Mirrored` says nothing of an id whose entry another source owns:
when an `S3Backend` meets one it is left alone, and an entry an administrator's
handler put under source `db` in a race with the reconciler stays until a
restart. `ReadyIsUsable` is not checked with rotation: the sweep comes before the
consumer Secret is written, so a write that fails for longer than the overlap
leaves consumers with a key that is gone. `DataIsKept` is checked without lag;
a policy changed after the reconcile read the claim is covered. `RowFollowed` is checked for one administrator: with two it does
not hold.

## Plan

In this order:

1. Credential sources and the proxy's request path: reloads that swap in the
   wrong order, the informer, the signing key cache, limits, retries and the
   audit row, with `ConcurrencyLimiter` as a component.
2. The operator composed with the proxy: `BucketClaim` writing Secrets that the
   Kubernetes source turns into credentials and limits. An abstract
   specification of a claim (absent, provisioning, ready, deleting) that
   `BucketClaim` implements.
3. Users: login, lockout, rate limit, the guard for the last administrator,
   OIDC; on SQLite and on Postgres.
4. Objects: prefix copy and delete, conditional uploads, multipart, the bucket
   list cache; folder sizes.
5. Registry probes; the S3Backend reconciler; migrations.
6. Proofs: `InOnePlace` for `AsyncAudit`, `OneInlineScan` and `UsageCovers` for
   `Quotas`, `NoOrphans` for `BucketClaim` without lag, `ConfigWins` and `RowFollowed` for `Registry`, and the refinement of step 2.
