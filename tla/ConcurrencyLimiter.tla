------------------------- MODULE ConcurrencyLimiter -------------------------
(***************************************************************************)
(* ConcurrencyLimiter of the embedded S3 proxy                             *)
(* (internal/s3proxy/concurrency.go) and the requests that go through it.  *)
(* A buffered channel is the number of tokens in it: a send waits for      *)
(* room, a receive takes one out.  Each send and receive is a step.        *)
(***************************************************************************)
EXTENDS Integers, FiniteSets

CONSTANTS
    Reqs,       \* request goroutines
    Keys,       \* access keys, and "anon:<ip>"
    GlobalMax,  \* capacity of l.global, 0: l.global is nil
    PerMax,     \* l.perMax, 0: no per-key channel
    None        \* the key of a goroutine that serves no request

ASSUME LimiterAssumption ==
    /\ IsFiniteSet(Reqs)
    /\ GlobalMax \in Nat /\ PerMax \in Nat
    /\ None \notin Keys

VARIABLES
    global,  \* tokens in l.global
    perKey,  \* tokens in l.perKey[k]; a channel not yet made holds none
    pc,      \* where each request is
    key      \* the key it is for

vars == <<global, perKey, pc, key>>

Goto(r, l) == pc' = [pc EXCEPT ![r] = l]
Leave(r)   == Goto(r, "idle") /\ key' = [key EXCEPT ![r] = None]

Init ==
    /\ global = 0
    /\ perKey = [k \in Keys |-> 0]
    /\ pc = [r \in Reqs |-> "idle"]
    /\ key = [r \in Reqs |-> None]

(* A request reaches acquireSlot; the key's channel is made if need be.    *)
Arrive(r, k) ==
    /\ pc[r] = "idle"
    /\ key' = [key EXCEPT ![r] = k]
    /\ Goto(r, "key")
    /\ UNCHANGED <<global, perKey>>

(* Mutant: a key's channel is one larger than perMax.                      *)
AcquireKeyExtra(r) ==
    /\ pc[r] = "key"
    /\ PerMax > 0 => perKey[key[r]] <= PerMax
    /\ perKey' = IF PerMax > 0 THEN [perKey EXCEPT ![key[r]] = @ + 1] ELSE perKey
    /\ Goto(r, "global")
    /\ UNCHANGED <<global, key>>

(* keyCh <- struct{}{}, or straight on when keys are not limited.          *)
AcquireKey(r) ==
    /\ pc[r] = "key"
    /\ PerMax > 0 => perKey[key[r]] < PerMax
    /\ perKey' = IF PerMax > 0 THEN [perKey EXCEPT ![key[r]] = @ + 1] ELSE perKey
    /\ Goto(r, "global")
    /\ UNCHANGED <<global, key>>

(* ctx.Done(), by the timeout or because the client went away, while       *)
(* waiting for the key slot.                                               *)
RefusePerKey(r) ==
    /\ pc[r] = "key"
    /\ PerMax > 0
    /\ Leave(r)
    /\ UNCHANGED <<global, perKey>>

(* Mutant: the global channel is one larger than its limit.                *)
AcquireGlobalExtra(r) ==
    /\ pc[r] = "global"
    /\ GlobalMax > 0 => global <= GlobalMax
    /\ global' = IF GlobalMax > 0 THEN global + 1 ELSE global
    /\ Goto(r, "serving")
    /\ UNCHANGED <<perKey, key>>

AcquireGlobal(r) ==
    /\ pc[r] = "global"
    /\ GlobalMax > 0 => global < GlobalMax
    /\ global' = IF GlobalMax > 0 THEN global + 1 ELSE global
    /\ Goto(r, "serving")
    /\ UNCHANGED <<perKey, key>>

(* Mutants: the refused request keeps its key slot, or gives back a global *)
(* slot that it never got.                                                 *)
RefuseGlobalKeepsKey(r) ==
    /\ pc[r] = "global"
    /\ GlobalMax > 0
    /\ Leave(r)
    /\ UNCHANGED <<global, perKey>>

RefuseGlobalReturnsSlot(r) ==
    /\ pc[r] = "global"
    /\ GlobalMax > 0
    /\ global' = global - 1
    /\ Goto(r, "freeKey")
    /\ UNCHANGED <<perKey, key>>

(* ctx.Done() while waiting for the global slot ...                        *)
RefuseGlobal(r) ==
    /\ pc[r] = "global"
    /\ GlobalMax > 0
    /\ Goto(r, "freeKey")
    /\ UNCHANGED <<global, perKey, key>>

(* The request is answered and the deferred release runs.                  *)
ReleaseGlobal(r) ==
    /\ pc[r] = "serving"
    /\ GlobalMax > 0 => global > 0
    /\ global' = IF GlobalMax > 0 THEN global - 1 ELSE global
    /\ Goto(r, "freeKey")
    /\ UNCHANGED <<perKey, key>>

(* ... <-keyCh: the end of release and of a refusal at the global tier.    *)
ReleaseKey(r) ==
    /\ pc[r] = "freeKey"
    /\ PerMax > 0 => perKey[key[r]] > 0
    /\ perKey' = IF PerMax > 0 THEN [perKey EXCEPT ![key[r]] = @ - 1] ELSE perKey
    /\ Leave(r)
    /\ UNCHANGED global

Step(r) ==
    \/ AcquireKey(r) \/ RefusePerKey(r) \/ AcquireGlobal(r) \/ RefuseGlobal(r)
    \/ ReleaseGlobal(r) \/ ReleaseKey(r)

Next == \E r \in Reqs : Step(r) \/ \E k \in Keys : Arrive(r, k)

Spec == Init /\ [][Next]_vars

(* A request that is served ends, a refusal or release goes on, and the    *)
(* senders that wait on a channel are queued by the runtime, so that a     *)
(* waiting one is not passed over for ever.  Nothing makes a request give  *)
(* up: with timeout 0 it waits as long as its client does.                 *)
Fairness ==
    \A r \in Reqs :
        /\ WF_vars(ReleaseGlobal(r)) /\ WF_vars(ReleaseKey(r))
        /\ SF_vars(AcquireKey(r)) /\ SF_vars(AcquireGlobal(r))

FairSpec == Spec /\ Fairness

-----------------------------------------------------------------------------
(* Shape of the channels and the requests.                                 *)
TypeOK ==
    /\ global \in Nat
    /\ perKey \in [Keys -> Nat]
    /\ pc \in [Reqs -> {"idle", "key", "global", "serving", "freeKey"}]
    /\ key \in [Reqs -> Keys \cup {None}]
    /\ \A r \in Reqs : pc[r] # "idle" => key[r] \in Keys

(* The requests that own a token of the channel of k, and of l.global.     *)
KeyHolders(k) == {r \in Reqs : key[r] = k /\ pc[r] \in {"global", "serving", "freeKey"}}
Serving       == {r \in Reqs : pc[r] = "serving"}

(* No token is lost or returned twice, on any way through Acquire and      *)
(* release (concurrency.go): the tokens are exactly those of the requests  *)
(* that own one, so a receive in release or after a refusal never waits.   *)
TokensOwned ==
    /\ PerMax > 0 => \A k \in Keys : perKey[k] = Cardinality(KeyHolders(k))
    /\ GlobalMax > 0 => global = Cardinality(Serving)

(* The limits that bound the proxy's standing memory: requests in flight,  *)
(* overall and for each key.                                               *)
InFlightBounded ==
    /\ GlobalMax > 0 => Cardinality(Serving) <= GlobalMax
    /\ PerMax > 0 => \A k \in Keys : Cardinality({r \in Serving : key[r] = k}) <= PerMax

(* "One greedy client stalled against a slow backend can never occupy      *)
(* slots that other credentials need" (concurrency.go): where a key's      *)
(* allowance is below the global one, the global channel is never filled   *)
(* by one key alone.                                                       *)
GreedyNeverFills ==
    PerMax > 0 /\ PerMax < GlobalMax /\ global = GlobalMax =>
        \A k \in Keys : \E r \in Serving : key[r] # k

(* Every request is answered: it gets its slots and ends, or is refused.   *)
EveryRequestAnswered == \A r \in Reqs : pc[r] # "idle" ~> pc[r] = "idle"
=============================================================================
