---------------------- MODULE ConcurrencyLimiterProofs ----------------------
(* Theorems about ConcurrencyLimiter, for every number of requests, keys   *)
(* and slots.                                                              *)
EXTENDS ConcurrencyLimiter, FiniteSetTheorems, TLAPS

(* A channel never holds more than its capacity.                           *)
Capacity ==
    /\ PerMax > 0 => \A k \in Keys : perKey[k] <= PerMax
    /\ GlobalMax > 0 => global <= GlobalMax

IInv == TypeOK /\ TokensOwned /\ Capacity

LEMMA HoldersFinite ==
    ASSUME NEW k
    PROVE  /\ IsFiniteSet(KeyHolders(k)) /\ Cardinality(KeyHolders(k)) \in Nat
           /\ IsFiniteSet(Serving) /\ Cardinality(Serving) \in Nat
<1>1. KeyHolders(k) \in SUBSET Reqs /\ Serving \in SUBSET Reqs
  BY DEF KeyHolders, Serving
<1> QED BY <1>1, LimiterAssumption, FS_Subset, FS_CardinalityType

LEMMA InitIInv == Init => IInv
<1> SUFFICES ASSUME Init PROVE IInv
  OBVIOUS
<1>1. (\A k \in Keys : KeyHolders(k) = {}) /\ Serving = {}
  BY DEF Init, KeyHolders, Serving
<1> QED BY <1>1, LimiterAssumption, FS_EmptySet DEF Init, IInv, TypeOK, TokensOwned, Capacity

LEMMA StepIInv == ASSUME IInv, [Next]_vars PROVE IInv'
<1> USE LimiterAssumption DEF IInv
<1>0. CASE UNCHANGED vars
  BY <1>0 DEF vars, TypeOK, TokensOwned, Capacity, KeyHolders, Serving
<1>1. ASSUME NEW r \in Reqs, NEW k \in Keys, Arrive(r, k) PROVE IInv'
  <2>1. TypeOK'
    BY <1>1 DEF Arrive, Goto, TypeOK
  <2>2. (\A j \in Keys : KeyHolders(j)' = KeyHolders(j)) /\ Serving' = Serving
    BY <1>1 DEF Arrive, Goto, TypeOK, KeyHolders, Serving
  <2> QED BY <1>1, <2>1, <2>2 DEF Arrive, TokensOwned, Capacity
<1>2. ASSUME NEW r \in Reqs, AcquireKey(r) PROVE IInv'
  <2>0. key[r] \in Keys
    BY <1>2 DEF AcquireKey, TypeOK
  <2>1. TypeOK'
    BY <1>2, <2>0 DEF AcquireKey, Goto, TypeOK
  <2>2. /\ KeyHolders(key[r])' = KeyHolders(key[r]) \cup {r}
        /\ r \notin KeyHolders(key[r])
        /\ \A j \in Keys : j # key[r] => KeyHolders(j)' = KeyHolders(j)
        /\ Serving' = Serving
    BY <1>2 DEF AcquireKey, Goto, TypeOK, KeyHolders, Serving
  <2>3. Cardinality(KeyHolders(key[r])') = Cardinality(KeyHolders(key[r])) + 1
    BY <2>2, HoldersFinite, FS_AddElement
  <2>4. TokensOwned' /\ Capacity'
    BY <1>2, <2>0, <2>2, <2>3 DEF AcquireKey, TypeOK, TokensOwned, Capacity
  <2> QED BY <2>1, <2>4
<1>3. ASSUME NEW r \in Reqs, RefusePerKey(r) PROVE IInv'
  <2>1. TypeOK'
    BY <1>3 DEF RefusePerKey, Leave, Goto, TypeOK
  <2>2. (\A j \in Keys : KeyHolders(j)' = KeyHolders(j)) /\ Serving' = Serving
    BY <1>3 DEF RefusePerKey, Leave, Goto, TypeOK, KeyHolders, Serving
  <2> QED BY <1>3, <2>1, <2>2 DEF RefusePerKey, TokensOwned, Capacity
<1>4. ASSUME NEW r \in Reqs, AcquireGlobal(r) PROVE IInv'
  <2>1. TypeOK'
    BY <1>4 DEF AcquireGlobal, Goto, TypeOK
  <2>2. /\ \A j \in Keys : KeyHolders(j)' = KeyHolders(j)
        /\ Serving' = Serving \cup {r} /\ r \notin Serving
    BY <1>4 DEF AcquireGlobal, Goto, TypeOK, KeyHolders, Serving
  <2>3. Cardinality(Serving') = Cardinality(Serving) + 1
    BY <2>2, HoldersFinite, FS_AddElement
  <2>4. TokensOwned' /\ Capacity'
    BY <1>4, <2>2, <2>3 DEF AcquireGlobal, TypeOK, TokensOwned, Capacity
  <2> QED BY <2>1, <2>4
<1>5. ASSUME NEW r \in Reqs, RefuseGlobal(r) PROVE IInv'
  <2>1. TypeOK'
    BY <1>5 DEF RefuseGlobal, Goto, TypeOK
  <2>2. (\A j \in Keys : KeyHolders(j)' = KeyHolders(j)) /\ Serving' = Serving
    BY <1>5 DEF RefuseGlobal, Goto, TypeOK, KeyHolders, Serving
  <2> QED BY <1>5, <2>1, <2>2 DEF RefuseGlobal, TokensOwned, Capacity
<1>6. ASSUME NEW r \in Reqs, ReleaseGlobal(r) PROVE IInv'
  <2>1. TypeOK'
    BY <1>6 DEF ReleaseGlobal, Goto, TypeOK
  <2>2. /\ \A j \in Keys : KeyHolders(j)' = KeyHolders(j)
        /\ Serving' = Serving \ {r} /\ r \in Serving
    BY <1>6 DEF ReleaseGlobal, Goto, TypeOK, KeyHolders, Serving
  <2>3. Cardinality(Serving') = Cardinality(Serving) - 1
    BY <2>2, HoldersFinite, FS_RemoveElement
  <2>4. TokensOwned' /\ Capacity'
    BY <1>6, <2>2, <2>3 DEF ReleaseGlobal, TypeOK, TokensOwned, Capacity
  <2> QED BY <2>1, <2>4
<1>7. ASSUME NEW r \in Reqs, ReleaseKey(r) PROVE IInv'
  <2>0. PICK k \in Keys : k = key[r]
    BY <1>7 DEF ReleaseKey, TypeOK
  <2>1. TypeOK'
    BY <1>7, <2>0 DEF ReleaseKey, Leave, Goto, TypeOK
  <2>2. /\ KeyHolders(k)' = KeyHolders(k) \ {r}
        /\ r \in KeyHolders(k)
        /\ \A j \in Keys : j # k => KeyHolders(j)' = KeyHolders(j)
        /\ Serving' = Serving
    <3>1. pc' = [pc EXCEPT ![r] = "idle"] /\ key' = [key EXCEPT ![r] = None] /\ pc[r] = "freeKey"
      BY <1>7 DEF ReleaseKey, Leave, Goto
    <3>2. \A q \in Reqs : q # r => pc'[q] = pc[q] /\ key'[q] = key[q]
      BY <3>1 DEF TypeOK
    <3>3. pc'[r] = "idle"
      BY <3>1 DEF TypeOK
    <3>4. Serving' = Serving
      BY <3>1, <3>2, <3>3 DEF Serving
    <3>5. r \in KeyHolders(k)
      BY <2>0, <3>1 DEF KeyHolders
    <3>6. KeyHolders(k)' = KeyHolders(k) \ {r}
      <4>1. \A q : q \in KeyHolders(k)' <=> q \in KeyHolders(k) /\ q # r
        BY <2>0, <3>1, <3>2, <3>3 DEF KeyHolders
      <4> QED BY <4>1
    <3>7. ASSUME NEW j \in Keys, j # k PROVE KeyHolders(j)' = KeyHolders(j)
      BY <2>0, <3>2, <3>3, <3>7 DEF KeyHolders
    <3> QED BY <3>4, <3>5, <3>6, <3>7
  <2>3. Cardinality(KeyHolders(k)') = Cardinality(KeyHolders(k)) - 1
    BY <2>2, HoldersFinite, FS_RemoveElement
  <2>4. /\ global' = global
        /\ PerMax > 0 => perKey' = [perKey EXCEPT ![k] = @ - 1]
    BY <1>7, <2>0 DEF ReleaseKey
  <2>5. TokensOwned'
    <3>1. ASSUME PerMax > 0, NEW j \in Keys PROVE perKey'[j] = Cardinality(KeyHolders(j)')
      <4>1. CASE j = k
        BY <2>0, <2>3, <2>4, <3>1, <4>1 DEF TypeOK, TokensOwned
      <4>2. CASE j # k
        BY <2>0, <2>2, <2>4, <3>1, <4>2 DEF TypeOK, TokensOwned
      <4> QED BY <4>1, <4>2
    <3> QED BY <2>2, <2>4, <3>1 DEF TokensOwned
  <2>6. Capacity'
    BY <2>0, <2>4 DEF TypeOK, Capacity
  <2> QED BY <2>1, <2>5, <2>6
<1> QED
  BY <1>0, <1>1, <1>2, <1>3, <1>4, <1>5, <1>6, <1>7 DEF Next, Step

LEMMA Invariance == Spec => []IInv
BY InitIInv, StepIInv, PTL DEF Spec

(* No slot is lost and none returned twice on any path through Acquire and *)
(* release.                                                                *)
THEOREM NoTokenLost == Spec => []TokensOwned
<1>1. IInv => TokensOwned
  BY DEF IInv
<1> QED BY Invariance, <1>1, PTL

LEMMA ServingHoldKeys ==
    ASSUME IInv, NEW k \in Keys
    PROVE  /\ PerMax > 0 => Cardinality({r \in Serving : key[r] = k}) <= PerMax
           /\ Cardinality({r \in Serving : key[r] = k}) \in Nat
<1>1. {r \in Serving : key[r] = k} \in SUBSET KeyHolders(k)
  BY DEF Serving, KeyHolders
<1>2. /\ Cardinality({r \in Serving : key[r] = k}) <= Cardinality(KeyHolders(k))
      /\ Cardinality({r \in Serving : key[r] = k}) \in Nat
  BY <1>1, HoldersFinite, FS_Subset, FS_CardinalityType
<1>3. PerMax > 0 => Cardinality(KeyHolders(k)) <= PerMax
  BY DEF IInv, TokensOwned, Capacity
<1> QED BY <1>2, <1>3, HoldersFinite, LimiterAssumption

(* At most GlobalMax requests are in flight, and PerMax for each key.      *)
THEOREM InFlightIsBounded == Spec => []InFlightBounded
<1>1. IInv => InFlightBounded
  BY ServingHoldKeys DEF IInv, InFlightBounded, TokensOwned, Capacity
<1> QED BY Invariance, <1>1, PTL

(* One key alone never occupies the whole proxy.                           *)
THEOREM NoGreedyKey == Spec => []GreedyNeverFills
<1>1. IInv => GreedyNeverFills
  <2> SUFFICES ASSUME IInv, PerMax > 0, PerMax < GlobalMax, global = GlobalMax,
                      NEW k \in Keys, \A r \in Serving : key[r] = k
               PROVE  FALSE
    BY DEF GreedyNeverFills
  <2>1. {r \in Serving : key[r] = k} = Serving
    OBVIOUS
  <2>2. Cardinality(Serving) <= PerMax
    BY <2>1, ServingHoldKeys
  <2> QED BY <2>2, LimiterAssumption, HoldersFinite DEF IInv, TokensOwned
<1> QED BY Invariance, <1>1, PTL
=============================================================================
