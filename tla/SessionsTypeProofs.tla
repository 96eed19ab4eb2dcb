------------------------- MODULE SessionsTypeProofs -------------------------
(* Type correctness of Sessions: for every set of users, sessions,         *)
(* goroutines and roles, and all times.                                    *)
EXTENDS Sessions, TLAPS

(* The calls that need no user: what Logout and a failed Resolve run.      *)
RevokeCalls == {"DeleteSession", "Invalidate"}

(* What a goroutine has in its local variables by the time it needs it.    *)
LocalsOK ==
    \A p \in Procs :
        /\ pc[p] \in {"get", "hit", "hitTouch", "resolve", "check", "identity", "put"} => loc[p].sid \in Sids
        /\ pc[p] \in {"issue", "check", "identity", "put"} => loc[p].row \in Session
        /\ pc[p] \in {"put", "serve"} => loc[p].id \in Identity
        /\ pc[p] = "ops" => todo[p] \in Seq(RevokeCalls) \/ loc[p].user \in Users

Typed == TypeOK /\ LocalsOK

LEMMA OpsType ==
    /\ RevokeOps \in Seq(RevokeCalls) /\ RevokeOps \in Seq(StoreOps \cup CacheOps)
    /\ PatchUserOps \in Seq(StoreOps \cup CacheOps)
    /\ ResetOps \in Seq(StoreOps \cup CacheOps)
    /\ DeleteUserOps \in Seq(StoreOps \cup CacheOps)
    /\ ChangeOwnOps \in Seq(StoreOps \cup CacheOps)
BY DEF RevokeOps, RevokeCalls, PatchUserOps, ResetOps, DeleteUserOps, ChangeOwnOps,
       StoreOps, CacheOps, Ignored

LEMMA ZeroType == 0 \in Nat
OBVIOUS

LEMMA NoLocalsType == NoLocals \in Local /\ NoLocals.t0 = 0
BY DEF NoLocals, Local

LEMMA TornType == ASSUME NEW ids \in SUBSET Identity PROVE Torn(ids) \subseteq Identity
BY DEF Torn, Identity

LEMMA InitTyped == Init => Typed
BY NoLocalsType DEF Init, Typed, TypeOK, LocalsOK, UserRow, Labels

-----------------------------------------------------------------------------
(* The control part of a step: pc, loc and todo stay well-formed.          *)
Control ==
    /\ pc \in [Procs -> Labels] /\ loc \in [Procs -> Local]
    /\ todo \in [Procs -> Seq(StoreOps \cup CacheOps)]
    /\ LocalsOK

LEMMA FinishControl == ASSUME Typed, NEW p \in Procs, Finish(p) PROVE Control'
BY NoLocalsType DEF Typed, TypeOK, Finish, Goto, Control, LocalsOK, Labels

LEMMA RunControl ==
    ASSUME Typed, NEW p \in Procs, NEW ops \in Seq(StoreOps \cup CacheOps), Run(p, ops),
           loc' \in [Procs -> Local], \A q \in Procs : q # p => loc'[q] = loc[q],
           ops \in Seq(RevokeCalls) \/ loc'[p].user \in Users
    PROVE  Control'
BY Zenon DEF Typed, TypeOK, Run, Goto, Control, LocalsOK, Labels

LEMMA PopControl ==
    ASSUME Typed, NEW p \in Procs, pc[p] = "ops", todo[p] # <<>>, UNCHANGED pc,
           todo' = [todo EXCEPT ![p] = Tail(@)],
           loc' \in [Procs -> Local], \A q \in Procs : q # p => loc'[q] = loc[q],
           loc'[p].user = loc[p].user
    PROVE  Control'
<1>1. todo[p] \in Seq(StoreOps \cup CacheOps)
  BY DEF Typed, TypeOK
<1>2. Tail(todo[p]) \in Seq(StoreOps \cup CacheOps)
  BY <1>1
<1>3. todo[p] \in Seq(RevokeCalls) => Tail(todo[p]) \in Seq(RevokeCalls)
  OBVIOUS
<1> QED BY Zenon, <1>2, <1>3 DEF Typed, TypeOK, Control, LocalsOK

LEMMA AdvanceControl ==
    ASSUME Typed, NEW p \in Procs, pc[p] = "ops", todo[p] # <<>>, Advance(p) PROVE Control'
<1>1. CASE Finish(p)
  BY <1>1, FinishControl
<1>2. CASE todo' = [todo EXCEPT ![p] = Tail(@)] /\ UNCHANGED <<pc, loc>>
  BY Zenon, <1>2, PopControl DEF Typed, TypeOK
<1> QED BY <1>1, <1>2 DEF Advance

LEMMA GotoControl ==
    ASSUME Typed, NEW p \in Procs, NEW l \in Labels \ {"ops"}, Goto(p, l), UNCHANGED todo,
           loc' \in [Procs -> Local], \A q \in Procs : q # p => loc'[q] = loc[q],
           l \in {"get", "hit", "hitTouch", "resolve", "check", "identity", "put"} => loc'[p].sid \in Sids,
           l \in {"issue", "check", "identity", "put"} => loc'[p].row \in Session,
           l \in {"put", "serve"} => loc'[p].id \in Identity
    PROVE  Control'
BY Zenon DEF Typed, TypeOK, Goto, Control, LocalsOK

LEMMA SessionUpdate ==
    ASSUME NEW r \in Session, NEW a \in Nat, NEW b \in Nat
    PROVE  [r EXCEPT !.lastSeen = a, !.expires = b] \in Session
BY Zenon DEF Session

LEMMA SetRow ==
    ASSUME Typed, NEW p \in Procs, NEW r \in Session, loc' = [loc EXCEPT ![p].row = r]
    PROVE  /\ loc' \in [Procs -> Local]
           /\ \A q \in Procs : q # p => loc'[q] = loc[q]
           /\ loc'[p] = [loc[p] EXCEPT !.row = r]
           /\ loc'[p].row = r /\ loc'[p].sid = loc[p].sid /\ loc'[p].t0 = loc[p].t0
<1>1. loc \in [Procs -> Local] /\ loc[p] \in Local
  BY DEF Typed, TypeOK
<1>2. /\ loc'[p] = [loc[p] EXCEPT !.row = r]
      /\ \A q \in Procs : q # p => loc'[q] = loc[q]
  BY <1>1
<1>3. [loc[p] EXCEPT !.row = r] \in Local
  BY <1>1 DEF Local
<1>4. loc' \in [Procs -> Local]
  BY <1>1, <1>3
<1> QED BY <1>1, <1>2, <1>4 DEF Local

LEMMA SetId ==
    ASSUME Typed, NEW p \in Procs, NEW i \in Identity, loc' = [loc EXCEPT ![p].id = i]
    PROVE  /\ loc' \in [Procs -> Local]
           /\ \A q \in Procs : q # p => loc'[q] = loc[q]
           /\ loc'[p].id = i /\ loc'[p].sid = loc[p].sid /\ loc'[p].t0 = loc[p].t0
           /\ loc'[p].row = loc[p].row
<1>1. loc \in [Procs -> Local] /\ loc[p] \in Local
  BY DEF Typed, TypeOK
<1>2. /\ loc'[p] = [loc[p] EXCEPT !.id = i]
      /\ \A q \in Procs : q # p => loc'[q] = loc[q]
  BY <1>1
<1>3. [loc[p] EXCEPT !.id = i] \in Local
  BY <1>1 DEF Local
<1>4. loc' \in [Procs -> Local]
  BY <1>1, <1>3
<1> QED BY <1>1, <1>2, <1>4 DEF Local

(* p starts over with locals l.                                            *)
LEMMA SetLocals ==
    ASSUME Typed, NEW p \in Procs, NEW l \in Local, loc' = [loc EXCEPT ![p] = l]
    PROVE  /\ loc' \in [Procs -> Local]
           /\ loc'[p] = l
           /\ \A q \in Procs : q # p => loc'[q] = loc[q]
BY DEF Typed, TypeOK

LEMMA HandlerLocals ==
    ASSUME NEW s \in Sids \cup {Absent}, NEW u \in Users
    PROVE  /\ [NoLocals EXCEPT !.sid = s, !.user = u] \in Local
           /\ [NoLocals EXCEPT !.sid = s, !.user = u].t0 = 0
           /\ [NoLocals EXCEPT !.sid = s, !.user = u].user = u
BY ZenonT(30) DEF NoLocals, Local

LEMMA PutLocals ==
    ASSUME Typed, NEW p \in Procs
    PROVE  /\ [loc[p] EXCEPT !.t0 = 0, !.row = Absent] \in Local
           /\ [loc[p] EXCEPT !.t0 = 0, !.row = Absent].t0 = 0
           /\ [loc[p] EXCEPT !.t0 = 0, !.row = Absent].id = loc[p].id
<1>1. loc[p] \in Local
  BY DEF Typed, TypeOK
<1> QED BY ZenonT(30), <1>1, ZeroType DEF Local

LEMMA RevokeLocals ==
    ASSUME Typed, NEW p \in Procs, Revoke(p)
    PROVE  /\ Run(p, RevokeOps)
           /\ loc' \in [Procs -> Local] /\ loc'[p].t0 = 0
           /\ \A q \in Procs : q # p => loc'[q] = loc[q]
<1>1. loc[p].sid \in Sids \cup {Absent}
  BY DEF Typed, TypeOK, Local
<1>2. PICK s \in Sids \cup {Absent} : s = loc[p].sid
  BY <1>1
<1>3. [NoLocals EXCEPT !.sid = s] \in Local /\ [NoLocals EXCEPT !.sid = s].t0 = 0
  BY DEF NoLocals, Local
<1> QED BY Zenon, <1>2, <1>3, SetLocals DEF Revoke

LEMMA RevokeControl == ASSUME Typed, NEW p \in Procs, Revoke(p) PROVE Control'
BY Zenon, RevokeLocals, OpsType, RunControl

(* The data part.                                                          *)
Data ==
    /\ now \in Nat
    /\ users \in [Users -> UserRow \cup {Absent}]
    /\ sessions \in [Sids -> Session \cup {Absent}]
    /\ cache \in [Sids -> CacheEntry \cup {Absent}]
    /\ pending \in [Sids -> Touch \cup {Absent}]
    /\ batch \in [Sids -> Touch \cup {Absent}]
    /\ held \in [Procs -> BOOLEAN]
    /\ seen \in [Procs -> SUBSET Identity]
    /\ started \in Nat
    /\ changes \in [Users -> Seq(Nat)]
    /\ settled \in [Users -> Nat]
    /\ goneAt \in [Sids -> Nat \cup {Absent}]

LEMMA TypedSplits == (Typed => Data /\ Control) /\ (Data' /\ Control' => Typed')
BY DEF Typed, TypeOK, Data, Control

LEMMA LoginLocalTyped ==
    ASSUME Typed, NEW p \in Procs, NEW u \in Users, LoginLocal(p, u)
    PROVE  Typed'
<1> USE TimesAssumption
<1>1. Data'
  BY TypedSplits DEF LoginLocal, Data, tables, memory, reads, hist
<1>2. loc'[p] \in Local /\ loc'[p].row \in Session
  BY ZenonT(30), NoLocalsType DEF LoginLocal, Typed, TypeOK, Local, Session, UserRow
<1>3. Control'
  BY Zenon, <1>2, GotoControl DEF LoginLocal, Typed, TypeOK, Labels
<1> QED BY <1>1, <1>3, TypedSplits

LEMMA IssueTyped == ASSUME Typed, NEW p \in Procs, NEW s \in Sids, Issue(p, s) PROVE Typed'
<1> USE TimesAssumption
<1>1. sessions' \in [Sids -> Session \cup {Absent}]
  <2>1. loc[p].row \in Session /\ now \in Nat /\ now + Lifetime \in Nat
    BY DEF Issue, Typed, TypeOK, LocalsOK
  <2>2. [loc[p].row EXCEPT !.lastSeen = now, !.expires = now + Lifetime] \in Session
    BY Zenon, <2>1, SessionUpdate
  <2> QED BY <2>2 DEF Issue, Typed, TypeOK
<1>2. Data'
  BY <1>1 DEF Issue, Typed, TypeOK, Data, memory, reads, hist
<1> QED BY <1>2, FinishControl, TypedSplits DEF Issue

LEMMA IssueFailsTyped == ASSUME Typed, NEW p \in Procs, IssueFails(p) \/ Serve(p) PROVE Typed'
<1> USE TimesAssumption
<1>1. Data'
  BY TypedSplits DEF IssueFails, Serve, Data, tables, memory, reads, hist
<1> QED BY <1>1, FinishControl, TypedSplits DEF IssueFails, Serve

LEMMA AttachStartTyped ==
    ASSUME Typed, NEW p \in Procs, NEW s \in Sids, AttachStart(p, s)
    PROVE  Typed'
<1> USE TimesAssumption
<1>1. Data'
  BY TypedSplits DEF AttachStart, Data, tables, memory, reads, hist
<1>2. loc'[p] \in Local /\ loc'[p].sid = s
  BY Zenon, NoLocalsType DEF AttachStart, Typed, TypeOK, Local
<1>3. Control'
  BY Zenon, <1>2, GotoControl DEF AttachStart, Typed, TypeOK, Labels
<1> QED BY <1>1, <1>3, TypedSplits

LEMMA CacheGetTyped == ASSUME Typed, NEW p \in Procs, CacheGet(p) PROVE Typed'
<1> USE TimesAssumption
<1> DEFINE e == cache[loc[p].sid]
<1>1. loc[p].sid \in Sids /\ loc[p].t0 \in Nat
  BY DEF CacheGet, Typed, TypeOK, LocalsOK, Local
<1>2. e # Absent => e \in CacheEntry /\ e.id \in Identity
  BY <1>1 DEF Typed, TypeOK, CacheEntry
<1>3. cache' \in [Sids -> CacheEntry \cup {Absent}]
  <2>1. CASE cache' = cache
    BY <2>1 DEF Typed, TypeOK
  <2>2. CASE e # Absent /\ cache' = [cache EXCEPT ![loc[p].sid].lastSeen = loc[p].t0]
    BY Zenon, <1>1, <1>2, <2>2 DEF Typed, TypeOK, CacheEntry
  <2> QED BY <2>1, <2>2 DEF CacheGet
<1>4. seen' \in [Procs -> SUBSET Identity] /\ held' \in [Procs -> BOOLEAN]
  <2>1. CASE UNCHANGED reads
    BY <2>1 DEF reads, Typed, TypeOK
  <2>2. CASE e # Absent /\ seen' = [seen EXCEPT ![p] = {e.id}] /\ held' = [held EXCEPT ![p] = TRUE]
    <3> HIDE DEF e
    <3> QED BY <1>2, <2>2 DEF Typed, TypeOK
  <2> QED BY <2>1, <2>2 DEF CacheGet
<1>5. Data'
  BY <1>3, <1>4 DEF CacheGet, Typed, TypeOK, Data, tables, hist
<1>6. pc' \in [Procs -> Labels] /\ pc'[p] \in {"hit", "hitTouch", "resolve"}
      /\ \A q \in Procs : q # p => pc'[q] = pc[q]
  BY Zenon DEF CacheGet, Typed, TypeOK, Goto, Labels
<1>7. Control'
  BY <1>1, <1>6 DEF CacheGet, Typed, TypeOK, Control, LocalsOK
<1> QED BY <1>5, <1>7, TypedSplits

LEMMA CacheHitTyped == ASSUME Typed, NEW p \in Procs, CacheHit(p) PROVE Typed'
<1> USE TimesAssumption
<1>1. PICK i \in Identity : loc' = [loc EXCEPT ![p].id = i]
  BY Zenon, TornType DEF CacheHit, Typed, TypeOK
<1>2. pending' \in [Sids -> Touch \cup {Absent}]
  BY DEF CacheHit, Typed, TypeOK, LocalsOK, Local, Touch
<1>3. Data'
  BY <1>2 DEF CacheHit, Typed, TypeOK, Data, tables, hist
<1>4. Control'
  <2>1. Goto(p, "serve") /\ UNCHANGED todo
    BY DEF CacheHit
  <2> QED BY ZenonT(30), <1>1, <2>1, SetId, GotoControl DEF Labels
<1> QED BY <1>3, <1>4, TypedSplits

LEMMA GetSessionTyped == ASSUME Typed, NEW p \in Procs, GetSession(p) PROVE Typed'
<1> USE TimesAssumption
<1>1. Data'
  BY TypedSplits DEF GetSession, Data, tables, memory, reads, hist
<1>2. CASE Finish(p)
  BY <1>1, <1>2, FinishControl, TypedSplits
<1>3. CASE /\ sessions[loc[p].sid] # Absent
           /\ loc' = [loc EXCEPT ![p].row = sessions[loc[p].sid]]
           /\ Goto(p, "check") /\ UNCHANGED todo
  <2>1. loc[p].sid \in Sids /\ sessions[loc[p].sid] \in Session
    BY <1>3 DEF GetSession, Typed, TypeOK, LocalsOK
  <2>2. Control'
    BY Zenon, <1>3, <2>1, SetRow, GotoControl DEF Labels
  <2> QED BY <1>1, <2>2, TypedSplits
<1> QED BY <1>2, <1>3 DEF GetSession

LEMMA ResolveCheckTyped == ASSUME Typed, NEW p \in Procs, ResolveCheck(p) PROVE Typed'
<1> USE TimesAssumption
<1>1. loc[p].sid \in Sids /\ loc[p].row \in Session /\ now \in Nat
  BY DEF ResolveCheck, Typed, TypeOK, LocalsOK
<1>2. pending' \in [Sids -> Touch \cup {Absent}]
  <2>1. [at |-> now, expires |-> now + Lifetime] \in Touch
    BY <1>1 DEF Touch
  <2>2. CASE pending' = [pending EXCEPT ![loc[p].sid] = [at |-> now, expires |-> now + Lifetime]]
    BY <1>1, <2>1, <2>2 DEF Typed, TypeOK
  <2>3. CASE UNCHANGED pending
    BY <2>3 DEF Typed, TypeOK
  <2> QED BY <2>2, <2>3 DEF ResolveCheck
<1>3. Data'
  BY <1>2 DEF ResolveCheck, Typed, TypeOK, Data, tables, reads, hist
<1>4. CASE Revoke(p)
  BY <1>3, <1>4, RevokeControl, TypedSplits
<1>5. CASE Goto(p, "identity") /\ UNCHANGED <<loc, todo>>
  <2>1. Control'
    BY <1>1, <1>5 DEF Goto, Typed, TypeOK, Control, LocalsOK, Labels
  <2> QED BY <1>3, <2>1, TypedSplits
<1>6. CASE /\ Goto(p, "identity") /\ UNCHANGED todo
           /\ loc' = [loc EXCEPT ![p].row =
                 [loc[p].row EXCEPT !.lastSeen = now, !.expires = now + Lifetime]]
  <2>1. [loc[p].row EXCEPT !.lastSeen = now, !.expires = now + Lifetime] \in Session
    <3>1. now + Lifetime \in Nat
      BY <1>1
    <3> QED BY Zenon, <1>1, <3>1, SessionUpdate
  <2>2. Control'
    <3> DEFINE r == [loc[p].row EXCEPT !.lastSeen = now, !.expires = now + Lifetime]
    <3>1. r \in Session /\ loc' = [loc EXCEPT ![p].row = r]
      BY <1>6, <2>1
    <3> HIDE DEF r
    <3>2. loc' \in [Procs -> Local] /\ (\A q \in Procs : q # p => loc'[q] = loc[q])
          /\ loc'[p].row = r /\ loc'[p].sid = loc[p].sid
      BY Zenon, <3>1, SetRow
    <3>3. Goto(p, "identity") /\ UNCHANGED todo
      BY <1>6
    <3> QED BY <1>1, <3>1, <3>2, <3>3, GotoControl DEF Labels
  <2> QED BY <1>3, <2>2, TypedSplits
<1> QED BY <1>4, <1>5, <1>6 DEF ResolveCheck

LEMMA ResolveIdentityTyped == ASSUME Typed, NEW p \in Procs, ResolveIdentity(p) PROVE Typed'
<1> USE TimesAssumption
<1>1. Data'
  BY TypedSplits DEF ResolveIdentity, Data, tables, memory, reads, hist
<1>2. CASE Revoke(p)
  BY <1>1, <1>2, RevokeControl, TypedSplits
<1>3. CASE Goto(p, "put")
  <2> DEFINE r == loc[p].row
             u == users[r.user]
             i == [user |-> r.user, role |-> u.role, must |-> r.must, ver |-> Ver(r.user)]
  <2>1. u # Absent /\ loc' = [loc EXCEPT ![p].id = i] /\ UNCHANGED todo /\ pc[p] = "identity"
    BY <1>3 DEF ResolveIdentity, Revoke, Run, Goto, Typed, TypeOK
  <2>2. r \in Session /\ u \in UserRow /\ Ver(r.user) \in Nat
    BY <2>1 DEF Typed, TypeOK, LocalsOK, Session, Ver
  <2>3. i \in Identity
    BY <2>2 DEF Identity, Session, UserRow
  <2>4. Control'
    <3>1. loc[p].sid \in Sids
      BY <2>1 DEF Typed, LocalsOK
    <3> HIDE DEF i, r, u
    <3>2. loc[p].row \in Session
      BY <2>2 DEF r
    <3> QED BY ZenonT(30), <1>3, <2>1, <2>3, <3>1, <3>2, SetId, GotoControl DEF Labels
  <2> QED BY <1>1, <2>4, TypedSplits
<1> QED BY <1>2, <1>3 DEF ResolveIdentity

LEMMA CachePutTyped == ASSUME Typed, NEW p \in Procs, CachePut(p) PROVE Typed'
<1> USE TimesAssumption
<1>1. /\ loc[p].sid \in Sids /\ loc[p].row \in Session /\ loc[p].id \in Identity
      /\ loc[p].t0 \in Nat
  BY DEF CachePut, Typed, TypeOK, LocalsOK, Local
<1>2. cache' \in [Sids -> CacheEntry \cup {Absent}]
  <2> DEFINE e == [id |-> loc[p].id, cacheExpires |-> loc[p].t0 + TTL,
                   sessionExpiry |-> loc[p].row.expires, lastSeen |-> loc[p].row.lastSeen]
  <2>1. e \in CacheEntry
    BY <1>1 DEF CacheEntry, Session
  <2>2. cache' = [cache EXCEPT ![loc[p].sid] = e]
    BY Zenon DEF CachePut
  <2> HIDE DEF e
  <2> QED BY <1>1, <2>1, <2>2 DEF Typed, TypeOK
<1>3. seen' \in [Procs -> SUBSET Identity]
  BY <1>1 DEF CachePut, Typed, TypeOK
<1>4. Data'
  BY <1>2, <1>3 DEF CachePut, Typed, TypeOK, Data, tables, hist
<1>5. /\ loc' \in [Procs -> Local] /\ loc'[p].id \in Identity
      /\ \A q \in Procs : q # p => loc'[q] = loc[q]
  BY Zenon, <1>1, PutLocals, SetLocals DEF CachePut
<1>6. Control'
  BY Zenon, <1>5, GotoControl DEF CachePut, Labels
<1> QED BY <1>4, <1>6, TypedSplits

LEMMA LogoutTyped == ASSUME Typed, NEW p \in Procs, Logout(p) PROVE Typed'
<1> USE TimesAssumption
<1>1. Data'
  BY TypedSplits DEF Logout, Data, tables, memory, reads, hist
<1> QED BY <1>1, RevokeControl, TypedSplits DEF Logout

LEMMA ChangeOwnPasswordTyped == ASSUME Typed, NEW p \in Procs, ChangeOwnPassword(p) PROVE Typed'
<1> USE TimesAssumption
<1>1. Data'
  BY TypedSplits DEF ChangeOwnPassword, Counted, Data, tables, memory, reads, hist
<1>2. /\ loc' \in [Procs -> Local] /\ loc'[p].user \in Users
      /\ \A q \in Procs : q # p => loc'[q] = loc[q]
  <2>1. loc[p].id.user \in Users
    BY DEF ChangeOwnPassword, Typed, LocalsOK, Identity
  <2>2. loc[p].sid \in Sids \cup {Absent}
    BY DEF Typed, TypeOK, Local
  <2>3. PICK s \in Sids \cup {Absent}, u \in Users : s = loc[p].sid /\ u = loc[p].id.user
    BY <2>1, <2>2
  <2>4. loc' = [loc EXCEPT ![p] = [NoLocals EXCEPT !.sid = s, !.user = u]]
    BY Zenon, <2>3 DEF ChangeOwnPassword
  <2>5. /\ [NoLocals EXCEPT !.sid = s, !.user = u] \in Local
        /\ [NoLocals EXCEPT !.sid = s, !.user = u].user \in Users
    BY Zenon, HandlerLocals
  <2> QED BY Zenon, <2>4, <2>5, SetLocals
<1> QED BY Zenon, <1>1, <1>2, OpsType, RunControl, TypedSplits DEF ChangeOwnPassword

LEMMA RequestTyped == ASSUME Typed, NEW p \in Procs, Request(p) PROVE Typed'
BY LoginLocalTyped, IssueTyped, IssueFailsTyped, AttachStartTyped, CacheGetTyped,
   CacheHitTyped, GetSessionTyped, ResolveCheckTyped, ResolveIdentityTyped,
   CachePutTyped, LogoutTyped, ChangeOwnPasswordTyped
   DEF Request

LEMMA AdminTyped == ASSUME Typed, NEW p \in Procs, Admin(p) PROVE Typed'
<1>1. PICK u \in Users, ops \in Seq(StoreOps \cup CacheOps) : AdminHandler(p, u, ops)
  BY OpsType DEF Admin, PatchUser, ResetPassword, RemoveUser
<1>2. started' \in Nat
  BY DEF Admin, PatchUser, ResetPassword, RemoveUser, Counted, Typed, TypeOK
<1>3. Data'
  BY <1>1, <1>2, TypedSplits DEF AdminHandler, Data, tables, memory, reads, hist
<1>4. [NoLocals EXCEPT !.user = u] \in Local /\ [NoLocals EXCEPT !.user = u].user = u
  BY NoLocalsType DEF Local
<1>5. /\ loc' \in [Procs -> Local] /\ loc'[p].user \in Users
      /\ \A q \in Procs : q # p => loc'[q] = loc[q]
  BY <1>1, <1>4 DEF AdminHandler, Typed, TypeOK
<1> QED BY <1>1, <1>3, <1>5, RunControl, TypedSplits DEF AdminHandler

(* A call that is not one of RevokeCalls is about a user.                  *)
LEMMA UserCall ==
    ASSUME Typed, NEW p \in Procs, NEW op, op \notin RevokeCalls, Calls(p, op)
    PROVE  loc[p].user \in Users
<1>1. todo[p] \notin Seq(RevokeCalls)
  BY DEF Calls
<1> QED BY <1>1 DEF Calls, Typed, LocalsOK

LEMMA DropType ==
    ASSUME Typed, NEW S, DropSessions(S)
    PROVE  /\ sessions' \in [Sids -> Session \cup {Absent}]
           /\ goneAt' \in [Sids -> Nat \cup {Absent}]
BY DEF DropSessions, Typed, TypeOK

LEMMA EvictType ==
    ASSUME Typed, NEW S, Evict(S)
    PROVE  /\ cache' \in [Sids -> CacheEntry \cup {Absent}]
           /\ held' \in [Procs -> BOOLEAN]
BY DEF Evict, Typed, TypeOK

LEMMA SetWrote ==
    ASSUME Typed, NEW p \in Procs, NEW m \in Nat, loc' = [loc EXCEPT ![p].wrote = m]
    PROVE  /\ loc' \in [Procs -> Local]
           /\ \A q \in Procs : q # p => loc'[q] = loc[q]
           /\ loc'[p].user = loc[p].user /\ loc'[p].t0 = loc[p].t0 /\ loc'[p].sid = loc[p].sid
<1>1. loc \in [Procs -> Local] /\ loc[p] \in Local
  BY DEF Typed, TypeOK
<1>2. /\ loc'[p] = [loc[p] EXCEPT !.wrote = m]
      /\ \A q \in Procs : q # p => loc'[q] = loc[q]
  BY <1>1
<1>3. [loc[p] EXCEPT !.wrote = m] \in Local
  BY Zenon, <1>1 DEF Local
<1>4. loc' \in [Procs -> Local]
  BY <1>1, <1>3
<1> QED BY <1>1, <1>2, <1>4 DEF Local

LEMMA WriteUserTyped ==
    ASSUME Typed, NEW p \in Procs, pc[p] = "ops", todo[p] # <<>>, loc[p].user \in Users,
           NEW r \in UserRow \cup {Absent}, WriteUser(p, r)
    PROVE  Typed'
<1>1. users' \in [Users -> UserRow \cup {Absent}]
  BY DEF WriteUser, Typed, TypeOK
<1>2. changes' \in [Users -> Seq(Nat)]
  <2>1. Append(changes[loc[p].user], now) \in Seq(Nat)
    BY DEF Typed, TypeOK
  <2> QED BY <2>1 DEF WriteUser, Typed, TypeOK
<1>3. Data'
  BY <1>1, <1>2 DEF WriteUser, Typed, TypeOK, Data, memory, reads
<1>4. PICK m \in Nat : loc' = [loc EXCEPT ![p].wrote = m]
  <2>1. Ver(loc[p].user) + 1 \in Nat
    BY DEF Ver, Typed, TypeOK
  <2> QED BY Zenon, <2>1 DEF WriteUser
<1>5. Control'
  BY Zenon, <1>4, SetWrote, PopControl DEF WriteUser
<1> QED BY <1>3, <1>5, TypedSplits

LEMMA CallsOps ==
    ASSUME NEW p \in Procs, NEW op, Calls(p, op) PROVE pc[p] = "ops" /\ todo[p] # <<>>
BY DEF Calls

LEMMA UserNotFoundTyped == ASSUME Typed, NEW p \in Procs, UserNotFound(p) PROVE Typed'
<1>1. Data'
  BY TypedSplits DEF UserNotFound, Data, tables, memory, reads, hist
<1> QED BY <1>1, FinishControl, TypedSplits DEF UserNotFound

LEMMA UpdateUserTyped == ASSUME Typed, NEW p \in Procs, UpdateUser(p) PROVE Typed'
<1>1. loc[p].user \in Users /\ Row(p) \in UserRow
  BY Zenon, UserCall DEF UpdateUser, RevokeCalls, Row, Typed, TypeOK
<1>2. PICK r \in Roles, b \in BOOLEAN : WriteUser(p, [Row(p) EXCEPT !.role = r, !.enabled = b])
  BY Zenon DEF UpdateUser
<1>3. [Row(p) EXCEPT !.role = r, !.enabled = b] \in UserRow
  BY Zenon, <1>1 DEF UserRow
<1> QED BY CallsOps, <1>1, <1>2, <1>3, WriteUserTyped DEF UpdateUser

LEMMA DeleteUserTyped == ASSUME Typed, NEW p \in Procs, DeleteUser(p) PROVE Typed'
BY CallsOps, UserCall, WriteUserTyped DEF DeleteUser, RevokeCalls

LEMMA SetPasswordHashTyped == ASSUME Typed, NEW p \in Procs, SetPasswordHash(p) PROVE Typed'
<1>1. loc[p].user \in Users /\ Row(p) \in UserRow
  BY ZenonT(30), UserCall DEF SetPasswordHash, RevokeCalls, Row, Typed, TypeOK
<1>2. PICK b \in BOOLEAN : users' = [users EXCEPT ![loc[p].user].must = b]
  BY Zenon DEF SetPasswordHash, Calls
<1>3. [Row(p) EXCEPT !.must = b] \in UserRow
  BY Zenon, <1>1 DEF UserRow
<1>4. users' \in [Users -> UserRow \cup {Absent}]
  BY <1>1, <1>2, <1>3 DEF Row, Typed, TypeOK
<1>5. Data'
  BY <1>4 DEF SetPasswordHash, Typed, TypeOK, Data, memory, reads, hist
<1>6. pc[p] = "ops" /\ todo[p] # <<>> /\ UNCHANGED <<pc, loc>> /\ todo' = [todo EXCEPT ![p] = Tail(@)]
  BY CallsOps DEF SetPasswordHash
<1>7. Control'
  BY <1>6, PopControl DEF Typed, TypeOK
<1> QED BY <1>5, <1>7, TypedSplits

LEMMA DeleteSessionTyped ==
    ASSUME Typed, NEW p \in Procs,
           DeleteSession(p) \/ DeleteUserSessions(p) \/ DeleteOtherSessions(p)
    PROVE  Typed'
<1> USE DEF DeleteSession, DeleteUserSessions, DeleteOtherSessions
<1>1. PICK S : DropSessions(S)
  OBVIOUS
<1>2. Data'
  BY <1>1, DropType DEF Typed, TypeOK, Data, memory, reads
<1>3. Control'
  BY CallsOps, AdvanceControl
<1> QED BY <1>2, <1>3, TypedSplits

LEMMA ClearSessionFlagsTyped == ASSUME Typed, NEW p \in Procs, ClearSessionFlags(p) PROVE Typed'
<1>1. \A r \in Session : [r EXCEPT !.must = FALSE] \in Session
  BY Zenon DEF Session
<1>2. sessions' \in [Sids -> Session \cup {Absent}]
  BY ZenonT(30), <1>1 DEF ClearSessionFlags, Typed, TypeOK
<1>3. Data'
  BY <1>2 DEF ClearSessionFlags, Typed, TypeOK, Data, memory, reads, hist
<1>4. Control'
  BY CallsOps, AdvanceControl DEF ClearSessionFlags
<1> QED BY <1>3, <1>4, TypedSplits

LEMMA InvalidateTyped ==
    ASSUME Typed, NEW p \in Procs, Invalidate(p) \/ InvalidateUser(p)
    PROVE  Typed'
<1>1. PICK S : Evict(S)
  BY DEF Invalidate, InvalidateUser
<1>2. settled' \in [Users -> Nat]
  <2>1. \A a, b \in Nat : Newest(a, b) \in Nat
    BY DEF Newest
  <2>2. loc[p].wrote \in Nat
    BY DEF Typed, TypeOK, Local
  <2>3. CASE UNCHANGED settled
    BY <2>3 DEF Typed, TypeOK
  <2>4. CASE settled' = [settled EXCEPT ![loc[p].user] = Newest(@, loc[p].wrote)]
    BY Zenon, <2>1, <2>2, <2>4 DEF Typed, TypeOK
  <2> QED BY <2>3, <2>4 DEF Invalidate, InvalidateUser, hist
<1>3. Data'
  BY <1>1, <1>2, EvictType DEF Invalidate, InvalidateUser, Typed, TypeOK, Data, tables, hist
<1>4. Control'
  BY CallsOps, AdvanceControl DEF Invalidate, InvalidateUser
<1> QED BY <1>3, <1>4, TypedSplits

LEMMA StoreErrorTyped == ASSUME Typed, NEW p \in Procs, StoreError(p) PROVE Typed'
<1>1. Data'
  BY TypedSplits DEF StoreError, Data, tables, memory, reads, hist
<1>2. Control'
  BY CallsOps, AdvanceControl, FinishControl DEF StoreError
<1> QED BY <1>1, <1>2, TypedSplits

LEMMA CallTyped == ASSUME Typed, NEW p \in Procs, Call(p) PROVE Typed'
BY UserNotFoundTyped, UpdateUserTyped, DeleteUserTyped, SetPasswordHashTyped,
   DeleteSessionTyped, ClearSessionFlagsTyped, InvalidateTyped,
   StoreErrorTyped
   DEF Call

LEMMA TickTyped == ASSUME Typed, Tick PROVE Typed'
BY DEF Tick, Typed, TypeOK, LocalsOK, tables, memory, locals, reads, hist

LEMMA FlushSwapTyped == ASSUME Typed, FlushSwap PROVE Typed'
BY DEF FlushSwap, NoTouches, Typed, TypeOK, LocalsOK, tables, locals, reads, hist

LEMMA TouchSessionTyped == ASSUME Typed, NEW s \in Sids, TouchSession(s) PROVE Typed'
<1>1. batch[s] \in Touch /\ batch' \in [Sids -> Touch \cup {Absent}]
  BY DEF TouchSession, Typed, TypeOK
<1>2. batch[s].at \in Nat /\ batch[s].expires \in Nat
  BY <1>1 DEF Touch
<1>3. sessions[s] # Absent =>
        [sessions[s] EXCEPT !.lastSeen = batch[s].at, !.expires = batch[s].expires] \in Session
  BY Zenon, <1>2, SessionUpdate DEF Typed, TypeOK
<1>4. CASE UNCHANGED sessions
  BY <1>1, <1>4 DEF TouchSession, Typed, TypeOK, LocalsOK, locals, reads, hist
<1>5. CASE sessions[s] # Absent /\ sessions' = [sessions EXCEPT ![s] =
             [sessions[s] EXCEPT !.lastSeen = batch[s].at, !.expires = batch[s].expires]]
  <2>1. sessions' \in [Sids -> Session \cup {Absent}]
    BY <1>3, <1>5 DEF Typed, TypeOK
  <2> QED BY <1>1, <2>1 DEF TouchSession, Typed, TypeOK, LocalsOK, locals, reads, hist
<1>6. sessions[s] # Absent =>
        [sessions EXCEPT ![s].lastSeen = batch[s].at, ![s].expires = batch[s].expires]
        = [sessions EXCEPT ![s] =
             [sessions[s] EXCEPT !.lastSeen = batch[s].at, !.expires = batch[s].expires]]
  BY Zenon DEF Typed, TypeOK
<1> QED BY <1>4, <1>5, <1>6 DEF TouchSession

LEMMA PurgeExpiredSessionsTyped == ASSUME Typed, PurgeExpiredSessions PROVE Typed'
<1>1. PICK S : DropSessions(S)
  BY DEF PurgeExpiredSessions
<1> QED BY <1>1, DropType
        DEF PurgeExpiredSessions, Typed, TypeOK, LocalsOK, memory, locals, reads

LEMMA ReapTyped == ASSUME Typed, Reap PROVE Typed'
<1>1. PICK S : Evict(S)
  BY DEF Reap
<1> QED BY <1>1, EvictType DEF Reap, Typed, TypeOK, LocalsOK, tables, locals, hist

LEMMA RestartTyped == ASSUME Typed, Restart PROVE Typed'
BY NoLocalsType DEF Restart, NoTouches, Typed, TypeOK, LocalsOK, tables, hist, Labels

LEMMA BackgroundTyped == ASSUME Typed, Background PROVE Typed'
BY TickTyped, FlushSwapTyped, TouchSessionTyped, PurgeExpiredSessionsTyped, ReapTyped,
   RestartTyped
   DEF Background

LEMMA StepTyped == ASSUME Typed, [Next]_vars PROVE Typed'
<1>1. CASE UNCHANGED vars
  BY <1>1 DEF vars, tables, memory, locals, reads, hist, Typed, TypeOK, LocalsOK
<1> QED BY <1>1, RequestTyped, AdminTyped, CallTyped, BackgroundTyped DEF Next

(* The tables, the cache and the goroutines keep their shape.              *)
THEOREM TypeCorrect == Spec => []TypeOK
<1>1. Typed => TypeOK
  BY DEF Typed
<1> QED BY InitTyped, StepTyped, <1>1, PTL DEF Spec

=============================================================================
